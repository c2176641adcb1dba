# Formal models of talk-sip-bridge

TLA+ specifications of the bridge between Nextcloud Talk and a SIP gateway,
the TLC runs that check them on small instances, and TLAPS proofs about the
core. The reference is the code under `src/bridge/`; every definition that
stands for code is listed in `PROJECT.json` under `map`, with its lines.

## 1. The system

One process. For every configured line there is one `SipTransport`, one
`SipRegistrar`, one `CallManager` and one `TalkClient`; lines share nothing, so
the models are of one line.

| part | source | state it keeps | operations | what is hard |
|---|---|---|---|---|
| call handling | `sip_call.py` | `call` (the one call's dict), its timer, RTP session, attempt; a worker thread per dialled call | `handle_invite/bye/cancel/info/options`, `answer`, `decline`, `dial`, `hangup`, `_outbound_worker` | five kinds of thread around one lock that is released before anything is sent or closed; CANCEL/200 crossings; timers that outlive their call |
| registration | `sip_registrar.py` | `registered`, `wanted`, `stop_event`, keepalive thread, state file | `turn_on`, `turn_off`, `_keepalive_loop`, `wipe_all_bindings` | crash between steps, refresh racing a switch-off, sending that raises |
| daemon, control API | `daemon.py`, `control_api.py` | the table of lines | resume at start, SIGTERM, `/toggle`, `/hangup`, `/status` | a toggle has no direction; a resume that raises |
| SIP transport | `sip_transport.py` | `pending` waiters, sockets | `send`, `wait_response`, `_handle`, reader and accept loops, TCP keepalive | responses before their waiter, reconnects, framing |
| messages, SDP | `sip_messages.py`, `sip_requests.py`, `sip_sdp.py`, `payload_types.py` | none | parse and build text | - |
| Talk client | `talk_client.py`, `call.py`, `dialout.py`, `inbound_call.py`, `room_presence.py`, `room_state.py`, `phone_participant.py` | `_call_sessions` (a `Call` each), room roster, who is in the call, two connections | callbacks of the call manager, room events, dialout requests, ringing and accepting, teardown | coroutines interleaving at every await; SIP threads writing the same table; `answer()`/`hangup()` name no call |
| signaling connection | `signaling.py`, `talk_messages.py`, `talk_ocs.py`, `talk_sip_bridge.py`, `background.py` | a websocket and its session id | hello, serve, supervise (reconnect) | what a reconnect forgets |
| call audio | `human_audio.py`, `subscription.py`, `call_media.py`, `call_audio.py`, `media.py` | a `Subscription` per participant, a `Source` per participant, publisher | request, offer, answer, refuse, watch, rebuild, give up | offers, refusals and media in any order; delayed repairs |
| dial-in dialogue | `dialin_ivr.py` | keys pressed, stop flag | `run`, `press`, `stop` | keys and stop racing the prompt |
| mixing | `mixer.py`, `mix_pump.py`, `agc.py` | a ring buffer per source, limiter state | `write`, `read`, `remove` | wrap-around, under- and overrun |
| RTP, codecs, tones | `rtp.py`, `g711.py`, `g722.py`, `dtmf*.py` | socket, receive queue, event deduplication | `bind_socket`, `close`, packet handling | the port outliving the call; one key press reported once |
| configuration | `config.py` | constants after start | - | - |
| relays | `relay/rtp_relay.py`, `relay/sip_pipe.py` | learned peer addresses | forward | - |
| app, deployment, test peer | `nextcloud-app/`, `deploy/`, `test-peer/` | - | - | - |

Interactions: the transport's reader thread calls `CallManager.handle_*`; the
worker of a dialled call reads responses from a queue the reader fills. The
call manager calls back `on_incoming_call`, `on_call_connected`,
`on_call_ended` and `on_call_failed`, on whatever thread it is on; `TalkClient`
schedules coroutines from them and calls `answer`, `dial` and `hangup` from its
event loop or a thread pool. The control API calls `turn_on`, `turn_off` and
`hangup` from a thread per request. The daemon's main thread resumes lines and,
on SIGTERM, hangs up and deregisters.

What makes each part correct, in a sentence: the line serves one call at a
time, gives each call one verdict, gives back port and line when a call ends,
and tells Talk of every end (call handling); a line that was switched on is
registered, or being retried, until it is switched off, over crashes too
(registration); every message reaches the one handler or waiter it is for
(transport); the table of calls, the room and the phone agree on which call is
up (Talk client); a participant in the room is heard, and a working connection
is left alone (call audio); one press is one digit, and no dialogue outlives its
caller (dial-in); what is written for a participant is what is sent of them, in
order, and no louder than the limiter says (mixing).

## 2. The modules

| module | models | how |
|---|---|---|
| `Line` | the contract in the docstring of `sip_call.py` | abstract: who holds the line, what each call has been through |
| `CallManager` | `sip_call.py` with its threads, the port of `rtp.py`, the waiter and the dispatch of `sip_transport.py` | detailed: one action per lock section, message, or callback |
| `CallManagerInv` | - | the inductive invariant, in named parts |
| `CallManagerProofs` | - | the theorems |
| `MCCallManager` | - | symmetry and a constraint for TLC |
| `Registrar` | `sip_registrar.py`, `/toggle`, resume and SIGTERM in `daemon.py` | one action per step between which the process may crash or another thread read |
| `RegistrarProofs` | - | its inductive invariant, and the theorems about it |
| `Subscription` | `subscription.py` | operators: a machine and what happened give the machine after it and the step to take |
| `HumanAudio` | `human_audio.py`, the subscriber half of `call_media.py`, the asking of `call_audio.py` | one action per stretch of a coroutine between two awaits, for one participant; extends `Subscription` |
| `HumanAudioProofs` | - | its inductive invariant, and the theorems about it |
| `TalkCalls` | `talk_client.py`, `inbound_call.py`, `dialout.py`, `room_presence.py`, `room_state.py`, the publishing of `call_audio.py`, `start_ring`, `stop_ring` and `end_room_call` of `talk_ocs.py` | one action per stretch of a coroutine between two awaits, per callback of the call manager, per blocking request; against an abstract line |
| `TalkCallsProofs` | - | its inductive invariant, and the theorems about it |
| `TcpTransport` | `TcpSipTransport` of `sip_transport.py`, `split_messages` of `sip_messages.py` | one action per step of `send()` and of a reader thread; framing as a recursive function |
| `TcpTransportProofs` | - | the theorems about it |
| `MCTcpTransport` | - | streams and connections for TLC |
| `SampleQueue` | the docstring of `SourceBuffer` | abstract: a bounded queue of samples |
| `Mixing` | `mixer.py` | one action per entry point of `Mixer`, which all run under its lock |
| `MixingProofs` | - | the theorems about it, up to the refinement |
| `DialIn` | `dialin_ivr.py`, the reception of key presses in `rtp.py`, `dtmf.py`, `dtmf_inband.py` | one action per packet, per step of the dialogue's thread |
| `DialInProofs` | - | its inductive invariant, and the theorems about it |
| `MCDialIn` | - | kinds of gateway for TLC |
| `Recursion` | - | what the proofs use of recursion: induction over the naturals, folds over sequences, recursion into what is smaller |

`CallManager` implements `Line`; `TalkCalls` is written against what `Line`
promises, with the one difference that matters to Talk: a call has left the line
before Talk is told that it ended. `Mixing` implements `SampleQueue`, once per
source.

### CallManager and the code

A Call-ID stands for the dict of a call. `call` is `self.call`: a dict that was
taken out of it lives on in the thread that took it (`held`), and so do its
entries, which are kept per call: `status`, `timed` (`bye_timer` is set),
`voiced` (`rtp` is set), `attempted` (`attempt` is set), `common` (the offer
names a codec this side speaks). `port` is the session that has the line's RTP
port bound - there is one port per line. `timer` is the `threading.Timer` of
each call; `pc` and `held` say where a thread is inside `answer`, `decline` or
`hangup`; `worker`, `cseq` and `inbox` belong to the `_outbound_worker` of a
call and to the waiter it reads. `leg` and `replied` are the gateway's side.
`sent` and `told` collect every message and every callback of a call, which is
what most properties speak of.

- The reader is one thread and nothing it does after its lock section reads the
  call again, so a `handle_*` is one action with its reply.
- `answer` is four actions (lock section; 200 OK; recording the timer; start
  and callback), `decline` two, `hangup` three (take the call; close its timer
  and session; message and callback), because each gap is one another thread
  can get into. The actions hold no lock in the gaps, as the code does not.
- `_outbound_worker` is one action per step of its loop, its `_connect_outbound`
  three, its `finally` two.
- `threading.Timer` is modelled as it is: `cancel()` works before the timer
  fires, also before it is started, and does nothing afterwards; each timer is
  a thread that calls `hangup`, which ends whatever call is on the line.
- `bind_socket` waits two seconds for a port: the worker waits while somebody
  is on the way to closing the session that has it, and dies of the error when
  nobody is. An answer that cannot bind changes nothing.
- The gateway answers each INVITE with a challenge, a refusal or a 200, each
  CANCEL of an INVITE it knows with a 200, and repeats any of them; every one
  may be lost, and the worker reads them in any such order. Provisional
  responses are read and dropped, so they are not modelled.

Assumed: `transport.send` does not raise (when it does is in `TcpTransport`); an INVITE of the gateway's that crosses the end of its call is a call
with a Call-ID of its own; the thread of `_watch_bye`, which only logs, and
`handle_info`, which only passes on a key, are left out.

### Registrar and the code

`turn_on` and `turn_off` hold the lock over the network, so a step of theirs
cannot interleave with another one's - but the process can die between them,
`do_POST` reads `registered` without the lock, and the keepalive thread decides
to leave while nobody looks. A REGISTER and its answer are one step with the
outcomes `_do_register` has: answered; unanswered or refused, where the gateway
may have taken it all the same; raised. `wanted`, `registered`, `stop`, `keeper`
and `alive` are the registrar's fields and threads, `marker` is the state file,
`bound` is what the gateway thinks. `switched` is a history variable: what the
last call of `turn_on` or `turn_off` that returned was asked for.

`Persist` is `_persist` with the `OSError` it swallows: the file is then as it was
(or was just made by `open`), the call goes on as if it had been saved, and the
history variable `unsaved` says so until the next save. Without a `state_dir`
nothing is ever saved, which is the behaviour in which every save fails. A refresh
that raises takes the lock a second time to note it (`NotesRaise`), and the line may
have been switched off and on in between.

A process ends in four ways: a crash; a `turn_on` that raises out of the daemon's
resume; SIGTERM, after which it exits with status 0; and SIGTERM with a
deregistration that raises. The unit says `Restart=on-failure`, so systemd restarts
it after the first two; after an exit with 0 it is `stopped` until somebody starts
it, and after the last, which is a failure unless systemd itself is stopping the
service, either. A SIGTERM during the resume finds no handler installed yet and is a
clean stop for systemd.

### HumanAudio and the code

One call and one participant. `life` is the `Subscription` that
`entry.subscriptions` has for the participant and `machine` every one made so
far: `restart_state_for` makes a new one, and coroutines that captured the old
one go on with it. In the same way `source` is the `Source` in
`media.subscribers` and `conn` every peer connection made. `at` has the place of
each coroutine and its locals: the reader of the room connection
(`signaling.read`, which handles one message at a time, so that the repair after
a refusal keeps it from reading for `REBUILD_DELAY`), `publish`, and the tasks
that watch for an offer or wait with a repair.

`inbox` and `outbox` are the websocket's two directions, in order. The server
answers a request with an offer for a new handle or not at all; while no answer
of the newest handle has been taken it may attach a new one, with another offer
or without (`human_audio.py:300-306`, `:328-331`); it takes the answer that names
the handle it has and refuses any other. Media flows over the connection whose
answer was taken, and its first frame is what `_relay` reports. The participant
is out, in the room, or in the room's call; who is in the room only is in the
roster `find_human` looks at, and the server has no offer of theirs.

Nothing promises media: a taken answer may carry none, and a first frame may come
over a connection that a rebuild or `publish` has replaced (`CutShort`); the machine
takes that for flowing, as `_relay` does.

Assumed: a websocket that is up, so that no send raises (a request whose send
raises is not watched, `human_audio.py:277-279`, and a reconnect starts from no
room); a connection fails only after it has carried audio. `Subscription.close`
is left out, because nothing calls it: what ends a negotiation with its call is
that `_call_sessions` has no entry any more.

### TalkCalls and the code

`table` is the key set of `_call_sessions` and `entry` the `Call` objects, which
coroutines hold on to after the table has dropped them: whether the call waits
for an accept, whether it has an opener of its ring, its room, whether its caller
is asked for one, its publisher. `ring`, `conn` and `down` are the tasks of a
call - what `on_incoming_call` or the dialout request started, what
`on_call_connected` schedules, and the teardown - with the place each has
reached; `stop` are the `stop_ring` tasks. Everything runs on one event loop, so
`LoopFree` guards every step of a coroutine: the loop is blocked while it is
inside `hangup()`, whose callback is a step of its own, and between `dial()` and
the entry in the table. What happens on threads - the callbacks of the call
manager, `start_ring`, the dialogue's `hangup()` - needs no loop.

`present` is the room's call as the signaling server knows it, `known` is
`RoomCallState`, `inbox` the updates in between; `standing` are the rings Talk
has been asked for, which put an account into the room's call. `answer()` and
`hangup()` take no call, as in the code: they act on whatever is on the line.

`Answers` is `answer()` with its three outcomes: the call is connected and the
callback comes; the codec is refused with 488, the line is free and nobody in Talk is
told; the port cannot be bound and it raises, with the call ringing on. Whoever called
it goes on the same way: `updated()` catches the exception and has marked the call as
accepted before (`room_presence.py:133-153`). `raised` remembers the calls this
happened to. `phase` says how far the call manager is with a call: `ending` is one
whose end is about to be told; `abandoned` a dialled one that was hung up while its
worker still reads; `lost` one of those for which a 200 was read all the same;
`refused` a 488. `ConnectOutbound` is the worker's step up to the callback, and
`OnCallConnected` the callback, which comes without the lock, so that a hangup may be
in between, and also for a `lost` call. Of a call that is `lost` or `refused` Talk
hears only if the gateway says BYE or CANCEL, which calls back for any Call-ID
(`OnCallEnded`).

Abstractions: the kind of an inbound call is chosen in `OnIncomingCall` (it is
computed there from the dialled number and the configuration); a message sent on
the websocket does not suspend its coroutine; the order of the table is not
kept (the code takes the last publishing or waiting call; the line serves one at a
time, so a second one is being torn down); of several grace periods the latest
counts; the teardown's own requests have no failures; the dialout connection is
not lost. When the room connection is lost, tasks that were about to send end
where they are, as an exception in them would have it.

### TcpTransport and the code

A thread in `send()` is at `waits` (for `_out_lock`), or `has` it; `reply` is the
attempt on the connection of the request. `end` is the state of each connection -
`gone` is closed by the gateway, `closed` by this side - and `reader` that of its
thread. A connection that is gone may take one more write or refuse it, since
the kernel notices late. Framing is exact to the byte where it matters: line
breaks are two tokens each, a header line is one token that carries the
Content-Length it announces, and body bytes may be line breaks; a chunk ends
anywhere. A stream consists of keepalives and of messages with as many body tokens
as they announce (`StreamsAssumption`, which is about the gateway). Left out: the
keepalive thread, which only writes; `close()`, which only tests call; the check of
the peer's address; responses and requests are handled alike, each being answered.

### Mixing and the code

`sources` and `gates` are the dictionaries, `gain` and `held` the limiter's; the
ring buffer has `read_at` and `available` as in the code. A chunk is any sequence of
samples, so that its order matters; `Laid` puts it down in the two slices the code has,
`pcm[:first]` from a cell to the end of the array and `pcm[first:]` from its beginning,
and `Newest` is `pcm[-capacity:]`. A gain is a
number of hundredths, rounded down, where the code has a float: a bound on what
is sent holds for what is rounded down if it holds for the float, and the
violation below does not rest on rounding (with the code's own numbers a held
peak of 60000 leaves at 0.69 of its level, above full scale). `Release` is what one block leaves of the distance to full gain,
0.9995^960 = 0.62. The counters of the statistics are left out.

### DialIn and the code

Time is counted in blocks of audio, 20 ms each in `dtmf_inband.py`. `caller` is
the finger: which key is down, for how long, for how many readable blocks, and
the gap. The gateway sends a press as events, as tones or as both (`sends`), and
nothing says which is first: the tone begins up to `Lead` blocks after the key went
down, the event comes up to `Lag` blocks after it (`owed` has the ages of those under
way) - before the tone or after it was recognised, with the key up again or the next
one down. A press has at most `MaxGap` unreadable blocks in a row, its first block
may read as any other key. The dialogue's thread is one action per wait, prompt or
question to Nextcloud, `Resolves` being that question with every answer it may
have. The end of the call is `rtp.close()`, then `on_call_ended`, then `stop()`
in its two steps.

Assumed: events come in the order of their presses (`DtmfEvents` remembers the
timestamp of one press, so packets of two presses that overtake each other would count
again); a tone begins before the next key; a key is held for the blocks a tone needs;
the same key comes again only when the guard has run out and nothing of its last press
is under way, which is what `dtmf.py:48-51` says of deliberate presses. Left out: SIP
INFO as a third road (see below), how long a prompt is, and keys pressed before
`ask_which_room` has named the dialogue in the table, which the code drops.

## 3. What the runs check

Passing runs:

| run | instance | checks |
|---|---|---|
| `Calls` | 1 inbound and 1 dialled call, 2 clients, 3 INVITEs, 637,706 states | `IInv`, which contains `TypeOK`; `OneVerdict`: a caller gets one of 200, 488, 603, whoever races; `InboundPortIsOwned`: the port of an inbound call has somebody who will close it; `ConnectedHasAudio`: the connected call's own session has the port, whatever of another call is still winding up; `RetryOnlyAfterChallenge`: a duplicate or late 401 starts no retry; `ByeNamesADialog`: BYE only after a 200 to an INVITE and its ACK; `OneCallsBusiness`: no step of one call's leg or worker takes the line from another; `LineContract`: refinement of `Line` |
| `CallsLive` | 1 inbound and 1 dialled call, 231,059 states | `SafetyNet`: a connected call gives the line back; `OutcomeIsTold`: an attempt that is waiting ends in `on_call_connected` or `on_call_failed`; `InboundEndIsTold` |
| `Registrar` | 2 control threads, 2 keepalive slots, process down twice, 45,186 states | `TypeOK`; `OneKeeper`: one keepalive thread however on and off interleave; `MarkerRemembersSwitch`: unless the last save failed, the state file says how the line was switched, and a line being retried has one; `NeverBoundUnwanted`: a refresh that was due does not undo a switch-off; `ComesBack`: the keepalive gets a lost registration back; `ResumesAfterDown`: a line with a state file is registered again by a process that is restarted or started, unless it is switched off or stopped |
| `Hearing` | 1 participant who enters once more, 2 attempts, 2 handles, 1 task, 663,975 states | `TypeOK`; `AskingIsWatched`: a machine that is asking has a coroutine that will ask or look; `OneStrayAtMost`: replaced connections are closed, all but the one `publish` leaves; `AudioSpared`: no offer, refusal or waiting repair disturbs the source once audio came over it; `NegotiationSettles`: asking ends in a taken answer, in audio, in giving up or in somebody's leaving, never in a request or an answer nobody follows |
| `Talk` | 1 inbound call that rings, 1 dialout, 1 person, 1,639,849 states | `TypeOK`; `NothingLeftInTheRoom`: a call that is over and out of the table leaves neither publisher nor name plate, however teardown and publishing overtake each other; `RecordedRingIsStopped`; `DialoutIsReported`: "accepted" first, and "cleared" once its failure or end was told and worked off |
| `TalkLive` | 1 inbound call of every kind, 1 person who moves twice, 1 loss of the connection, 54,940 states | `ConnectedIsHeard`: an answered call comes to announce its audio; `AnswerIsNoticed`: who enters the room's call is noticed if the update that says so is unread when the call is armed, or comes later: the call is answered, gone, or `answer()` raised; `EveryEndSettles`: teardown and all tasks of a call whose end was told come to their end |
| `Transport` | 1 sender with 2 requests, 1 connection of the gateway's, 98,104 states | `TypeOK`; `FramingIsExact`: what is handled is what was sent, however it is cut up; `OutIsRead`, `NothingLeaks`: connection and reader go together, whoever notices first that it is gone; `SendsEnd` |
| `Mixing` | 1 participant, 3 sample values, 3 cells, blocks of 2, chunks up to 4, 87,585 states | `SourcesAreQueues`: each ring buffer implements `SampleQueue`; `HeldFits`: the gain never exceeds what the block held back allows |
| `DialIn` | 1 digit, hash and star, 3 presses, 2 attempts, gateways with events, tones and both, 10,029,945 states | `TypeOK`; `EveryPressIsOne`: a press is reported once, in order, by the time the key is up; `NothingKeyedIsLost`: what was collected and what still waits is what was keyed; `HangupIsNoticed`: no dialogue waits for the keys of a caller who is gone |

Violation runs, each a sentence of the repository that an execution contradicts
(`findings` in `PROJECT.json` quotes it):

| run | what happens |
|---|---|
| `ConnectedMeansAnswered` | dial, hang up while it rings, the gateway's 200 to the CANCEL has the INVITE's CSeq number and is read as the answer: Talk is told the call is connected |
| `OnlyAPersonAccepts` | the account that makes Talk ring joins the room's call, and its session is known to the bridge only when all its requests are through: the update in between reads as somebody accepting |
| `NeverAboveCeiling` | a loud block is held back, a quiet one comes after it: the gain is released for the quiet one and ramped over the loud one |

Further disagreements are stated as properties in the modules, under the line
that says so, and kept without runs of their own:

- `NoOrphanAudio` (`CallManager`): a hangup takes a dialled call after the 200 OK
  was read and before the session is recorded in it; the worker counts the call
  as connected and closes nothing (`sip_call.py:541-549`, `:582-583`, `:609`).
  The port stays bound, and the next dialled call's worker dies of it before its
  `try` (`:561`).
- `TimerEndsOwnCall` (`CallManager`): a call is ended while `answer()` is sending
  its 200 OK; its timer is started all the same (`sip_call.py:261-264`) and hours
  later hangs up the call of that moment.
- `WantedIsKept` (`Registrar`): the first REGISTER raises out of `turn_on`
  (`sip_registrar.py:173`): wanted, but no keepalive.
- `SwitchedOnIsKept` (`Registrar`): a line is switched off and on again while its
  keepalive is on the way out; `is_alive()` is still true of that thread
  (`sip_registrar.py:176-178`), no other is started, and the line is wanted with nobody
  to refresh or retry, against `docs/ADMIN.md:233-235` ("marks it as wanted and starts
  the keepalive, which keeps retrying").
- `StopClearsMarker` (`Registrar`): SIGTERM, which is what `systemctl stop` sends, ends in
  `turn_off(persist=False)` (`daemon.py:107`), which keeps the state file, against "or
  `systemctl stop`, clears the persisted state first" (`daemon.py:80-82`).
- `FollowedToAudio` (`HumanAudio`): request, offer, an answer that is taken, no media:
  the watcher has ended, no other is started (`human_audio.py:343`), against "follows the
  negotiation to audio or to giving up" (`:168-169`).
- `WindowIsClosed` (`TalkCalls`): the room is joined, somebody enters its call, the update
  is read, and only then is the call armed (`inbound_call.py:193-197`): they are never seen
  to enter, and the call rings on, against "arming the call before ringing closes the window
  in between" (`:148-149`).
- `HungUpIsCleared` (`TalkCalls`): a dialout is hung up and a 200 read after that, its own
  or that of the CANCEL: on_call_connected is called all the same (`sip_call.py:541-553`),
  neither on_call_failed nor on_call_ended follows (`:582-584`), and the entry stays with
  what was put up for it, against "whatever the ringing put up has to come down again"
  (`talk_client.py:299-300`).
- `TwoRoadsOnePress` (`DialIn`): two short presses are recognised by their tones, then
  the first one's event comes, 100 ms late (`Lag = 5`, one more than the run has): the guard
  remembers the second key and reports the first again (`dtmf.py:69-74`), against "A
  press reported twice [...] is one press" (`dtmf.py:48-51`).
- `JoinerIsAsked` (`HumanAudio`): somebody in the room but not in its call is asked
  until the machine gives up; they enter the call, their connection counts as
  alive, nobody asks again (`human_audio.py:131`).
- `StaleRefusalIsHistory` (`HumanAudio`): two offers are answered, the first answer
  is refused: the refusal, which does not say of which answer it is, starts a
  repair of the second negotiation (`human_audio.py:317`).
- `LeavesItsOwnRoom` (`TalkCalls`): the teardown of one call leaves the room after
  awaiting its requests (`talk_client.py:250-252`), under the call that has
  joined it meanwhile.
- `GivesUpAfterTwo` (`TcpTransport`): when `_connect` raises there is no connection
  to close, `self._out.close()` raises AttributeError (`sip_transport.py:226`)
  and the second attempt is not made.

Also seen while modelling, consequences or small: a 407 is retried without an
ACK (`sip_call.py:458-470`, against `docs/SIP-API.md:185`); a hangup between `answer()`'s lock section and
its 200 OK sends BYE first (`:242-256`, against `tests/test_hangup.py`); a
hangup before the attempt is recorded cancels nothing (`:329`, against the
comment at `:599`). In the call's audio:
`start()` on an entry that is new gives a machine whose generations begin at 0
again, so a retry that its predecessor decided can pass `still_current` in it
(`human_audio.py:257`, against the comment at `:252`); a first frame over the
connection a rebuild is closing (`call_media.py:275-276`), or over the one `publish`
left open, marks the machine as flowing, and the offer for the connection in place is
then ignored (`CutShort`); GIVE_UP is never said, as its
step is not current any more (`:258`, `:265-268`). On the Talk side: a call whose
`Call` object is entered by `on_incoming_call` after it has already ended stays
in the table (`talk_client.py:327-330`) - and with two inbound calls, one after
the other, even its publisher and its name plate stay, since an `answer()` meant
for the first can answer the second before it is entered, and its publishing goes
on when the entry has come (`NothingLeftInTheRoom` is therefore about calls that
are out of the table); a call refused with 488 stays in the table, since nobody in Talk is
told (`sip_call.py:220-230`); a call whose `answer()` raised rings on with nobody able
to accept it any more (`room_presence.py:133-153`); a dialout that fails while it is published is reported "connected"
after "cleared"; the report of a failure before the entry is in the table names
the line's default room; `_confirm_empty`, `answer()` and `hangup()` act on the
call of the moment, which may be a newer one (`room_presence.py:150`, `:208`);
a ring whose opener comes back after its call has ended is not recorded and so
not stopped. In the media: the noise gate takes a block of -32768 for silence,
as numpy's `abs` of that value is itself (`mixer.py:160`). At the keypad: a SIP
INFO is a third road with the same trouble as the late event of `TwoRoadsOnePress`, and `accepts`
has no lock though INFO runs on another thread.

Bounds. `MaxCseq` is how many INVITEs an attempt can send (the gateway
challenges `MaxCseq - 1` times), `MaxInbox` how many responses wait unread; a
response beyond it counts as lost. One challenge would do for the code, which
treats every 401 alike; two tell a late one from a current one. One client
shows every race of a call with timers, worker and reader; two are needed for
answer against decline and hangup. Two calls are needed for anything left over
from an earlier call. `MaxDowns = 2` lets a process crash while it is recovering
from a crash. In `Registrar`, two keepalive slots are one more than there ever
should be, which is what `OneKeeper` says. `RetriesAlone` (`MCCallManager`) is a
constraint of `Calls`: an attempt that is challenged is followed to its end on a
line nobody has called yet; with one INVITE per attempt everything interleaves.
The proofs have none of these bounds.

In `Hearing`, two attempts are one question and one repair; two handles are a
negotiation and the one that supersedes it, which offers, refusals and rebuilds
need to overtake each other; entering once more gives the participant a second
machine and connection while coroutines of the first go on. `Tasks` is the bound
on watchers and waiting repairs at a time: whoever needs another waits for one.
`Lives` and `Conns` are as many as the others allow: the guards that one of them is
left (`FreeLives`, `FreeConns`) never stop a step of the run.

In `Talk`, one call of each direction is enough for one call's tasks to be
overtaken by the next call's: there is one line. Nobody moves and the connection
stays, which is what `TalkLive` adds, for one call at a time; there the person
enters and leaves once, and two updates may be unread, so that a ring and an
answer can both be on their way. In `Transport` the sender and the reader whose
answer falls back are the two threads that can meet under the lock, and two
requests see a connection before and after it was replaced; the streams contain a
ping before a message, a body that is a blank line, and two messages in a row.
In `Mixing`, a sample can be above the ceiling; chunks of one more than the capacity take
the replacing branch with something to leave out, and chunks of two over three cells run
past the end from the last cell and so use both slices. Participants share nothing but
the sum, so one is enough for the buffers; two, who add up above full scale, are in
`NeverAboveCeiling`. In `DialIn`, three presses are a key, its repetition and another key;
two attempts and a PIN are three questions. `MinBlocks` and `MaxGap` are those of
`dtmf_inband.py`; the guard is `Window = 6` blocks, which covers a tone one
block late (`Lead`) with a gap, where the code has 20 (`REPEAT_GUARD`, 0.4 s). An event
may come four blocks after the key went down, which is late enough to come after its
tone, after the key is up and after the next one is down. It is also as late as
`EveryPressIsOne` can take: an event later than two of the shortest presses can come after
the next key's tone was recognised, which is `TwoRoadsOnePress` above.

Deadlock. Everything but the registrar may stop: Call-IDs are used once, a call
that has ended has nothing to do, and the other models are given a bounded number
of requests, chunks or presses, so their runs say `CHECK_DEADLOCK FALSE`.
`Registrar` never stops and is checked for it.

Fairness. In `CallManager`: a thread inside `answer`, `decline` or `hangup` goes
on, a timer that runs fires, a timer's thread calls `hangup`, a worker goes on.
The worker's deadline has fairness of its own because repeated responses could
keep the rest of its step enabled forever; `_relevant_responses` checks the
deadline before each one. Nobody has to call, answer or hang up, and the gateway
owes nothing. In `Registrar`: a thread that runs goes on, a shutdown finishes,
systemd restarts a process that failed (`Restart=on-failure`,
`deploy/talk-sip-bridge.service:26`); nobody has to start one that was stopped. Strong
fairness of taking the lock and of a REGISTER being answered says that a gateway asked
again and again answers at last, which is what "comes back" needs.

In `HumanAudio`: a coroutine that is not waiting for a message goes on, sleeps
end, the reader reads. `NegotiationSettles` also needs the other side: the server
takes what it is sent, one way or the other. It may attach anew, be silent or refuse
as often as its handles last; no media has to come, and no participant has to enter or
leave.

In `TalkCalls`: the loop runs what is scheduled, threads come back with their
request's answer, messages are read, a grace period ends, and the worker of an attempt
that was hung up takes a 200 or gives up (`OutcomeIsTold` of `CallManager`, which is
about on_call_connected or on_call_failed - which of the two is what `HungUpIsCleared`
is about). A BYE or CANCEL for a call that has left the line need not come. Nobody
has to call, answer, enter or hang up, and a lost connection may stay lost; the
properties about hearing and answering make no promise over one. In
`TcpTransport`: threads run, and a lock asked for again and again is got in the
end (strong fairness, as other threads keep taking it). That a write ends at all
is fairness of the network's: `sendall` has no timeout (`sip_transport.py:188`),
and a gateway that neither reads nor closes would hold every sender.

## 4. What is proved

`CallManagerProofs` proves, for any sets of calls and clients and any bounds:

- `Invariance`: `Spec => []IInv`, and from it `TypeCorrect`, `AudioStays`
  (`ConnectedHasAudio`), `PortIsNotLeaked` (`InboundPortIsOwned`),
  `OneVerdictEach`, `RetryIsAnswerToChallenge`, `ByeInDialog`;
- `EachCallItsOwnBusiness`: the action property `OneCallsBusiness`;
- `ImplementsLine`: `Spec => LineContract`, the refinement of `Line`.

The assumptions are the two of the module: calls, clients and `NoCall` are
distinct, the bounds are positive.

`TcpTransportProofs` proves, for any number of senders, connections and requests:
`TransportTypes` (`TypeOK`), `OutHasReader` (`OutIsRead`) and `OneOwnConnection`
(`NothingLeaks`), from `TransportInvariance`; and, for any streams and any way they
are cut up, `EveryCutIsExact` (`FramingIsExact`). Assumed are `TransportAssumption` -
the senders, the connections of each side and `None` are distinct - and, for
`EveryCutIsExact`, the `StreamsAssumption` above.

`RegistrarProofs` proves, for any control threads, keepalive slots and number of
crashes: `RegistrarTypes` (`TypeOK`), `OneKeeperOnly` (`OneKeeper`),
`MarkerIsRight` (`MarkerRemembersSwitch`, which is about a state file whose last save
did not fail) and `OnlyTheWantedAreBound` (`NeverBoundUnwanted`), from
`RegistrarInvariance`. Assumed is `ActorAssumption`,
which keeps threads and slots apart.

`MixingProofs` proves `BuffersAreQueues`, the refinement of `SampleQueue` by every
ring buffer, for any participants, samples, capacity and block and for chunks that are
any sequences of samples
(`MixingAssumption`: there is room for a sample, a block has at least two, the
participants are finitely many), and `HeldBlockFits` (`HeldFits`), for any ceiling
and release too.

`DialInProofs` proves, for any keys, gateways, lengths of a press, digits and
attempts (`DialInAssumption`): `DialInTypes` (`TypeOK`) and
`NobodyWaitsForAGoneCaller` (`HangupIsNoticed`), from `DialInInvariance`; and of the
key presses `KeyedIsKept` (`NothingKeyedIsLost`), and, where events keep up
(`EventsKeepUp`: no later than two of the shortest presses, and than the guard is long),
`PressesAreOne` (`EveryPressIsOne`). The module assumes of its clocks that the guard is
longer than a tone takes to be recognised, as late as it may begin and with the longest
gap before each of its blocks; with the constants of the code and a tone up to 6
blocks late that is 9 blocks against the guard's 20.

`TalkCallsProofs` proves, for any calls, people, kinds of call, moves, unread
messages and losses of the connection (`TalkAssumption`: inbound calls, dialouts and
people are distinct): `TalkTypes` (`TypeOK`), `NothingStays`
(`NothingLeftInTheRoom`), `RecordedRingStops` (`RecordedRingIsStopped`) and
`DialoutReports` (`DialoutIsReported`: what Talk hears of a dialout whose failure or end
was told; `HungUpIsCleared` shows one of which it is not), from `TalkInvariance`.

`HumanAudioProofs` proves, for any number of attempts, joins, handles and tasks
(`AttemptsAssumption`, `BoundsAssumption`, `ThreadsAssumption`: the first two are
counts, and reader, publishing and tasks are different coroutines):
`HearingTypes` (`TypeOK`), `AskingStaysWatched` (`AskingIsWatched`), `OneStray`
(`OneStrayAtMost`) from `HearingInvariance`, and the action property
`ArrivedAudioIsSpared` (`AudioSpared`).

Why the invariants look as they do. In `CallManager`, `OneVerdict` alone is not inductive: it has
to be known that while a call rings on the line nothing was said yet, and that
once it is taken exactly one thread may still speak (`VerdictInv`); that needs
what a thread knows of the call it took (`ThreadInv`). `ConnectedHasAudio` needs
that a worker between bind and the end of its attempt has the port and that its
call is not up by other means (`PortInv`), which needs how a call's dict, leg
and worker go together (`DictInv`). `ByeNamesADialog` needs that what becomes
"connected" was answered and acknowledged (`DialogInv`). That is where the 200
of a CANCEL could break in, and `CancelInv` is why it does not: a CANCEL is sent
only for a call that has left the line or by the worker that reads no more, and
a call that has left the line no longer becomes "connected" - Talk may be told
so, which is the violation above, but the dict is not.

Each part has one lemma that goes through the actions, in the order in which
the parts rest on each other; `Invariance` puts them together.

In `TcpTransport`, `TypeOK`, `OutIsRead` and `NothingLeaks` are inductive
together as they stand: `TypeOK` carries who holds the lock, and a reader that
has ended clears `out` under the lock before it is done - so that between its end
and its cleaning a sender may still find the connection, write into it, fail and
replace it.

`FramingIsExact` compares what was handled with what was sent. Its invariant
(`FramingInv`) says of each connection that the buffer is what `split_messages`
leaves, and that the buffer with what is still to come makes the messages that
are still to be handled. A chunk keeps this because what is made of a stream with
more behind it is what was made of it before, and then what is made of the rest with
the more (`SplitGoesOn`): among others, the first blank line stays the first, and
half a line break at the end of a chunk is not taken for anything. That goes by
induction on the length, for which `Recursion` shows that a recursion into something
smaller has a value (`FallExists`). A rest makes nothing by itself (`RestIsRest`), and
a whole stream makes its messages (`SplitOfStream`).

In `Registrar`, that there is one keepalive only follows from knowing which one:
a thread that is alive and was not told to stop is the one the registrar
remembers (`KeeperInv`). `MarkerRemembersSwitch` needs what the thread under the
lock has done so far - wanted before it registers, marker before it starts the
keepalive unless saving it failed, stop before it deregisters - and that a keepalive
nobody has stopped belongs to a wanted line with a marker (`SwitchInv`). Crashes come in through
`LockInv`: nobody is inside anything while the process is down, and the daemon
resumes before it serves.

In `Mixing`, the argument is about positions: those a write or a read computes wrap
around at most once (`Wraps`, `CellWraps`), so what the two slices of a write leave in each cell can be said
by its distance from where the write began (`LaidIs`), and a write is to append and keep
the newest, also where it wraps or is longer than the buffer (`WriteIsPut`), and a
read is to take from the front (`ReadIsTake`); a step on one participant's buffer
leaves the others alone (`StepsAreQueueSteps`). `HeldFits` is about the limiter: the
sum over the open gates is a number whatever order it is taken in (`TotalIsInt`), so
the block has a peak (`PeakIsNat`), and the gain is at most what that peak needs, on
the way down and on the way back up (`GainFits`). With it comes that the gain stays
within 0 and 1 (`LimiterInv`).

In `DialIn`, `HangupIsNoticed` is about a dialogue inside `collect()`; it follows
from what is known of any dialogue that still runs when the call is over
(`OverInv`): it was stopped and the sentinel is the last of its keys, so that
whatever it takes before, the sentinel is still there - or it began after
`on_call_ended` had looked for one, and is still in front of its first prompt,
which raises. `NothingKeyedIsLost` compares what is kept with a recursive function of
what was said. `KeyedInv` says that the number in the making is that function of what
was taken from the queue, and the step for a key is that one more key at the end, or
one fewer at the front, changes the function by one application (`FoldedAppend`,
`FoldedTail` of `Recursion`). `EveryPressIsOne` compares the keys reported with the
presses made. `PressInv` says that the keys reported are the presses up to some one,
which the guard remembers, and that it lets the next one through (`OrderInv`); that at
most two events are under way, and if two, the older one's press is so far back that
the last key has not been held long enough to be recognised (`OwedInv`, where
`EventsKeepUp` is needed); so that whichever road of a press is second, the guard still
remembers it, because its age is bounded by the event's and, for a tone that is not
recognised yet, by how late it began and how many blocks with the longest gaps before
them it has had (`SpokenInv`, `Drift`); and what the detector has counted of the key
that is down (`ToneInv`).

In `TalkCalls`, the invariant is about one call at a time (`CallInv`), so a step
leaves every call alone that it is not about (`OthersKeep`). A call enters the
table once and leaves it only in its teardown (`EntryInv`). What stands in the
room is known to the entry; after the teardown's close there is no publisher left,
and after its next step, which takes the name plate down, nothing; that the publishing re-reads the table after each await, and the teardown
empties the table before its first, is what makes this hold (`LeftInv`). A recorded
ring that still stands waits and is about to be stopped, or was accepted and the
end of the room's call is still to come (`RingInv`). A dialout is in the table only
after its request said "accepted", because nothing awaits between `dial()` and the
table (`ReportInv`).

In `HumanAudio`, `AudioSpared` says that a coroutine which waits with a repair does
not carry it out once audio has come. It would do so only with the machine's
current generation, so the invariant says (`SourceInv`) that while the call is up a
source in place has a machine, and one audio came over has a machine that knows, in
which no repair is current - unless the coroutine belongs to another machine
altogether. A coroutine that is inside a replacement goes on to close the connection it
replaces; that this is not the source is `OldInv`: it was made before the source was.
The theorem says nothing of a connection that is being replaced when its first frame
comes. What a coroutine between two awaits still knows of the machine and the
connection it was started for is `LocalInv`: a connection it has replaced it
forgets only when it has closed it. `StrayInv` counts what is left: nothing before
`publish` has asked, one connection after, because `publish` alone makes a second
one without looking at the first.

The provers cannot instantiate the library's induction theorems, which take an
operator, so `Recursion` states induction as a fact about sets of naturals (`Induct`,
from the least element of such a set) and derives from it that a recursive function
over a sequence has a value for every sequence, and what that value is for one that
is longer by an element at either end; likewise for a function that goes on with
something smaller (`Falls`, `FallExists`).

Only model-checked: the liveness properties, which TLAPS cannot do here.

## 5. Not modelled

`PROJECT.json` lists every component with its reason. In short:

- parsing and formatting of messages but for framing, the HTTP calls to
  Nextcloud but for their outcomes, WebRTC and ICE but for their outcomes;
- sample arithmetic: codecs, resampling, tone detection, automatic gain; and the
  pacing threads, which are about wall-clock time (`mix_pump.py`);
- the UDP transport, which has no state but its socket, the transport's
  keepalives, and the waiters other than the one a dialled call's worker reads;
- `wipe_all_bindings` and the two REGISTERs of a challenge one by one;
- configuration, which is read once; the relays, which forward; the Nextcloud
  app, the deployment files and the test peer.

## 6. Plan

In the order of what matters most next:

1. `TalkCalls` composed with `HumanAudio`: teardown and reconnect of a call with
   participants.
2. The table of waiters of the transport, with the REGISTER and its challenge.
3. SIP INFO as the third road of a key press.
