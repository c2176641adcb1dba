------------------------------ MODULE HumanAudio ------------------------------
(***************************************************************************)
(* Getting one participant's audio to the phone: bridge/human_audio.py and *)
(* the subscriber half of call_media.py, driving the machine of module     *)
(* Subscription for one call.  Everything runs on one event loop; a step   *)
(* is what a coroutine does between two awaits.  The coroutines are        *)
(*                                                                         *)
(*  - the reader of the room connection, which handles one message at a    *)
(*    time and reads no other while a repair it started is waiting;        *)
(*  - CallAudio.publish, which looks for a participant once;               *)
(*  - watchers and delayed repairs, each a task of its own.                *)
(*                                                                         *)
(* The signaling server, the media and the participant are external.       *)
(***************************************************************************)
EXTENDS Subscription, Sequences, FiniteSets

CONSTANTS MaxJoins,      \* bound: how often the participant enters the call
          MaxSids,       \* bound: handles the server attaches
          Reader, Publish,
          Tasks          \* bound: watchers and repairs at a time

ASSUME BoundsAssumption == MaxJoins \in Nat /\ MaxSids \in Nat
ASSUME ThreadsAssumption == Reader # Publish /\ {Reader, Publish} \cap Tasks = {}

Threads == Tasks \cup {Reader, Publish}
Sids    == 1..MaxSids
Lives   == 1..(2 * MaxJoins + 2)             \* as many machines,
Conns   == 1..(1 + MaxJoins + 2 * MaxSids)   \* and connections, as can be made

VARIABLES
    entry,       \* the call is in _call_sessions
    life,        \* entry.subscriptions[participant]: which machine, 0 for none
    machine,     \* every machine made
    source,      \* media.subscribers[participant]: which connection, 0 for none
    conn,        \* every connection made
    at,          \* where each coroutine is, and its locals
    inbox,       \* messages the reader has not handled
    outbox,      \* messages the server has not handled
    there,       \* where the participant is: out, in the room, in its call
    handle,      \* the handle the server has attached, 0 for none
    accepted,    \* the connection whose answer the server took, 0 for none
    sids, joins  \* handles attached, and times the participant entered

callVars   == <<entry, life, machine, source, conn>>
serverVars == <<there, handle, accepted, sids, joins>>
vars == <<callVars, at, inbox, outbox, serverVars>>

-----------------------------------------------------------------------------
Pcs == {"idle", "find", "begin",                    \* publish
        "sleep", "close", "send", "sent", "watch",  \* pursue, watch_for_offer
        "replace", "describe", "answer", "told"}    \* answer_offer

\* The locals of a coroutine: its step (a watcher has the generation it watches
\* as one), the machine and the connection it works on, the one it replaces.
Locals == [pc : Pcs, step : Steps, life : Lives \cup {0},
           conn : Conns \cup {0}, old : Conns \cup {0}]
Resting == [pc |-> "idle", step |-> Nothing, life |-> 0, conn |-> 0, old |-> 0]

Unused == [state |-> "none", receiving |-> FALSE, answered |-> FALSE]

\* A refusal names the call and the participant; sid, which handle the refused
\* answer was for, is not in the message and no action reads it.
ToBridge == [type : {"offer", "refusal"}, sid : Sids] \cup [type : {"entered", "left"}, sid : {0}]
ToServer == [type : {"request"}, sid : {0}, conn : {0}]
       \cup [type : {"answer"}, sid : Sids, conn : Conns]

TypeOK ==
    /\ entry \in BOOLEAN
    /\ life \in Lives \cup {0} /\ machine \in [Lives -> Machines]
    /\ source \in Conns \cup {0}
    /\ conn \in [Conns -> [state : {"none", "open", "closed"},
                           receiving : BOOLEAN, answered : BOOLEAN]]
    /\ at \in [Threads -> Locals]
    /\ inbox \in Seq(ToBridge) /\ outbox \in Seq(ToServer)
    /\ there \in {"out", "room", "call"}
    /\ handle \in Sids \cup {0} /\ accepted \in Conns \cup {0}
    /\ sids \in Sids \cup {0} /\ joins \in 0..MaxJoins

\* The call is up and publishing; publish has yet to look for people.
Init ==
    /\ entry = TRUE
    /\ life = 0 /\ machine = [l \in Lives |-> Fresh]
    /\ source = 0 /\ conn = [c \in Conns |-> Unused]
    /\ at = [t \in Threads |-> IF t = Publish THEN [Resting EXCEPT !.pc = "find"] ELSE Resting]
    /\ inbox = <<>> /\ outbox = <<>>
    /\ there \in {"out", "room", "call"}
    /\ handle = 0 /\ accepted = 0 /\ sids = 0 /\ joins = 0

-----------------------------------------------------------------------------
(* Helpers.                                                                *)

\* What is not used yet; Conns and Lives are bounds that are large enough.
FreeConns == {c \in Conns : conn[c] = Unused}
FreeLives == {l \in Lives : machine[l] = Fresh}
FreeTasks == {t \in Tasks : at[t] = Resting}
NewConn   == CHOOSE c \in FreeConns : TRUE
NewLife   == CHOOSE l \in FreeLives : TRUE
NewTask   == CHOOSE t \in FreeTasks : TRUE

Rests(t)    == at' = [at EXCEPT ![t] = Resting]
Goes(t, to) == at' = [at EXCEPT ![t].pc = to]

\* open_subscriber; whoever calls it closes the connection it replaces, or not.
OpenSubscriber ==
    /\ FreeConns # {}
    /\ conn' = [conn EXCEPT ![NewConn].state = "open"]
    /\ source' = NewConn

Alive == source # 0 /\ conn[source].state = "open"

-----------------------------------------------------------------------------
(* start() and pursue(), by whichever coroutine.                           *)

\* restart_state_for: a machine that has not been anywhere, if the call is up.
\* The request that it asks for at once still has to be sent.
StartListening(t) ==
    /\ OpenSubscriber
    /\ IF ~entry THEN Rests(t) /\ UNCHANGED <<life, machine>>
       ELSE LET first == Start(Fresh)
            IN /\ FreeLives # {} /\ life' = NewLife
               /\ machine' = [machine EXCEPT ![NewLife] = first.machine]
               /\ at' = [at EXCEPT ![t] = [Resting EXCEPT !.pc = "send", !.life = NewLife,
                                                          !.step = first.step]]
    /\ UNCHANGED entry

\* pursue() up to its wait. A step without a delay can only be GIVE_UP, which its
\* machine makes obsolete. life only remembers who decided the step.
Pursues(t, step) ==
    at' = [at EXCEPT ![t] = IF step.delayed
                              THEN [Resting EXCEPT !.pc = "sleep", !.step = step, !.life = life]
                              ELSE Resting]

Current(t) ==
    /\ at[t].pc = "sleep"
    /\ entry /\ life # 0 /\ source # 0
    /\ StillCurrent(machine[life], at[t].step)

PursueDrops(t) ==
    /\ at[t].pc = "sleep" /\ ~Current(t)
    /\ Rests(t)
    /\ UNCHANGED <<callVars, inbox, outbox, serverVars>>

PursueRequests(t) ==
    /\ Current(t) /\ at[t].step.action = "request"
    /\ at' = [at EXCEPT ![t].pc = "send", ![t].life = life]
    /\ UNCHANGED <<callVars, inbox, outbox, serverVars>>

\* prepare_for_new_offer leaves a source alone that is receiving.
PursueRebuilds(t) ==
    /\ Current(t) /\ at[t].step.action = "rebuild"
    /\ IF conn[source].receiving THEN Rests(t) /\ UNCHANGED <<conn, source>>
       ELSE /\ OpenSubscriber
            /\ at' = [at EXCEPT ![t].pc = "close", ![t].life = life, ![t].old = source]
    /\ UNCHANGED <<entry, life, machine, inbox, outbox, serverVars>>

PursueCloses(t) ==
    /\ at[t].pc = "close"
    /\ conn' = [conn EXCEPT ![at[t].old].state = "closed"]
    /\ Goes(t, "send")
    /\ UNCHANGED <<entry, life, machine, source, inbox, outbox, serverVars>>

PursueSends(t) ==
    /\ at[t].pc = "send"
    /\ outbox' = Append(outbox, [type |-> "request", sid |-> 0, conn |-> 0])
    /\ Goes(t, "sent")
    /\ UNCHANGED <<callVars, inbox, serverVars>>

\* The watcher takes the generation the machine has once the request is out.
Watching(l) == [Resting EXCEPT !.pc = "watch",
                               !.step = Step("nothing", FALSE, machine[l].generation)]

\* Variant: only the first request is watched, not what a repair sends.
PursueWatchesFirst(t) ==
    /\ at[t].pc = "sent"
    /\ IF t \in Tasks THEN Rests(t)
       ELSE /\ FreeTasks # {}
            /\ at' = [at EXCEPT ![t] = Resting, ![NewTask] = Watching(at[t].life)]
    /\ UNCHANGED <<callVars, inbox, outbox, serverVars>>

PursueWatches(t) ==
    /\ at[t].pc = "sent"
    /\ IF t \in Tasks
         THEN at' = [at EXCEPT ![t] = Watching(at[t].life)]
         ELSE /\ FreeTasks # {}
              /\ at' = [at EXCEPT ![t] = Resting, ![NewTask] = Watching(at[t].life)]
    /\ UNCHANGED <<callVars, inbox, outbox, serverVars>>

\* watch_for_offer, RETRY_INTERVAL later.
WatchEnds(t) ==
    /\ at[t].pc = "watch"
    /\ IF /\ entry /\ life # 0 /\ source # 0
          /\ machine[life].state # "flowing"
          /\ machine[life].generation = at[t].step.generation
         THEN LET next == NoPublisher(machine[life])
              IN machine' = [machine EXCEPT ![life] = next.machine] /\ Pursues(t, next.step)
         ELSE Rests(t) /\ UNCHANGED machine
    /\ UNCHANGED <<entry, life, source, conn, inbox, outbox, serverVars>>

-----------------------------------------------------------------------------
(* CallAudio.publish: whoever is in the room, in its call or not.          *)

PublishLooks ==
    /\ at[Publish].pc = "find"
    /\ IF there = "out" THEN Rests(Publish) ELSE Goes(Publish, "begin")
    /\ UNCHANGED <<callVars, inbox, outbox, serverVars>>

PublishStarts ==
    /\ at[Publish].pc = "begin"
    /\ StartListening(Publish)
    /\ UNCHANGED <<inbox, outbox, serverVars>>

-----------------------------------------------------------------------------
(* The reader of the room connection.                                      *)

Reads(type) ==
    /\ at[Reader].pc = "idle"
    /\ inbox # <<>> /\ Head(inbox).type = type
    /\ inbox' = Tail(inbox)

Negotiating == entry /\ source # 0 /\ life # 0

\* answer_offer, up to its first await. The machine says whether the offer counts;
\* one for a source that has answered before gets a connection of its own.
ReadsOffer ==
    /\ Reads("offer")
    /\ LET next  == Offer(machine[life], Head(inbox).sid)
           local == [Resting EXCEPT !.step = next.step, !.life = life]
       IN IF ~Negotiating \/ Absorbs(machine[life]) THEN UNCHANGED <<machine, source, conn, at>>
          ELSE /\ machine' = [machine EXCEPT ![life] = next.machine]
               /\ CASE conn[source].receiving -> UNCHANGED <<source, conn, at>>
                    [] conn[source].answered /\ ~conn[source].receiving ->
                         /\ OpenSubscriber
                         /\ at' = [at EXCEPT ![Reader] = [local EXCEPT !.pc = "replace",
                                                        !.conn = NewConn, !.old = source]]
                    [] OTHER ->
                         /\ conn' = [conn EXCEPT ![source].answered = TRUE]
                         /\ at' = [at EXCEPT ![Reader] = [local EXCEPT !.pc = "describe",
                                                                       !.conn = source]]
                         /\ UNCHANGED source
    /\ UNCHANGED <<entry, life, outbox, serverVars>>

\* Variant: the connection that answered the earlier offer is left open.
ReaderReplacedOnly ==
    /\ at[Reader].pc = "replace"
    /\ conn' = [conn EXCEPT ![at[Reader].conn].answered = TRUE]
    /\ Goes(Reader, "describe")
    /\ UNCHANGED <<entry, life, machine, source, inbox, outbox, serverVars>>

ReaderReplaced ==
    /\ at[Reader].pc = "replace"
    /\ conn' = [conn EXCEPT ![at[Reader].old].state = "closed",
                            ![at[Reader].conn].answered = TRUE]
    /\ Goes(Reader, "describe")
    /\ UNCHANGED <<entry, life, machine, source, inbox, outbox, serverVars>>

\* Describing a connection that was closed meanwhile raises, which costs the message.
ReaderDescribes ==
    /\ at[Reader].pc = "describe"
    /\ IF conn[at[Reader].conn].state = "closed" THEN Rests(Reader) ELSE Goes(Reader, "answer")
    /\ UNCHANGED <<callVars, inbox, outbox, serverVars>>

ReaderAnswers ==
    LET me == at[Reader] IN
    /\ me.pc = "answer"
    /\ IF machine[me.life].generation # me.step.generation
         THEN Rests(Reader) /\ UNCHANGED outbox
         ELSE /\ outbox' = Append(outbox, [type |-> "answer", sid |-> me.step.sid,
                                           conn |-> me.conn])
              /\ Goes(Reader, "told")
    /\ UNCHANGED <<callVars, inbox, serverVars>>

ReaderAnswered ==
    LET me == at[Reader] IN
    /\ me.pc = "told"
    /\ machine' = [machine EXCEPT ![me.life] = AnswerSent(@, me.step.generation)]
    /\ Rests(Reader)
    /\ UNCHANGED <<entry, life, source, conn, inbox, outbox, serverVars>>

\* answer_refused: the reader itself waits out the delay of the repair.
ReadsRefusal ==
    /\ Reads("refusal")
    /\ IF ~entry \/ life = 0 THEN UNCHANGED <<machine, at>>
       ELSE LET next == Refused(machine[life])
            IN machine' = [machine EXCEPT ![life] = next.machine] /\ Pursues(Reader, next.step)
    /\ UNCHANGED <<entry, life, source, conn, outbox, serverVars>>

\* stop_listening
ReadsLeft ==
    /\ Reads("left")
    /\ IF entry /\ source # 0
         THEN /\ life' = 0 /\ source' = 0
              /\ conn' = [conn EXCEPT ![source].state = "closed"]
         ELSE UNCHANGED <<life, source, conn>>
    /\ UNCHANGED <<entry, machine, at, outbox, serverVars>>

\* start_for_late_joiner
ReadsEntered ==
    /\ Reads("entered")
    /\ IF entry /\ ~Alive THEN StartListening(Reader) ELSE UNCHANGED <<callVars, at>>
    /\ UNCHANGED <<outbox, serverVars>>

-----------------------------------------------------------------------------
(* The end of the call: _teardown_call and CallMedia.close.                *)

TearDown ==
    /\ entry
    /\ entry' = FALSE /\ source' = 0
    /\ conn' = IF source = 0 THEN conn ELSE [conn EXCEPT ![source].state = "closed"]
    /\ UNCHANGED <<life, machine, at, inbox, outbox, serverVars>>

-----------------------------------------------------------------------------
(* External: the participant, the server, the media.                       *)

Enters ==
    /\ there # "call" /\ joins < MaxJoins
    /\ there' = "call" /\ joins' = joins + 1
    /\ inbox' = Append(inbox, [type |-> "entered", sid |-> 0])
    /\ UNCHANGED <<callVars, at, outbox, handle, accepted, sids>>

\* What the server had attached to the participant's publisher ends with it.
LeavesCall ==
    /\ there = "call"
    /\ there' \in {"room", "out"}
    /\ handle' = 0 /\ accepted' = 0
    /\ inbox' = Append(inbox, [type |-> "left", sid |-> 0])
    /\ UNCHANGED <<callVars, at, outbox, sids, joins>>

\* A new handle, in place of the one there was.
Attach == sids < MaxSids /\ sids' = sids + 1 /\ handle' = sids + 1 /\ accepted' = 0
Offers == inbox' = Append(inbox, [type |-> "offer", sid |-> handle'])

\* A request is answered by an offer, or by nothing.
TakesRequest ==
    /\ outbox # <<>> /\ Head(outbox).type = "request"
    /\ outbox' = Tail(outbox)
    /\ \/ there = "call" /\ Attach /\ Offers
       \/ UNCHANGED <<inbox, handle, accepted, sids>>
    /\ UNCHANGED <<callVars, at, there, joins>>

\* While nothing is connected, the server may attach anew, offering again or not.
Reattaches ==
    /\ handle # 0 /\ accepted = 0
    /\ Attach
    /\ Offers \/ UNCHANGED inbox
    /\ UNCHANGED <<callVars, at, outbox, there, joins>>

TakesAnswer ==
    /\ outbox # <<>> /\ Head(outbox).type = "answer"
    /\ outbox' = Tail(outbox)
    /\ IF Head(outbox).sid = handle
         THEN accepted' = Head(outbox).conn /\ UNCHANGED inbox
         ELSE /\ inbox' = Append(inbox, [type |-> "refusal", sid |-> Head(outbox).sid])
              /\ UNCHANGED accepted
    /\ UNCHANGED <<callVars, at, there, handle, sids, joins>>

\* The first frame on a connection, heard by _relay; state_for makes a machine
\* for a participant that has none.
Frame ==
    /\ accepted # 0 /\ conn[accepted].state = "open" /\ ~conn[accepted].receiving
    /\ conn' = [conn EXCEPT ![accepted].receiving = TRUE]
    /\ IF entry THEN LET l == IF life = 0 THEN NewLife ELSE life
                     IN /\ (life = 0 => FreeLives # {}) /\ life' = l
                        /\ machine' = [machine EXCEPT ![l] = MediaArrived(@)]
       ELSE UNCHANGED <<life, machine>>
    /\ UNCHANGED <<entry, source, at, inbox, outbox, serverVars>>

\* A connection that worked is lost: the participant's publisher is torn down.
ConnectionFails ==
    /\ Alive /\ conn[source].receiving
    /\ conn' = [conn EXCEPT ![source].state = "closed"]
    /\ UNCHANGED <<entry, life, machine, source, at, inbox, outbox, serverVars>>

-----------------------------------------------------------------------------
Pursue(t) ==
    \/ PursueDrops(t) \/ PursueRequests(t) \/ PursueRebuilds(t) \/ PursueCloses(t)
    \/ PursueSends(t) \/ PursueWatches(t) \/ WatchEnds(t)
PublishStep == PublishLooks \/ PublishStarts
ReaderStep ==
    \/ ReadsOffer \/ ReaderReplaced \/ ReaderDescribes \/ ReaderAnswers \/ ReaderAnswered
    \/ ReadsRefusal \/ ReadsLeft \/ ReadsEntered
Server == TakesRequest \/ TakesAnswer

Next ==
    \/ \E t \in Threads : Pursue(t)
    \/ PublishStep \/ ReaderStep \/ TearDown
    \/ Enters \/ LeavesCall \/ Server \/ Reattaches \/ Frame \/ ConnectionFails

Spec == Init /\ [][Next]_vars

\* The server takes what it is sent; that media comes over a connection it has taken
\* the answer of is nobody's promise.
Fairness ==
    /\ \A t \in Threads : WF_vars(Pursue(t))
    /\ WF_vars(PublishStep) /\ WF_vars(ReaderStep)
    /\ WF_vars(TakesRequest) /\ WF_vars(TakesAnswer)
FairSpec == Spec /\ Fairness

-----------------------------------------------------------------------------
(* What should hold.                                                       *)

Watches(t) ==
    \/ at[t].pc \in {"close", "send", "sent"} /\ at[t].life = life
    \/ at[t].pc \in {"sleep", "watch"} /\ at[t].step.generation = machine[life].generation

\* While the machine is asking, some coroutine is on the way to ask, or will look
\* whether an offer came: no interleaving of repairs leaves a request unwatched.
AskingIsWatched ==
    Negotiating /\ machine[life].state = "requested" => \E t \in Threads : Watches(t)

\* A connection that is not the participant's source any more is about to be
\* closed, but for one: publish asks without looking whether somebody already did,
\* and leaves the connection it replaces open.
OneStrayAtMost ==
    Cardinality({c \in Conns : /\ conn[c].state = "open" /\ c # source
                               /\ \A t \in Threads : at[t].old # c}) <= 1

\* Once audio has arrived over the participant's source, that connection is left
\* alone, however many offers, refusals and repairs are still on their way: it is
\* closed only when it fails, or when the participant or the call goes; it is not
\* replaced but by publish, which asks without looking; no repair that waited is
\* carried out, no offer answered. Nothing is said of a connection that is being
\* replaced already: audio that begins over one of those comes too late for it.
AudioSpared ==
    [][Alive /\ conn[source].receiving =>
        /\ conn'[source].state = "open" \/ ReadsLeft \/ TearDown \/ ConnectionFails
        /\ source' \in {source, 0} \/ PublishStarts
        /\ \A t \in Threads : at[t].pc \in {"idle", "sleep"}
                             => at'[t].pc \in {"idle", "sleep", "watch"}]_vars

\* Audio began over a connection that was not the source any more, as it was being
\* replaced or had been left open by publish: the machine takes it for flowing, and
\* will ignore the offer for the connection that is the source.
CutShort == life # 0 /\ machine[life].state = "flowing" /\ (source # 0 => ~conn[source].receiving)

\* What a negotiation can end in: one side has gone; it was given up; the server has
\* taken the answer of a connection that is open, and the rest is the media's; audio
\* did come over the source, whatever became of it since; or it was cut short.
Settled ==
    \/ ~entry \/ there # "call"
    \/ life # 0 /\ machine[life].state = "given-up"
    \/ accepted # 0 /\ conn[accepted].state = "open"
    \/ source # 0 /\ conn[source].receiving
    \/ CutShort

\* Whatever offers, answers, refusals, frames and repairs overtake each other, asking
\* for a participant in the call comes to an end, and does not end in a request or an
\* answer that nobody follows: pursue(), watch_for_offer() and answer_refused().
NegotiationSettles == <>[]Settled

\* human_audio.py:168-169: start() "follows the negotiation to audio or to giving up".
\* Once the server has taken the answer, its watcher has ended and no other is started:
\* a connection that negotiated perfectly and carries nothing stays as it is.
FollowedToAudio ==
    Negotiating /\ there = "call" /\ machine[life].state = "connecting"
        ~> ~Negotiating \/ there # "call" \/ machine[life].state # "connecting"

\* docs/CONCEPT.md:159: "Looked for again whenever somebody enters the call".
\* Somebody in the room whom publish asked and gave up on is not, on entering the
\* call: the connection nothing was ever negotiated for counts as alive.
JoinerIsAsked ==
    [][ReadsEntered /\ entry =>
        machine'[life'].state \notin {"given-up"}]_vars

\* subscription.py:37-39: "an answer or a refusal that names an older one is
\* history and changes nothing". The refusal of an earlier answer, of which its
\* driver does not say which it was, starts a repair of the newest negotiation.
StaleRefusalIsHistory ==
    [][ReadsRefusal /\ life # 0 /\ Head(inbox).sid < machine[life].sid
        => UNCHANGED machine]_vars
=============================================================================
