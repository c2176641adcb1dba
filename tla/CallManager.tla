----------------------------- MODULE CallManager -----------------------------
(***************************************************************************)
(* One line's call handling: bridge/sip_call.py, class CallManager, with   *)
(* its threads interleaved at the granularity of its one lock.             *)
(*                                                                         *)
(*  - the reader: the transport's thread, running one handle_* per request *)
(*    (lock section and reply in one step: nothing it does afterwards      *)
(*    reads the call);                                                     *)
(*  - client threads: Talk's event loop, the control API, the reader       *)
(*    answering at once - whoever calls answer, decline, dial or hangup;   *)
(*  - one max-duration timer thread per call, which calls hangup;          *)
(*  - one _outbound_worker thread per dialled call.                        *)
(*                                                                         *)
(* A Call-ID stands for the call's dict: `call` is the reference self.call *)
(* holds, and status, timed, voiced, attempted and common are the dict's   *)
(* entries, which outlive the reference in the thread that took it.        *)
(*                                                                         *)
(* The gateway is external: it sends what the protocol lets it send, and   *)
(* the network loses, delays and repeats its responses. A branch is named  *)
(* by its CSeq, as every INVITE of an attempt has its own.                 *)
(***************************************************************************)
EXTENDS Naturals, Sequences, FiniteSets

CONSTANTS Inbound,    \* Call-IDs of calls the gateway offers
          Outbound,   \* Call-IDs dial() invents
          Clients,    \* threads that call answer, decline, dial and hangup
          NoCall,     \* None
          MaxCseq,    \* bound: the gateway challenges MaxCseq - 1 times
          MaxInbox    \* bound: responses waiting in one worker's queue

Calls   == Inbound \cup Outbound
Threads == Clients \cup Calls      \* a call's own name is its timer's thread

ASSUME IdAssumption ==
    /\ Inbound \cap Outbound = {}
    /\ Clients \cap Calls = {}
    /\ NoCall \notin Calls
ASSUME BoundAssumption == MaxCseq \in Nat \ {0} /\ MaxInbox \in Nat \ {0}

VARIABLES
    call,       \* self.call
    status,     \* call["status"]
    timed,      \* calls with a call["bye_timer"]
    voiced,     \* calls with a call["rtp"]
    attempted,  \* calls with a call["attempt"]
    common,     \* inbound calls that offered a codec this side speaks
    port,       \* whose RtpSession has the line's RTP port bound
    timer,      \* each call's threading.Timer
    pc, held,   \* where a thread is, and the call it works on
    worker,     \* where a call's _outbound_worker is
    cseq,       \* attempt.cseq, and with it attempt.branch
    inbox,      \* the worker's waiter: responses it has not read yet
    leg,        \* the gateway's side of each call
    replied,    \* every response the gateway has given to an outbound call
    sent,       \* every message sent for a call
    told        \* the callbacks made for a call

dictVars   == <<status, timed, voiced, attempted, common>>
mediaVars  == <<port, timer>>
threadVars == <<pc, held>>
workerVars == <<worker, cseq, inbox>>
peerVars   == <<leg, replied>>
logVars    == <<sent, told>>
vars == <<call, dictVars, mediaVars, threadVars, workerVars, peerVars, logVars>>

-----------------------------------------------------------------------------
Statuses == {"unborn", "ringing", "dialing", "connected"}
ThreadPcs == {"idle", "hangup", "drop", "say", "send", "record", "arm", "refuse"}
WorkerPcs == {"none", "bind", "record", "invite", "wait", "resend", "settle", "arm",
              "connected", "cancel", "clean", "release", "ended", "dead"}

\* What the gateway answers an INVITE with, final responses only (100, 180 and
\* 183 are read and dropped), and the 200 it answers a CANCEL with.
Responses ==
         [code : {"401"}, cseq : 1..(MaxCseq - 1), method : {"INVITE"}]
    \cup [code : {"200", "4xx"}, cseq : 1..MaxCseq, method : {"INVITE"}]
    \cup [code : {"200"}, cseq : 1..MaxCseq, method : {"CANCEL"}]

\* A message sent, with the CSeq it names; inside an inbound dialog 0 is the
\* INVITE that began it and 1 any later one. STRAY is a CANCEL naming an
\* INVITE the gateway has not been sent.
Kinds == {"180", "200", "486", "488", "603", "INVITE", "ACK", "CANCEL", "STRAY", "BYE"}
Messages == Kinds \X (0..MaxCseq)

TypeOK ==
    /\ call \in Calls \cup {NoCall}
    /\ status \in [Calls -> Statuses]
    /\ timed \subseteq Calls /\ voiced \subseteq Calls
    /\ attempted \subseteq Outbound /\ common \subseteq Inbound
    /\ port \in Calls \cup {NoCall}
    /\ timer \in [Calls -> {"none", "running", "cancelled", "fired"}]
    /\ pc \in [Threads -> ThreadPcs]
    /\ held \in [Threads -> Calls \cup {NoCall}]
    /\ worker \in [Outbound -> WorkerPcs]
    /\ cseq \in [Outbound -> 1..MaxCseq]
    /\ inbox \in [Outbound -> Seq(Responses)]
    /\ leg \in [Calls -> {"idle", "open", "closed"}]
    /\ replied \in [Outbound -> SUBSET Responses]
    /\ sent \in [Calls -> SUBSET Messages]
    /\ told \in [Calls -> SUBSET {"incoming", "connected", "ended", "failed"}]

Init ==
    /\ call = NoCall
    /\ status = [c \in Calls |-> "unborn"]
    /\ timed = {} /\ voiced = {} /\ attempted = {} /\ common = {}
    /\ port = NoCall
    /\ timer = [c \in Calls |-> "none"]
    /\ pc = [t \in Threads |-> "idle"]
    /\ held = [t \in Threads |-> NoCall]
    /\ worker = [c \in Outbound |-> "none"]
    /\ cseq = [c \in Outbound |-> 1]
    /\ inbox = [c \in Outbound |-> <<>>]
    /\ leg = [c \in Calls |-> "idle"]
    /\ replied = [c \in Outbound |-> {}]
    /\ sent = [c \in Calls |-> {}]
    /\ told = [c \in Calls |-> {}]

-----------------------------------------------------------------------------
(* What several handlers do.                                               *)

Sends(c, kind, n) == sent' = [sent EXCEPT ![c] = @ \cup {<<kind, n>>}]
Tells(c, what)    == told' = [told EXCEPT ![c] = @ \cup {what}]
Goes(t, to)       == pc' = [pc EXCEPT ![t] = to]
Steps(c, to)      == worker' = [worker EXCEPT ![c] = to]

\* A CANCEL repeats the branch of the INVITE it withdraws, or cancels nothing.
SendsCancel(c) ==
    Sends(c, IF <<"INVITE", cseq[c]>> \in sent[c] THEN "CANCEL" ELSE "STRAY", cseq[c])

\* Timer.cancel(): effective before it fires, even before it is started.
CancelTimer(c) ==
    timer' = [timer EXCEPT ![c] = IF @ = "fired" THEN @ ELSE "cancelled"]

\* Variant: the timer is made and never started.
StartTimerForgotten(c) == UNCHANGED timer

\* Timer.start(): a timer cancelled first runs out without calling hangup.
StartTimer(c) == timer' = [timer EXCEPT ![c] = IF @ = "none" THEN "running" ELSE @]

\* RtpSession.close(), of this call's session.
CloseRtp(c) == port' = IF port = c THEN NoCall ELSE port

\* Variant: the session stays open when the call ends.
LetGoOfTimerOnly(c) ==
    /\ IF c \in timed THEN CancelTimer(c) ELSE UNCHANGED timer
    /\ UNCHANGED port

\* What the dict of a call that leaves the line names is let go.
LetGo(c) ==
    /\ IF c \in timed THEN CancelTimer(c) ELSE UNCHANGED timer
    /\ IF c \in voiced THEN CloseRtp(c) ELSE UNCHANGED port

Answered(c) == \E n \in 1..MaxCseq :
    [code |-> "200", cseq |-> n, method |-> "INVITE"] \in replied[c]

-----------------------------------------------------------------------------
(* The reader: one request of the gateway's, handled.                      *)

HandleInvite(c) ==
    /\ c \in Inbound
    /\ leg[c] = "idle"
    /\ leg' = [leg EXCEPT ![c] = "open"]
    /\ \/ /\ call = NoCall
          /\ call' = c
          /\ status' = [status EXCEPT ![c] = "ringing"]
          /\ common' \in {common, common \cup {c}}
          /\ Sends(c, "180", 0)
          /\ Tells(c, "incoming")
       \/ /\ call # NoCall
          /\ Sends(c, "486", 0)
          /\ UNCHANGED <<call, status, common, told>>
    /\ UNCHANGED <<timed, voiced, attempted, mediaVars, threadVars, workerVars, replied>>

\* An INVITE naming a call this side knows: a re-offer (_reanswer) or, of a
\* call that is not up, a retransmission - which is told the line is busy.
HandleInviteAgain(c) ==
    /\ leg[c] = "open"
    /\ c \in Outbound => Answered(c)
    /\ call # NoCall
    /\ IF call = c /\ status[c] = "connected"
         THEN \E verdict \in {"200", "488"} : Sends(c, verdict, 1)
         ELSE Sends(c, "486", 1)
    /\ UNCHANGED <<call, dictVars, mediaVars, threadVars, workerVars, peerVars, told>>

\* Variant: the call ends without on_call_ended.
RemoteEndsSilently(c) ==
    /\ leg[c] = "open"
    /\ leg' = [leg EXCEPT ![c] = "closed"]
    /\ IF call = c THEN call' = NoCall /\ LetGo(c)
                   ELSE UNCHANGED <<call, mediaVars>>
    /\ UNCHANGED <<dictVars, threadVars, workerVars, replied, logVars>>

\* handle_bye and handle_cancel end the call the same way.
RemoteEnds(c) ==
    /\ leg[c] = "open"
    /\ leg' = [leg EXCEPT ![c] = "closed"]
    /\ IF call = c THEN call' = NoCall /\ LetGo(c)
                   ELSE UNCHANGED <<call, mediaVars>>
    /\ Tells(c, "ended")
    /\ UNCHANGED <<dictVars, threadVars, workerVars, replied, sent>>

HandleBye(c) ==
    /\ IF c \in Inbound THEN <<"200", 0>> \in sent[c] ELSE Answered(c)
    /\ RemoteEnds(c)

\* The caller gives up; the 200 OK may be on its way to them.
HandleCancel(c) == c \in Inbound /\ RemoteEnds(c)

-----------------------------------------------------------------------------
(* answer() and decline(), one step per lock section or message.           *)

\* A bind that fails raises out of answer() and changes nothing.
Answer(t) ==
    /\ t \in Clients /\ pc[t] = "idle"
    /\ call # NoCall /\ status[call] = "ringing"
    /\ \/ /\ call \notin common
          /\ Sends(call, "488", 0)
          /\ call' = NoCall
          /\ UNCHANGED <<status, voiced, port, threadVars>>
       \/ /\ call \in common
          /\ port = NoCall
          /\ port' = call
          /\ status' = [status EXCEPT ![call] = "connected"]
          /\ voiced' = voiced \cup {call}
          /\ Goes(t, "send")
          /\ held' = [held EXCEPT ![t] = call]
          /\ UNCHANGED <<call, sent>>
    /\ UNCHANGED <<timed, attempted, common, timer, workerVars, peerVars, told>>

AnswerSends(t) ==
    /\ pc[t] = "send"
    /\ Sends(held[t], "200", 0)
    /\ Goes(t, "record")
    /\ UNCHANGED <<call, dictVars, mediaVars, held, workerVars, peerVars, told>>

AnswerRecords(t) ==
    /\ pc[t] = "record"
    /\ timed' = IF call = held[t] THEN timed \cup {held[t]} ELSE timed
    /\ Goes(t, "arm")
    /\ UNCHANGED <<call, status, voiced, attempted, common, mediaVars, held, workerVars,
                   peerVars, logVars>>

AnswerArms(t) ==
    /\ pc[t] = "arm"
    /\ StartTimer(held[t])
    /\ Tells(held[t], "connected")
    /\ Goes(t, "idle")
    /\ held' = [held EXCEPT ![t] = NoCall]
    /\ UNCHANGED <<call, dictVars, port, workerVars, peerVars, sent>>

\* Variant: the declined call stays on the line.
DeclineKeepsCall(t) ==
    /\ t \in Clients /\ pc[t] = "idle"
    /\ call # NoCall /\ status[call] = "ringing"
    /\ held' = [held EXCEPT ![t] = call]
    /\ Goes(t, "refuse")
    /\ UNCHANGED <<call, dictVars, mediaVars, workerVars, peerVars, logVars>>

Decline(t) ==
    /\ t \in Clients /\ pc[t] = "idle"
    /\ call # NoCall /\ status[call] = "ringing"
    /\ held' = [held EXCEPT ![t] = call]
    /\ call' = NoCall
    /\ Goes(t, "refuse")
    /\ UNCHANGED <<dictVars, mediaVars, workerVars, peerVars, logVars>>

DeclineSends(t) ==
    /\ pc[t] = "refuse"
    /\ Sends(held[t], "603", 0)
    /\ Goes(t, "idle")
    /\ held' = [held EXCEPT ![t] = NoCall]
    /\ UNCHANGED <<call, dictVars, mediaVars, workerVars, peerVars, told>>

-----------------------------------------------------------------------------
(* hangup(), by a client or by a call's timer.                             *)

TimerFires(c) ==
    /\ timer[c] = "running"
    /\ timer' = [timer EXCEPT ![c] = "fired"]
    /\ Goes(c, "hangup")
    /\ UNCHANGED <<call, dictVars, port, held, workerVars, peerVars, logVars>>

\* Variant: the line is cleared only after the session is closed - here, never.
HangupLeavesCall(t) ==
    /\ \/ t \in Clients /\ pc[t] = "idle" /\ call # NoCall
       \/ pc[t] = "hangup"
    /\ held' = [held EXCEPT ![t] = call]
    /\ Goes(t, IF call = NoCall THEN "idle" ELSE "drop")
    /\ UNCHANGED <<call, dictVars, mediaVars, workerVars, peerVars, logVars>>

\* Whatever call is on the line now; a timer that finds none is done.
HangupTakes(t) ==
    /\ \/ t \in Clients /\ pc[t] = "idle" /\ call # NoCall
       \/ pc[t] = "hangup"
    /\ held' = [held EXCEPT ![t] = call]
    /\ call' = NoCall
    /\ Goes(t, IF call = NoCall THEN "idle" ELSE "drop")
    /\ UNCHANGED <<dictVars, mediaVars, workerVars, peerVars, logVars>>

HangupDrops(t) ==
    /\ pc[t] = "drop"
    /\ LetGo(held[t])
    /\ Goes(t, "say")
    /\ UNCHANGED <<call, dictVars, held, workerVars, peerVars, logVars>>

\* Variant: BYE for every outbound call, answered or not.
HangupSaysBye(t) ==
    LET c == held[t] IN
    /\ pc[t] = "say"
    /\ Sends(c, IF c \in Inbound /\ status[c] = "ringing" THEN "603" ELSE "BYE", 0)
    /\ Tells(c, "ended")
    /\ Goes(t, "idle")
    /\ held' = [held EXCEPT ![t] = NoCall]
    /\ UNCHANGED <<call, dictVars, mediaVars, workerVars, peerVars>>

\* Which message ends it depends on how far the call had come. _watch_bye's
\* thread only reports, and is left out.
HangupSays(t) ==
    LET c == held[t] IN
    /\ pc[t] = "say"
    /\ \/ /\ c \in Outbound /\ status[c] # "connected"
          /\ IF c \in attempted THEN SendsCancel(c) ELSE UNCHANGED sent
          /\ UNCHANGED told
       \/ /\ c \in Inbound /\ status[c] = "ringing"
          /\ Sends(c, "603", 0)
          /\ Tells(c, "ended")
       \/ /\ status[c] = "connected"
          /\ Sends(c, "BYE", 0)
          /\ Tells(c, "ended")
    /\ Goes(t, "idle")
    /\ held' = [held EXCEPT ![t] = NoCall]
    /\ UNCHANGED <<call, dictVars, mediaVars, workerVars, peerVars>>

-----------------------------------------------------------------------------
(* dial() and the thread it starts.                                        *)

\* Variant: dial() does not ask whether the line is free.
DialOverCall(t, c) ==
    /\ t \in Clients /\ pc[t] = "idle"
    /\ leg[c] = "idle"
    /\ call' = c
    /\ status' = [status EXCEPT ![c] = "dialing"]
    /\ leg' = [leg EXCEPT ![c] = "open"]
    /\ Steps(c, "bind")
    /\ UNCHANGED <<timed, voiced, attempted, common, mediaVars, threadVars, cseq, inbox,
                   replied, logVars>>

\* A busy line answers dial() with an error and nothing changes.
Dial(t, c) ==
    /\ t \in Clients /\ pc[t] = "idle"
    /\ call = NoCall
    /\ leg[c] = "idle"
    /\ call' = c
    /\ status' = [status EXCEPT ![c] = "dialing"]
    /\ leg' = [leg EXCEPT ![c] = "open"]
    /\ Steps(c, "bind")
    /\ UNCHANGED <<timed, voiced, attempted, common, mediaVars, threadVars, cseq, inbox,
                   replied, logVars>>

\* bind_socket waits 2s for EADDRINUSE to pass: long enough for a close that
\* is on its way, not for a session that nobody is closing.
PortIsBeingClosed ==
    \/ \E t \in Threads : pc[t] = "drop" /\ held[t] = port
    \/ port \in Outbound /\ worker[port] \in {"cancel", "clean"}

WorkerBinds(c) ==
    /\ worker[c] = "bind"
    /\ \/ port = NoCall /\ port' = c /\ Steps(c, "record")
       \/ port # NoCall /\ ~PortIsBeingClosed /\ Steps(c, "dead") /\ UNCHANGED port
    /\ UNCHANGED <<call, dictVars, timer, threadVars, cseq, inbox, peerVars, logVars>>

WorkerRecords(c) ==
    /\ worker[c] = "record"
    /\ attempted' = IF call = c THEN attempted \cup {c} ELSE attempted
    /\ Steps(c, "invite")
    /\ UNCHANGED <<call, status, timed, voiced, common, mediaVars, threadVars, cseq, inbox,
                   peerVars, logVars>>

\* The first INVITE, or the one that answers a challenge.
WorkerInvites(c) ==
    /\ worker[c] \in {"invite", "resend"}
    /\ Sends(c, "INVITE", cseq[c])
    /\ Steps(c, "wait")
    /\ UNCHANGED <<call, dictVars, mediaVars, threadVars, cseq, inbox, peerVars, told>>

\* The response the worker reads next, if it answers the CSeq it is on.
Reads(c, code) ==
    /\ worker[c] = "wait"
    /\ inbox[c] # <<>>
    /\ Head(inbox[c]).cseq = cseq[c]
    /\ Head(inbox[c]).code = code
    /\ inbox' = [inbox EXCEPT ![c] = Tail(@)]

WorkerSkips(c) ==
    /\ worker[c] = "wait"
    /\ inbox[c] # <<>>
    /\ Head(inbox[c]).cseq # cseq[c]
    /\ inbox' = [inbox EXCEPT ![c] = Tail(@)]
    /\ UNCHANGED <<call, dictVars, mediaVars, threadVars, worker, cseq, peerVars, logVars>>

\* Variant: a 401 is acted on whichever INVITE it answers.
WorkerTakesAnyChallenge(c) ==
    /\ worker[c] = "wait"
    /\ inbox[c] # <<>>
    /\ Head(inbox[c]).code = "401"
    /\ inbox' = [inbox EXCEPT ![c] = Tail(@)]
    /\ cseq' = [cseq EXCEPT ![c] = @ + 1]
    /\ Steps(c, "resend")
    /\ UNCHANGED <<call, dictVars, mediaVars, threadVars, peerVars, logVars>>

\* _retry_invite_with_auth up to its send: next CSeq, new branch, and no ACK.
WorkerIsChallenged(c) ==
    /\ Reads(c, "401")
    /\ cseq' = [cseq EXCEPT ![c] = @ + 1]
    /\ Steps(c, "resend")
    /\ UNCHANGED <<call, dictVars, mediaVars, threadVars, peerVars, logVars>>

WorkerIsRefused(c) ==
    /\ Reads(c, "4xx")
    /\ Sends(c, "ACK", cseq[c])
    /\ Tells(c, "failed")
    /\ Steps(c, "clean")
    /\ UNCHANGED <<call, dictVars, mediaVars, threadVars, cseq, peerVars>>

\* _connect_outbound: acknowledge, record the dialog if the call is still on
\* the line, and in either case arm the timer and say it is connected.
WorkerIsAnswered(c) ==
    /\ Reads(c, "200")
    /\ Sends(c, "ACK", cseq[c])
    /\ Steps(c, "settle")
    /\ UNCHANGED <<call, dictVars, mediaVars, threadVars, cseq, peerVars, told>>

WorkerSettles(c) ==
    /\ worker[c] = "settle"
    /\ IF call = c
         THEN /\ status' = [status EXCEPT ![c] = "connected"]
              /\ voiced' = voiced \cup {c}
              /\ timed' = timed \cup {c}
         ELSE UNCHANGED <<status, voiced, timed>>
    /\ Steps(c, "arm")
    /\ UNCHANGED <<call, attempted, common, mediaVars, threadVars, cseq, inbox, peerVars,
                   logVars>>

WorkerArms(c) ==
    /\ worker[c] = "arm"
    /\ StartTimer(c)
    /\ Tells(c, "connected")
    /\ Steps(c, "connected")
    /\ UNCHANGED <<call, dictVars, port, threadVars, cseq, inbox, peerVars, sent>>

\* Variant: an abandoned attempt ends without on_call_failed.
WorkerGivesUpSilently(c) ==
    /\ worker[c] = "wait"
    /\ Steps(c, IF call = c THEN "cancel" ELSE "clean")
    /\ UNCHANGED <<call, dictVars, mediaVars, threadVars, cseq, inbox, peerVars, logVars>>

\* The deadline passes: `abandoned` is read under the lock.
WorkerGivesUp(c) ==
    /\ worker[c] = "wait"
    /\ IF call = c THEN Steps(c, "cancel") /\ UNCHANGED told
                   ELSE Steps(c, "clean") /\ Tells(c, "failed")
    /\ UNCHANGED <<call, dictVars, mediaVars, threadVars, cseq, inbox, peerVars, sent>>

WorkerCancels(c) ==
    /\ worker[c] = "cancel"
    /\ SendsCancel(c)
    /\ Tells(c, "failed")
    /\ Steps(c, "clean")
    /\ UNCHANGED <<call, dictVars, mediaVars, threadVars, cseq, inbox, peerVars>>

\* The finally block: close_waiter and rtp.close(), then the line.
WorkerCleans(c) ==
    /\ worker[c] = "clean"
    /\ CloseRtp(c)
    /\ Steps(c, "release")
    /\ UNCHANGED <<call, dictVars, timer, threadVars, cseq, inbox, peerVars, logVars>>

\* Variant: the line is cleared whoever has it.
WorkerReleasesAny(c) ==
    /\ worker[c] = "release"
    /\ call' = NoCall
    /\ Steps(c, "ended")
    /\ UNCHANGED <<dictVars, mediaVars, threadVars, cseq, inbox, peerVars, logVars>>

WorkerReleases(c) ==
    /\ worker[c] = "release"
    /\ call' = IF call = c THEN NoCall ELSE call
    /\ Steps(c, "ended")
    /\ UNCHANGED <<dictVars, mediaVars, threadVars, cseq, inbox, peerVars, logVars>>

-----------------------------------------------------------------------------
(* The gateway's responses (external), and the reader queueing them for    *)
(* the worker that waits. Any of them may be lost on the way.              *)

Arrives(c, r) ==
    inbox' = IF worker[c] \in {"wait", "resend"} /\ Len(inbox[c]) < MaxInbox
               THEN [inbox EXCEPT ![c] = Append(@, r)] ELSE inbox

\* One final response per INVITE, one 200 per CANCEL that names an INVITE.
GatewayReplies(c, r) ==
    /\ \/ /\ r.method = "INVITE"
          /\ <<"INVITE", r.cseq>> \in sent[c]
          /\ \A q \in replied[c] : ~(q.method = "INVITE" /\ q.cseq = r.cseq)
       \/ /\ r.method = "CANCEL"
          /\ <<"CANCEL", r.cseq>> \in sent[c]
          /\ r \notin replied[c]
    /\ replied' = [replied EXCEPT ![c] = @ \cup {r}]
    /\ Arrives(c, r) \/ UNCHANGED inbox
    /\ UNCHANGED <<call, dictVars, mediaVars, threadVars, worker, cseq, leg, logVars>>

\* A retransmission, or a duplicate the network delivers late.
GatewayRepeats(c, r) ==
    /\ r \in replied[c]
    /\ Arrives(c, r)
    /\ UNCHANGED <<call, dictVars, mediaVars, threadVars, worker, cseq, peerVars, logVars>>

-----------------------------------------------------------------------------
ReaderStep == \E c \in Calls :
    HandleInvite(c) \/ HandleInviteAgain(c) \/ HandleBye(c) \/ HandleCancel(c)

AnswerStep(t) ==
    AnswerSends(t) \/ AnswerRecords(t) \/ AnswerArms(t) \/ DeclineSends(t)
HangupStep(t) == HangupDrops(t) \/ HangupSays(t)

WorkerStep(c) ==
    \/ WorkerBinds(c) \/ WorkerRecords(c) \/ WorkerInvites(c)
    \/ WorkerSkips(c) \/ WorkerIsChallenged(c) \/ WorkerIsRefused(c)
    \/ WorkerIsAnswered(c) \/ WorkerSettles(c) \/ WorkerArms(c)
    \/ WorkerGivesUp(c) \/ WorkerCancels(c) \/ WorkerCleans(c) \/ WorkerReleases(c)

GatewayStep(c) ==
    \E r \in Responses : GatewayReplies(c, r) \/ GatewayRepeats(c, r)

Next ==
    \/ ReaderStep
    \/ \E t \in Threads : \/ Answer(t) \/ Decline(t) \/ HangupTakes(t)
                          \/ AnswerStep(t) \/ HangupStep(t)
    \/ \E c \in Calls : TimerFires(c)
    \/ \E t \in Clients, c \in Outbound : Dial(t, c)
    \/ \E c \in Outbound : WorkerStep(c) \/ GatewayStep(c)

Spec == Init /\ [][Next]_vars

\* A started thread runs on, a timer runs out and a deadline passes; nobody has
\* to call, answer or hang up. Of the worker's own steps the deadline needs
\* fairness by itself: repeated responses could keep the others busy forever.
Fairness ==
    /\ \A t \in Threads : /\ WF_vars(AnswerStep(t))
                          /\ WF_vars(HangupStep(t))
                          /\ WF_vars(pc[t] = "hangup" /\ HangupTakes(t))
    /\ \A c \in Calls : WF_vars(TimerFires(c))
    /\ \A c \in Outbound : WF_vars(WorkerStep(c)) /\ WF_vars(WorkerGivesUp(c))

FairSpec == Spec /\ Fairness

-----------------------------------------------------------------------------
(* What holds.                                                             *)

\* A connected call has its own audio: the session bound to the line's RTP
\* port is that call's, whatever hangups, refusals and workers of other calls
\* are still closing (answer, _connect_outbound, LetGo).
ConnectedHasAudio ==
    call # NoCall /\ status[call] = "connected" => port = call

\* An inbound call's port is never forgotten: whoever ended the call either
\* closed its session with it or is on the way to (the reason handle_cancel
\* closes call["rtp"]).
InboundPortIsOwned ==
    port \in Inbound =>
        \/ call = port /\ status[port] = "connected"
        \/ \E t \in Threads : pc[t] = "drop" /\ held[t] = port

\* A caller's INVITE gets one verdict: answering, declining, refusing the codec
\* and hanging up a ringing call exclude each other, from any threads.
Verdicts(messages) == {m \in messages : m[1] \in {"200", "488", "603"} /\ m[2] = 0}
OneVerdict == \A c \in Inbound : \A m, n \in Verdicts(sent[c]) : m = n

\* The next INVITE of an attempt answers a challenge to the one before; a
\* duplicate or late 401 starts none (_relevant_responses).
RetryOnlyAfterChallenge ==
    \A c \in Outbound, n \in 1..MaxCseq :
        <<"INVITE", n>> \in sent[c] /\ n > 1 =>
            [code |-> "401", cseq |-> n - 1, method |-> "INVITE"] \in replied[c]

\* hangup() sends an outbound call a BYE only for a dialog that exists: the
\* gateway answered the INVITE and this side acknowledged that answer.
ByeNamesADialog ==
    \A c \in Outbound : <<"BYE", 0>> \in sent[c] =>
        \E n \in 1..MaxCseq :
            /\ [code |-> "200", cseq |-> n, method |-> "INVITE"] \in replied[c]
            /\ <<"ACK", n>> \in sent[c]

\* What happens to one call - a request of its gateway leg, a step of its
\* worker - takes the line from no other: a late BYE or CANCEL, or the worker
\* of a call long hung up, leaves the next call alone.
OneCallsBusiness ==
    [][\A c \in Calls :
         leg'[c] # leg[c] \/ (c \in Outbound /\ worker'[c] # worker[c])
             => call' = call \/ call \in {c, NoCall}]_vars

\* The line keeps the contract of module Line.
PhaseOf(c) == IF call = c THEN status[c] ELSE IF leg[c] = "idle" THEN "new" ELSE "over"
Contract == INSTANCE Line WITH holder <- call, phase <- [c \in Calls |-> PhaseOf(c)]
LineContract == Contract!LineSpec

\* The safety net of config.max_call_duration: a connected call does not keep
\* the line for good, even when neither side ever ends it.
SafetyNet ==
    \A c \in Calls : (call = c /\ status[c] = "connected") ~> (call # c)

\* An outbound attempt under way ends in on_call_failed or on_call_connected,
\* hung up in between or not.
OutcomeIsTold ==
    \A c \in Outbound : worker[c] = "wait" ~> told[c] \cap {"failed", "connected"} # {}

\* Talk hears of the end of every inbound call that was answered.
InboundEndIsTold ==
    \A c \in Inbound : (status[c] = "connected" /\ call # c) ~> "ended" \in told[c]

-----------------------------------------------------------------------------
(* What the repository says of this code, and an interleaving contradicts. *)

\* "Turns an answered INVITE into a running call" (_connect_outbound): Talk is
\* told of a connected outbound call only if the gateway answered its INVITE.
\* The 200 that answers a CANCEL has the INVITE's CSeq number too.
ConnectedMeansAnswered ==
    \A c \in Outbound : "connected" \in told[c] => Answered(c)

\* No session outlives its outbound call: a socket nobody closes "keeps this
\* line's RTP port bound and the next call cannot be answered at all".
NoOrphanAudio ==
    port \in Outbound =>
        \/ call = port
        \/ worker[port] \notin {"connected", "ended"}
        \/ \E t \in Threads : pc[t] = "drop" /\ held[t] = port

\* "a connected call is hung up after this many seconds": the timer of one call
\* hangs up that call and no other.
TimerEndsOwnCall ==
    [][\A c \in Calls : pc[c] = "hangup" /\ pc'[c] = "drop" => held'[c] = c]_vars

=============================================================================
