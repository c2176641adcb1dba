--------------------------- MODULE HumanAudioProofs ---------------------------
(***************************************************************************)
(* Theorems about HumanAudio for any number of attempts, joins and         *)
(* handles, and any tasks: the types, that what is asked for is watched,   *)
(* that one connection at most is left open and unused, and that audio     *)
(* that has arrived is left alone.                                         *)
(***************************************************************************)
EXTENDS HumanAudio, FiniteSetTheorems, SequenceTheorems, TLAPS

Asking      == {"close", "send", "sent"}
Replacing   == {"close", "replace"}
Negotiation == {"replace", "describe", "answer", "told"}

\* publish looks and asks, the reader answers offers; a coroutine that is on its way
\* has a machine and a connection that were made, and one it replaced is closed.
LocalInv(t) ==
    /\ at[t].pc \in {"find", "begin"} => t = Publish
    /\ at[t].pc \in Negotiation => t = Reader /\ at[t].conn \in Conns /\ at[t].step.sid \in Sids
    /\ at[t].pc \in Asking \cup Negotiation => at[t].life \in Lives
    /\ at[t].pc \in Replacing => at[t].old \in Conns
    /\ at[t].old # 0 /\ at[t].pc \notin Replacing => conn[at[t].old].state = "closed"

\* While the call is up a source has a machine, which knows of audio that arrived.
SourceInv ==
    entry /\ source # 0 =>
        /\ life # 0
        /\ conn[source].receiving => machine[life].state = "flowing"

Strays == {c \in Conns : conn[c].state = "open" /\ c # source /\ \A t \in Threads : at[t].old # c}

\* Nothing is left open before publish has asked, and one connection after that.
StrayInv ==
    /\ at[Publish].pc \in {"find", "begin"} => Strays = {}
    /\ \E c \in Conns : Strays \subseteq {c}

IInv == TypeOK /\ (\A t \in Threads : LocalInv(t)) /\ SourceInv /\ StrayInv /\ AskingIsWatched

(* The types, in the parts that actions leave alone. *)
ConnRecords == [state : {"none", "open", "closed"}, receiving : BOOLEAN, answered : BOOLEAN]
CallTypes ==
    /\ entry \in BOOLEAN /\ life \in Lives \cup {0} /\ machine \in [Lives -> Machines]
    /\ source \in Conns \cup {0} /\ conn \in [Conns -> ConnRecords]
LocalTypes == at \in [Threads -> Locals]
QueueTypes == inbox \in Seq(ToBridge) /\ outbox \in Seq(ToServer)
ServerTypes ==
    /\ there \in {"out", "room", "call"}
    /\ handle \in Sids \cup {0} /\ accepted \in Conns \cup {0}
    /\ sids \in Sids \cup {0} /\ joins \in 0..MaxJoins
LEMMA TypeParts == TypeOK <=> CallTypes /\ LocalTypes /\ QueueTypes /\ ServerTypes
  BY DEF TypeOK, CallTypes, ConnRecords, LocalTypes, QueueTypes, ServerTypes

LEMMA Numbers ==
    /\ Sids \subseteq Nat \ {0} /\ Lives \subseteq Nat \ {0} /\ Conns \subseteq Nat \ {0}
    /\ Reader \in Threads /\ Publish \in Threads /\ Reader # Publish
    /\ Reader \notin Tasks /\ Publish \notin Tasks /\ Tasks \subseteq Threads
  BY BoundsAssumption, ThreadsAssumption DEF Sids, Lives, Conns, Threads
-----------------------------------------------------------------------------
(* The machine of Subscription. *)

LEMMA FreshMachine ==
    /\ Fresh \in Machines /\ Start(Fresh).machine \in Machines
    /\ Start(Fresh).step \in Steps /\ Nothing \in Steps
    /\ Start(Fresh).machine.state = "requested"
<1>1. 0 \in 0..MaxAttempts /\ 1 \in 0..MaxAttempts
  BY AttemptsAssumption
<1>2. Fresh \in Machines /\ Nothing \in Steps
  BY <1>1 DEF Fresh, Machines, States, Nothing, Step, Steps
<1>3. Start(Fresh) = Leaves([Fresh EXCEPT !.state = "requested", !.attempts = 1],
                           Step("request", FALSE, 0))
  BY DEF Start, Fresh
<1>4. /\ Start(Fresh).machine = [Fresh EXCEPT !.state = "requested", !.attempts = 1]
      /\ Start(Fresh).step = Step("request", FALSE, 0)
  BY <1>3 DEF Leaves
<1>5. Start(Fresh).machine \in Machines /\ Start(Fresh).machine.state = "requested"
  <2>1. Start(Fresh).machine = [state |-> "requested", attempts |-> 1, generation |-> 0, sid |-> 0]
    BY <1>4 DEF Fresh
  <2>2. QED
    BY <1>1, <2>1 DEF Machines, States
<1>6. Start(Fresh).step \in Steps
  BY <1>4 DEF Step, Steps
<1>7. QED
  BY <1>2, <1>5, <1>6

\* Whoever asks again waits first, with the generation the machine has from now on.
Waits(next) ==
    /\ next.machine \in Machines /\ next.step \in Steps
    /\ next.machine.state \in {"requested", "given-up"}
    /\ next.machine.state = "requested" =>
         next.step.delayed /\ next.step.generation = next.machine.generation
    /\ next.machine.state = "given-up" => ~next.step.delayed
LEMMA RetryWaits ==
    ASSUME NEW m \in Machines, NEW action \in {"request", "rebuild"}
    PROVE  Waits(Retry(m, action))
<1>1. CASE m.attempts >= MaxAttempts
  BY <1>1 DEF Retry, Waits, Leaves, Step, Steps, Machines, States
<1>2. CASE ~(m.attempts >= MaxAttempts)
  <2>1. m.attempts + 1 \in 0..MaxAttempts /\ m.generation + 1 \in Nat
    BY <1>2, AttemptsAssumption DEF Machines
  <2>2. QED
    BY <1>2, <2>1 DEF Retry, Waits, Leaves, Step, Steps, Machines, States
<1>3. QED
  BY <1>1, <1>2

\* What is absorbed changes nothing, and neither does a watcher of an idle machine.
LEMMA RefusedWaits ==
    ASSUME NEW m \in Machines
    PROVE  IF Absorbs(m) THEN Refused(m) = Leaves(m, Nothing) ELSE Waits(Refused(m))
  BY RetryWaits DEF Refused
LEMMA NoPublisherWaits ==
    ASSUME NEW m \in Machines
    PROVE  IF Absorbs(m) \/ m.state = "idle" THEN NoPublisher(m) = Leaves(m, Nothing)
           ELSE Waits(NoPublisher(m))
  BY RetryWaits DEF NoPublisher
LEMMA OfferAnswers ==
    ASSUME NEW m \in Machines, ~Absorbs(m), NEW sid \in Sids
    PROVE  /\ Offer(m, sid).machine \in Machines /\ Offer(m, sid).step \in Steps
           /\ Offer(m, sid).machine.state = "answering" /\ Offer(m, sid).step.sid = sid
<1>1. sid \in Nat /\ m.generation + 1 \in Nat
  BY Numbers DEF Machines
<1>2. [m EXCEPT !.state = "answering", !.generation = @ + 1, !.sid = sid] \in Machines
  BY <1>1 DEF Machines, States
<1>3. [Step("answer", FALSE, m.generation + 1) EXCEPT !.sid = sid] \in Steps
  BY <1>1 DEF Step, Steps
<1>4. QED
  BY <1>2, <1>3 DEF Offer, Leaves, Step, Machines
LEMMA AnswerSentKeeps ==
    ASSUME NEW m \in Machines, NEW generation
    PROVE  /\ AnswerSent(m, generation) \in Machines
           /\ m.state = "flowing" => AnswerSent(m, generation) = m
           /\ AnswerSent(m, generation).state = "requested" => AnswerSent(m, generation) = m
  BY DEF AnswerSent, Machines, States
LEMMA MediaFlows ==
    ASSUME NEW m \in Machines
    PROVE  MediaArrived(m) \in Machines /\ MediaArrived(m).state = "flowing"
  BY DEF MediaArrived, Machines, States
-----------------------------------------------------------------------------
LEMMA InitInv == Init => IInv
<1> SUFFICES ASSUME Init PROVE IInv
  OBVIOUS
<1> USE DEF Init
<1>1. Resting \in Locals /\ [Resting EXCEPT !.pc = "find"] \in Locals
  BY FreshMachine DEF Resting, Locals, Pcs, Nothing
<1>2. CallTypes
  BY FreshMachine DEF CallTypes, ConnRecords, Unused
<1>3. LocalTypes
  BY <1>1 DEF LocalTypes
<1>4. QueueTypes /\ ServerTypes
  BY BoundsAssumption DEF QueueTypes, ServerTypes
<1>5. ASSUME NEW t \in Threads PROVE LocalInv(t)
  BY DEF LocalInv, Resting, Negotiation, Asking, Replacing
<1>6. SourceInv /\ AskingIsWatched
  BY DEF SourceInv, AskingIsWatched, Negotiating
<1>7. StrayInv
  <2>1. Strays = {} /\ 1 \in Conns
    BY BoundsAssumption DEF Strays, Unused, Conns
  <2>2. QED
    BY <2>1 DEF StrayInv
<1>8. QED
  BY <1>2, <1>3, <1>4, <1>5, <1>6, <1>7, TypeParts DEF IInv
-----------------------------------------------------------------------------
(* What a step leaves alone. *)

\* The server, the participant: what they do is seen in the inbox and on connections.
LEMMA OutsideKeeps ==
    ASSUME IInv, UNCHANGED <<callVars, at>>, QueueTypes', ServerTypes'
    PROVE  IInv'
<1> USE DEF callVars
<1>1. TypeOK'
  BY TypeParts DEF IInv, TypeOK, QueueTypes, ServerTypes
<1>2. ASSUME NEW t \in Threads PROVE LocalInv(t)'
  BY DEF IInv, LocalInv
<1>3. SourceInv' /\ StrayInv' /\ AskingIsWatched'
  BY DEF IInv, SourceInv, StrayInv, Strays, AskingIsWatched, Watches, Negotiating
<1>4. QED
  BY <1>1, <1>2, <1>3 DEF IInv

\* A coroutine that a step does not move keeps what is known of it, as no connection
\* is opened again.
ClosedStays == \A c \in Conns : conn[c].state = "closed" => conn'[c].state = "closed"
LEMMA OthersKeep ==
    ASSUME IInv, ClosedStays, NEW t \in Threads, at'[t] = at[t]
    PROVE  LocalInv(t)'
<1>1. at[t] \in Locals
  BY DEF IInv, TypeOK
<1>2. QED
  BY <1>1 DEF IInv, LocalInv, ClosedStays, Locals

LEMMA StraysFewer ==
    ASSUME IInv, Strays' \subseteq Strays,
           at'[Publish].pc \in {"find", "begin"} => at[Publish].pc \in {"find", "begin"}
    PROVE  StrayInv'
  BY DEF IInv, StrayInv

\* What replaces a connection forgets it only once it is closed.
LEMMA StraysKeep ==
    ASSUME IInv, UNCHANGED <<conn, source>>,
           \A t \in Threads : at'[t].old = at[t].old \/ at[t].pc \notin Replacing,
           at'[Publish].pc \in {"find", "begin"} => at[Publish].pc \in {"find", "begin"}
    PROVE  StrayInv'
<1>1. ASSUME NEW c \in Strays' PROVE c \in Strays
  <2>1. c \in Conns /\ conn[c].state = "open" /\ c # source /\ c # 0
    BY Numbers DEF Strays
  <2>2. ASSUME NEW t \in Threads, at[t].old = c PROVE FALSE
    BY <2>1, <2>2 DEF IInv, LocalInv, Strays
  <2>3. QED
    BY <2>1, <2>2 DEF Strays
<1>2. QED
  BY <1>1, StraysFewer

\* A step that moves one coroutine, and neither machine nor connection.
LEMMA MovesKeep ==
    ASSUME IInv, UNCHANGED <<callVars, serverVars>>, QueueTypes', NEW t \in Threads,
           \A u \in Threads \ {t} : at'[u] = at[u],
           at' \in [Threads -> Locals], LocalInv(t)',
           at[t].pc \notin Replacing,
           at'[t].pc \notin {"find", "begin"} \/ at[t].pc = "find",
           AskingIsWatched'
    PROVE  IInv'
<1>1. TypeOK'
  BY TypeParts DEF IInv, TypeOK, QueueTypes, callVars, serverVars
<1>2. ASSUME NEW u \in Threads PROVE LocalInv(u)'
  <2>1. ClosedStays
    BY DEF ClosedStays, callVars
  <2>2. QED
    BY <2>1, OthersKeep
<1>3. SourceInv'
  BY DEF IInv, SourceInv, callVars
<1>4. StrayInv'
  BY StraysKeep, Numbers DEF callVars
<1>5. QED
  BY <1>1, <1>2, <1>3, <1>4 DEF IInv
-----------------------------------------------------------------------------
(* pursue() and its watchers. *)

LEMMA LocalsOf == ASSUME IInv, NEW t \in Threads PROVE at[t] \in Locals /\ LocalInv(t)
  BY DEF IInv, TypeOK
LEMMA RestingLocals == Resting \in Locals
  BY FreshMachine DEF Resting, Locals, Pcs
LEMMA QueuesKept == ASSUME IInv, UNCHANGED <<inbox, outbox>> PROVE QueueTypes'
  BY DEF IInv, TypeOK, QueueTypes

LEMMA OneMoves ==
    ASSUME IInv, NEW t \in Threads, NEW l \in Locals, at' = [at EXCEPT ![t] = l]
    PROVE  at' \in [Threads -> Locals] /\ at'[t] = l /\ \A u \in Threads \ {t} : at'[u] = at[u]
  BY DEF IInv, TypeOK
LEMMA PcMoves ==
    ASSUME NEW l \in Locals, NEW to \in Pcs
    PROVE  /\ [l EXCEPT !.pc = to] \in Locals /\ [l EXCEPT !.pc = to].pc = to
           /\ [l EXCEPT !.pc = to].life = l.life /\ [l EXCEPT !.pc = to].step = l.step
           /\ [l EXCEPT !.pc = to].conn = l.conn /\ [l EXCEPT !.pc = to].old = l.old
  BY DEF Locals
LEMMA GoesMoves ==
    ASSUME IInv, NEW t \in Threads, NEW to \in Pcs, Goes(t, to)
    PROVE  /\ at' \in [Threads -> Locals] /\ \A u \in Threads \ {t} : at'[u] = at[u]
           /\ at'[t].pc = to /\ at'[t].life = at[t].life /\ at'[t].step = at[t].step
           /\ at'[t].conn = at[t].conn /\ at'[t].old = at[t].old
<1> DEFINE l == [at[t] EXCEPT !.pc = to]
<1>1. /\ l \in Locals /\ l.pc = to /\ l.life = at[t].life /\ l.step = at[t].step
      /\ l.conn = at[t].conn /\ l.old = at[t].old
  BY LocalsOf, PcMoves
<1>2. at' = [at EXCEPT ![t] = l]
  BY DEF Goes
<1> HIDE DEF l
<1>3. at' \in [Threads -> Locals] /\ at'[t] = l /\ \A u \in Threads \ {t} : at'[u] = at[u]
  BY <1>1, <1>2, OneMoves
<1>4. QED
  BY <1>1, <1>3

LEMMA PursueDropsKeeps == ASSUME IInv, NEW t \in Threads, PursueDrops(t) PROVE IInv'
<1> USE DEF PursueDrops, Rests
<1>1. at' = [at EXCEPT ![t] = Resting] /\ at' \in [Threads -> Locals] /\ at'[t] = Resting
  BY RestingLocals DEF IInv, TypeOK
<1>2. LocalInv(t)'
  BY <1>1 DEF LocalInv, Resting, Asking, Negotiation, Replacing
<1>3. AskingIsWatched'
  <2> SUFFICES ASSUME Negotiating, machine[life].state = "requested"
               PROVE  \E u \in Threads \ {t} : Watches(u)
    BY <1>1 DEF AskingIsWatched, Watches, Negotiating, callVars
  <2>1. ~Watches(t)
    BY DEF Watches, Current, StillCurrent, Absorbs, Negotiating
  <2>2. QED
    BY <2>1 DEF IInv, AskingIsWatched
<1>4. QED
  BY <1>1, <1>2, <1>3, MovesKeep, QueuesKept DEF Replacing, Resting

LEMMA PursueRequestsKeeps == ASSUME IInv, NEW t \in Threads, PursueRequests(t) PROVE IInv'
<1> USE DEF PursueRequests
<1>1. life \in Lives /\ "send" \in Pcs /\ at[t].pc = "sleep"
  BY DEF IInv, TypeOK, Current, Pcs
<1>2. at' = [at EXCEPT ![t] = [at[t] EXCEPT !.pc = "send", !.life = life]]
  OBVIOUS
<1>3. [at[t] EXCEPT !.pc = "send", !.life = life] \in Locals
  BY <1>1, LocalsOf DEF Locals
<1>4. /\ at' \in [Threads -> Locals] /\ \A u \in Threads \ {t} : at'[u] = at[u]
      /\ at'[t] = [at[t] EXCEPT !.pc = "send", !.life = life]
  BY <1>2, <1>3, OneMoves
<1>5. LocalInv(t)'
  BY <1>1, <1>4, LocalsOf DEF LocalInv, Locals, Asking, Negotiation, Replacing, callVars
<1>6. AskingIsWatched'
  <2>1. Watches(t)'
    BY <1>4, LocalsOf DEF Watches, Locals, callVars
  <2>2. QED
    BY <2>1 DEF AskingIsWatched
<1>7. QED
  BY <1>1, <1>4, <1>5, <1>6, LocalsOf, MovesKeep, QueuesKept DEF Replacing, Locals

LEMMA PursueSendsKeeps == ASSUME IInv, NEW t \in Threads, PursueSends(t) PROVE IInv'
<1> USE DEF PursueSends
<1>1. Goes(t, "sent") /\ "sent" \in Pcs /\ at[t].pc = "send"
  BY DEF Pcs
<1>2. at' \in [Threads -> Locals] /\ \A u \in Threads \ {t} : at'[u] = at[u]
  BY <1>1, GoesMoves
<1>3. /\ at'[t].pc = "sent" /\ at'[t].life = at[t].life /\ at'[t].step = at[t].step
      /\ at'[t].conn = at[t].conn /\ at'[t].old = at[t].old
  BY <1>1, GoesMoves
<1>4. LocalInv(t)'
  BY <1>1, <1>3, LocalsOf DEF LocalInv, Locals, Asking, Negotiation, Replacing, callVars
<1>5. AskingIsWatched'
  <2>1. \A u \in Threads : Watches(u) => Watches(u)'
    BY <1>1, <1>2, <1>3, LocalsOf DEF Watches, Locals, callVars
  <2>2. QED
    BY <2>1 DEF IInv, AskingIsWatched, Negotiating, callVars
<1>6. QueueTypes'
  <2>1. [type |-> "request", sid |-> 0, conn |-> 0] \in ToServer
    BY DEF ToServer
  <2>2. QED
    BY <2>1 DEF IInv, TypeOK, QueueTypes
<1>7. QED
  BY <1>1, <1>2, <1>3, <1>4, <1>5, <1>6, LocalsOf, MovesKeep DEF Replacing, Locals

LEMMA PursueClosesKeeps == ASSUME IInv, NEW t \in Threads, PursueCloses(t) PROVE IInv'
<1> USE DEF PursueCloses
<1>1. Goes(t, "send") /\ "send" \in Pcs /\ at[t].pc = "close"
  BY DEF Pcs
<1>2. at' \in [Threads -> Locals] /\ \A u \in Threads \ {t} : at'[u] = at[u]
  BY <1>1, GoesMoves
<1>3. /\ at'[t].pc = "send" /\ at'[t].life = at[t].life /\ at'[t].step = at[t].step
      /\ at'[t].conn = at[t].conn /\ at'[t].old = at[t].old
  BY <1>1, GoesMoves
<1>4. at[t].old \in Conns /\ at[t].life \in Lives
  BY <1>1, LocalsOf DEF LocalInv, Replacing, Asking
<1>5. /\ conn' = [conn EXCEPT ![at[t].old] = [conn[at[t].old] EXCEPT !.state = "closed"]]
      /\ conn \in [Conns -> ConnRecords]
  BY DEF IInv, TypeOK, ConnRecords
<1>6. conn' \in [Conns -> ConnRecords] /\ ClosedStays /\ conn'[at[t].old].state = "closed"
  BY <1>4, <1>5 DEF ConnRecords, ClosedStays
<1>7. \A c \in Conns : /\ conn'[c].receiving = conn[c].receiving
                       /\ conn'[c].state = "open" => conn[c].state = "open"
  BY <1>4, <1>5 DEF ConnRecords
<1>8. TypeOK'
  BY <1>2, <1>6 DEF IInv, TypeOK, ConnRecords, serverVars
<1>9. ASSUME NEW u \in Threads PROVE LocalInv(u)'
  <2>1. CASE u = t
    BY <1>1, <1>3, <1>4, <1>6, <2>1, LocalsOf DEF LocalInv, Locals, Asking, Negotiation, Replacing
  <2>2. CASE u # t
    BY <1>2, <1>6, <2>2, OthersKeep
  <2>3. QED
    BY <2>1, <2>2
<1>10. SourceInv'
  BY <1>7 DEF IInv, SourceInv, TypeOK
<1>11. StrayInv'
  <2>1. \A u \in Threads : at'[u].old = at[u].old
    BY <1>2, <1>3, LocalsOf DEF Locals
  <2>2. Strays' \subseteq Strays
    BY <1>7, <2>1 DEF Strays
  <2>3. at'[Publish].pc \in {"find", "begin"} => at[Publish].pc \in {"find", "begin"}
    BY <1>2, <1>3, LocalsOf, Numbers DEF Locals
  <2>4. QED
    BY <2>2, <2>3, StraysFewer
<1>12. AskingIsWatched'
  <2>1. \A u \in Threads : Watches(u) => Watches(u)'
    BY <1>1, <1>2, <1>3, LocalsOf DEF Watches, Locals
  <2>2. QED
    BY <2>1 DEF IInv, AskingIsWatched, Negotiating
<1>13. QED
  BY <1>8, <1>9, <1>10, <1>11, <1>12 DEF IInv

\* Whoever makes a connection finds one that was not used.
LEMMA NewConnIsFree ==
    ASSUME IInv, OpenSubscriber
    PROVE  /\ NewConn \in Conns /\ conn[NewConn] = Unused /\ source' = NewConn
           /\ conn' = [conn EXCEPT ![NewConn] = [Unused EXCEPT !.state = "open"]]
           /\ conn' \in [Conns -> ConnRecords] /\ ClosedStays
           /\ conn'[NewConn].receiving = FALSE
           /\ \A c \in Conns \ {NewConn} : conn'[c] = conn[c]
<1>1. NewConn \in Conns /\ conn[NewConn] = Unused
  BY DEF OpenSubscriber, NewConn, FreeConns
<1>2. conn \in [Conns -> ConnRecords] /\ Unused \in ConnRecords
  BY DEF IInv, TypeOK, ConnRecords, Unused
<1>3. conn' = [conn EXCEPT ![NewConn] = [Unused EXCEPT !.state = "open"]]
  <2>1. conn' = [conn EXCEPT ![NewConn] = [conn[NewConn] EXCEPT !.state = "open"]]
    BY DEF OpenSubscriber
  <2>2. QED
    BY <1>1, <2>1
<1>4. /\ [Unused EXCEPT !.state = "open"] \in ConnRecords
      /\ [Unused EXCEPT !.state = "open"].receiving = FALSE
  BY DEF Unused, ConnRecords
<1>5. QED
  <2>1. conn' \in [Conns -> ConnRecords] /\ conn'[NewConn].receiving = FALSE
    BY <1>1, <1>2, <1>3, <1>4
  <2>2. \A c \in Conns \ {NewConn} : conn'[c] = conn[c]
    BY <1>1, <1>2, <1>3
  <2>3. ClosedStays
    BY <1>1, <2>2 DEF ClosedStays, Unused
  <2>4. QED
    BY <1>1, <1>3, <2>1, <2>2, <2>3 DEF OpenSubscriber

LEMMA PursueRebuildsKeeps == ASSUME IInv, NEW t \in Threads, PursueRebuilds(t) PROVE IInv'
<1> USE DEF PursueRebuilds
<1>1. /\ entry /\ life \in Lives /\ source \in Conns /\ at[t].pc = "sleep"
      /\ machine[life].state # "flowing"
  BY Numbers DEF IInv, TypeOK, Current, StillCurrent, Absorbs
<1>2. ~conn[source].receiving
  BY <1>1, Numbers DEF IInv, SourceInv
<1> DEFINE l == [at[t] EXCEPT !.pc = "close", !.life = life, !.old = source]
<1>3. OpenSubscriber /\ at' = [at EXCEPT ![t] = l]
  BY <1>2
<1>4. l \in Locals /\ l.pc = "close" /\ l.life = life /\ l.old = source
  BY <1>1, LocalsOf DEF Locals, Pcs
<1> HIDE DEF l
<1>5. at' \in [Threads -> Locals] /\ at'[t] = l /\ \A u \in Threads \ {t} : at'[u] = at[u]
  BY <1>3, <1>4, OneMoves
<1>6. /\ source' \in Conns /\ conn' \in [Conns -> ConnRecords] /\ ClosedStays
      /\ conn'[source'].receiving = FALSE
      /\ \A c \in Conns \ {source'} : conn'[c] = conn[c]
  BY <1>3, NewConnIsFree
<1>7. TypeOK'
  BY <1>5, <1>6 DEF IInv, TypeOK, ConnRecords, serverVars
<1>8. ASSUME NEW u \in Threads PROVE LocalInv(u)'
  <2>1. CASE u = t
    BY <1>1, <1>4, <1>5, <2>1 DEF LocalInv, Asking, Negotiation, Replacing
  <2>2. CASE u # t
    BY <1>5, <1>6, <2>2, OthersKeep
  <2>3. QED
    BY <2>1, <2>2
<1>9. SourceInv'
  BY <1>1, <1>6, Numbers DEF SourceInv
<1>10. StrayInv'
  <2>1. ASSUME NEW c \in Strays' PROVE c \in Strays
    <3>1. c \in Conns /\ conn[c].state = "open" /\ c # source /\ c # 0
      BY <1>4, <1>5, <1>6, Numbers DEF Strays
    <3>2. at[t].old # c
      BY <1>1, <3>1, LocalsOf DEF LocalInv, Replacing
    <3>3. \A u \in Threads \ {t} : at[u].old # c
      BY <1>5 DEF Strays
    <3>4. QED
      BY <3>1, <3>2, <3>3 DEF Strays
  <2>2. at'[Publish].pc \in {"find", "begin"} => at[Publish].pc \in {"find", "begin"}
    BY <1>4, <1>5, Numbers
  <2>3. QED
    BY <2>1, <2>2, StraysFewer
<1>11. AskingIsWatched'
  <2>1. Watches(t)'
    BY <1>4, <1>5 DEF Watches
  <2>2. QED
    BY <2>1 DEF AskingIsWatched
<1>12. QED
  BY <1>7, <1>8, <1>9, <1>10, <1>11 DEF IInv

LEMMA PursueWatchesKeeps == ASSUME IInv, NEW t \in Threads, PursueWatches(t) PROVE IInv'
<1> USE DEF PursueWatches, Rests
<1> DEFINE w == Watching(at[t].life)
<1>1. at[t].pc = "sent" /\ at[t].life \in Lives
  BY LocalsOf DEF LocalInv, Asking
<1>2. w \in Locals /\ w.pc = "watch" /\ w.old = 0 /\ w.step.generation = machine[at[t].life].generation
  <2>1. machine[at[t].life].generation \in Nat
    BY <1>1 DEF IInv, TypeOK, Machines
  <2>2. Step("nothing", FALSE, machine[at[t].life].generation) \in Steps
    BY <2>1 DEF Step, Steps
  <2>3. QED
    BY <2>2, RestingLocals DEF Watching, Locals, Pcs, Resting, Step
<1> HIDE DEF w
<1>3. CASE t \in Tasks
  <2>1. at' \in [Threads -> Locals] /\ at'[t] = w /\ \A u \in Threads \ {t} : at'[u] = at[u]
    BY <1>2, <1>3, OneMoves DEF w
  <2>2. LocalInv(t)'
    BY <1>2, <2>1 DEF LocalInv, Asking, Negotiation, Replacing
  <2>3. AskingIsWatched'
    <3>1. \A u \in Threads : Watches(u) => Watches(u)'
      BY <1>1, <1>2, <2>1 DEF Watches, callVars
    <3>2. QED
      BY <3>1 DEF IInv, AskingIsWatched, Negotiating, callVars
  <2>4. QED
    BY <1>1, <1>2, <2>1, <2>2, <2>3, MovesKeep, QueuesKept DEF Replacing
<1>4. CASE t \notin Tasks
  <2>1. PICK n \in Tasks : at[n] = Resting /\ at' = [at EXCEPT ![t] = Resting, ![n] = w]
    <3>1. NewTask \in FreeTasks
      BY <1>4 DEF NewTask
    <3>2. QED
      BY <1>4, <3>1 DEF FreeTasks, w
  <2>2. n \in Threads /\ n # t /\ t \in {Reader, Publish}
    BY <1>4, Numbers DEF Threads
  <2>3. /\ at' \in [Threads -> Locals] /\ at'[t] = Resting /\ at'[n] = w
        /\ \A u \in Threads \ {t, n} : at'[u] = at[u]
    BY <1>2, <2>1, <2>2, RestingLocals DEF IInv, TypeOK
  <2>4. TypeOK'
    BY <2>3 DEF IInv, TypeOK, callVars, serverVars
  <2>5. ASSUME NEW u \in Threads PROVE LocalInv(u)'
    <3>1. CASE u \in {t, n}
      BY <1>2, <2>3, <3>1 DEF LocalInv, Resting, Asking, Negotiation, Replacing
    <3>2. CASE u \notin {t, n}
      BY <2>3, <3>2, OthersKeep DEF ClosedStays, callVars
    <3>3. QED
      BY <3>1, <3>2
  <2>6. SourceInv'
    BY DEF IInv, SourceInv, callVars
  <2>7. StrayInv'
    <3>1. at[n].pc \notin Replacing /\ at[t].pc \notin Replacing
      BY <1>1, <2>1 DEF Resting, Replacing
    <3>2. at'[Publish].pc \in {"find", "begin"} => at[Publish].pc \in {"find", "begin"}
      BY <1>2, <2>3, Numbers DEF Resting
    <3>3. \A u \in Threads : at'[u].old = at[u].old \/ at[u].pc \notin Replacing
      BY <2>3, <3>1
    <3>4. QED
      BY <3>2, <3>3, StraysKeep DEF callVars
  <2>8. AskingIsWatched'
    <3>1. ~Watches(n)
      BY <2>1 DEF Watches, Resting
    <3>2. Watches(t) => Watches(n)'
      BY <1>1, <1>2, <2>2, <2>3 DEF Watches, callVars
    <3>3. \A u \in Threads \ {t, n} : Watches(u) => Watches(u)'
      BY <2>3 DEF Watches, callVars
    <3>4. QED
      BY <2>2, <3>1, <3>2, <3>3 DEF IInv, AskingIsWatched, Negotiating, callVars
  <2>9. QED
    BY <2>4, <2>5, <2>6, <2>7, <2>8 DEF IInv
<1>5. QED
  BY <1>3, <1>4

\* pursue() up to its wait, by a coroutine that rests or watches.
LEMMA PursuesMoves ==
    ASSUME IInv, NEW t \in Threads, NEW step \in Steps, Pursues(t, step)
    PROVE  /\ at' \in [Threads -> Locals] /\ \A u \in Threads \ {t} : at'[u] = at[u]
           /\ at'[t].old = 0 /\ at'[t].pc = IF step.delayed THEN "sleep" ELSE "idle"
           /\ step.delayed => at'[t].step = step
<1> DEFINE l == IF step.delayed THEN [Resting EXCEPT !.pc = "sleep", !.step = step, !.life = life]
                ELSE Resting
<1>1. life \in Lives \cup {0}
  BY DEF IInv, TypeOK
<1>2. /\ l \in Locals /\ l.old = 0 /\ l.pc = IF step.delayed THEN "sleep" ELSE "idle"
      /\ step.delayed => l.step = step
  BY <1>1, RestingLocals DEF Locals, Resting, Pcs
<1>3. at' = [at EXCEPT ![t] = l]
  BY DEF Pursues
<1> HIDE DEF l
<1>4. QED
  BY <1>2, <1>3, OneMoves

LEMMA WatchEndsKeeps == ASSUME IInv, NEW t \in Threads, WatchEnds(t) PROVE IInv'
<1> USE DEF WatchEnds
<1>1. at[t].pc = "watch"
  OBVIOUS
<1>2. CASE /\ entry /\ life # 0 /\ source # 0 /\ machine[life].state # "flowing"
           /\ machine[life].generation = at[t].step.generation
  <2> DEFINE next == NoPublisher(machine[life])
  <2>1. /\ machine' = [machine EXCEPT ![life] = next.machine] /\ Pursues(t, next.step)
        /\ life \in Lives /\ machine[life] \in Machines
    BY <1>2 DEF IInv, TypeOK
  <2>2. \/ /\ next = Leaves(machine[life], Nothing)
           /\ Absorbs(machine[life]) \/ machine[life].state = "idle"
        \/ Waits(next)
    BY <2>1, NoPublisherWaits
  <2> HIDE DEF next
  <2>3. /\ next.machine \in Machines /\ next.step \in Steps
        /\ next.machine.state = "requested" =>
             next.step.delayed /\ next.step.generation = next.machine.generation
    <3>1. CASE next = Leaves(machine[life], Nothing) /\ machine[life].state # "requested"
      BY <2>1, <3>1, FreshMachine DEF Leaves
    <3>2. CASE Waits(next)
      BY <3>2 DEF Waits
    <3>3. QED
      BY <2>2, <3>1, <3>2 DEF Absorbs
  <2>4. /\ at' \in [Threads -> Locals] /\ \A u \in Threads \ {t} : at'[u] = at[u]
        /\ at'[t].old = 0 /\ at'[t].pc = IF next.step.delayed THEN "sleep" ELSE "idle"
        /\ next.step.delayed => at'[t].step = next.step
    BY <2>1, <2>3, PursuesMoves
  <2>5. machine' \in [Lives -> Machines] /\ machine'[life] = next.machine
    BY <2>1, <2>3 DEF IInv, TypeOK
  <2>6. TypeOK'
    BY <2>4, <2>5 DEF IInv, TypeOK, serverVars
  <2>7. ASSUME NEW u \in Threads PROVE LocalInv(u)'
    <3>1. CASE u = t
      BY <2>4, <3>1 DEF LocalInv, Asking, Negotiation, Replacing
    <3>2. CASE u # t
      BY <2>4, <3>2, OthersKeep DEF ClosedStays
    <3>3. QED
      BY <3>1, <3>2
  <2>8. SourceInv'
    BY <1>2 DEF IInv, SourceInv
  <2>9. StrayInv'
    <3>1. at'[Publish].pc \in {"find", "begin"} => at[Publish].pc \in {"find", "begin"}
      BY <2>4, Numbers
    <3>2. \A u \in Threads : at'[u].old = at[u].old \/ at[u].pc \notin Replacing
      BY <1>1, <2>4 DEF Replacing
    <3>3. QED
      BY <3>1, <3>2, StraysKeep
  <2>10. AskingIsWatched'
    <3>1. next.machine.state = "requested" => Watches(t)'
      BY <2>3, <2>4, <2>5 DEF Watches
    <3>2. QED
      BY <2>5, <3>1 DEF AskingIsWatched, Negotiating
  <2>11. QED
    BY <2>6, <2>7, <2>8, <2>9, <2>10 DEF IInv
<1>3. CASE ~(/\ entry /\ life # 0 /\ source # 0 /\ machine[life].state # "flowing"
             /\ machine[life].generation = at[t].step.generation)
  <2>1. Rests(t) /\ UNCHANGED <<callVars, inbox, outbox, serverVars>>
    BY <1>3 DEF callVars
  <2>2. at' \in [Threads -> Locals] /\ at'[t] = Resting /\ \A u \in Threads \ {t} : at'[u] = at[u]
    BY <2>1, RestingLocals, OneMoves DEF Rests
  <2>3. LocalInv(t)'
    BY <2>2 DEF LocalInv, Resting, Asking, Negotiation, Replacing
  <2>4. AskingIsWatched'
    <3>1. Negotiating /\ machine[life].state = "requested" => ~Watches(t)
      BY <1>1, <1>3 DEF Watches, Negotiating
    <3>2. \A u \in Threads \ {t} : Watches(u) => Watches(u)'
      BY <2>1, <2>2 DEF Watches, callVars
    <3>3. QED
      BY <2>1, <3>1, <3>2 DEF IInv, AskingIsWatched, Negotiating, callVars
  <2>5. QED
    BY <1>1, <2>1, <2>2, <2>3, <2>4, MovesKeep, QueuesKept DEF Replacing, Resting
<1>4. QED
  BY <1>2, <1>3
-----------------------------------------------------------------------------
(* publish, and whoever starts to listen. *)

LEMMA PublishLooksKeeps == ASSUME IInv, PublishLooks PROVE IInv'
<1> USE DEF PublishLooks
<1>1. at[Publish].pc = "find" /\ "begin" \in Pcs /\ Publish \in Threads
  BY Numbers DEF Pcs
<1>2. /\ at' \in [Threads -> Locals] /\ \A u \in Threads \ {Publish} : at'[u] = at[u]
      /\ \/ at'[Publish] = Resting
         \/ at'[Publish].pc = "begin" /\ at'[Publish].old = at[Publish].old
  <2>1. CASE Rests(Publish)
    BY <1>1, <2>1, RestingLocals, OneMoves DEF Rests
  <2>2. CASE Goes(Publish, "begin")
    BY <1>1, <2>2, GoesMoves
  <2>3. QED
    BY <2>1, <2>2
<1>3. LocalInv(Publish)'
  BY <1>1, <1>2, LocalsOf DEF LocalInv, Resting, Asking, Negotiation, Replacing, callVars
<1>4. AskingIsWatched'
  <2>1. \A u \in Threads : Watches(u) => Watches(u)'
    BY <1>1, <1>2 DEF Watches, callVars
  <2>2. QED
    BY <2>1 DEF IInv, AskingIsWatched, Negotiating, callVars
<1>5. QED
  BY <1>1, <1>2, <1>3, <1>4, MovesKeep, QueuesKept DEF Replacing

LEMMA StartListeningKeeps ==
    ASSUME IInv, NEW t \in Threads, StartListening(t), UNCHANGED serverVars, QueueTypes',
           \/ t = Publish /\ at[t].pc = "begin"
           \/ t = Reader /\ at[t].pc = "idle" /\ ~Alive
    PROVE  IInv'
<1> USE DEF StartListening
<1> DEFINE first == Start(Fresh)
<1> DEFINE l == IF entry THEN [Resting EXCEPT !.pc = "send", !.life = NewLife, !.step = first.step]
                ELSE Resting
<1>1. OpenSubscriber /\ at' = [at EXCEPT ![t] = l] /\ UNCHANGED entry
  BY DEF Rests
<1>2. IF entry THEN /\ NewLife \in Lives /\ life' = NewLife
                    /\ machine' = [machine EXCEPT ![NewLife] = first.machine]
               ELSE UNCHANGED <<life, machine>>
  BY DEF NewLife, FreeLives
<1>3. life' \in Lives \cup {0} /\ machine' \in [Lives -> Machines] /\ (entry => life' \in Lives)
  BY <1>2, FreshMachine DEF IInv, TypeOK
<1>4. l \in Locals /\ l.old = 0 /\ IF entry THEN l.pc = "send" /\ l.life = life' ELSE l = Resting
  BY <1>2, RestingLocals, FreshMachine DEF Locals, Resting, Pcs
<1> HIDE DEF l, first
<1>5. at' \in [Threads -> Locals] /\ at'[t] = l /\ \A u \in Threads \ {t} : at'[u] = at[u]
  BY <1>1, <1>4, OneMoves
<1>6. /\ source' \in Conns /\ conn' \in [Conns -> ConnRecords] /\ ClosedStays
      /\ conn'[source'].receiving = FALSE
      /\ \A c \in Conns \ {source'} : conn'[c] = conn[c]
  BY <1>1, NewConnIsFree
<1>7. TypeOK'
  <2>1. CallTypes' /\ LocalTypes' /\ ServerTypes'
    BY <1>1, <1>3, <1>5, <1>6 DEF IInv, TypeOK, CallTypes, LocalTypes, ServerTypes, serverVars
  <2>2. QED
    BY <2>1 DEF TypeOK, CallTypes, ConnRecords, LocalTypes, QueueTypes, ServerTypes
<1>8. ASSUME NEW u \in Threads PROVE LocalInv(u)'
  <2>1. CASE u = t
    BY <1>3, <1>4, <1>5, <2>1 DEF LocalInv, Resting, Asking, Negotiation, Replacing
  <2>2. CASE u # t
    BY <1>5, <1>6, <2>2, OthersKeep
  <2>3. QED
    BY <2>1, <2>2
<1>9. SourceInv'
  BY <1>1, <1>3, <1>6, Numbers DEF SourceInv
<1>10. StrayInv'
  <2>1. ASSUME NEW c \in Strays', c # source PROVE c \in Strays
    <3>1. c \in Conns /\ conn[c].state = "open" /\ c # 0
      BY <1>6, Numbers DEF Strays
    <3>2. at[t].old # c
      BY <3>1, LocalsOf DEF LocalInv, Replacing
    <3>3. \A u \in Threads \ {t} : at[u].old # c
      BY <1>5 DEF Strays
    <3>4. QED
      BY <2>1, <3>1, <3>2, <3>3 DEF Strays
  <2>2. CASE t = Publish
    <3>1. Strays = {} /\ Strays' \subseteq {source}
      BY <2>1, <2>2, Numbers DEF IInv, StrayInv
    <3>2. at'[Publish].pc \notin {"find", "begin"}
      BY <1>4, <1>5, <2>2 DEF Resting
    <3>3. \E c \in Conns : Strays' \subseteq {c}
      BY <3>1, <1>6 DEF IInv, TypeOK, Strays
    <3>4. QED
      BY <3>2, <3>3 DEF StrayInv
  <2>3. CASE t = Reader /\ ~Alive
    <3>1. source \notin Strays'
      BY <1>6, <2>3, Numbers DEF Strays, Alive
    <3>2. at'[Publish].pc = at[Publish].pc
      BY <1>5, <2>3, Numbers
    <3>3. Strays' \subseteq Strays
      BY <2>1, <3>1
    <3>4. QED
      BY <3>2, <3>3, StraysFewer
  <2>4. QED
    BY <2>2, <2>3
<1>11. AskingIsWatched'
  <2>1. entry => Watches(t)'
    BY <1>4, <1>5 DEF Watches
  <2>2. QED
    BY <1>1, <2>1 DEF AskingIsWatched, Negotiating
<1>12. QED
  BY <1>7, <1>8, <1>9, <1>10, <1>11 DEF IInv

LEMMA PublishStartsKeeps == ASSUME IInv, PublishStarts PROVE IInv'
  BY StartListeningKeeps, QueuesKept, Numbers DEF PublishStarts
-----------------------------------------------------------------------------
(* The reader. *)

LEMMA ReadsMessage ==
    ASSUME IInv, NEW type, Reads(type)
    PROVE  /\ at[Reader].pc = "idle" /\ Head(inbox) \in ToBridge /\ Head(inbox).type = type
           /\ inbox' \in Seq(ToBridge) /\ (UNCHANGED outbox => QueueTypes')
<1>1. inbox # <<>> /\ inbox \in Seq(ToBridge) /\ outbox \in Seq(ToServer)
  BY DEF IInv, TypeOK, Reads
<1>2. Head(inbox) \in ToBridge /\ Tail(inbox) \in Seq(ToBridge)
  BY <1>1, HeadTailProperties
<1>3. QED
  BY <1>1, <1>2 DEF Reads, QueueTypes

\* A message that leaves the call and the reader as they are.
LEMMA ReadsNothing ==
    ASSUME IInv, UNCHANGED <<callVars, at, outbox, serverVars>>, NEW type, Reads(type)
    PROVE  IInv'
  BY ReadsMessage, OutsideKeeps DEF IInv, TypeOK, ServerTypes, serverVars

\* What a step makes of one connection; none of it opens one.
LEMMA ConnsChange ==
    ASSUME IInv, NEW c \in Conns, NEW r \in ConnRecords, conn' = [conn EXCEPT ![c] = r]
    PROVE  conn' \in [Conns -> ConnRecords] /\ conn'[c] = r /\ \A d \in Conns \ {c} : conn'[d] = conn[d]
  BY DEF IInv, TypeOK, ConnRecords
LEMMA RecordAnswered ==
    ASSUME NEW r \in ConnRecords
    PROVE  /\ [r EXCEPT !.answered = TRUE] \in ConnRecords
           /\ [r EXCEPT !.answered = TRUE].state = r.state
           /\ [r EXCEPT !.answered = TRUE].receiving = r.receiving
  BY DEF ConnRecords
LEMMA RecordReceives ==
    ASSUME NEW r \in ConnRecords
    PROVE  /\ [r EXCEPT !.receiving = TRUE] \in ConnRecords
           /\ [r EXCEPT !.receiving = TRUE].state = r.state
  BY DEF ConnRecords
LEMMA RecordClosed ==
    ASSUME NEW r \in ConnRecords
    PROVE  /\ [r EXCEPT !.state = "closed"] \in ConnRecords
           /\ [r EXCEPT !.state = "closed"].state = "closed"
           /\ [r EXCEPT !.state = "closed"].receiving = r.receiving
  BY DEF ConnRecords
LEMMA ConnAnswered ==
    ASSUME IInv, NEW c \in Conns, conn' = [conn EXCEPT ![c].answered = TRUE]
    PROVE  /\ conn' \in [Conns -> ConnRecords]
           /\ \A d \in Conns : conn'[d].state = conn[d].state /\ conn'[d].receiving = conn[d].receiving
<1> DEFINE r == [conn[c] EXCEPT !.answered = TRUE]
<1>1. conn[c] \in ConnRecords
  BY DEF IInv, TypeOK, ConnRecords
<1>2. r \in ConnRecords /\ r.state = conn[c].state /\ r.receiving = conn[c].receiving
  BY <1>1, RecordAnswered
<1>3. conn' = [conn EXCEPT ![c] = r]
  OBVIOUS
<1> HIDE DEF r
<1>4. QED
  BY <1>2, <1>3, ConnsChange
LEMMA ConnCloses ==
    ASSUME IInv, NEW c \in Conns, conn' = [conn EXCEPT ![c].state = "closed"]
    PROVE  /\ conn' \in [Conns -> ConnRecords] /\ ClosedStays
           /\ \A d \in Conns : /\ conn'[d].receiving = conn[d].receiving
                               /\ conn'[d].state = "open" => conn[d].state = "open" /\ d # c
<1> DEFINE r == [conn[c] EXCEPT !.state = "closed"]
<1>1. conn[c] \in ConnRecords
  BY DEF IInv, TypeOK, ConnRecords
<1>2. r \in ConnRecords /\ r.state = "closed" /\ r.receiving = conn[c].receiving
  BY <1>1, RecordClosed
<1>3. conn' = [conn EXCEPT ![c] = r]
  OBVIOUS
<1> HIDE DEF r
<1>4. QED
  BY <1>2, <1>3, ConnsChange DEF ClosedStays

LEMMA ReadsOfferKeeps == ASSUME IInv, ReadsOffer PROVE IInv'
<1> USE DEF ReadsOffer
<1> DEFINE next  == Offer(machine[life], Head(inbox).sid)
<1> DEFINE local == [Resting EXCEPT !.step = next.step, !.life = life]
<1>1. CASE ~Negotiating \/ Absorbs(machine[life])
  BY <1>1, ReadsNothing DEF callVars
<1>2. CASE Negotiating /\ ~Absorbs(machine[life])
  <2>1. /\ entry /\ life \in Lives /\ source \in Conns /\ machine[life] \in Machines
        /\ ~conn[source].receiving
    BY <1>2 DEF IInv, TypeOK, SourceInv, Negotiating, Absorbs
  <2>2. at[Reader].pc = "idle" /\ Head(inbox).sid \in Sids /\ QueueTypes'
    BY ReadsMessage DEF ToBridge
  <2>3. /\ next.machine \in Machines /\ next.step \in Steps
        /\ next.machine.state = "answering" /\ next.step.sid \in Sids
    BY <1>2, <2>1, <2>2, OfferAnswers
  <2>4. /\ machine' = [machine EXCEPT ![life] = next.machine]
        /\ \/ /\ OpenSubscriber
              /\ at' = [at EXCEPT ![Reader] = [local EXCEPT !.pc = "replace", !.conn = NewConn,
                                                            !.old = source]]
           \/ /\ conn' = [conn EXCEPT ![source].answered = TRUE] /\ UNCHANGED source
              /\ at' = [at EXCEPT ![Reader] = [local EXCEPT !.pc = "describe", !.conn = source]]
    BY <1>2, <2>1
  <2> HIDE DEF next
  <2>5. local \in Locals /\ local.step.sid \in Sids /\ local.life = life /\ local.old = 0
    BY <2>1, <2>3, RestingLocals DEF Locals, Resting
  <2>6. machine' \in [Lives -> Machines] /\ machine'[life].state = "answering"
    BY <2>1, <2>3, <2>4 DEF IInv, TypeOK
  <2>7. AskingIsWatched'
    BY <2>6 DEF AskingIsWatched
  <2> HIDE DEF local
  <2>8. CASE /\ OpenSubscriber
             /\ at' = [at EXCEPT ![Reader] = [local EXCEPT !.pc = "replace", !.conn = NewConn,
                                                           !.old = source]]
    <3> DEFINE l == [local EXCEPT !.pc = "replace", !.conn = NewConn, !.old = source]
    <3>1. /\ source' \in Conns /\ source' = NewConn /\ conn' \in [Conns -> ConnRecords]
          /\ ClosedStays /\ conn'[source'].receiving = FALSE
          /\ \A c \in Conns \ {source'} : conn'[c] = conn[c]
      BY <2>8, NewConnIsFree
    <3>2. /\ l \in Locals /\ l.pc = "replace" /\ l.conn \in Conns /\ l.old = source
          /\ l.life = life /\ l.step.sid \in Sids
      BY <2>1, <2>5, <3>1 DEF Locals, Pcs
    <3> HIDE DEF l
    <3>3. at' \in [Threads -> Locals] /\ at'[Reader] = l
          /\ \A u \in Threads \ {Reader} : at'[u] = at[u]
      BY <2>8, <3>2, OneMoves, Numbers DEF l
    <3>4. TypeOK'
      <4>1. CallTypes' /\ LocalTypes' /\ ServerTypes'
        BY <2>6, <3>1, <3>3 DEF IInv, TypeOK, CallTypes, LocalTypes, ServerTypes, serverVars
      <4>2. QED
        BY <2>2, <4>1 DEF TypeOK, CallTypes, ConnRecords, LocalTypes, QueueTypes, ServerTypes
    <3>5. ASSUME NEW u \in Threads PROVE LocalInv(u)'
      <4>1. CASE u = Reader
        BY <2>1, <3>2, <3>3, <4>1 DEF LocalInv, Asking, Negotiation, Replacing
      <4>2. CASE u # Reader
        BY <3>1, <3>3, <4>2, OthersKeep
      <4>3. QED
        BY <4>1, <4>2
    <3>6. SourceInv'
      BY <2>1, <3>1, Numbers DEF SourceInv
    <3>7. StrayInv'
      <4>1. ASSUME NEW c \in Strays' PROVE c \in Strays
        <5>1. c \in Conns /\ conn[c].state = "open" /\ c # source /\ c # 0
          BY <3>1, <3>2, <3>3, Numbers DEF Strays
        <5>2. at[Reader].old # c
          BY <2>2, <5>1, LocalsOf, Numbers DEF LocalInv, Replacing
        <5>3. \A u \in Threads \ {Reader} : at[u].old # c
          BY <3>3 DEF Strays
        <5>4. QED
          BY <5>1, <5>2, <5>3 DEF Strays
      <4>2. at'[Publish].pc = at[Publish].pc
        BY <3>3, Numbers
      <4>3. QED
        BY <4>1, <4>2, StraysFewer
    <3>8. QED
      BY <2>7, <3>4, <3>5, <3>6, <3>7 DEF IInv
  <2>9. CASE /\ conn' = [conn EXCEPT ![source].answered = TRUE] /\ UNCHANGED source
             /\ at' = [at EXCEPT ![Reader] = [local EXCEPT !.pc = "describe", !.conn = source]]
    <3> DEFINE l == [local EXCEPT !.pc = "describe", !.conn = source]
    <3>1. /\ conn' \in [Conns -> ConnRecords]
          /\ \A c \in Conns : /\ conn'[c].state = conn[c].state
                              /\ conn'[c].receiving = conn[c].receiving
      BY <2>1, <2>9, ConnAnswered
    <3>2. /\ l \in Locals /\ l.pc = "describe" /\ l.conn \in Conns /\ l.old = 0
          /\ l.life = life /\ l.step.sid \in Sids
      BY <2>1, <2>5 DEF Locals, Pcs
    <3> HIDE DEF l
    <3>3. at' \in [Threads -> Locals] /\ at'[Reader] = l
          /\ \A u \in Threads \ {Reader} : at'[u] = at[u]
      BY <2>9, <3>2, OneMoves, Numbers DEF l
    <3>4. TypeOK'
      <4>1. CallTypes' /\ LocalTypes' /\ ServerTypes'
        BY <2>6, <2>9, <3>1, <3>3 DEF IInv, TypeOK, CallTypes, LocalTypes, ServerTypes, serverVars
      <4>2. QED
        BY <2>2, <4>1 DEF TypeOK, CallTypes, ConnRecords, LocalTypes, QueueTypes, ServerTypes
    <3>5. ASSUME NEW u \in Threads PROVE LocalInv(u)'
      <4>1. CASE u = Reader
        BY <2>1, <3>2, <3>3, <4>1 DEF LocalInv, Asking, Negotiation, Replacing
      <4>2. CASE u # Reader
        BY <3>1, <3>3, <4>2, OthersKeep DEF ClosedStays
      <4>3. QED
        BY <4>1, <4>2
    <3>6. SourceInv'
      BY <2>1, <2>9, <3>1, Numbers DEF SourceInv
    <3>7. StrayInv'
      <4>1. ASSUME NEW c \in Strays' PROVE c \in Strays
        <5>1. c \in Conns /\ conn[c].state = "open" /\ c # source /\ c # 0
          BY <2>9, <3>1, Numbers DEF Strays
        <5>2. at[Reader].old # c
          BY <2>2, <5>1, LocalsOf, Numbers DEF LocalInv, Replacing
        <5>3. \A u \in Threads \ {Reader} : at[u].old # c
          BY <3>3 DEF Strays
        <5>4. QED
          BY <5>1, <5>2, <5>3 DEF Strays
      <4>2. at'[Publish].pc = at[Publish].pc
        BY <3>3, Numbers
      <4>3. QED
        BY <4>1, <4>2, StraysFewer
    <3>8. QED
      BY <2>7, <3>4, <3>5, <3>6, <3>7 DEF IInv
  <2>10. QED
    BY <2>4, <2>8, <2>9
<1>3. QED
  BY <1>1, <1>2

LEMMA ReaderReplacedKeeps == ASSUME IInv, ReaderReplaced PROVE IInv'
<1> USE DEF ReaderReplaced
<1> DEFINE old == at[Reader].old
<1> DEFINE new == at[Reader].conn
<1>1. /\ at[Reader].pc = "replace" /\ old \in Conns /\ new \in Conns /\ Reader \in Threads
      /\ "describe" \in Pcs /\ at[Reader].life \in Lives /\ at[Reader].step.sid \in Sids
  BY LocalsOf, Numbers DEF LocalInv, Replacing, Negotiation, Pcs
<1>2. /\ at' \in [Threads -> Locals] /\ \A u \in Threads \ {Reader} : at'[u] = at[u]
      /\ at'[Reader].pc = "describe" /\ at'[Reader].life = at[Reader].life
      /\ at'[Reader].step = at[Reader].step /\ at'[Reader].conn = new /\ at'[Reader].old = old
  BY <1>1, GoesMoves
<1> HIDE DEF old, new
<1>3. /\ conn' \in [Conns -> ConnRecords]
      /\ \A d \in Conns : /\ conn'[d].receiving = conn[d].receiving
                          /\ conn'[d].state = IF d = old THEN "closed" ELSE conn[d].state
  <2> DEFINE q == [conn EXCEPT ![old] = [conn[old] EXCEPT !.state = "closed"]]
  <2>1. /\ q \in [Conns -> ConnRecords]
        /\ \A d \in Conns : /\ q[d].receiving = conn[d].receiving
                            /\ q[d].state = IF d = old THEN "closed" ELSE conn[d].state
    <3>1. conn \in [Conns -> ConnRecords] /\ conn[old] \in ConnRecords
      BY <1>1 DEF IInv, TypeOK, ConnRecords
    <3> DEFINE r == [conn[old] EXCEPT !.state = "closed"]
    <3>2. r \in ConnRecords /\ r.state = "closed" /\ r.receiving = conn[old].receiving
      BY <3>1, RecordClosed
    <3> HIDE DEF r
    <3>3. q = [conn EXCEPT ![old] = r]
      BY DEF r
    <3>4. QED
      BY <1>1, <3>1, <3>2, <3>3
  <2>2. conn' = [q EXCEPT ![new] = [q[new] EXCEPT !.answered = TRUE]]
    BY DEF old, new
  <2> HIDE DEF q
  <2> DEFINE r == [q[new] EXCEPT !.answered = TRUE]
  <2>3. r \in ConnRecords /\ r.state = q[new].state /\ r.receiving = q[new].receiving
    BY <1>1, <2>1, RecordAnswered
  <2> HIDE DEF r
  <2>4. conn' = [q EXCEPT ![new] = r]
    BY <2>2 DEF r
  <2>5. QED
    BY <1>1, <2>1, <2>3, <2>4
<1>4. TypeOK'
  BY <1>2, <1>3 DEF IInv, TypeOK, ConnRecords, serverVars
<1>5. ASSUME NEW u \in Threads PROVE LocalInv(u)'
  <2>1. CASE u = Reader
    BY <1>1, <1>2, <1>3, <2>1, Numbers DEF LocalInv, Asking, Negotiation, Replacing
  <2>2. CASE u # Reader
    BY <1>2, <1>3, <2>2, OthersKeep DEF ClosedStays
  <2>3. QED
    BY <2>1, <2>2
<1>6. SourceInv'
  BY <1>3 DEF IInv, SourceInv, TypeOK
<1>7. StrayInv'
  <2>1. \A u \in Threads : at'[u].old = at[u].old
    BY <1>2 DEF old
  <2>2. Strays' \subseteq Strays
    BY <1>3, <2>1 DEF Strays
  <2>3. at'[Publish].pc = at[Publish].pc
    BY <1>2, Numbers
  <2>4. QED
    BY <2>2, <2>3, StraysFewer
<1>8. AskingIsWatched'
  <2>1. \A u \in Threads : Watches(u) => Watches(u)'
    BY <1>1, <1>2 DEF Watches
  <2>2. QED
    BY <2>1 DEF IInv, AskingIsWatched, Negotiating
<1>9. QED
  BY <1>4, <1>5, <1>6, <1>7, <1>8 DEF IInv

\* The reader on its way with an answer is nobody's watcher.
LEMMA ReaderIsNoWatcher ==
    ASSUME IInv, at[Reader].pc \in {"idle", "replace", "describe", "answer", "told"},
           UNCHANGED callVars, \A u \in Threads \ {Reader} : at'[u] = at[u]
    PROVE  AskingIsWatched'
<1>1. ~Watches(Reader)
  BY DEF Watches
<1>2. \A u \in Threads \ {Reader} : Watches(u) => Watches(u)'
  BY DEF Watches, callVars
<1>3. QED
  BY <1>1, <1>2 DEF IInv, AskingIsWatched, Negotiating, callVars

LEMMA ReaderRests ==
    ASSUME IInv, Rests(Reader), at[Reader].pc \in {"idle", "describe", "answer", "told"},
           UNCHANGED <<callVars, inbox, outbox, serverVars>>
    PROVE  IInv'
<1>1. /\ at' \in [Threads -> Locals] /\ at'[Reader] = Resting
      /\ \A u \in Threads \ {Reader} : at'[u] = at[u]
  BY RestingLocals, OneMoves, Numbers DEF Rests
<1>2. LocalInv(Reader)'
  BY <1>1 DEF LocalInv, Resting, Asking, Negotiation, Replacing
<1>3. AskingIsWatched'
  BY <1>1, ReaderIsNoWatcher
<1>4. QED
  BY <1>1, <1>2, <1>3, MovesKeep, QueuesKept, Numbers DEF Replacing, Resting

LEMMA ReaderGoes ==
    ASSUME IInv, NEW to \in {"answer", "told"}, Goes(Reader, to), UNCHANGED <<callVars, serverVars>>,
           at[Reader].pc \in {"describe", "answer"}, QueueTypes'
    PROVE  IInv'
<1>1. Reader \in Threads /\ to \in Pcs
  BY Numbers DEF Pcs
<1>2. /\ at' \in [Threads -> Locals] /\ \A u \in Threads \ {Reader} : at'[u] = at[u]
      /\ at'[Reader].pc = to /\ at'[Reader].life = at[Reader].life
      /\ at'[Reader].step = at[Reader].step
      /\ at'[Reader].conn = at[Reader].conn /\ at'[Reader].old = at[Reader].old
  BY <1>1, GoesMoves
<1>3. LocalInv(Reader)'
  BY <1>1, <1>2, LocalsOf DEF LocalInv, Asking, Negotiation, Replacing, callVars
<1>4. AskingIsWatched'
  BY <1>2, ReaderIsNoWatcher
<1>5. QED
  BY <1>1, <1>2, <1>3, <1>4, MovesKeep DEF Replacing

LEMMA ReaderDescribesKeeps == ASSUME IInv, ReaderDescribes PROVE IInv'
  BY ReaderRests, ReaderGoes, QueuesKept DEF ReaderDescribes

LEMMA ReaderAnswersKeeps == ASSUME IInv, ReaderAnswers PROVE IInv'
<1> USE DEF ReaderAnswers
<1>1. CASE Rests(Reader) /\ UNCHANGED outbox
  BY <1>1, ReaderRests
<1>2. CASE /\ outbox' = Append(outbox, [type |-> "answer", sid |-> at[Reader].step.sid,
                                        conn |-> at[Reader].conn])
           /\ Goes(Reader, "told")
  <2>1. at[Reader].step.sid \in Sids /\ at[Reader].conn \in Conns
    BY LocalsOf, Numbers DEF LocalInv, Negotiation
  <2>2. [type |-> "answer", sid |-> at[Reader].step.sid, conn |-> at[Reader].conn] \in ToServer
    BY <2>1 DEF ToServer
  <2>3. QueueTypes'
    BY <1>2, <2>2 DEF IInv, TypeOK, QueueTypes
  <2>4. QED
    BY <1>2, <2>3, ReaderGoes
<1>3. QED
  BY <1>1, <1>2

LEMMA ReaderAnsweredKeeps == ASSUME IInv, ReaderAnswered PROVE IInv'
<1> USE DEF ReaderAnswered
<1> DEFINE l == at[Reader].life
<1> DEFINE m == AnswerSent(machine[l], at[Reader].step.generation)
<1>1. at[Reader].pc = "told" /\ l \in Lives /\ Reader \in Threads
  BY LocalsOf, Numbers DEF LocalInv, Negotiation
<1>2. machine[l] \in Machines
  BY <1>1 DEF IInv, TypeOK
<1>3. /\ m \in Machines
      /\ machine[l].state = "flowing" => m = machine[l]
      /\ m.state = "requested" => m = machine[l]
  BY <1>2, AnswerSentKeeps
<1>4. machine' = [machine EXCEPT ![l] = m]
  OBVIOUS
<1> HIDE DEF m, l
<1>5. /\ at' \in [Threads -> Locals] /\ at'[Reader] = Resting
      /\ \A u \in Threads \ {Reader} : at'[u] = at[u]
  BY <1>1, RestingLocals, OneMoves DEF Rests
<1>6. /\ machine' \in [Lives -> Machines] /\ machine'[l] = m
      /\ \A k \in Lives \ {l} : machine'[k] = machine[k]
  BY <1>1, <1>3, <1>4 DEF IInv, TypeOK
<1>7. TypeOK'
  BY <1>5, <1>6 DEF IInv, TypeOK, serverVars
<1>8. ASSUME NEW u \in Threads PROVE LocalInv(u)'
  <2>1. CASE u = Reader
    BY <1>5, <2>1 DEF LocalInv, Resting, Asking, Negotiation, Replacing
  <2>2. CASE u # Reader
    BY <1>5, <2>2, OthersKeep DEF ClosedStays
  <2>3. QED
    BY <2>1, <2>2
<1>9. SourceInv'
  BY <1>3, <1>6 DEF IInv, SourceInv, TypeOK
<1>10. StrayInv'
  <2>1. \A u \in Threads : at'[u].old = at[u].old \/ at[u].pc \notin Replacing
    BY <1>1, <1>5 DEF Replacing
  <2>2. at'[Publish].pc = at[Publish].pc
    BY <1>5, Numbers
  <2>3. QED
    BY <2>1, <2>2, StraysKeep
<1>11. AskingIsWatched'
  <2> SUFFICES ASSUME Negotiating, machine'[life].state = "requested"
               PROVE  \E u \in Threads : Watches(u)'
    BY DEF AskingIsWatched, Negotiating
  <2>1. machine'[life] = machine[life]
    BY <1>3, <1>6 DEF IInv, TypeOK, Negotiating
  <2>2. ~Watches(Reader)
    BY <1>1 DEF Watches
  <2>3. \A u \in Threads \ {Reader} : Watches(u) => Watches(u)'
    BY <1>5, <2>1 DEF Watches
  <2>4. QED
    BY <2>1, <2>2, <2>3 DEF IInv, AskingIsWatched
<1>12. QED
  BY <1>7, <1>8, <1>9, <1>10, <1>11 DEF IInv

LEMMA ReadsRefusalKeeps == ASSUME IInv, ReadsRefusal PROVE IInv'
<1> USE DEF ReadsRefusal
<1>1. at[Reader].pc = "idle" /\ QueueTypes' /\ Reader \in Threads
  BY ReadsMessage, Numbers
<1>2. CASE ~entry \/ life = 0
  BY <1>2, ReadsNothing DEF callVars
<1>3. CASE entry /\ life # 0
  <2> DEFINE next == Refused(machine[life])
  <2>1. /\ machine' = [machine EXCEPT ![life] = next.machine] /\ Pursues(Reader, next.step)
        /\ life \in Lives /\ machine[life] \in Machines
    BY <1>3 DEF IInv, TypeOK
  <2>2. \/ next = Leaves(machine[life], Nothing) /\ Absorbs(machine[life])
        \/ Waits(next) /\ ~Absorbs(machine[life])
    BY <2>1, RefusedWaits
  <2> HIDE DEF next
  <2>3. /\ next.machine \in Machines /\ next.step \in Steps
        /\ next.machine.state = "requested" =>
             next.step.delayed /\ next.step.generation = next.machine.generation
        /\ machine[life].state = "flowing" => next.machine = machine[life]
    <3>1. CASE next = Leaves(machine[life], Nothing) /\ Absorbs(machine[life])
      BY <2>1, <3>1, FreshMachine DEF Leaves, Absorbs
    <3>2. CASE Waits(next) /\ ~Absorbs(machine[life])
      BY <3>2 DEF Waits, Absorbs
    <3>3. QED
      BY <2>2, <3>1, <3>2
  <2>4. /\ at' \in [Threads -> Locals] /\ \A u \in Threads \ {Reader} : at'[u] = at[u]
        /\ at'[Reader].old = 0 /\ at'[Reader].pc = IF next.step.delayed THEN "sleep" ELSE "idle"
        /\ next.step.delayed => at'[Reader].step = next.step
    BY <1>1, <2>1, <2>3, PursuesMoves
  <2>5. machine' \in [Lives -> Machines] /\ machine'[life] = next.machine
    BY <2>1, <2>3 DEF IInv, TypeOK
  <2>6. TypeOK'
    BY <1>1, <2>4, <2>5 DEF IInv, TypeOK, serverVars, QueueTypes
  <2>7. ASSUME NEW u \in Threads PROVE LocalInv(u)'
    <3>1. CASE u = Reader
      BY <2>4, <3>1 DEF LocalInv, Asking, Negotiation, Replacing
    <3>2. CASE u # Reader
      BY <2>4, <3>2, OthersKeep DEF ClosedStays
    <3>3. QED
      BY <3>1, <3>2
  <2>8. SourceInv'
    BY <2>3, <2>5 DEF IInv, SourceInv
  <2>9. StrayInv'
    <3>1. at'[Publish].pc = at[Publish].pc
      BY <2>4, Numbers
    <3>2. \A u \in Threads : at'[u].old = at[u].old \/ at[u].pc \notin Replacing
      BY <1>1, <2>4 DEF Replacing
    <3>3. QED
      BY <3>1, <3>2, StraysKeep
  <2>10. AskingIsWatched'
    <3>1. next.machine.state = "requested" => Watches(Reader)'
      BY <2>3, <2>4, <2>5 DEF Watches
    <3>2. QED
      BY <1>1, <2>5, <3>1 DEF AskingIsWatched, Negotiating
  <2>11. QED
    BY <2>6, <2>7, <2>8, <2>9, <2>10 DEF IInv
<1>4. QED
  BY <1>2, <1>3

\* A source is closed, by what ends the call, the participant, or the connection.
LEMMA SourceCloses ==
    ASSUME IInv, source \in Conns, conn' = [conn EXCEPT ![source].state = "closed"],
           source' \in {source, 0}, entry' \in BOOLEAN, entry' => entry,
           life' \in {life, 0}, source' = source => life' = life \/ ~entry',
           UNCHANGED <<machine, at, serverVars>>, QueueTypes',
           source' = source \/ ~entry' \/ life' = 0
    PROVE  IInv'
<1>1. /\ conn' \in [Conns -> ConnRecords] /\ ClosedStays
      /\ \A d \in Conns : /\ conn'[d].receiving = conn[d].receiving
                          /\ conn'[d].state = "open" => conn[d].state = "open" /\ d # source
  BY ConnCloses
<1>2. TypeOK'
  <2>1. CallTypes' /\ LocalTypes' /\ ServerTypes'
    BY <1>1 DEF IInv, TypeOK, CallTypes, LocalTypes, ServerTypes, serverVars
  <2>2. QED
    BY <2>1 DEF TypeOK, CallTypes, ConnRecords, LocalTypes, QueueTypes, ServerTypes
<1>3. ASSUME NEW u \in Threads PROVE LocalInv(u)'
  BY <1>1, OthersKeep
<1>4. SourceInv'
  BY <1>1, Numbers DEF IInv, SourceInv
<1>5. StrayInv'
  BY <1>1, StraysFewer DEF Strays
<1>6. AskingIsWatched'
  <2>1. Negotiating' => Negotiating /\ life' = life
    BY Numbers DEF Negotiating
  <2>2. life' = life => \A u \in Threads : Watches(u) => Watches(u)'
    BY DEF Watches
  <2>3. QED
    BY <2>1, <2>2 DEF IInv, AskingIsWatched
<1>7. QED
  BY <1>2, <1>3, <1>4, <1>5, <1>6 DEF IInv

LEMMA ReadsLeftKeeps == ASSUME IInv, ReadsLeft PROVE IInv'
<1> USE DEF ReadsLeft
<1>1. QueueTypes'
  BY ReadsMessage
<1>2. CASE entry /\ source # 0
  <2>1. source \in Conns /\ entry \in BOOLEAN
    BY <1>2 DEF IInv, TypeOK
  <2>2. QED
    BY <1>1, <1>2, <2>1, SourceCloses, Numbers
<1>3. CASE ~(entry /\ source # 0)
  BY <1>3, ReadsNothing DEF callVars
<1>4. QED
  BY <1>2, <1>3

LEMMA ReadsEnteredKeeps == ASSUME IInv, ReadsEntered PROVE IInv'
<1> USE DEF ReadsEntered
<1>1. at[Reader].pc = "idle" /\ QueueTypes' /\ Reader \in Threads
  BY ReadsMessage, Numbers
<1>2. CASE entry /\ ~Alive
  BY <1>1, <1>2, StartListeningKeeps
<1>3. CASE ~(entry /\ ~Alive)
  BY <1>3, ReadsNothing
<1>4. QED
  BY <1>2, <1>3
-----------------------------------------------------------------------------
(* The end of the call, the participant, the server and the media. *)

LEMMA TearDownKeeps == ASSUME IInv, TearDown PROVE IInv'
<1> USE DEF TearDown
<1>1. QueueTypes'
  BY QueuesKept
<1>2. CASE source = 0
  <2>1. UNCHANGED <<source, life, machine, conn, at, inbox, outbox, serverVars>> /\ ~entry'
    BY <1>2
  <2>2. TypeOK'
    BY <2>1 DEF IInv, TypeOK, serverVars
  <2>3. ASSUME NEW u \in Threads PROVE LocalInv(u)'
    BY <2>1, OthersKeep DEF ClosedStays
  <2>4. SourceInv' /\ AskingIsWatched'
    BY <2>1 DEF SourceInv, AskingIsWatched, Negotiating
  <2>5. StrayInv'
    BY <2>1, StraysFewer DEF Strays
  <2>6. QED
    BY <2>2, <2>3, <2>4, <2>5 DEF IInv
<1>3. CASE source # 0
  <2>1. source \in Conns
    BY <1>3 DEF IInv, TypeOK
  <2>2. QED
    BY <1>1, <1>3, <2>1, SourceCloses
<1>4. QED
  BY <1>2, <1>3

LEMMA ConnectionFailsKeeps == ASSUME IInv, ConnectionFails PROVE IInv'
<1>1. source \in Conns /\ entry \in BOOLEAN
  BY DEF IInv, TypeOK, ConnectionFails, Alive
<1>2. QED
  BY <1>1, SourceCloses, QueuesKept DEF ConnectionFails

\* A message to the bridge is appended, whatever it is.
LEMMA Told ==
    ASSUME IInv, NEW m \in ToBridge, inbox' \in {inbox, Append(inbox, m)},
           outbox' = outbox \/ (outbox # <<>> /\ outbox' = Tail(outbox))
    PROVE  QueueTypes'
<1>1. inbox \in Seq(ToBridge) /\ outbox \in Seq(ToServer)
  BY DEF IInv, TypeOK
<1>2. inbox' \in Seq(ToBridge)
  BY <1>1
<1>3. outbox' \in Seq(ToServer)
  BY <1>1, HeadTailProperties
<1>4. QED
  BY <1>2, <1>3 DEF QueueTypes

LEMMA PresenceKeeps == ASSUME IInv, Enters \/ LeavesCall PROVE IInv'
<1>1. [type |-> "entered", sid |-> 0] \in ToBridge /\ [type |-> "left", sid |-> 0] \in ToBridge
  BY DEF ToBridge
<1>2. QueueTypes'
  <2>1. CASE Enters
    BY <1>1, <2>1, Told DEF Enters
  <2>2. CASE LeavesCall
    BY <1>1, <2>2, Told DEF LeavesCall
  <2>3. QED
    BY <2>1, <2>2
<1>3. ServerTypes'
  BY BoundsAssumption DEF IInv, TypeOK, ServerTypes, Enters, LeavesCall
<1>4. QED
  BY <1>2, <1>3, OutsideKeeps DEF Enters, LeavesCall

LEMMA AttachTypes ==
    ASSUME IInv, Attach
    PROVE  sids' \in Sids /\ handle' \in Sids /\ accepted' = 0
           /\ [type |-> "offer", sid |-> handle'] \in ToBridge
<1>1. sids + 1 \in Sids
  BY BoundsAssumption DEF IInv, TypeOK, Attach, Sids
<1>2. QED
  BY <1>1 DEF Attach, ToBridge

LEMMA TakesRequestKeeps == ASSUME IInv, TakesRequest PROVE IInv'
<1> USE DEF TakesRequest
<1>1. CASE there = "call" /\ Attach /\ Offers
  <2>1. QueueTypes'
    BY <1>1, AttachTypes, Told DEF Offers
  <2>2. ServerTypes'
    BY <1>1, AttachTypes DEF IInv, TypeOK, ServerTypes
  <2>3. QED
    BY <2>1, <2>2, OutsideKeeps
<1>2. CASE UNCHANGED <<inbox, handle, accepted, sids>>
  <2>1. [type |-> "left", sid |-> 0] \in ToBridge
    BY DEF ToBridge
  <2>2. QueueTypes'
    BY <1>2, <2>1, Told
  <2>3. ServerTypes'
    BY <1>2 DEF IInv, TypeOK, ServerTypes
  <2>4. QED
    BY <2>2, <2>3, OutsideKeeps
<1>3. QED
  BY <1>1, <1>2

LEMMA ReattachesKeeps == ASSUME IInv, Reattaches PROVE IInv'
<1> USE DEF Reattaches
<1>1. QueueTypes'
  <2>1. [type |-> "offer", sid |-> handle'] \in ToBridge
    BY AttachTypes
  <2>2. inbox' \in {inbox, Append(inbox, [type |-> "offer", sid |-> handle'])} /\ outbox' = outbox
    BY DEF Offers
  <2>3. QED
    BY <2>1, <2>2, Told
<1>2. ServerTypes'
  BY AttachTypes DEF IInv, TypeOK, ServerTypes
<1>3. QED
  BY <1>1, <1>2, OutsideKeeps

LEMMA TakesAnswerKeeps == ASSUME IInv, TakesAnswer PROVE IInv'
<1> USE DEF TakesAnswer
<1>1. Head(outbox) \in ToServer
  BY HeadTailProperties DEF IInv, TypeOK
<1>2. Head(outbox).sid \in Sids /\ Head(outbox).conn \in Conns
  BY <1>1 DEF ToServer
<1>3. [type |-> "refusal", sid |-> Head(outbox).sid] \in ToBridge
  BY <1>2 DEF ToBridge
<1>4. QueueTypes'
  BY <1>3, Told
<1>5. ServerTypes'
  BY <1>2 DEF IInv, TypeOK, ServerTypes
<1>6. QED
  BY <1>4, <1>5, OutsideKeeps

LEMMA FrameKeeps == ASSUME IInv, Frame PROVE IInv'
<1> USE DEF Frame
<1>1. /\ accepted \in Conns /\ UNCHANGED <<entry, source, at, inbox, outbox, serverVars>>
      /\ conn' = [conn EXCEPT ![accepted] = [conn[accepted] EXCEPT !.receiving = TRUE]]
  BY DEF IInv, TypeOK
<1>2. /\ conn' \in [Conns -> ConnRecords]
      /\ \A c \in Conns : conn'[c].state = conn[c].state
  <2> DEFINE r == [conn[accepted] EXCEPT !.receiving = TRUE]
  <2>1. conn[accepted] \in ConnRecords
    BY <1>1 DEF IInv, TypeOK, ConnRecords
  <2>2. r \in ConnRecords /\ r.state = conn[accepted].state
    BY <2>1, RecordReceives
  <2> HIDE DEF r
  <2>3. conn' = [conn EXCEPT ![accepted] = r]
    BY <1>1 DEF r
  <2>4. QED
    BY <1>1, <2>2, <2>3, ConnsChange
<1>3. /\ life' \in Lives \cup {0} /\ machine' \in [Lives -> Machines]
      /\ entry => life' \in Lives /\ machine'[life'].state = "flowing"
  <2>1. CASE ~entry
    BY <2>1 DEF IInv, TypeOK
  <2>2. CASE entry
    <3>1. PICK l \in Lives : life' = l /\ machine' = [machine EXCEPT ![l] = MediaArrived(machine[l])]
      <4>1. life = 0 => NewLife \in Lives
        BY <2>2 DEF NewLife, FreeLives
      <4> HIDE DEF NewLife
      <4>2. QED
        BY <2>2, <4>1 DEF IInv, TypeOK
    <3>2. MediaArrived(machine[l]) \in Machines /\ MediaArrived(machine[l]).state = "flowing"
      BY MediaFlows DEF IInv, TypeOK
    <3>3. QED
      BY <3>1, <3>2 DEF IInv, TypeOK
  <2>3. QED
    BY <2>1, <2>2
<1>4. TypeOK'
  <2>1. CallTypes' /\ LocalTypes' /\ QueueTypes' /\ ServerTypes'
    BY <1>1, <1>2, <1>3, QueuesKept
       DEF IInv, TypeOK, CallTypes, LocalTypes, ServerTypes, serverVars
  <2>2. QED
    BY <2>1 DEF TypeOK, CallTypes, ConnRecords, LocalTypes, QueueTypes, ServerTypes
<1>5. ASSUME NEW u \in Threads PROVE LocalInv(u)'
  BY <1>1, <1>2, OthersKeep DEF ClosedStays
<1>6. SourceInv' /\ AskingIsWatched'
  BY <1>1, <1>3, Numbers DEF SourceInv, AskingIsWatched, Negotiating
<1>7. StrayInv'
  BY <1>1, <1>2, StraysFewer DEF Strays
<1>8. QED
  BY <1>4, <1>5, <1>6, <1>7 DEF IInv
-----------------------------------------------------------------------------
(* The theorems. *)

\* The inductive invariant of the way to a participant's audio.
THEOREM HearingInvariance == Spec => []IInv
<1>1. Init => IInv
  BY InitInv
<1>2. IInv /\ [Next]_vars => IInv'
  <2> SUFFICES ASSUME IInv, [Next]_vars PROVE IInv'
    OBVIOUS
  <2>1. ASSUME NEW t \in Threads, Pursue(t) PROVE IInv'
    BY <2>1, PursueDropsKeeps, PursueRequestsKeeps, PursueRebuildsKeeps, PursueClosesKeeps,
       PursueSendsKeeps, PursueWatchesKeeps, WatchEndsKeeps DEF Pursue
  <2>2. CASE PublishStep \/ TearDown
    BY <2>2, PublishLooksKeeps, PublishStartsKeeps, TearDownKeeps DEF PublishStep
  <2>3. CASE ReaderStep
    BY <2>3, ReadsOfferKeeps, ReaderReplacedKeeps, ReaderDescribesKeeps, ReaderAnswersKeeps,
       ReaderAnsweredKeeps, ReadsRefusalKeeps, ReadsLeftKeeps, ReadsEnteredKeeps DEF ReaderStep
  <2>4. CASE Enters \/ LeavesCall \/ Server \/ Reattaches \/ Frame \/ ConnectionFails
    BY <2>4, PresenceKeeps, TakesRequestKeeps, TakesAnswerKeeps, FrameKeeps, ReattachesKeeps,
       ConnectionFailsKeeps DEF Server
  <2>5. CASE UNCHANGED vars
    <3>1. ServerTypes'
      BY <2>5 DEF IInv, TypeOK, ServerTypes, vars, serverVars
    <3>2. QED
      BY <2>5, <3>1, OutsideKeeps, QueuesKept DEF vars
  <2>6. QED
    BY <2>1, <2>2, <2>3, <2>4, <2>5 DEF Next
<1>3. QED
  BY <1>1, <1>2, PTL DEF Spec

\* Every variable of the way to a participant's audio keeps its type.
THEOREM HearingTypes == Spec => []TypeOK
<1>1. IInv => TypeOK
  BY DEF IInv
<1>2. QED
  BY <1>1, HearingInvariance, PTL

\* Whatever repairs, offers and refusals overtake each other, a machine that is asking
\* has a coroutine that will ask or look (pursue, watch_for_offer).
THEOREM AskingStaysWatched == Spec => []AskingIsWatched
<1>1. IInv => AskingIsWatched
  BY DEF IInv
<1>2. QED
  BY <1>1, HearingInvariance, PTL

\* All connections that were replaced are closed or about to be, but for the one that
\* publish leaves (prepare_for_new_offer, answer_offer, start).
THEOREM OneStray == Spec => []OneStrayAtMost
<1>1. IInv => OneStrayAtMost
  <2> SUFFICES ASSUME IInv PROVE Cardinality(Strays) <= 1
    BY DEF OneStrayAtMost, Strays
  <2>1. PICK c \in Conns : Strays \subseteq {c}
    BY DEF IInv, StrayInv
  <2>2. IsFiniteSet({c}) /\ Cardinality({c}) = 1
    BY FS_Singleton
  <2>3. IsFiniteSet(Strays) /\ Cardinality(Strays) <= Cardinality({c})
    BY <2>1, <2>2, FS_Subset
  <2>4. QED
    BY <2>2, <2>3
<1>2. QED
  BY <1>1, HearingInvariance, PTL
-----------------------------------------------------------------------------
(* Audio that has arrived. *)

\* What a step may do to it.
Spares ==
    Alive /\ conn[source].receiving =>
        /\ conn'[source].state = "open" \/ ReadsLeft \/ TearDown \/ ConnectionFails
        /\ source' \in {source, 0} \/ PublishStarts
        /\ \A t \in Threads : at[t].pc \in {"idle", "sleep"}
                             => at'[t].pc \in {"idle", "sleep", "watch"}

\* A connection that a coroutine replaces was made before the source was, so that the
\* source is not the one it closes.
OldInv ==
    /\ source # 0 => conn[source].state # "none"
    /\ \A t \in Threads : at[t].old # 0 => at[t].old # source /\ conn[at[t].old].state # "none"

\* A connection that was made stays one that was made.
Made == \A c \in Conns : conn[c].state # "none" => conn'[c].state # "none"

LEMMA OneIsMade ==
    ASSUME IInv, NEW c \in Conns, NEW r \in ConnRecords, conn' = [conn EXCEPT ![c] = r],
           conn[c].state # "none" => r.state # "none"
    PROVE  Made
  BY ConnsChange DEF Made

\* No coroutine comes to replace the source, and the source stays or goes.
LEMMA OldStays ==
    ASSUME IInv, OldInv, Made, source' \in {source, 0},
           \A t \in Threads : at'[t].old \in {at[t].old, 0}
    PROVE  OldInv'
<1>1. source # 0 => source \in Conns
  BY DEF IInv, TypeOK
<1>2. ASSUME NEW t \in Threads PROVE at[t].old \in Conns \cup {0}
  BY LocalsOf DEF Locals
<1>3. QED
  BY <1>1, <1>2 DEF OldInv, Made

\* A new source is none that anybody replaces; the one it takes the place of may be.
LEMMA OldOpens ==
    ASSUME IInv, OldInv, OpenSubscriber,
           \A t \in Threads : at'[t].old \in {at[t].old, source, 0}
    PROVE  OldInv'
<1>1. /\ NewConn \in Conns /\ conn[NewConn] = Unused /\ source' = NewConn
      /\ conn' = [conn EXCEPT ![NewConn] = [Unused EXCEPT !.state = "open"]]
      /\ \A c \in Conns \ {NewConn} : conn'[c] = conn[c]
  BY NewConnIsFree
<1> HIDE DEF NewConn
<1>2. conn[NewConn].state = "none" /\ conn'[NewConn].state = "open"
  BY <1>1 DEF Unused, IInv, TypeOK
<1>3. ASSUME NEW t \in Threads, at'[t].old # 0
      PROVE  at'[t].old # NewConn /\ conn'[at'[t].old].state # "none"
  <2>1. at'[t].old \in Conns /\ conn[at'[t].old].state # "none"
    BY <1>3, LocalsOf DEF IInv, TypeOK, OldInv, Locals
  <2>2. QED
    BY <1>1, <1>2, <2>1
<1>4. QED
  BY <1>1, <1>2, <1>3 DEF OldInv

\* A coroutine that rests or goes on replaces nothing it did not replace before.
LEMMA OldOfMoves ==
    ASSUME IInv, NEW t \in Threads, NEW to \in Pcs, Rests(t) \/ Goes(t, to)
    PROVE  \A u \in Threads : at'[u].old \in {at[u].old, 0}
<1>1. CASE Rests(t)
  BY <1>1, RestingLocals, OneMoves DEF Rests, Resting
<1>2. CASE Goes(t, to)
  BY <1>2, GoesMoves
<1>3. QED
  BY <1>1, <1>2

\* What pursue() leaves of its locals before it waits.
LEMMA OldOfPursues ==
    ASSUME IInv, NEW t \in Threads, NEW step, Pursues(t, step)
    PROVE  \A u \in Threads : at'[u].old \in {at[u].old, 0}
<1>1. \E l : l.old = 0 /\ at' = [at EXCEPT ![t] = l]
  <2>1. CASE step.delayed
    <3>1. [Resting EXCEPT !.pc = "sleep", !.step = step, !.life = life].old = 0
      BY DEF Resting
    <3>2. QED
      BY <2>1, <3>1 DEF Pursues
  <2>2. CASE ~step.delayed
    BY <2>2 DEF Pursues, Resting
  <2>3. QED
    BY <2>1, <2>2
<1>2. QED
  BY <1>1 DEF IInv, TypeOK

LEMMA OldInPursue == ASSUME IInv, OldInv, NEW t \in Threads, Pursue(t) PROVE OldInv'
<1> DEFINE Kept == \A u \in Threads : at'[u].old \in {at[u].old, 0}
<1>1. CASE PursueDrops(t) \/ PursueSends(t)
  <2>1. Kept
    BY <1>1, OldOfMoves DEF PursueDrops, PursueSends, Pcs
  <2>2. QED
    BY <1>1, <2>1, OldStays DEF PursueDrops, PursueSends, callVars, Made
<1>2. CASE PursueRequests(t)
  <2> DEFINE l == [at[t] EXCEPT !.pc = "send", !.life = life]
  <2>1. l \in Locals /\ l.old = at[t].old
    BY LocalsOf DEF Locals, Pcs, IInv, TypeOK
  <2>2. at' = [at EXCEPT ![t] = l]
    BY <1>2 DEF PursueRequests
  <2> HIDE DEF l
  <2>3. Kept
    BY <2>1, <2>2, OneMoves
  <2>4. QED
    BY <1>2, <2>3, OldStays DEF PursueRequests, callVars, Made
<1>3. CASE PursueRebuilds(t)
  <2>1. CASE conn[source].receiving
    <3>1. Kept
      BY <1>3, <2>1, OldOfMoves DEF PursueRebuilds, Pcs
    <3>2. QED
      BY <1>3, <2>1, <3>1, OldStays DEF PursueRebuilds, Made
  <2>2. CASE ~conn[source].receiving
    <3> DEFINE l == [at[t] EXCEPT !.pc = "close", !.life = life, !.old = source]
    <3>1. l \in Locals /\ l.old = source
      BY LocalsOf DEF Locals, Pcs, IInv, TypeOK
    <3>2. OpenSubscriber /\ at' = [at EXCEPT ![t] = l]
      BY <1>3, <2>2 DEF PursueRebuilds
    <3> HIDE DEF l
    <3>3. \A u \in Threads : at'[u].old \in {at[u].old, source, 0}
      BY <3>1, <3>2, OneMoves
    <3>4. QED
      BY <3>2, <3>3, OldOpens
  <2>3. QED
    BY <2>1, <2>2
<1>4. CASE PursueCloses(t)
  <2>1. Kept
    BY <1>4, OldOfMoves DEF PursueCloses, Pcs
  <2>2. at[t].old \in Conns
    BY <1>4, LocalsOf DEF PursueCloses, LocalInv, Replacing
  <2>3. Made
    <3> DEFINE r == [conn[at[t].old] EXCEPT !.state = "closed"]
    <3>1. conn[at[t].old] \in ConnRecords
      BY <2>2 DEF IInv, TypeOK, ConnRecords
    <3>2. r \in ConnRecords /\ r.state = "closed"
      BY <3>1, RecordClosed
    <3>3. conn' = [conn EXCEPT ![at[t].old] = r]
      BY <1>4 DEF PursueCloses
    <3> HIDE DEF r
    <3>4. QED
      BY <2>2, <3>2, <3>3, OneIsMade
  <2>4. QED
    BY <1>4, <2>1, <2>3, OldStays DEF PursueCloses
<1>5. CASE PursueWatches(t)
  <2>1. Watching(at[t].life).old = 0 /\ Resting.old = 0
    BY DEF Watching, Resting
  <2> DEFINE w == Watching(at[t].life)
  <2>2. ASSUME NEW u \in Threads PROVE at'[u] \in {at[u], Resting, w}
    <3> HIDE DEF w
    <3>1. \/ at' = [at EXCEPT ![t] = w]
          \/ \E n \in Tasks : at' = [at EXCEPT ![t] = Resting, ![n] = w]
      BY <1>5 DEF PursueWatches, NewTask, FreeTasks, w
    <3>2. QED
      BY <3>1 DEF IInv, TypeOK
  <2>3. Kept
    BY <2>1, <2>2
  <2>4. QED
    BY <1>5, <2>3, OldStays DEF PursueWatches, callVars, Made
<1>6. CASE WatchEnds(t)
  <2>1. Kept
    <3>1. ASSUME NEW step, Pursues(t, step) PROVE Kept
      BY <3>1, OldOfPursues
    <3>2. Rests(t) \/ \E step : Pursues(t, step)
      BY <1>6 DEF WatchEnds
    <3>3. QED
      BY <3>1, <3>2, OldOfMoves DEF Pcs
  <2>2. QED
    BY <1>6, <2>1, OldStays DEF WatchEnds, Made
<1>7. QED
  BY <1>1, <1>2, <1>3, <1>4, <1>5, <1>6 DEF Pursue

\* What a new negotiation begins with.
LEMMA OldOfListening ==
    ASSUME IInv, NEW t \in Threads, StartListening(t)
    PROVE  \A u \in Threads : at'[u].old \in {at[u].old, 0}
<1>1. \E l : l.old = 0 /\ at' = [at EXCEPT ![t] = l]
  <2> DEFINE l == [Resting EXCEPT !.pc = "send", !.life = NewLife, !.step = Start(Fresh).step]
  <2>1. l.old = 0 /\ Resting.old = 0
    BY DEF Resting
  <2>2. at' = [at EXCEPT ![t] = l] \/ at' = [at EXCEPT ![t] = Resting]
    BY DEF StartListening, Rests
  <2> HIDE DEF l
  <2>3. QED
    BY <2>1, <2>2
<1>2. QED
  BY <1>1 DEF IInv, TypeOK

\* The two ways of answering an offer.
LEMMA ReaderReplaces ==
    ASSUME IInv, ReadsOffer, OpenSubscriber
    PROVE  \/ UNCHANGED at
           \/ \E l \in Locals : l.old \in {source, 0} /\ at' = [at EXCEPT ![Reader] = l]
<1> DEFINE next  == Offer(machine[life], Head(inbox).sid)
<1> DEFINE local == [Resting EXCEPT !.step = next.step, !.life = life]
<1>1. CASE ~Negotiating \/ Absorbs(machine[life])
  BY <1>1 DEF ReadsOffer
<1>2. CASE Negotiating /\ ~Absorbs(machine[life])
  <2>1. local \in Locals /\ local.old = 0 /\ source \in Conns
    <3>1. life \in Lives /\ source \in Conns /\ machine[life] \in Machines
      BY <1>2 DEF IInv, TypeOK, Negotiating
    <3>2. Head(inbox).sid \in Sids
      BY ReadsMessage DEF ReadsOffer, ToBridge
    <3>3. next.step \in Steps
      BY <1>2, <3>1, <3>2, OfferAnswers
    <3> HIDE DEF next
    <3>4. QED
      BY <3>1, <3>3, RestingLocals DEF Locals, Resting
  <2>2. NewConn \in Conns
    BY NewConnIsFree
  <2>3. \/ UNCHANGED at
        \/ at' = [at EXCEPT ![Reader] = [local EXCEPT !.pc = "replace", !.conn = NewConn,
                                                      !.old = source]]
        \/ at' = [at EXCEPT ![Reader] = [local EXCEPT !.pc = "describe", !.conn = source]]
    BY <1>2 DEF ReadsOffer
  <2> HIDE DEF local
  <2>4. /\ [local EXCEPT !.pc = "replace", !.conn = NewConn, !.old = source] \in Locals
        /\ [local EXCEPT !.pc = "replace", !.conn = NewConn, !.old = source].old = source
        /\ [local EXCEPT !.pc = "describe", !.conn = source] \in Locals
        /\ [local EXCEPT !.pc = "describe", !.conn = source].old = 0
    BY <2>1, <2>2 DEF Locals, Pcs
  <2>5. QED
    BY <2>3, <2>4
<1>3. QED
  BY <1>1, <1>2
LEMMA ReaderAnswersSource ==
    ASSUME IInv, ReadsOffer, ~OpenSubscriber
    PROVE  \/ UNCHANGED <<source, conn, at>>
           \/ /\ source \in Conns /\ conn' = [conn EXCEPT ![source].answered = TRUE]
              /\ UNCHANGED source
              /\ \E l \in Locals : l.old = 0 /\ at' = [at EXCEPT ![Reader] = l]
<1> DEFINE next  == Offer(machine[life], Head(inbox).sid)
<1> DEFINE local == [Resting EXCEPT !.step = next.step, !.life = life]
<1>1. CASE ~Negotiating \/ Absorbs(machine[life])
  BY <1>1 DEF ReadsOffer
<1>2. CASE Negotiating /\ ~Absorbs(machine[life])
  <2>1. local \in Locals /\ local.old = 0 /\ source \in Conns
    <3>1. life \in Lives /\ source \in Conns /\ machine[life] \in Machines
      BY <1>2 DEF IInv, TypeOK, Negotiating
    <3>2. Head(inbox).sid \in Sids
      BY ReadsMessage DEF ReadsOffer, ToBridge
    <3>3. next.step \in Steps
      BY <1>2, <3>1, <3>2, OfferAnswers
    <3> HIDE DEF next
    <3>4. QED
      BY <3>1, <3>3, RestingLocals DEF Locals, Resting
  <2>2. \/ UNCHANGED <<source, conn, at>>
        \/ /\ conn' = [conn EXCEPT ![source].answered = TRUE] /\ UNCHANGED source
           /\ at' = [at EXCEPT ![Reader] = [local EXCEPT !.pc = "describe", !.conn = source]]
    BY <1>2 DEF ReadsOffer
  <2> HIDE DEF local
  <2>3. /\ [local EXCEPT !.pc = "describe", !.conn = source] \in Locals
        /\ [local EXCEPT !.pc = "describe", !.conn = source].old = 0
    BY <2>1 DEF Locals, Pcs
  <2>4. QED
    BY <2>1, <2>2, <2>3
<1>3. QED
  BY <1>1, <1>2

\* Closing the connection it has replaced, the reader closes no other.
LEMMA ReaderClosesOld ==
    ASSUME IInv, ReaderReplaced
    PROVE  /\ \A c \in Conns : conn[c].state # "none" => conn'[c].state # "none"
           /\ \A c \in Conns \ {at[Reader].old} : conn'[c].state = conn[c].state
<1> DEFINE old == at[Reader].old
<1> DEFINE new == at[Reader].conn
<1>1. old \in Conns /\ new \in Conns
  BY LocalsOf, Numbers DEF ReaderReplaced, LocalInv, Replacing, Negotiation
<1> DEFINE r == [conn[old] EXCEPT !.state = "closed"]
<1> DEFINE first == [conn EXCEPT ![old] = r]
<1> DEFINE q == [first[new] EXCEPT !.answered = TRUE]
<1>2. r \in ConnRecords /\ r.state = "closed"
  <2>1. conn[old] \in ConnRecords
    BY <1>1 DEF IInv, TypeOK, ConnRecords
  <2>2. QED
    BY <2>1, RecordClosed
<1>3. conn' = [first EXCEPT ![new] = q]
  BY DEF ReaderReplaced
<1> HIDE DEF r
<1>4. first \in [Conns -> ConnRecords] /\ first[old] = r /\ \A c \in Conns \ {old} : first[c] = conn[c]
  BY <1>1, <1>2 DEF IInv, TypeOK, ConnRecords
<1> HIDE DEF first
<1>5. q \in ConnRecords /\ q.state = first[new].state
  BY <1>1, <1>4, RecordAnswered
<1> HIDE DEF q
<1>6. \A c \in Conns : conn'[c].state = first[c].state
  BY <1>1, <1>3, <1>4, <1>5
<1>7. QED
  BY <1>1, <1>2, <1>4, <1>6
LEMMA SourceIsMade ==
    ASSUME IInv, source # 0, conn' = [conn EXCEPT ![source].state = "closed"]
    PROVE  Made
<1> DEFINE r == [conn[source] EXCEPT !.state = "closed"]
<1>1. source \in Conns /\ conn[source] \in ConnRecords
  BY DEF IInv, TypeOK, ConnRecords
<1>2. r \in ConnRecords /\ r.state = "closed"
  BY <1>1, RecordClosed
<1>3. conn' = [conn EXCEPT ![source] = r]
  OBVIOUS
<1> HIDE DEF r
<1>4. QED
  BY <1>1, <1>2, <1>3, OneIsMade

LEMMA OldInReader == ASSUME IInv, OldInv, ReaderStep PROVE OldInv'
<1> DEFINE Kept == \A u \in Threads : at'[u].old \in {at[u].old, 0}
<1>1. Reader \in Threads /\ {"describe", "answer", "told"} \subseteq Pcs
  BY Numbers DEF Pcs
<1>2. CASE ReadsOffer
  <2>1. CASE OpenSubscriber
    <3>1. \/ UNCHANGED at
          \/ \E l \in Locals : l.old \in {source, 0} /\ at' = [at EXCEPT ![Reader] = l]
      BY <1>2, <2>1, ReaderReplaces
    <3>2. \A u \in Threads : at'[u].old \in {at[u].old, source, 0}
      BY <1>1, <3>1, OneMoves
    <3>3. QED
      BY <2>1, <3>2, OldOpens
  <2>2. CASE ~OpenSubscriber
    <3>1. \/ UNCHANGED <<source, conn, at>>
          \/ /\ source \in Conns /\ conn' = [conn EXCEPT ![source].answered = TRUE]
             /\ UNCHANGED source
             /\ \E l \in Locals : l.old = 0 /\ at' = [at EXCEPT ![Reader] = l]
      BY <1>2, <2>2, ReaderAnswersSource
    <3>2. Kept
      BY <1>1, <3>1, OneMoves
    <3>3. Made
      BY <3>1, ConnAnswered DEF Made
    <3>4. QED
      BY <3>1, <3>2, <3>3, OldStays
  <2>3. QED
    BY <2>1, <2>2
<1>3. CASE ReaderReplaced
  <2>1. Kept
    BY <1>1, <1>3, OldOfMoves DEF ReaderReplaced
  <2>2. Made
    BY <1>3, ReaderClosesOld DEF Made
  <2>3. QED
    BY <1>3, <2>1, <2>2, OldStays DEF ReaderReplaced
<1>4. CASE ReaderDescribes \/ ReaderAnswers \/ ReaderAnswered
  <2>1. Kept
    BY <1>1, <1>4, OldOfMoves DEF ReaderDescribes, ReaderAnswers, ReaderAnswered
  <2>2. QED
    BY <1>4, <2>1, OldStays DEF ReaderDescribes, ReaderAnswers, ReaderAnswered, callVars, Made
<1>5. CASE ReadsRefusal
  <2>1. Kept
    <3>1. CASE UNCHANGED at
      BY <3>1
    <3>2. ASSUME NEW step, Pursues(Reader, step) PROVE Kept
      BY <1>1, <3>2, OldOfPursues
    <3>3. QED
      BY <1>5, <3>1, <3>2 DEF ReadsRefusal
  <2>2. QED
    BY <1>5, <2>1, OldStays DEF ReadsRefusal, Made
<1>6. CASE ReadsLeft
  <2>1. Kept
    BY <1>6 DEF ReadsLeft
  <2>2. Made
    <3>1. CASE UNCHANGED conn
      BY <3>1 DEF Made
    <3>2. CASE entry /\ source # 0
      BY <1>6, <3>2, SourceIsMade DEF ReadsLeft
    <3>3. QED
      BY <1>6, <3>1, <3>2 DEF ReadsLeft
  <2>3. QED
    BY <1>6, <2>1, <2>2, OldStays DEF ReadsLeft
<1>7. CASE ReadsEntered
  <2>1. CASE UNCHANGED <<callVars, at>>
    BY <2>1, OldStays DEF callVars, Made
  <2>2. CASE StartListening(Reader)
    BY <1>1, <2>2, OldOfListening, OldOpens DEF StartListening
  <2>3. QED
    BY <1>7, <2>1, <2>2 DEF ReadsEntered
<1>8. QED
  BY <1>2, <1>3, <1>4, <1>5, <1>6, <1>7 DEF ReaderStep

LEMMA OldInvStays == ASSUME IInv, OldInv, [Next]_vars PROVE OldInv'
<1>1. ASSUME NEW t \in Threads, Pursue(t) PROVE OldInv'
  BY <1>1, OldInPursue
<1>2. CASE ReaderStep
  BY <1>2, OldInReader
<1>3. CASE PublishStep
  <2>1. Publish \in Threads /\ "begin" \in Pcs
    BY Numbers DEF Pcs
  <2>2. CASE PublishLooks
    <3>1. \A u \in Threads : at'[u].old \in {at[u].old, 0}
      BY <2>1, <2>2, OldOfMoves DEF PublishLooks
    <3>2. QED
      BY <2>2, <3>1, OldStays DEF PublishLooks, callVars, Made
  <2>3. CASE PublishStarts
    BY <2>1, <2>3, OldOfListening, OldOpens DEF PublishStarts, StartListening
  <2>4. QED
    BY <1>3, <2>2, <2>3 DEF PublishStep
<1>4. CASE TearDown \/ ConnectionFails
  <2>1. Made
    BY <1>4, SourceIsMade DEF TearDown, ConnectionFails, Alive, Made
  <2>2. QED
    BY <1>4, <2>1, OldStays DEF TearDown, ConnectionFails
<1>5. CASE Frame
  <2>1. Made
    <3> DEFINE r == [conn[accepted] EXCEPT !.receiving = TRUE]
    <3>1. accepted \in Conns /\ conn[accepted] \in ConnRecords
      BY <1>5 DEF Frame, IInv, TypeOK, ConnRecords
    <3>2. r \in ConnRecords /\ r.state = conn[accepted].state
      BY <3>1, RecordReceives
    <3>3. conn' = [conn EXCEPT ![accepted] = r]
      BY <1>5 DEF Frame
    <3> HIDE DEF r
    <3>4. QED
      BY <3>1, <3>2, <3>3, OneIsMade
  <2>2. QED
    BY <1>5, <2>1, OldStays DEF Frame
<1>6. CASE UNCHANGED <<callVars, at>>
  BY <1>6, OldStays DEF callVars, Made
<1>7. CASE Enters \/ LeavesCall \/ Server \/ Reattaches \/ UNCHANGED vars
  BY <1>6, <1>7 DEF Enters, LeavesCall, Server, TakesRequest, TakesAnswer, Reattaches, vars
<1>8. QED
  BY <1>1, <1>2, <1>3, <1>4, <1>5, <1>7 DEF Next

\* The machine knows of it, so no repair is current.
LEMMA NothingCurrent ==
    ASSUME IInv, Alive, conn[source].receiving
    PROVE  /\ Negotiating => Absorbs(machine[life])
           /\ entry => Negotiating /\ machine[life] \in Machines
           /\ \A t \in Threads : ~Current(t)
<1>1. entry => life # 0 /\ source # 0 /\ machine[life].state = "flowing"
  BY DEF IInv, SourceInv, Alive
<1>2. entry => machine[life] \in Machines
  BY <1>1 DEF IInv, TypeOK
<1>3. QED
  BY <1>1, <1>2 DEF Negotiating, Absorbs, Current, StillCurrent

LEMMA PursueSpares ==
    ASSUME IInv, OldInv, Alive, conn[source].receiving, NEW t \in Threads, Pursue(t)
    PROVE  Spares
<1>1. CASE PursueDrops(t)
  BY <1>1, RestingLocals, OneMoves DEF Spares, Alive, PursueDrops, Rests, Resting, callVars
<1>2. CASE PursueRequests(t) \/ PursueRebuilds(t)
  BY <1>2, NothingCurrent DEF PursueRequests, PursueRebuilds
<1>3. CASE PursueCloses(t)
  <2>1. "send" \in Pcs
    BY DEF Pcs
  <2>2. QED
    <3>1. conn'[source] = conn[source]
      BY <1>3, LocalsOf DEF OldInv, PursueCloses, LocalInv, Replacing, IInv, TypeOK, Alive
    <3>2. QED
      BY <1>3, <2>1, <3>1, GoesMoves DEF Spares, PursueCloses, Alive
<1>4. CASE PursueSends(t)
  <2>1. "sent" \in Pcs
    BY DEF Pcs
  <2>2. QED
    BY <1>4, <2>1, GoesMoves DEF Spares, Alive, PursueSends, callVars
<1>5. CASE PursueWatches(t)
  <2>1. ASSUME NEW u \in Threads PROVE at'[u].pc \in {at[u].pc, "idle", "watch"}
    <3>1. Watching(at[t].life).pc = "watch" /\ Resting.pc = "idle"
      BY DEF Watching, Resting
    <3> DEFINE w == Watching(at[t].life)
    <3>2. at'[u] \in {at[u], Resting, w}
      <4> HIDE DEF w
      <4>1. \/ at' = [at EXCEPT ![t] = w]
            \/ \E n \in Tasks : at' = [at EXCEPT ![t] = Resting, ![n] = w]
        BY <1>5 DEF PursueWatches, NewTask, FreeTasks, w
      <4>2. QED
        BY <4>1 DEF IInv, TypeOK
    <3>3. QED
      BY <3>1, <3>2
  <2>2. QED
    BY <1>5, <2>1 DEF Spares, Alive, PursueWatches, callVars
<1>6. CASE WatchEnds(t)
  <2>1. \A u \in Threads \ {t} : at'[u] = at[u]
    BY <1>6 DEF IInv, TypeOK, WatchEnds, Pursues, Rests
  <2>2. QED
    BY <1>6, <2>1 DEF Spares, Alive, WatchEnds
<1>7. QED
  BY <1>1, <1>2, <1>3, <1>4, <1>5, <1>6 DEF Pursue

LEMMA ReaderSpares ==
    ASSUME IInv, OldInv, Alive, conn[source].receiving, ReaderStep
    PROVE  Spares
<1>1. CASE ReadsOffer
  <2>1. UNCHANGED <<at, source, conn>>
    BY <1>1, NothingCurrent DEF ReadsOffer
  <2>2. QED
    BY <2>1 DEF Spares, Alive
<1>2. CASE ReaderReplaced
  <2>1. "describe" \in Pcs /\ Reader \in Threads
    BY Numbers DEF Pcs
  <2>2. QED
    <3>1. conn'[source].state = conn[source].state
      BY <1>2, <2>1, ReaderClosesOld, LocalsOf, Numbers
         DEF OldInv, ReaderReplaced, LocalInv, Replacing, IInv, TypeOK, Alive
    <3>2. QED
      BY <1>2, <2>1, <3>1, GoesMoves DEF Spares, ReaderReplaced, Alive
<1>3. CASE ReaderDescribes \/ ReaderAnswers \/ ReaderAnswered
  <2>1. \A u \in Threads \ {Reader} : at'[u] = at[u]
    BY <1>3 DEF IInv, TypeOK, ReaderDescribes, ReaderAnswers, ReaderAnswered, Rests, Goes
  <2>2. QED
    BY <1>3, <2>1 DEF Spares, Alive, ReaderDescribes, ReaderAnswers, ReaderAnswered, callVars
<1>4. CASE ReadsRefusal
  <2>1. CASE ~entry \/ life = 0
    BY <1>4, <2>1 DEF Spares, Alive, ReadsRefusal
  <2>2. CASE entry /\ life # 0
    <3>1. Refused(machine[life]).step = Nothing
      BY <2>2, NothingCurrent, RefusedWaits DEF Leaves
    <3>2. Pursues(Reader, Nothing) /\ Nothing \in Steps /\ ~Nothing.delayed
      BY <1>4, <2>2, <3>1, FreshMachine DEF ReadsRefusal, Nothing, Step
    <3>3. at'[Reader].pc = "idle" /\ \A u \in Threads \ {Reader} : at'[u] = at[u]
      BY <3>2, PursuesMoves, Numbers
    <3>4. QED
      BY <1>4, <3>3 DEF Spares, Alive, ReadsRefusal
  <2>3. QED
    BY <2>1, <2>2
<1>5. CASE ReadsLeft \/ ReadsEntered
  BY <1>5 DEF Spares, Alive, ReadsLeft, ReadsEntered, callVars
<1>6. QED
  BY <1>1, <1>2, <1>3, <1>4, <1>5 DEF ReaderStep

\* The source in place, once it delivers, is closed only when it fails or when the
\* participant or the call goes, is replaced by nobody but publish, and is disturbed by
\* no offer, refusal or waiting repair (prepare_for_new_offer, answer_offer,
\* still_current). Of a connection that is being replaced already nothing is said.
THEOREM ArrivedAudioIsSpared == Spec => AudioSpared
<1>1. IInv /\ OldInv /\ [Next]_vars => [Spares]_vars
  <2> SUFFICES ASSUME IInv, OldInv, Next, Alive, conn[source].receiving PROVE Spares
    BY DEF Spares, Alive
  <2>1. ASSUME NEW t \in Threads, Pursue(t) PROVE Spares
    BY <2>1, PursueSpares
  <2>2. CASE PublishStep
    <3>1. \A u \in Threads \ {Publish} : at'[u] = at[u]
      BY <2>2 DEF IInv, TypeOK, PublishStep, PublishLooks, PublishStarts, StartListening, Rests, Goes
    <3>2. conn'[source] = conn[source]
      <4>1. CASE PublishStarts
        <5>1. OpenSubscriber
          BY <4>1 DEF PublishStarts, StartListening
        <5>2. source \in Conns /\ conn[source] # Unused
          BY DEF IInv, TypeOK, Alive, Unused
        <5>3. QED
          BY <5>1, <5>2, NewConnIsFree
      <4>2. CASE PublishLooks
        BY <4>2 DEF PublishLooks, callVars
      <4>3. QED
        BY <2>2, <4>1, <4>2 DEF PublishStep
    <3>3. QED
      BY <2>2, <3>1, <3>2 DEF Spares, Alive, PublishStep, PublishLooks, PublishStarts, callVars
  <2>3. CASE ReaderStep
    BY <2>3, ReaderSpares
  <2>4. CASE TearDown \/ Enters \/ LeavesCall \/ Server \/ Reattaches \/ ConnectionFails
    BY <2>4 DEF Spares, Alive, TearDown, Enters, LeavesCall, Server, TakesRequest, TakesAnswer,
         Reattaches, ConnectionFails, callVars
  <2>5. CASE Frame
    <3>1. conn'[source].state = conn[source].state
      BY <2>5 DEF Frame, IInv, TypeOK, Alive
    <3>2. QED
      BY <2>5, <3>1 DEF Spares, Alive, Frame
  <2>6. QED
    BY <2>1, <2>2, <2>3, <2>4, <2>5 DEF Next
<1>2. Init => OldInv
  BY DEF Init, OldInv, Resting
<1>3. IInv /\ OldInv /\ [Next]_vars => OldInv'
  BY OldInvStays
<1>4. QED
  <2>1. [Spares]_vars => [Alive /\ conn[source].receiving =>
            /\ conn'[source].state = "open" \/ ReadsLeft \/ TearDown \/ ConnectionFails
            /\ source' \in {source, 0} \/ PublishStarts
            /\ \A t \in Threads : at[t].pc \in {"idle", "sleep"}
                                 => at'[t].pc \in {"idle", "sleep", "watch"}]_vars
    BY DEF Spares, Alive
  <2>2. QED
    BY <1>1, <1>2, <1>3, <2>1, HearingInvariance, PTL DEF Spec, AudioSpared
=============================================================================
