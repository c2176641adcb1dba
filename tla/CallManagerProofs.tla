-------------------------- MODULE CallManagerProofs --------------------------
(***************************************************************************)
(* Proofs about CallManager, for every number of calls, threads and CSeqs: *)
(* the inductive invariant of CallManagerInv, part by part, the safety     *)
(* properties it carries, and that every step is a step of module Line.    *)
(*                                                                         *)
(* A lemma whose name ends in Step says that one part of the invariant     *)
(* survives any step, with one case per action; one that ends in Moves     *)
(* says which actions touch a group of variables.                          *)
(***************************************************************************)
EXTENDS CallManagerInv, TLAPS

-----------------------------------------------------------------------------
(* Types                                                                   *)

\* A message of one of the kinds, naming a CSeq in range, keeps the log of
\* messages what it is (_send_response, transport.send).
LEMMA SendsKeepsType ==
  ASSUME sent \in [Calls -> SUBSET Messages],
         NEW c \in Calls, NEW kind \in Kinds, NEW n \in 0..MaxCseq, Sends(c, kind, n)
  PROVE  sent' \in [Calls -> SUBSET Messages]
  BY DEF Sends, Messages

\* So does the CANCEL of an outbound attempt (_cancel_outbound).
LEMMA SendsCancelKeepsType ==
  ASSUME sent \in [Calls -> SUBSET Messages], cseq \in [Outbound -> 1..MaxCseq],
         NEW c \in Outbound, SendsCancel(c)
  PROVE  sent' \in [Calls -> SUBSET Messages]
<1>1. \E kind \in {"CANCEL", "STRAY"} : Sends(c, kind, cseq[c])
  BY DEF SendsCancel
<1>. QED BY <1>1, SendsKeepsType, BoundAssumption DEF Kinds, Calls

\* Telling Talk of a call keeps the log of callbacks what it is.
LEMMA TellsKeepsType ==
  ASSUME told \in [Calls -> SUBSET {"incoming", "connected", "ended", "failed"}],
         NEW c \in Calls, NEW what \in {"incoming", "connected", "ended", "failed"},
         Tells(c, what)
  PROVE  told' \in [Calls -> SUBSET {"incoming", "connected", "ended", "failed"}]
  BY DEF Tells

\* Reading a response leaves a queue of responses, and a challenge leaves room
\* for the next CSeq (_relevant_responses).
LEMMA ReadsKeepsType ==
  ASSUME inbox \in [Outbound -> Seq(Responses)], NEW c \in Outbound, NEW code, Reads(c, code)
  PROVE  /\ inbox' \in [Outbound -> Seq(Responses)]
         /\ code = "401" => cseq[c] < MaxCseq
<1>1. Head(inbox[c]) \in Responses /\ Tail(inbox[c]) \in Seq(Responses)
  BY DEF Reads
<1>2. inbox' \in [Outbound -> Seq(Responses)]
  BY <1>1 DEF Reads
<1>3. code = "401" => cseq[c] < MaxCseq
  BY <1>1, BoundAssumption DEF Reads, Responses
<1>. QED BY <1>2, <1>3

\* A response that arrives at a waiter leaves a queue of responses.
LEMMA ArrivesKeepsType ==
  ASSUME inbox \in [Outbound -> Seq(Responses)], NEW c \in Outbound, NEW r \in Responses,
         Arrives(c, r) \/ UNCHANGED inbox
  PROVE  inbox' \in [Outbound -> Seq(Responses)]
<1>1. Append(inbox[c], r) \in Seq(Responses)
  OBVIOUS
<1>. QED BY <1>1 DEF Arrives

\* Every step of every thread, the reader, the workers and the gateway keeps the
\* types; what a thread holds is a call because of ThreadInv.
LEMMA TypeStep == TypeOK /\ ThreadInv /\ [Next]_vars => TypeOK'
  <2> SUFFICES ASSUME TypeOK, ThreadInv, [Next]_vars PROVE TypeOK' OBVIOUS
  <2> USE IdAssumption, BoundAssumption DEF Calls, Threads, dictVars, mediaVars,
     threadVars, workerVars, peerVars, logVars
  <2>1. ASSUME NEW c \in Calls, HandleInvite(c) PROVE TypeOK'
    <3>1. Sends(c, "180", 0) \/ Sends(c, "486", 0)
      BY <2>1 DEF HandleInvite
    <3>2. sent' \in [Calls -> SUBSET Messages]
      BY <3>1, SendsKeepsType DEF TypeOK, Kinds
    <3>3. told' \in [Calls -> SUBSET {"incoming", "connected", "ended", "failed"}]
      BY <2>1, TellsKeepsType DEF HandleInvite, TypeOK
    <3>. QED BY <2>1, <3>2, <3>3 DEF HandleInvite, TypeOK, Statuses
  <2>2. ASSUME NEW c \in Calls, HandleInviteAgain(c) PROVE TypeOK'
    <3>. PICK verdict \in {"200", "488", "486"} : Sends(c, verdict, 1)
      BY <2>2 DEF HandleInviteAgain
    <3>1. sent' \in [Calls -> SUBSET Messages]
      BY SendsKeepsType DEF TypeOK, Kinds
    <3>. QED BY <2>2, <3>1 DEF HandleInviteAgain, TypeOK, logVars
  <2>3. ASSUME NEW c \in Calls, HandleBye(c) PROVE TypeOK'
    <3>1. told' \in [Calls -> SUBSET {"incoming", "connected", "ended", "failed"}]
      BY <2>3, TellsKeepsType DEF HandleBye, RemoteEnds, TypeOK, logVars
    <3>. QED BY <2>3, <3>1 DEF HandleBye, RemoteEnds, LetGo, CancelTimer, CloseRtp,
       TypeOK, Statuses, ThreadPcs, WorkerPcs
  <2>4. ASSUME NEW c \in Calls, HandleCancel(c) PROVE TypeOK'
    <3>1. told' \in [Calls -> SUBSET {"incoming", "connected", "ended", "failed"}]
      BY <2>4, TellsKeepsType DEF HandleCancel, RemoteEnds, TypeOK, logVars
    <3>. QED BY <2>4, <3>1 DEF HandleCancel, RemoteEnds, LetGo, CancelTimer, CloseRtp,
       TypeOK, Statuses, ThreadPcs, WorkerPcs
  <2>5. ASSUME NEW t \in Threads, Answer(t) PROVE TypeOK'
    <3>1. call \in Calls /\ (Sends(call, "488", 0) \/ UNCHANGED sent)
      BY <2>5 DEF Answer, TypeOK, logVars
    <3>2. sent' \in [Calls -> SUBSET Messages]
      BY <3>1, SendsKeepsType DEF TypeOK, Kinds
    <3>3. CASE call \notin common
      BY <2>5, <3>1, <3>2, <3>3 DEF Answer, TypeOK
    <3>4. CASE call \in common
      <4>1. call' = call /\ port' = call /\ status' = [status EXCEPT ![call] = "connected"]
            /\ voiced' = voiced \cup {call} /\ pc' = [pc EXCEPT ![t] = "send"]
            /\ held' = [held EXCEPT ![t] = call]
        BY <2>5, <3>4 DEF Answer, Goes
      <4>. QED BY <2>5, <3>1, <3>2, <4>1 DEF Answer, TypeOK, Statuses, ThreadPcs
    <3>. QED BY <3>3, <3>4
  <2>6. ASSUME NEW t \in Threads, AnswerSends(t) PROVE TypeOK'
    <3>1. held[t] \in Calls
      BY <2>6 DEF AnswerSends, ThreadInv
    <3>2. sent' \in [Calls -> SUBSET Messages]
      BY <2>6, <3>1, SendsKeepsType DEF AnswerSends, TypeOK, Kinds, logVars
    <3>. QED BY <2>6, <3>1, <3>2 DEF AnswerSends, Goes, TypeOK, Statuses, ThreadPcs,
       WorkerPcs
  <2>7. ASSUME NEW t \in Threads, AnswerRecords(t) PROVE TypeOK'
    <3>1. held[t] \in Calls
      BY <2>7 DEF AnswerRecords, ThreadInv
    <3>. QED BY <2>7, <3>1 DEF AnswerRecords, Goes, TypeOK, Statuses, ThreadPcs, WorkerPcs
  <2>8. ASSUME NEW t \in Threads, AnswerArms(t) PROVE TypeOK'
    <3>1. held[t] \in Calls
      BY <2>8 DEF AnswerArms, ThreadInv
    <3>2. told' \in [Calls -> SUBSET {"incoming", "connected", "ended", "failed"}]
      BY <2>8, <3>1, TellsKeepsType DEF AnswerArms, TypeOK, logVars
    <3>. QED BY <2>8, <3>1, <3>2 DEF AnswerArms, StartTimer, Goes, TypeOK, Statuses,
       ThreadPcs, WorkerPcs
  <2>9. ASSUME NEW t \in Threads, Decline(t) PROVE TypeOK'
    BY <2>9 DEF Decline, Goes, TypeOK, Statuses, ThreadPcs, WorkerPcs
  <2>10. ASSUME NEW t \in Threads, DeclineSends(t) PROVE TypeOK'
    <3>1. held[t] \in Calls
      BY <2>10 DEF DeclineSends, ThreadInv
    <3>2. sent' \in [Calls -> SUBSET Messages]
      BY <2>10, <3>1, SendsKeepsType DEF DeclineSends, TypeOK, Kinds, logVars
    <3>. QED BY <2>10, <3>1, <3>2 DEF DeclineSends, Goes, TypeOK, Statuses, ThreadPcs,
       WorkerPcs
  <2>11. ASSUME NEW c \in Calls, TimerFires(c) PROVE TypeOK'
    BY <2>11 DEF TimerFires, Goes, TypeOK, Statuses, ThreadPcs, WorkerPcs
  <2>12. ASSUME NEW t \in Threads, HangupTakes(t) PROVE TypeOK'
    BY <2>12 DEF HangupTakes, Goes, TypeOK, Statuses, ThreadPcs, WorkerPcs
  <2>13. ASSUME NEW t \in Threads, HangupDrops(t) PROVE TypeOK'
    <3>1. held[t] \in Calls
      BY <2>13 DEF HangupDrops, ThreadInv
    <3>. QED BY <2>13, <3>1 DEF HangupDrops, LetGo, CancelTimer, CloseRtp, Goes, TypeOK,
       Statuses, ThreadPcs, WorkerPcs
  <2>14. ASSUME NEW t \in Threads, HangupSays(t) PROVE TypeOK'
    <3>1. held[t] \in Calls
      BY <2>14 DEF HangupSays, ThreadInv
    <3>2. \/ held[t] \in Outbound /\ SendsCancel(held[t])
          \/ \E kind \in {"603", "BYE"} : Sends(held[t], kind, 0)
          \/ UNCHANGED sent
      BY <2>14 DEF HangupSays
    <3>3. sent' \in [Calls -> SUBSET Messages]
      <4>1. CASE held[t] \in Outbound /\ SendsCancel(held[t])
        BY <4>1, SendsCancelKeepsType DEF TypeOK
      <4>2. CASE \E kind \in {"603", "BYE"} : Sends(held[t], kind, 0)
        BY <4>2, <3>1, SendsKeepsType DEF TypeOK, Kinds
      <4>3. CASE UNCHANGED sent
        BY <4>3 DEF TypeOK
      <4>. QED BY <3>2, <4>1, <4>2, <4>3
    <3>4. told' \in [Calls -> SUBSET {"incoming", "connected", "ended", "failed"}]
      BY <2>14, <3>1, TellsKeepsType DEF HangupSays, TypeOK
    <3>. QED BY <2>14, <3>3, <3>4 DEF HangupSays, Goes, TypeOK, ThreadPcs
  <2>15. ASSUME NEW t \in Clients, NEW c \in Outbound, Dial(t, c) PROVE TypeOK'
    BY <2>15 DEF Dial, Steps, TypeOK, Statuses, ThreadPcs, WorkerPcs
  <2>16. ASSUME NEW c \in Outbound, WorkerBinds(c) PROVE TypeOK'
    BY <2>16 DEF WorkerBinds, Steps, TypeOK, Statuses, ThreadPcs, WorkerPcs
  <2>17. ASSUME NEW c \in Outbound, WorkerRecords(c) PROVE TypeOK'
    BY <2>17 DEF WorkerRecords, Steps, TypeOK, Statuses, ThreadPcs, WorkerPcs
  <2>18. ASSUME NEW c \in Outbound, WorkerInvites(c) PROVE TypeOK'
    <3>1. sent' \in [Calls -> SUBSET Messages]
      BY <2>18, SendsKeepsType DEF WorkerInvites, TypeOK, Kinds, logVars
    <3>. QED BY <2>18, <3>1 DEF WorkerInvites, Steps, TypeOK, Statuses, ThreadPcs,
       WorkerPcs
  <2>19. ASSUME NEW c \in Outbound, WorkerSkips(c) PROVE TypeOK'
    BY <2>19 DEF WorkerSkips, TypeOK, Statuses, ThreadPcs, WorkerPcs
  <2>20. ASSUME NEW c \in Outbound, WorkerIsChallenged(c) PROVE TypeOK'
    <3>1. inbox' \in [Outbound -> Seq(Responses)] /\ cseq[c] < MaxCseq
      BY <2>20, ReadsKeepsType DEF WorkerIsChallenged, TypeOK
    <3>2. cseq' \in [Outbound -> 1..MaxCseq]
      BY <2>20, <3>1 DEF WorkerIsChallenged, TypeOK
    <3>. QED BY <2>20, <3>1, <3>2 DEF WorkerIsChallenged, Steps, TypeOK, WorkerPcs
  <2>21. ASSUME NEW c \in Outbound, WorkerIsRefused(c) PROVE TypeOK'
    <3>1. inbox' \in [Outbound -> Seq(Responses)]
      BY <2>21, ReadsKeepsType DEF WorkerIsRefused, TypeOK
    <3>2. sent' \in [Calls -> SUBSET Messages]
      BY <2>21, SendsKeepsType DEF WorkerIsRefused, TypeOK, Kinds, logVars
    <3>3. told' \in [Calls -> SUBSET {"incoming", "connected", "ended", "failed"}]
      BY <2>21, TellsKeepsType DEF WorkerIsRefused, TypeOK, logVars
    <3>. QED BY <2>21, <3>1, <3>2, <3>3 DEF WorkerIsRefused, Steps, TypeOK, Statuses,
       ThreadPcs, WorkerPcs
  <2>22. ASSUME NEW c \in Outbound, WorkerIsAnswered(c) PROVE TypeOK'
    <3>1. inbox' \in [Outbound -> Seq(Responses)]
      BY <2>22, ReadsKeepsType DEF WorkerIsAnswered, TypeOK
    <3>2. sent' \in [Calls -> SUBSET Messages]
      BY <2>22, SendsKeepsType DEF WorkerIsAnswered, TypeOK, Kinds, logVars
    <3>. QED BY <2>22, <3>1, <3>2 DEF WorkerIsAnswered, Steps, TypeOK, Statuses,
       ThreadPcs, WorkerPcs
  <2>23. ASSUME NEW c \in Outbound, WorkerSettles(c) PROVE TypeOK'
    <3>1. CASE call = c
      <4>1. /\ status' = [status EXCEPT ![c] = "connected"]
            /\ voiced' = voiced \cup {c} /\ timed' = timed \cup {c}
            /\ worker' = [worker EXCEPT ![c] = "arm"]
        BY <2>23, <3>1 DEF WorkerSettles, Steps
      <4>. QED BY <2>23, <4>1 DEF WorkerSettles, TypeOK, Statuses, WorkerPcs
    <3>2. CASE call # c
      BY <2>23, <3>2 DEF WorkerSettles, Steps, TypeOK, WorkerPcs
    <3>. QED BY <3>1, <3>2
  <2>24. ASSUME NEW c \in Outbound, WorkerArms(c) PROVE TypeOK'
    <3>1. told' \in [Calls -> SUBSET {"incoming", "connected", "ended", "failed"}]
      BY <2>24, TellsKeepsType DEF WorkerArms, TypeOK, logVars
    <3>. QED BY <2>24, <3>1 DEF WorkerArms, StartTimer, Steps, TypeOK, Statuses,
       ThreadPcs, WorkerPcs
  <2>25. ASSUME NEW c \in Outbound, WorkerGivesUp(c) PROVE TypeOK'
    <3>1. told' \in [Calls -> SUBSET {"incoming", "connected", "ended", "failed"}]
      BY <2>25, TellsKeepsType DEF WorkerGivesUp, TypeOK, logVars
    <3>. QED BY <2>25, <3>1 DEF WorkerGivesUp, Steps, TypeOK, Statuses, ThreadPcs,
       WorkerPcs
  <2>26. ASSUME NEW c \in Outbound, WorkerCancels(c) PROVE TypeOK'
    <3>1. sent' \in [Calls -> SUBSET Messages]
      BY <2>26, SendsCancelKeepsType DEF WorkerCancels, TypeOK
    <3>2. told' \in [Calls -> SUBSET {"incoming", "connected", "ended", "failed"}]
      BY <2>26, TellsKeepsType DEF WorkerCancels, TypeOK
    <3>. QED BY <2>26, <3>1, <3>2 DEF WorkerCancels, Steps, TypeOK, WorkerPcs
  <2>27. ASSUME NEW c \in Outbound, WorkerCleans(c) PROVE TypeOK'
    BY <2>27 DEF WorkerCleans, CloseRtp, Steps, TypeOK, Statuses, ThreadPcs, WorkerPcs
  <2>28. ASSUME NEW c \in Outbound, WorkerReleases(c) PROVE TypeOK'
    BY <2>28 DEF WorkerReleases, Steps, TypeOK, Statuses, ThreadPcs, WorkerPcs
  <2>29. ASSUME NEW c \in Outbound, NEW r \in Responses, GatewayReplies(c, r)
         PROVE  TypeOK'
    <3>1. inbox' \in [Outbound -> Seq(Responses)]
      BY <2>29, ArrivesKeepsType DEF GatewayReplies, TypeOK
    <3>2. replied' \in [Outbound -> SUBSET Responses]
      BY <2>29 DEF GatewayReplies, TypeOK
    <3>. QED BY <2>29, <3>1, <3>2 DEF GatewayReplies, TypeOK
  <2>30. ASSUME NEW c \in Outbound, NEW r \in Responses, GatewayRepeats(c, r)
         PROVE  TypeOK'
    <3>1. inbox' \in [Outbound -> Seq(Responses)]
      BY <2>30, ArrivesKeepsType DEF GatewayRepeats, TypeOK
    <3>. QED BY <2>30, <3>1 DEF GatewayRepeats, TypeOK
  <2>31. CASE UNCHANGED vars
    BY <2>31 DEF TypeOK, vars
  <2>. QED
    BY <2>1, <2>2, <2>3, <2>4, <2>5, <2>6, <2>7, <2>8, <2>9, <2>10, <2>11, <2>12, <2>13,
       <2>14, <2>15, <2>16, <2>17, <2>18, <2>19, <2>20, <2>21, <2>22, <2>23, <2>24, <2>25,
       <2>26, <2>27, <2>28, <2>29, <2>30, <2>31
    DEF Next, ReaderStep, AnswerStep, HangupStep, WorkerStep, GatewayStep

-----------------------------------------------------------------------------
(* Calls, threads and the RTP port                                         *)

\* Every step keeps a call's dict, leg and worker together.
LEMMA DictStep == TypeOK /\ DictInv /\ [Next]_vars => DictInv'
  <2> SUFFICES ASSUME TypeOK, DictInv, [Next]_vars PROVE DictInv' OBVIOUS
  <2> USE IdAssumption, BoundAssumption DEF Calls, Threads, dictVars, mediaVars,
     threadVars, workerVars, peerVars, logVars
  <2>1. ASSUME NEW c \in Calls, HandleInvite(c) PROVE DictInv'
    BY <2>1 DEF HandleInvite, TypeOK, DictInv
  <2>2. ASSUME NEW c \in Calls, HandleInviteAgain(c) PROVE DictInv'
    BY <2>2 DEF HandleInviteAgain, TypeOK, DictInv
  <2>3. ASSUME NEW c \in Calls, HandleBye(c) PROVE DictInv'
    BY <2>3 DEF HandleBye, RemoteEnds, TypeOK, DictInv
  <2>4. ASSUME NEW c \in Calls, HandleCancel(c) PROVE DictInv'
    BY <2>4 DEF HandleCancel, RemoteEnds, TypeOK, DictInv
  <2>5. ASSUME NEW t \in Threads, Answer(t) PROVE DictInv'
    BY <2>5 DEF Answer, TypeOK, DictInv
  <2>6. ASSUME NEW t \in Threads, AnswerSends(t) PROVE DictInv'
    BY <2>6 DEF AnswerSends, TypeOK, DictInv
  <2>7. ASSUME NEW t \in Threads, AnswerRecords(t) PROVE DictInv'
    BY <2>7 DEF AnswerRecords, TypeOK, DictInv
  <2>8. ASSUME NEW t \in Threads, AnswerArms(t) PROVE DictInv'
    BY <2>8 DEF AnswerArms, TypeOK, DictInv
  <2>9. ASSUME NEW t \in Threads, Decline(t) PROVE DictInv'
    BY <2>9 DEF Decline, TypeOK, DictInv
  <2>10. ASSUME NEW t \in Threads, DeclineSends(t) PROVE DictInv'
    BY <2>10 DEF DeclineSends, TypeOK, DictInv
  <2>11. ASSUME NEW c \in Calls, TimerFires(c) PROVE DictInv'
    BY <2>11 DEF TimerFires, TypeOK, DictInv
  <2>12. ASSUME NEW t \in Threads, HangupTakes(t) PROVE DictInv'
    BY <2>12 DEF HangupTakes, TypeOK, DictInv
  <2>13. ASSUME NEW t \in Threads, HangupDrops(t) PROVE DictInv'
    BY <2>13 DEF HangupDrops, TypeOK, DictInv
  <2>14. ASSUME NEW t \in Threads, HangupSays(t) PROVE DictInv'
    BY <2>14 DEF HangupSays, TypeOK, DictInv
  <2>15. ASSUME NEW t \in Clients, NEW c \in Outbound, Dial(t, c) PROVE DictInv'
    BY <2>15 DEF Dial, Steps, TypeOK, DictInv
  <2>16. ASSUME NEW c \in Outbound, WorkerBinds(c) PROVE DictInv'
    BY <2>16 DEF WorkerBinds, Steps, TypeOK, DictInv
  <2>17. ASSUME NEW c \in Outbound, WorkerRecords(c) PROVE DictInv'
    BY <2>17 DEF WorkerRecords, Steps, TypeOK, DictInv
  <2>18. ASSUME NEW c \in Outbound, WorkerInvites(c) PROVE DictInv'
    BY <2>18 DEF WorkerInvites, Steps, TypeOK, DictInv
  <2>19. ASSUME NEW c \in Outbound, WorkerSkips(c) PROVE DictInv'
    BY <2>19 DEF WorkerSkips, TypeOK, DictInv
  <2>20. ASSUME NEW c \in Outbound, WorkerIsChallenged(c) PROVE DictInv'
    BY <2>20 DEF WorkerIsChallenged, Reads, Steps, TypeOK, DictInv
  <2>21. ASSUME NEW c \in Outbound, WorkerIsRefused(c) PROVE DictInv'
    BY <2>21 DEF WorkerIsRefused, Reads, Steps, TypeOK, DictInv
  <2>22. ASSUME NEW c \in Outbound, WorkerIsAnswered(c) PROVE DictInv'
    BY <2>22 DEF WorkerIsAnswered, Reads, Steps, TypeOK, DictInv
  <2>23. ASSUME NEW c \in Outbound, WorkerSettles(c) PROVE DictInv'
    BY <2>23 DEF WorkerSettles, Steps, TypeOK, DictInv
  <2>24. ASSUME NEW c \in Outbound, WorkerArms(c) PROVE DictInv'
    BY <2>24 DEF WorkerArms, Steps, TypeOK, DictInv
  <2>25. ASSUME NEW c \in Outbound, WorkerGivesUp(c) PROVE DictInv'
    BY <2>25 DEF WorkerGivesUp, Steps, TypeOK, DictInv
  <2>26. ASSUME NEW c \in Outbound, WorkerCancels(c) PROVE DictInv'
    BY <2>26 DEF WorkerCancels, Steps, TypeOK, DictInv
  <2>27. ASSUME NEW c \in Outbound, WorkerCleans(c) PROVE DictInv'
    BY <2>27 DEF WorkerCleans, Steps, TypeOK, DictInv
  <2>28. ASSUME NEW c \in Outbound, WorkerReleases(c) PROVE DictInv'
    BY <2>28 DEF WorkerReleases, Steps, TypeOK, DictInv
  <2>29. ASSUME NEW c \in Outbound, NEW r \in Responses, GatewayReplies(c, r)
         PROVE  DictInv'
    BY <2>29 DEF GatewayReplies, TypeOK, DictInv
  <2>30. ASSUME NEW c \in Outbound, NEW r \in Responses, GatewayRepeats(c, r)
         PROVE  DictInv'
    BY <2>30 DEF GatewayRepeats, TypeOK, DictInv
  <2>31. CASE UNCHANGED vars
    BY <2>31 DEF TypeOK, DictInv, vars
  <2>. QED
    BY <2>1, <2>2, <2>3, <2>4, <2>5, <2>6, <2>7, <2>8, <2>9, <2>10, <2>11, <2>12, <2>13,
       <2>14, <2>15, <2>16, <2>17, <2>18, <2>19, <2>20, <2>21, <2>22, <2>23, <2>24, <2>25,
       <2>26, <2>27, <2>28, <2>29, <2>30, <2>31
    DEF Next, ReaderStep, AnswerStep, HangupStep, WorkerStep, GatewayStep

\* Every step keeps what a thread knows of the call it took: a call that comes
\* on the line is new, so it is none that a thread holds.
LEMMA ThreadStep == TypeOK /\ DictInv /\ ThreadInv /\ [Next]_vars => ThreadInv'
  <2> SUFFICES ASSUME TypeOK, DictInv, ThreadInv, [Next]_vars PROVE ThreadInv' OBVIOUS
  <2> USE IdAssumption, BoundAssumption DEF Calls, Threads, dictVars, mediaVars,
     threadVars, workerVars, peerVars, logVars
  <2>1. ASSUME NEW c \in Calls, HandleInvite(c) PROVE ThreadInv'
    BY <2>1 DEF HandleInvite, TypeOK, DictInv, ThreadInv
  <2>2. ASSUME NEW c \in Calls, HandleInviteAgain(c) PROVE ThreadInv'
    BY <2>2 DEF HandleInviteAgain, TypeOK, DictInv, ThreadInv
  <2>3. ASSUME NEW c \in Calls, HandleBye(c) PROVE ThreadInv'
    BY <2>3 DEF HandleBye, RemoteEnds, LetGo, CancelTimer, TypeOK, DictInv, ThreadInv
  <2>4. ASSUME NEW c \in Calls, HandleCancel(c) PROVE ThreadInv'
    BY <2>4 DEF HandleCancel, RemoteEnds, LetGo, CancelTimer, TypeOK, DictInv, ThreadInv
  <2>5. ASSUME NEW t \in Threads, Answer(t) PROVE ThreadInv'
    BY <2>5 DEF Answer, Goes, TypeOK, DictInv, ThreadInv
  <2>6. ASSUME NEW t \in Threads, AnswerSends(t) PROVE ThreadInv'
    BY <2>6 DEF AnswerSends, Goes, TypeOK, DictInv, ThreadInv
  <2>7. ASSUME NEW t \in Threads, AnswerRecords(t) PROVE ThreadInv'
    BY <2>7 DEF AnswerRecords, Goes, TypeOK, DictInv, ThreadInv
  <2>8. ASSUME NEW t \in Threads, AnswerArms(t) PROVE ThreadInv'
    BY <2>8 DEF AnswerArms, StartTimer, Goes, TypeOK, DictInv, ThreadInv
  <2>9. ASSUME NEW t \in Threads, Decline(t) PROVE ThreadInv'
    BY <2>9 DEF Decline, Goes, TypeOK, DictInv, ThreadInv
  <2>10. ASSUME NEW t \in Threads, DeclineSends(t) PROVE ThreadInv'
    BY <2>10 DEF DeclineSends, Goes, TypeOK, DictInv, ThreadInv
  <2>11. ASSUME NEW c \in Calls, TimerFires(c) PROVE ThreadInv'
    BY <2>11 DEF TimerFires, Goes, TypeOK, DictInv, ThreadInv
  <2>12. ASSUME NEW t \in Threads, HangupTakes(t) PROVE ThreadInv'
    BY <2>12 DEF HangupTakes, Goes, TypeOK, DictInv, ThreadInv
  <2>13. ASSUME NEW t \in Threads, HangupDrops(t) PROVE ThreadInv'
    BY <2>13 DEF HangupDrops, LetGo, CancelTimer, Goes, TypeOK, DictInv, ThreadInv
  <2>14. ASSUME NEW t \in Threads, HangupSays(t) PROVE ThreadInv'
    BY <2>14 DEF HangupSays, Goes, TypeOK, DictInv, ThreadInv
  <2>15. ASSUME NEW t \in Clients, NEW c \in Outbound, Dial(t, c) PROVE ThreadInv'
    BY <2>15 DEF Dial, TypeOK, DictInv, ThreadInv
  <2>16. ASSUME NEW c \in Outbound, WorkerBinds(c) PROVE ThreadInv'
    BY <2>16 DEF WorkerBinds, TypeOK, DictInv, ThreadInv
  <2>17. ASSUME NEW c \in Outbound, WorkerRecords(c) PROVE ThreadInv'
    BY <2>17 DEF WorkerRecords, TypeOK, DictInv, ThreadInv
  <2>18. ASSUME NEW c \in Outbound, WorkerInvites(c) PROVE ThreadInv'
    BY <2>18 DEF WorkerInvites, TypeOK, DictInv, ThreadInv
  <2>19. ASSUME NEW c \in Outbound, WorkerSkips(c) PROVE ThreadInv'
    BY <2>19 DEF WorkerSkips, TypeOK, DictInv, ThreadInv
  <2>20. ASSUME NEW c \in Outbound, WorkerIsChallenged(c) PROVE ThreadInv'
    BY <2>20 DEF WorkerIsChallenged, TypeOK, DictInv, ThreadInv
  <2>21. ASSUME NEW c \in Outbound, WorkerIsRefused(c) PROVE ThreadInv'
    BY <2>21 DEF WorkerIsRefused, TypeOK, DictInv, ThreadInv
  <2>22. ASSUME NEW c \in Outbound, WorkerIsAnswered(c) PROVE ThreadInv'
    BY <2>22 DEF WorkerIsAnswered, TypeOK, DictInv, ThreadInv
  <2>23. ASSUME NEW c \in Outbound, WorkerSettles(c) PROVE ThreadInv'
    BY <2>23 DEF WorkerSettles, TypeOK, DictInv, ThreadInv
  <2>24. ASSUME NEW c \in Outbound, WorkerArms(c) PROVE ThreadInv'
    BY <2>24 DEF WorkerArms, StartTimer, TypeOK, DictInv, ThreadInv
  <2>25. ASSUME NEW c \in Outbound, WorkerGivesUp(c) PROVE ThreadInv'
    BY <2>25 DEF WorkerGivesUp, TypeOK, DictInv, ThreadInv
  <2>26. ASSUME NEW c \in Outbound, WorkerCancels(c) PROVE ThreadInv'
    BY <2>26 DEF WorkerCancels, TypeOK, DictInv, ThreadInv
  <2>27. ASSUME NEW c \in Outbound, WorkerCleans(c) PROVE ThreadInv'
    BY <2>27 DEF WorkerCleans, TypeOK, DictInv, ThreadInv
  <2>28. ASSUME NEW c \in Outbound, WorkerReleases(c) PROVE ThreadInv'
    BY <2>28 DEF WorkerReleases, TypeOK, DictInv, ThreadInv
  <2>29. ASSUME NEW c \in Outbound, NEW r \in Responses, GatewayReplies(c, r)
         PROVE  ThreadInv'
    BY <2>29 DEF GatewayReplies, TypeOK, DictInv, ThreadInv
  <2>30. ASSUME NEW c \in Outbound, NEW r \in Responses, GatewayRepeats(c, r)
         PROVE  ThreadInv'
    BY <2>30 DEF GatewayRepeats, TypeOK, DictInv, ThreadInv
  <2>31. CASE UNCHANGED vars
    BY <2>31 DEF TypeOK, DictInv, ThreadInv, vars
  <2>. QED
    BY <2>1, <2>2, <2>3, <2>4, <2>5, <2>6, <2>7, <2>8, <2>9, <2>10, <2>11, <2>12, <2>13,
       <2>14, <2>15, <2>16, <2>17, <2>18, <2>19, <2>20, <2>21, <2>22, <2>23, <2>24, <2>25,
       <2>26, <2>27, <2>28, <2>29, <2>30, <2>31
    DEF Next, ReaderStep, AnswerStep, HangupStep, WorkerStep, GatewayStep

\* Every step leaves the RTP port with the worker that has it, or with the call
\* that is connected: whoever closes a session closes its own.
LEMMA PortStep == TypeOK /\ DictInv /\ ThreadInv /\ PortInv /\ [Next]_vars => PortInv'
  <2> SUFFICES ASSUME TypeOK, DictInv, ThreadInv, PortInv, [Next]_vars
               PROVE  PortInv' OBVIOUS
  <2> USE IdAssumption, BoundAssumption DEF Calls, Threads, dictVars, mediaVars,
     threadVars, workerVars, peerVars, logVars
  <2>1. ASSUME NEW c \in Calls, HandleInvite(c) PROVE PortInv'
    BY <2>1 DEF HandleInvite, TypeOK, DictInv, ThreadInv, PortInv, ConnectedHasAudio,
       Setting
  <2>2. ASSUME NEW c \in Calls, HandleInviteAgain(c) PROVE PortInv'
    BY <2>2 DEF HandleInviteAgain, TypeOK, DictInv, ThreadInv, PortInv, ConnectedHasAudio,
       Setting
  <2>3. ASSUME NEW c \in Calls, HandleBye(c) PROVE PortInv'
    BY <2>3 DEF HandleBye, RemoteEnds, LetGo, CloseRtp, TypeOK, DictInv, ThreadInv,
       PortInv, ConnectedHasAudio, Setting
  <2>4. ASSUME NEW c \in Calls, HandleCancel(c) PROVE PortInv'
    BY <2>4 DEF HandleCancel, RemoteEnds, LetGo, CloseRtp, TypeOK, DictInv, ThreadInv,
       PortInv, ConnectedHasAudio, Setting
  <2>5. ASSUME NEW t \in Threads, Answer(t) PROVE PortInv'
    BY <2>5 DEF Answer, Goes, TypeOK, DictInv, ThreadInv, PortInv, ConnectedHasAudio,
       Setting
  <2>6. ASSUME NEW t \in Threads, AnswerSends(t) PROVE PortInv'
    BY <2>6 DEF AnswerSends, Goes, TypeOK, DictInv, ThreadInv, PortInv, ConnectedHasAudio,
       Setting
  <2>7. ASSUME NEW t \in Threads, AnswerRecords(t) PROVE PortInv'
    BY <2>7 DEF AnswerRecords, Goes, TypeOK, DictInv, ThreadInv, PortInv,
       ConnectedHasAudio, Setting
  <2>8. ASSUME NEW t \in Threads, AnswerArms(t) PROVE PortInv'
    BY <2>8 DEF AnswerArms, Goes, TypeOK, DictInv, ThreadInv, PortInv, ConnectedHasAudio,
       Setting
  <2>9. ASSUME NEW t \in Threads, Decline(t) PROVE PortInv'
    BY <2>9 DEF Decline, Goes, TypeOK, DictInv, ThreadInv, PortInv, ConnectedHasAudio,
       Setting
  <2>10. ASSUME NEW t \in Threads, DeclineSends(t) PROVE PortInv'
    BY <2>10 DEF DeclineSends, Goes, TypeOK, DictInv, ThreadInv, PortInv,
       ConnectedHasAudio, Setting
  <2>11. ASSUME NEW c \in Calls, TimerFires(c) PROVE PortInv'
    BY <2>11 DEF TimerFires, Goes, TypeOK, DictInv, ThreadInv, PortInv, ConnectedHasAudio,
       Setting
  <2>12. ASSUME NEW t \in Threads, HangupTakes(t) PROVE PortInv'
    BY <2>12 DEF HangupTakes, Goes, TypeOK, DictInv, ThreadInv, PortInv,
       ConnectedHasAudio, Setting
  <2>13. ASSUME NEW t \in Threads, HangupDrops(t) PROVE PortInv'
    BY <2>13 DEF HangupDrops, LetGo, CloseRtp, Goes, TypeOK, DictInv, ThreadInv, PortInv,
       ConnectedHasAudio, Setting
  <2>14. ASSUME NEW t \in Threads, HangupSays(t) PROVE PortInv'
    BY <2>14 DEF HangupSays, Goes, TypeOK, DictInv, ThreadInv, PortInv, ConnectedHasAudio,
       Setting
  <2>15. ASSUME NEW t \in Clients, NEW c \in Outbound, Dial(t, c) PROVE PortInv'
    BY <2>15 DEF Dial, Steps, TypeOK, DictInv, ThreadInv, PortInv, ConnectedHasAudio,
       Setting
  <2>16. ASSUME NEW c \in Outbound, WorkerBinds(c) PROVE PortInv'
    <3>1. CASE port = NoCall
      <4>1. /\ port' = c /\ worker' = [worker EXCEPT ![c] = "record"]
            /\ call' = call /\ status' = status
        BY <2>16, <3>1 DEF WorkerBinds, Steps
      <4>2. status[c] = "dialing"
        BY <2>16 DEF WorkerBinds, PortInv
      <4>. QED BY <3>1, <4>1, <4>2 DEF TypeOK, DictInv, PortInv, ConnectedHasAudio,
         Setting
    <3>2. CASE port # NoCall
      <4>1. /\ port' = port /\ worker' = [worker EXCEPT ![c] = "dead"]
            /\ call' = call /\ status' = status
        BY <2>16, <3>2 DEF WorkerBinds, Steps
      <4>2. status[c] = "dialing"
        BY <2>16 DEF WorkerBinds, PortInv
      <4>. QED BY <4>1, <4>2 DEF TypeOK, PortInv, ConnectedHasAudio, Setting
    <3>. QED BY <3>1, <3>2
  <2>17. ASSUME NEW c \in Outbound, WorkerRecords(c) PROVE PortInv'
    BY <2>17 DEF WorkerRecords, Steps, TypeOK, DictInv, ThreadInv, PortInv,
       ConnectedHasAudio, Setting
  <2>18. ASSUME NEW c \in Outbound, WorkerInvites(c) PROVE PortInv'
    BY <2>18 DEF WorkerInvites, Steps, TypeOK, DictInv, ThreadInv, PortInv,
       ConnectedHasAudio, Setting
  <2>19. ASSUME NEW c \in Outbound, WorkerSkips(c) PROVE PortInv'
    BY <2>19 DEF WorkerSkips, TypeOK, DictInv, ThreadInv, PortInv, ConnectedHasAudio,
       Setting
  <2>20. ASSUME NEW c \in Outbound, WorkerIsChallenged(c) PROVE PortInv'
    BY <2>20 DEF WorkerIsChallenged, Reads, Steps, TypeOK, DictInv, ThreadInv, PortInv,
       ConnectedHasAudio, Setting
  <2>21. ASSUME NEW c \in Outbound, WorkerIsRefused(c) PROVE PortInv'
    BY <2>21 DEF WorkerIsRefused, Reads, Steps, TypeOK, DictInv, ThreadInv, PortInv,
       ConnectedHasAudio, Setting
  <2>22. ASSUME NEW c \in Outbound, WorkerIsAnswered(c) PROVE PortInv'
    BY <2>22 DEF WorkerIsAnswered, Reads, Steps, TypeOK, DictInv, ThreadInv, PortInv,
       ConnectedHasAudio, Setting
  <2>23. ASSUME NEW c \in Outbound, WorkerSettles(c) PROVE PortInv'
    BY <2>23 DEF WorkerSettles, Steps, TypeOK, DictInv, ThreadInv, PortInv,
       ConnectedHasAudio, Setting
  <2>24. ASSUME NEW c \in Outbound, WorkerArms(c) PROVE PortInv'
    BY <2>24 DEF WorkerArms, Steps, TypeOK, DictInv, ThreadInv, PortInv,
       ConnectedHasAudio, Setting
  <2>25. ASSUME NEW c \in Outbound, WorkerGivesUp(c) PROVE PortInv'
    <3>1. CASE call = c
      BY <2>25, <3>1 DEF WorkerGivesUp, Steps, TypeOK, DictInv, ThreadInv, PortInv,
         ConnectedHasAudio, Setting
    <3>2. CASE call # c
      BY <2>25, <3>2 DEF WorkerGivesUp, Steps, TypeOK, DictInv, ThreadInv, PortInv,
         ConnectedHasAudio, Setting
    <3>. QED BY <3>1, <3>2
  <2>26. ASSUME NEW c \in Outbound, WorkerCancels(c) PROVE PortInv'
    BY <2>26 DEF WorkerCancels, Steps, TypeOK, DictInv, ThreadInv, PortInv,
       ConnectedHasAudio, Setting
  <2>27. ASSUME NEW c \in Outbound, WorkerCleans(c) PROVE PortInv'
    BY <2>27 DEF WorkerCleans, CloseRtp, Steps, TypeOK, DictInv, ThreadInv, PortInv,
       ConnectedHasAudio, Setting
  <2>28. ASSUME NEW c \in Outbound, WorkerReleases(c) PROVE PortInv'
    BY <2>28 DEF WorkerReleases, Steps, TypeOK, DictInv, ThreadInv, PortInv,
       ConnectedHasAudio, Setting
  <2>29. ASSUME NEW c \in Outbound, NEW r \in Responses, GatewayReplies(c, r)
         PROVE  PortInv'
    BY <2>29 DEF GatewayReplies, TypeOK, DictInv, ThreadInv, PortInv, ConnectedHasAudio,
       Setting
  <2>30. ASSUME NEW c \in Outbound, NEW r \in Responses, GatewayRepeats(c, r)
         PROVE  PortInv'
    BY <2>30 DEF GatewayRepeats, TypeOK, DictInv, ThreadInv, PortInv, ConnectedHasAudio,
       Setting
  <2>31. CASE UNCHANGED vars
    BY <2>31 DEF TypeOK, DictInv, ThreadInv, PortInv, ConnectedHasAudio, Setting, vars
  <2>. QED
    BY <2>1, <2>2, <2>3, <2>4, <2>5, <2>6, <2>7, <2>8, <2>9, <2>10, <2>11, <2>12, <2>13,
       <2>14, <2>15, <2>16, <2>17, <2>18, <2>19, <2>20, <2>21, <2>22, <2>23, <2>24, <2>25,
       <2>26, <2>27, <2>28, <2>29, <2>30, <2>31
    DEF Next, ReaderStep, AnswerStep, HangupStep, WorkerStep, GatewayStep

\* Every step leaves an inbound call's port with a call on the line or a thread
\* that is about to close it.
LEMMA OwnerStep ==
  TypeOK /\ DictInv /\ ThreadInv /\ PortInv /\ InboundPortIsOwned /\ [Next]_vars
    => InboundPortIsOwned'
  <2> SUFFICES ASSUME TypeOK, DictInv, ThreadInv, PortInv, InboundPortIsOwned, [Next]_vars
               PROVE  InboundPortIsOwned' OBVIOUS
  <2> USE IdAssumption, BoundAssumption DEF Calls, Threads, dictVars, mediaVars,
     threadVars, workerVars, peerVars, logVars
  <2>1. ASSUME NEW c \in Calls, HandleInvite(c) PROVE InboundPortIsOwned'
    BY <2>1 DEF HandleInvite, TypeOK, DictInv, ThreadInv, PortInv, InboundPortIsOwned
  <2>2. ASSUME NEW c \in Calls, HandleInviteAgain(c) PROVE InboundPortIsOwned'
    BY <2>2 DEF HandleInviteAgain, TypeOK, DictInv, ThreadInv, PortInv, InboundPortIsOwned
  <2>3. ASSUME NEW c \in Calls, HandleBye(c) PROVE InboundPortIsOwned'
    BY <2>3 DEF HandleBye, RemoteEnds, LetGo, CloseRtp, TypeOK, DictInv, ThreadInv,
       PortInv, InboundPortIsOwned
  <2>4. ASSUME NEW c \in Calls, HandleCancel(c) PROVE InboundPortIsOwned'
    BY <2>4 DEF HandleCancel, RemoteEnds, LetGo, CloseRtp, TypeOK, DictInv, ThreadInv,
       PortInv, InboundPortIsOwned
  <2>5. ASSUME NEW t \in Threads, Answer(t) PROVE InboundPortIsOwned'
    <3>1. CASE call \notin common
      <4>1. /\ UNCHANGED <<port, status, pc, held>>
            /\ status[call] = "ringing"
        BY <2>5, <3>1 DEF Answer
      <4>. QED BY <4>1 DEF InboundPortIsOwned
    <3>2. CASE call \in common
      BY <2>5, <3>2 DEF Answer, Goes, TypeOK, InboundPortIsOwned
    <3>. QED BY <3>1, <3>2
  <2>6. ASSUME NEW t \in Threads, AnswerSends(t) PROVE InboundPortIsOwned'
    BY <2>6 DEF AnswerSends, Goes, TypeOK, DictInv, ThreadInv, PortInv, InboundPortIsOwned
  <2>7. ASSUME NEW t \in Threads, AnswerRecords(t) PROVE InboundPortIsOwned'
    BY <2>7 DEF AnswerRecords, Goes, TypeOK, DictInv, ThreadInv, PortInv,
       InboundPortIsOwned
  <2>8. ASSUME NEW t \in Threads, AnswerArms(t) PROVE InboundPortIsOwned'
    BY <2>8 DEF AnswerArms, Goes, TypeOK, DictInv, ThreadInv, PortInv, InboundPortIsOwned
  <2>9. ASSUME NEW t \in Threads, Decline(t) PROVE InboundPortIsOwned'
    BY <2>9 DEF Decline, Goes, TypeOK, DictInv, ThreadInv, PortInv, InboundPortIsOwned
  <2>10. ASSUME NEW t \in Threads, DeclineSends(t) PROVE InboundPortIsOwned'
    BY <2>10 DEF DeclineSends, Goes, TypeOK, DictInv, ThreadInv, PortInv,
       InboundPortIsOwned
  <2>11. ASSUME NEW c \in Calls, TimerFires(c) PROVE InboundPortIsOwned'
    BY <2>11 DEF TimerFires, Goes, TypeOK, DictInv, ThreadInv, PortInv, InboundPortIsOwned
  <2>12. ASSUME NEW t \in Threads, HangupTakes(t) PROVE InboundPortIsOwned'
    BY <2>12 DEF HangupTakes, Goes, TypeOK, DictInv, ThreadInv, PortInv,
       InboundPortIsOwned
  <2>13. ASSUME NEW t \in Threads, HangupDrops(t) PROVE InboundPortIsOwned'
    BY <2>13 DEF HangupDrops, LetGo, CloseRtp, Goes, TypeOK, DictInv, ThreadInv, PortInv,
       InboundPortIsOwned
  <2>14. ASSUME NEW t \in Threads, HangupSays(t) PROVE InboundPortIsOwned'
    BY <2>14 DEF HangupSays, Goes, TypeOK, DictInv, ThreadInv, PortInv, InboundPortIsOwned
  <2>15. ASSUME NEW t \in Clients, NEW c \in Outbound, Dial(t, c)
         PROVE  InboundPortIsOwned'
    BY <2>15 DEF Dial, Steps, TypeOK, DictInv, ThreadInv, PortInv, InboundPortIsOwned
  <2>16. ASSUME NEW c \in Outbound, WorkerBinds(c) PROVE InboundPortIsOwned'
    BY <2>16 DEF WorkerBinds, Steps, TypeOK, DictInv, ThreadInv, PortInv,
       InboundPortIsOwned
  <2>17. ASSUME NEW c \in Outbound, WorkerRecords(c) PROVE InboundPortIsOwned'
    BY <2>17 DEF WorkerRecords, Steps, TypeOK, DictInv, ThreadInv, PortInv,
       InboundPortIsOwned
  <2>18. ASSUME NEW c \in Outbound, WorkerInvites(c) PROVE InboundPortIsOwned'
    BY <2>18 DEF WorkerInvites, Steps, TypeOK, DictInv, ThreadInv, PortInv,
       InboundPortIsOwned
  <2>19. ASSUME NEW c \in Outbound, WorkerSkips(c) PROVE InboundPortIsOwned'
    BY <2>19 DEF WorkerSkips, TypeOK, DictInv, ThreadInv, PortInv, InboundPortIsOwned
  <2>20. ASSUME NEW c \in Outbound, WorkerIsChallenged(c) PROVE InboundPortIsOwned'
    BY <2>20 DEF WorkerIsChallenged, Reads, Steps, TypeOK, DictInv, ThreadInv, PortInv,
       InboundPortIsOwned
  <2>21. ASSUME NEW c \in Outbound, WorkerIsRefused(c) PROVE InboundPortIsOwned'
    BY <2>21 DEF WorkerIsRefused, Reads, Steps, TypeOK, DictInv, ThreadInv, PortInv,
       InboundPortIsOwned
  <2>22. ASSUME NEW c \in Outbound, WorkerIsAnswered(c) PROVE InboundPortIsOwned'
    BY <2>22 DEF WorkerIsAnswered, Reads, Steps, TypeOK, DictInv, ThreadInv, PortInv,
       InboundPortIsOwned
  <2>23. ASSUME NEW c \in Outbound, WorkerSettles(c) PROVE InboundPortIsOwned'
    BY <2>23 DEF WorkerSettles, Steps, TypeOK, DictInv, ThreadInv, PortInv,
       InboundPortIsOwned
  <2>24. ASSUME NEW c \in Outbound, WorkerArms(c) PROVE InboundPortIsOwned'
    BY <2>24 DEF WorkerArms, Steps, TypeOK, DictInv, ThreadInv, PortInv,
       InboundPortIsOwned
  <2>25. ASSUME NEW c \in Outbound, WorkerGivesUp(c) PROVE InboundPortIsOwned'
    BY <2>25 DEF WorkerGivesUp, Steps, TypeOK, DictInv, ThreadInv, PortInv,
       InboundPortIsOwned
  <2>26. ASSUME NEW c \in Outbound, WorkerCancels(c) PROVE InboundPortIsOwned'
    BY <2>26 DEF WorkerCancels, Steps, TypeOK, DictInv, ThreadInv, PortInv,
       InboundPortIsOwned
  <2>27. ASSUME NEW c \in Outbound, WorkerCleans(c) PROVE InboundPortIsOwned'
    BY <2>27 DEF WorkerCleans, CloseRtp, Steps, TypeOK, DictInv, ThreadInv, PortInv,
       InboundPortIsOwned
  <2>28. ASSUME NEW c \in Outbound, WorkerReleases(c) PROVE InboundPortIsOwned'
    BY <2>28 DEF WorkerReleases, Steps, TypeOK, DictInv, ThreadInv, PortInv,
       InboundPortIsOwned
  <2>29. ASSUME NEW c \in Outbound, NEW r \in Responses, GatewayReplies(c, r)
         PROVE  InboundPortIsOwned'
    BY <2>29 DEF GatewayReplies, TypeOK, DictInv, ThreadInv, PortInv, InboundPortIsOwned
  <2>30. ASSUME NEW c \in Outbound, NEW r \in Responses, GatewayRepeats(c, r)
         PROVE  InboundPortIsOwned'
    BY <2>30 DEF GatewayRepeats, TypeOK, DictInv, ThreadInv, PortInv, InboundPortIsOwned
  <2>31. CASE UNCHANGED vars
    BY <2>31 DEF TypeOK, DictInv, ThreadInv, PortInv, InboundPortIsOwned, vars
  <2>. QED
    BY <2>1, <2>2, <2>3, <2>4, <2>5, <2>6, <2>7, <2>8, <2>9, <2>10, <2>11, <2>12, <2>13,
       <2>14, <2>15, <2>16, <2>17, <2>18, <2>19, <2>20, <2>21, <2>22, <2>23, <2>24, <2>25,
       <2>26, <2>27, <2>28, <2>29, <2>30, <2>31
    DEF Next, ReaderStep, AnswerStep, HangupStep, WorkerStep, GatewayStep

-----------------------------------------------------------------------------
(* The verdict on an inbound call                                          *)

\* A message for one call changes no other call's verdict.
LEMMA SendsToOneCall ==
  ASSUME sent \in [Calls -> SUBSET Messages],
         NEW c \in Calls, NEW kind, NEW n, Sends(c, kind, n)
  PROVE  \A d \in Calls : d # c => Verdicts(sent'[d]) = Verdicts(sent[d])
BY DEF Sends

\* A 180, a 486 or a BYE is no verdict.
LEMMA SendsNoVerdict ==
  ASSUME sent \in [Calls -> SUBSET Messages], NEW c \in Calls, NEW n,
         NEW kind \in {"180", "486", "BYE"}, Sends(c, kind, n)
  PROVE  \A d \in Calls : Verdicts(sent'[d]) = Verdicts(sent[d])
<1>1. /\ \A d \in Calls : d # c => sent'[d] = sent[d]
      /\ sent'[c] = sent[c] \cup {<<kind, n>>}
  BY DEF Sends
<1>. QED BY <1>1 DEF Verdicts

\* What answers a later INVITE is no verdict on the first one (_reanswer).
LEMMA SendsAgain ==
  ASSUME sent \in [Calls -> SUBSET Messages], NEW c \in Calls, NEW kind, Sends(c, kind, 1)
  PROVE  \A d \in Calls : Verdicts(sent'[d]) = Verdicts(sent[d])
<1>1. /\ \A d \in Calls : d # c => sent'[d] = sent[d]
      /\ sent'[c] = sent[c] \cup {<<kind, 1>>}
  BY DEF Sends
<1>. QED BY <1>1 DEF Verdicts

\* A message to a call that had no verdict leaves every call with one at most.
LEMMA SendsFirstVerdict ==
  ASSUME sent \in [Calls -> SUBSET Messages],
         NEW c \in Calls, NEW n, NEW kind, Sends(c, kind, n),
         Verdicts(sent[c]) = {}, OneVerdict
  PROVE  OneVerdict'
<1>1. /\ \A d \in Calls : d # c => sent'[d] = sent[d]
      /\ sent'[c] = sent[c] \cup {<<kind, n>>}
  BY DEF Sends
<1>2. \A m \in Verdicts(sent'[c]) : m = <<kind, n>>
  BY <1>1 DEF Verdicts
<1>3. \A d \in Calls : d # c => Verdicts(sent'[d]) = Verdicts(sent[d])
  BY <1>1
<1>. QED BY <1>2, <1>3 DEF OneVerdict, Calls

\* Every step leaves the verdict on an inbound call to the line, to one thread,
\* or to nobody: who takes a ringing call takes it off the line or out of
\* "ringing" in the same lock section.
LEMMA VerdictStep ==
  TypeOK /\ DictInv /\ ThreadInv /\ VerdictInv /\ [Next]_vars => VerdictInv'
  <2> SUFFICES ASSUME TypeOK, DictInv, ThreadInv, VerdictInv, [Next]_vars
               PROVE  VerdictInv' OBVIOUS
  <2> USE IdAssumption, BoundAssumption DEF Calls, Threads, dictVars, mediaVars,
     threadVars, workerVars, peerVars, logVars
  <2>1. ASSUME NEW c \in Calls, HandleInvite(c) PROVE VerdictInv'
    <3>1. \E kind \in {"180", "486"} : Sends(c, kind, 0)
      BY <2>1 DEF HandleInvite
    <3>2. \A d \in Calls : Verdicts(sent'[d]) = Verdicts(sent[d])
      BY <3>1, SendsNoVerdict DEF TypeOK
    <3>3. \A d \in Calls : /\ status'[d] = "unborn" => status[d] = "unborn"
                           /\ call' = d => call = d \/ status[d] = "unborn"
                           /\ status'[d] # status[d] => status[d] = "unborn"
      BY <2>1 DEF HandleInvite, TypeOK, DictInv
    <3>4. \A u \in Threads : Deciding(u)' => Deciding(u)
      BY <2>1, <3>3 DEF HandleInvite, TypeOK, ThreadInv, Deciding
    <3>5. \A u \in Threads : Deciding(u) => held[u] \in Calls
      BY DEF Deciding, ThreadInv
    <3>7. UNCHANGED held /\ status[c] = "unborn"
      BY <2>1 DEF HandleInvite, DictInv
    <3>8. \A d \in Inbound : status'[d] = "unborn" \/ (call' = d /\ status'[d] = "ringing")
            => status[d] = "unborn" \/ (call = d /\ status[d] = "ringing")
      BY <3>3
    <3>. QED BY <3>2, <3>4, <3>5, <3>7, <3>8 DEF VerdictInv
  <2>2. ASSUME NEW c \in Calls, HandleInviteAgain(c) PROVE VerdictInv'
    BY <2>2 DEF HandleInviteAgain, Sends, TypeOK, DictInv, ThreadInv, VerdictInv,
       Verdicts, Deciding
  <2>3. ASSUME NEW c \in Calls, HandleBye(c) PROVE VerdictInv'
    BY <2>3 DEF HandleBye, RemoteEnds, TypeOK, DictInv, ThreadInv, VerdictInv, Verdicts,
       Deciding
  <2>4. ASSUME NEW c \in Calls, HandleCancel(c) PROVE VerdictInv'
    BY <2>4 DEF HandleCancel, RemoteEnds, TypeOK, DictInv, ThreadInv, VerdictInv,
       Verdicts, Deciding
  <2>5. ASSUME NEW t \in Threads, Answer(t) PROVE VerdictInv'
    <3>1. /\ t \in Clients /\ pc[t] = "idle"
          /\ call \in Inbound /\ status[call] = "ringing" /\ Verdicts(sent[call]) = {}
      BY <2>5 DEF Answer, TypeOK, DictInv, VerdictInv
    <3>2. \A u \in Threads : Deciding(u) => held[u] # call
      BY <3>1 DEF Deciding, ThreadInv
    <3>3. CASE call \notin common
      <4>1. Sends(call, "488", 0) /\ call' = NoCall /\ UNCHANGED <<status, pc, held>>
        BY <2>5, <3>3 DEF Answer
      <4>2. \A d \in Calls : d # call => Verdicts(sent'[d]) = Verdicts(sent[d])
        BY <3>1, <4>1, SendsToOneCall DEF TypeOK
      <4>3. \A u \in Threads : (Deciding(u)' <=> Deciding(u)) /\ held'[u] = held[u]
        BY <4>1 DEF Deciding
      <4>4. \A u \in Threads : Deciding(u) => held[u] \in Calls
        BY DEF Deciding, ThreadInv
      <4>. QED BY <3>1, <3>2, <4>1, <4>2, <4>3, <4>4 DEF VerdictInv
    <3>4. CASE call \in common
      <4>1. /\ UNCHANGED <<call, sent>> /\ status' = [status EXCEPT ![call] = "connected"]
            /\ pc' = [pc EXCEPT ![t] = "send"] /\ held' = [held EXCEPT ![t] = call]
        BY <2>5, <3>4 DEF Answer, Goes
      <4>2. \A d \in Calls : Verdicts(sent'[d]) = Verdicts(sent[d])
        BY <4>1 DEF Verdicts
      <4>3. \A u \in Threads : u # t => (Deciding(u)' <=> Deciding(u)) /\ held'[u] = held[u]
        BY <3>1, <4>1 DEF TypeOK, ThreadInv, Deciding
      <4>. QED BY <3>1, <3>2, <4>1, <4>2, <4>3 DEF TypeOK, VerdictInv
    <3>. QED BY <3>3, <3>4
  <2>6. ASSUME NEW t \in Threads, AnswerSends(t) PROVE VerdictInv'
    BY <2>6 DEF AnswerSends, Sends, Goes, TypeOK, DictInv, ThreadInv, VerdictInv,
       Verdicts, Deciding
  <2>7. ASSUME NEW t \in Threads, AnswerRecords(t) PROVE VerdictInv'
    BY <2>7 DEF AnswerRecords, Goes, TypeOK, DictInv, ThreadInv, VerdictInv, Verdicts,
       Deciding
  <2>8. ASSUME NEW t \in Threads, AnswerArms(t) PROVE VerdictInv'
    BY <2>8 DEF AnswerArms, Goes, TypeOK, DictInv, ThreadInv, VerdictInv, Verdicts,
       Deciding
  <2>9. ASSUME NEW t \in Threads, Decline(t) PROVE VerdictInv'
    BY <2>9 DEF Decline, Goes, TypeOK, DictInv, ThreadInv, VerdictInv, Verdicts, Deciding
  <2>10. ASSUME NEW t \in Threads, DeclineSends(t) PROVE VerdictInv'
    BY <2>10 DEF DeclineSends, Sends, Goes, TypeOK, DictInv, ThreadInv, VerdictInv,
       Verdicts, Deciding
  <2>11. ASSUME NEW c \in Calls, TimerFires(c) PROVE VerdictInv'
    BY <2>11 DEF TimerFires, Goes, TypeOK, DictInv, ThreadInv, VerdictInv, Verdicts,
       Deciding
  <2>12. ASSUME NEW t \in Threads, HangupTakes(t) PROVE VerdictInv'
    BY <2>12 DEF HangupTakes, Goes, TypeOK, DictInv, ThreadInv, VerdictInv, Verdicts,
       Deciding
  <2>13. ASSUME NEW t \in Threads, HangupDrops(t) PROVE VerdictInv'
    BY <2>13 DEF HangupDrops, Goes, TypeOK, DictInv, ThreadInv, VerdictInv, Verdicts,
       Deciding
  <2>14. ASSUME NEW t \in Threads, HangupSays(t) PROVE VerdictInv'
    <3>1. /\ held[t] \in Calls /\ pc' = [pc EXCEPT ![t] = "idle"]
          /\ held' = [held EXCEPT ![t] = NoCall] /\ UNCHANGED <<call, status>>
          /\ status[held[t]] # "unborn" /\ held[t] # call
      BY <2>14 DEF HangupSays, Goes, ThreadInv
    <3>2. \A d \in Inbound : d # held[t] => Verdicts(sent'[d]) = Verdicts(sent[d])
      <4>1. UNCHANGED sent \/ \E kind, m : Sends(held[t], kind, m)
        BY <2>14 DEF HangupSays, SendsCancel
      <4>. QED BY <3>1, <4>1, SendsToOneCall DEF TypeOK, Verdicts
    <3>3. status[held[t]] # "ringing" /\ held[t] \in Inbound =>
            Verdicts(sent'[held[t]]) = Verdicts(sent[held[t]])
      <4>1. status[held[t]] # "ringing" /\ held[t] \in Inbound => Sends(held[t], "BYE", 0)
        BY <2>14 DEF HangupSays
      <4>. QED BY <3>1, <4>1, SendsNoVerdict DEF TypeOK
    <3>4. \A u \in Threads : Deciding(u)' =>
            u # t /\ Deciding(u) /\ held'[u] = held[u] /\ held[u] \in Inbound
      BY <3>1 DEF TypeOK, ThreadInv, DictInv, Deciding
    <3>5. \A u \in Threads : Deciding(u)' => Verdicts(sent'[held[u]]) = Verdicts(sent[held[u]])
      <4>1. SUFFICES ASSUME NEW u \in Threads, Deciding(u)', held[u] = held[t]
                     PROVE  status[held[t]] # "ringing"
        BY <3>2, <3>3, <3>4
      <4>2. status[held[t]] = "ringing" => Deciding(t)
        BY <2>14 DEF HangupSays, Deciding
      <4>. QED BY <3>4, <4>1, <4>2 DEF VerdictInv
    <3>6. \A u \in Threads : Deciding(u)' => Verdicts(sent'[held[u]]) = {}
      BY <3>4, <3>5 DEF VerdictInv
    <3>7. \A d \in Inbound :
            status[d] = "unborn" \/ (call = d /\ status[d] = "ringing")
              => Verdicts(sent'[d]) = {}
      BY <3>1, <3>2 DEF VerdictInv
    <3>. QED BY <3>1, <3>4, <3>6, <3>7 DEF VerdictInv
  <2>15. ASSUME NEW t \in Clients, NEW c \in Outbound, Dial(t, c) PROVE VerdictInv'
    BY <2>15 DEF Dial, Steps, TypeOK, DictInv, ThreadInv, VerdictInv, Verdicts, Deciding
  <2>16. ASSUME NEW c \in Outbound, WorkerBinds(c) PROVE VerdictInv'
    BY <2>16 DEF WorkerBinds, Steps, TypeOK, DictInv, ThreadInv, VerdictInv, Verdicts,
       Deciding
  <2>17. ASSUME NEW c \in Outbound, WorkerRecords(c) PROVE VerdictInv'
    BY <2>17 DEF WorkerRecords, Steps, TypeOK, DictInv, ThreadInv, VerdictInv, Verdicts,
       Deciding
  <2>18. ASSUME NEW c \in Outbound, WorkerInvites(c) PROVE VerdictInv'
    BY <2>18 DEF WorkerInvites, Sends, Steps, TypeOK, DictInv, ThreadInv, VerdictInv,
       Verdicts, Deciding
  <2>19. ASSUME NEW c \in Outbound, WorkerSkips(c) PROVE VerdictInv'
    BY <2>19 DEF WorkerSkips, TypeOK, DictInv, ThreadInv, VerdictInv, Verdicts, Deciding
  <2>20. ASSUME NEW c \in Outbound, WorkerIsChallenged(c) PROVE VerdictInv'
    BY <2>20 DEF WorkerIsChallenged, Reads, Steps, TypeOK, DictInv, ThreadInv, VerdictInv,
       Verdicts, Deciding
  <2>21. ASSUME NEW c \in Outbound, WorkerIsRefused(c) PROVE VerdictInv'
    BY <2>21 DEF WorkerIsRefused, Reads, Sends, Steps, TypeOK, DictInv, ThreadInv,
       VerdictInv, Verdicts, Deciding
  <2>22. ASSUME NEW c \in Outbound, WorkerIsAnswered(c) PROVE VerdictInv'
    BY <2>22 DEF WorkerIsAnswered, Reads, Sends, Steps, TypeOK, DictInv, ThreadInv,
       VerdictInv, Verdicts, Deciding
  <2>23. ASSUME NEW c \in Outbound, WorkerSettles(c) PROVE VerdictInv'
    BY <2>23 DEF WorkerSettles, Steps, TypeOK, DictInv, ThreadInv, VerdictInv, Verdicts,
       Deciding
  <2>24. ASSUME NEW c \in Outbound, WorkerArms(c) PROVE VerdictInv'
    BY <2>24 DEF WorkerArms, Steps, TypeOK, DictInv, ThreadInv, VerdictInv, Verdicts,
       Deciding
  <2>25. ASSUME NEW c \in Outbound, WorkerGivesUp(c) PROVE VerdictInv'
    BY <2>25 DEF WorkerGivesUp, Steps, TypeOK, DictInv, ThreadInv, VerdictInv, Verdicts,
       Deciding
  <2>26. ASSUME NEW c \in Outbound, WorkerCancels(c) PROVE VerdictInv'
    BY <2>26 DEF WorkerCancels, SendsCancel, Sends, Steps, TypeOK, DictInv, ThreadInv,
       VerdictInv, Verdicts, Deciding
  <2>27. ASSUME NEW c \in Outbound, WorkerCleans(c) PROVE VerdictInv'
    BY <2>27 DEF WorkerCleans, Steps, TypeOK, DictInv, ThreadInv, VerdictInv, Verdicts,
       Deciding
  <2>28. ASSUME NEW c \in Outbound, WorkerReleases(c) PROVE VerdictInv'
    BY <2>28 DEF WorkerReleases, Steps, TypeOK, DictInv, ThreadInv, VerdictInv, Verdicts,
       Deciding
  <2>29. ASSUME NEW c \in Outbound, NEW r \in Responses, GatewayReplies(c, r)
         PROVE  VerdictInv'
    BY <2>29 DEF GatewayReplies, TypeOK, DictInv, ThreadInv, VerdictInv, Verdicts,
       Deciding
  <2>30. ASSUME NEW c \in Outbound, NEW r \in Responses, GatewayRepeats(c, r)
         PROVE  VerdictInv'
    BY <2>30 DEF GatewayRepeats, TypeOK, DictInv, ThreadInv, VerdictInv, Verdicts,
       Deciding
  <2>31. CASE UNCHANGED vars
    BY <2>31 DEF TypeOK, DictInv, ThreadInv, VerdictInv, Verdicts, Deciding, vars
  <2>. QED
    BY <2>1, <2>2, <2>3, <2>4, <2>5, <2>6, <2>7, <2>8, <2>9, <2>10, <2>11, <2>12, <2>13,
       <2>14, <2>15, <2>16, <2>17, <2>18, <2>19, <2>20, <2>21, <2>22, <2>23, <2>24, <2>25,
       <2>26, <2>27, <2>28, <2>29, <2>30, <2>31
    DEF Next, ReaderStep, AnswerStep, HangupStep, WorkerStep, GatewayStep

\* Every step keeps one verdict per inbound call, because who gives one was the
\* only one entitled to and none had been given.
LEMMA OneVerdictStep ==
  TypeOK /\ DictInv /\ ThreadInv /\ VerdictInv /\ OneVerdict /\ [Next]_vars => OneVerdict'
  <2> SUFFICES ASSUME TypeOK, DictInv, ThreadInv, VerdictInv, OneVerdict, [Next]_vars
               PROVE  OneVerdict' OBVIOUS
  <2> USE IdAssumption, BoundAssumption DEF Calls, Threads, dictVars, mediaVars,
     threadVars, workerVars, peerVars, logVars
  <2>1. ASSUME NEW c \in Calls, HandleInvite(c) PROVE OneVerdict'
    <3>1. \E kind \in {"180", "486"} : Sends(c, kind, 0)
      BY <2>1 DEF HandleInvite
    <3>. QED BY <3>1, SendsNoVerdict DEF TypeOK, OneVerdict
  <2>2. ASSUME NEW c \in Calls, HandleInviteAgain(c) PROVE OneVerdict'
    <3>1. \E kind \in {"200", "488", "486"} : Sends(c, kind, 1)
      BY <2>2 DEF HandleInviteAgain
    <3>. QED BY <3>1, SendsAgain DEF TypeOK, OneVerdict
  <2>3. ASSUME NEW c \in Calls, HandleBye(c) PROVE OneVerdict'
    BY <2>3 DEF HandleBye, RemoteEnds, OneVerdict
  <2>4. ASSUME NEW c \in Calls, HandleCancel(c) PROVE OneVerdict'
    BY <2>4 DEF HandleCancel, RemoteEnds, OneVerdict
  <2>5. ASSUME NEW t \in Threads, Answer(t) PROVE OneVerdict'
    <3>1. call \in Inbound /\ Verdicts(sent[call]) = {}
      BY <2>5 DEF Answer, TypeOK, DictInv, VerdictInv
    <3>2. Sends(call, "488", 0) \/ UNCHANGED sent
      BY <2>5 DEF Answer
    <3>. QED BY <3>1, <3>2, SendsFirstVerdict DEF TypeOK, OneVerdict
  <2>6. ASSUME NEW t \in Threads, AnswerSends(t) PROVE OneVerdict'
    <3>1. held[t] \in Inbound /\ Verdicts(sent[held[t]]) = {}
      BY <2>6 DEF AnswerSends, ThreadInv, VerdictInv, Deciding
    <3>. QED BY <2>6, <3>1, SendsFirstVerdict DEF AnswerSends, TypeOK
  <2>7. ASSUME NEW t \in Threads, AnswerRecords(t) PROVE OneVerdict'
    BY <2>7 DEF AnswerRecords, OneVerdict
  <2>8. ASSUME NEW t \in Threads, AnswerArms(t) PROVE OneVerdict'
    BY <2>8 DEF AnswerArms, OneVerdict
  <2>9. ASSUME NEW t \in Threads, Decline(t) PROVE OneVerdict'
    BY <2>9 DEF Decline, OneVerdict
  <2>10. ASSUME NEW t \in Threads, DeclineSends(t) PROVE OneVerdict'
    <3>1. held[t] \in Inbound /\ Verdicts(sent[held[t]]) = {}
      BY <2>10 DEF DeclineSends, ThreadInv, VerdictInv, Deciding
    <3>. QED BY <2>10, <3>1, SendsFirstVerdict DEF DeclineSends, TypeOK
  <2>11. ASSUME NEW c \in Calls, TimerFires(c) PROVE OneVerdict'
    BY <2>11 DEF TimerFires, OneVerdict
  <2>12. ASSUME NEW t \in Threads, HangupTakes(t) PROVE OneVerdict'
    BY <2>12 DEF HangupTakes, OneVerdict
  <2>13. ASSUME NEW t \in Threads, HangupDrops(t) PROVE OneVerdict'
    BY <2>13 DEF HangupDrops, OneVerdict
  <2>14. ASSUME NEW t \in Threads, HangupSays(t) PROVE OneVerdict'
    <3>1. held[t] \in Calls
      BY <2>14 DEF HangupSays, ThreadInv
    <3>2. CASE held[t] \in Outbound
      <4>1. UNCHANGED sent \/ \E kind, m : Sends(held[t], kind, m)
        BY <2>14 DEF HangupSays, SendsCancel
      <4>. QED BY <3>2, <4>1, SendsToOneCall DEF TypeOK, OneVerdict
    <3>3. CASE held[t] \in Inbound /\ status[held[t]] = "ringing"
      <4>1. Sends(held[t], "603", 0) /\ Verdicts(sent[held[t]]) = {}
        BY <2>14, <3>3 DEF HangupSays, VerdictInv, Deciding
      <4>. QED BY <3>1, <4>1, SendsFirstVerdict DEF TypeOK
    <3>4. CASE held[t] \in Inbound /\ status[held[t]] # "ringing"
      <4>1. Sends(held[t], "BYE", 0)
        BY <2>14, <3>4 DEF HangupSays
      <4>. QED BY <3>1, <4>1, SendsNoVerdict DEF TypeOK, OneVerdict
    <3>. QED BY <3>1, <3>2, <3>3, <3>4
  <2>15. ASSUME NEW t \in Clients, NEW c \in Outbound, Dial(t, c) PROVE OneVerdict'
    BY <2>15 DEF Dial, OneVerdict
  <2>16. ASSUME NEW c \in Outbound, WorkerBinds(c) PROVE OneVerdict'
    BY <2>16 DEF WorkerBinds, OneVerdict
  <2>17. ASSUME NEW c \in Outbound, WorkerRecords(c) PROVE OneVerdict'
    BY <2>17 DEF WorkerRecords, OneVerdict
  <2>18. ASSUME NEW c \in Outbound, WorkerInvites(c) PROVE OneVerdict'
    <3>1. PICK kind, n : Sends(c, kind, n)
      BY <2>18 DEF WorkerInvites
    <3>2. \A d \in Inbound : Verdicts(sent'[d]) = Verdicts(sent[d])
      BY <3>1, SendsToOneCall DEF TypeOK
    <3>. QED BY <3>2 DEF OneVerdict
  <2>19. ASSUME NEW c \in Outbound, WorkerSkips(c) PROVE OneVerdict'
    BY <2>19 DEF WorkerSkips, OneVerdict
  <2>20. ASSUME NEW c \in Outbound, WorkerIsChallenged(c) PROVE OneVerdict'
    BY <2>20 DEF WorkerIsChallenged, OneVerdict
  <2>21. ASSUME NEW c \in Outbound, WorkerIsRefused(c) PROVE OneVerdict'
    <3>1. PICK kind, n : Sends(c, kind, n)
      BY <2>21 DEF WorkerIsRefused
    <3>2. \A d \in Inbound : Verdicts(sent'[d]) = Verdicts(sent[d])
      BY <3>1, SendsToOneCall DEF TypeOK
    <3>. QED BY <3>2 DEF OneVerdict
  <2>22. ASSUME NEW c \in Outbound, WorkerIsAnswered(c) PROVE OneVerdict'
    <3>1. PICK kind, n : Sends(c, kind, n)
      BY <2>22 DEF WorkerIsAnswered
    <3>2. \A d \in Inbound : Verdicts(sent'[d]) = Verdicts(sent[d])
      BY <3>1, SendsToOneCall DEF TypeOK
    <3>. QED BY <3>2 DEF OneVerdict
  <2>23. ASSUME NEW c \in Outbound, WorkerSettles(c) PROVE OneVerdict'
    BY <2>23 DEF WorkerSettles, OneVerdict
  <2>24. ASSUME NEW c \in Outbound, WorkerArms(c) PROVE OneVerdict'
    BY <2>24 DEF WorkerArms, OneVerdict
  <2>25. ASSUME NEW c \in Outbound, WorkerGivesUp(c) PROVE OneVerdict'
    BY <2>25 DEF WorkerGivesUp, OneVerdict
  <2>26. ASSUME NEW c \in Outbound, WorkerCancels(c) PROVE OneVerdict'
    <3>1. PICK kind, n : Sends(c, kind, n)
      BY <2>26 DEF WorkerCancels, SendsCancel
    <3>2. \A d \in Inbound : Verdicts(sent'[d]) = Verdicts(sent[d])
      BY <3>1, SendsToOneCall DEF TypeOK
    <3>. QED BY <3>2 DEF OneVerdict
  <2>27. ASSUME NEW c \in Outbound, WorkerCleans(c) PROVE OneVerdict'
    BY <2>27 DEF WorkerCleans, OneVerdict
  <2>28. ASSUME NEW c \in Outbound, WorkerReleases(c) PROVE OneVerdict'
    BY <2>28 DEF WorkerReleases, OneVerdict
  <2>29. ASSUME NEW c \in Outbound, NEW r \in Responses, GatewayReplies(c, r)
         PROVE  OneVerdict'
    BY <2>29 DEF GatewayReplies, OneVerdict
  <2>30. ASSUME NEW c \in Outbound, NEW r \in Responses, GatewayRepeats(c, r)
         PROVE  OneVerdict'
    BY <2>30 DEF GatewayRepeats, OneVerdict
  <2>31. CASE UNCHANGED vars
    BY <2>31 DEF OneVerdict, vars
  <2>. QED
    BY <2>1, <2>2, <2>3, <2>4, <2>5, <2>6, <2>7, <2>8, <2>9, <2>10, <2>11, <2>12, <2>13,
       <2>14, <2>15, <2>16, <2>17, <2>18, <2>19, <2>20, <2>21, <2>22, <2>23, <2>24, <2>25,
       <2>26, <2>27, <2>28, <2>29, <2>30, <2>31
    DEF Next, ReaderStep, AnswerStep, HangupStep, WorkerStep, GatewayStep

-----------------------------------------------------------------------------
(* The dialogue of an outbound call                                        *)

\* What was sent stays sent, and what the gateway answered stays answered.
LEMMA LogGrows ==
  ASSUME TypeOK, [Next]_vars
  PROVE  /\ \A c \in Calls : sent[c] \subseteq sent'[c]
         /\ \A c \in Outbound : replied[c] \subseteq replied'[c]
<1>1. UNCHANGED sent \/ \E c, kind, n : Sends(c, kind, n)
  BY DEF Next, ReaderStep, AnswerStep, HangupStep, WorkerStep, GatewayStep, HandleInvite,
     HandleInviteAgain, HandleBye, HandleCancel, RemoteEnds, Answer, AnswerSends,
     AnswerRecords, AnswerArms, Decline, DeclineSends, TimerFires, HangupTakes,
     HangupDrops, HangupSays, Dial, WorkerBinds, WorkerRecords, WorkerInvites,
     WorkerSkips, WorkerIsChallenged, WorkerIsRefused, WorkerIsAnswered, WorkerSettles,
     WorkerArms, WorkerGivesUp, WorkerCancels, WorkerCleans, WorkerReleases, SendsCancel,
     GatewayReplies, GatewayRepeats, vars, logVars
<1>2. UNCHANGED replied \/ \E c \in Outbound, r \in Responses : GatewayReplies(c, r)
  BY DEF Next, ReaderStep, AnswerStep, HangupStep, WorkerStep, GatewayStep, HandleInvite,
     HandleInviteAgain, HandleBye, HandleCancel, RemoteEnds, Answer, AnswerSends,
     AnswerRecords, AnswerArms, Decline, DeclineSends, TimerFires, HangupTakes,
     HangupDrops, HangupSays, Dial, WorkerBinds, WorkerRecords, WorkerInvites,
     WorkerSkips, WorkerIsChallenged, WorkerIsRefused, WorkerIsAnswered, WorkerSettles,
     WorkerArms, WorkerGivesUp, WorkerCancels, WorkerCleans, WorkerReleases,
     GatewayRepeats, vars, peerVars
<1>3. \A c \in Calls : sent[c] \subseteq sent'[c]
  <2>1. ASSUME NEW d, NEW kind, NEW n, Sends(d, kind, n), NEW c \in Calls
        PROVE  sent[c] \subseteq sent'[c]
    BY <2>1 DEF Sends, TypeOK
  <2>. QED BY <1>1, <2>1
<1>4. \A c \in Outbound : replied[c] \subseteq replied'[c]
  <2>1. ASSUME NEW d \in Outbound, NEW r \in Responses, GatewayReplies(d, r), NEW c \in Outbound
        PROVE  replied[c] \subseteq replied'[c]
    BY <2>1 DEF GatewayReplies, TypeOK
  <2>. QED BY <1>2, <2>1
<1>. QED BY <1>3, <1>4

\* Who sends for an outbound call: its worker, the thread that hung it up, and
\* the reader answering a re-INVITE.
LEMMA SentMoves ==
  ASSUME TypeOK, DictInv, ThreadInv, [Next]_vars, NEW c \in Outbound
  PROVE  \/ sent'[c] = sent[c]
         \/ HandleInviteAgain(c)
         \/ \E t \in Threads : HangupSays(t) /\ held[t] = c
         \/ WorkerInvites(c) \/ WorkerIsRefused(c) \/ WorkerIsAnswered(c)
         \/ WorkerCancels(c)
  <2> DEFINE Moves ==
         \/ sent'[c] = sent[c]
         \/ HandleInviteAgain(c)
         \/ \E t \in Threads : HangupSays(t) /\ held[t] = c
         \/ WorkerInvites(c) \/ WorkerIsRefused(c) \/ WorkerIsAnswered(c)
         \/ WorkerCancels(c)
  <2> USE IdAssumption, BoundAssumption DEF Calls, Threads, dictVars, mediaVars,
     threadVars, workerVars, peerVars, logVars
  <2>1. ASSUME NEW d \in Calls, HandleInvite(d) PROVE Moves
    BY <2>1 DEF HandleInvite, Sends, TypeOK, DictInv, ThreadInv
  <2>2. ASSUME NEW d \in Calls, HandleInviteAgain(d) PROVE Moves
    BY <2>2 DEF HandleInviteAgain, Sends, TypeOK, DictInv, ThreadInv
  <2>3. ASSUME NEW d \in Calls, HandleBye(d) PROVE Moves
    BY <2>3 DEF HandleBye, RemoteEnds, TypeOK, DictInv, ThreadInv
  <2>4. ASSUME NEW d \in Calls, HandleCancel(d) PROVE Moves
    BY <2>4 DEF HandleCancel, RemoteEnds, TypeOK, DictInv, ThreadInv
  <2>5. ASSUME NEW t \in Threads, Answer(t) PROVE Moves
    BY <2>5 DEF Answer, Sends, TypeOK, DictInv, ThreadInv
  <2>6. ASSUME NEW t \in Threads, AnswerSends(t) PROVE Moves
    BY <2>6 DEF AnswerSends, Sends, TypeOK, DictInv, ThreadInv
  <2>7. ASSUME NEW t \in Threads, AnswerRecords(t) PROVE Moves
    BY <2>7 DEF AnswerRecords, TypeOK, DictInv, ThreadInv
  <2>8. ASSUME NEW t \in Threads, AnswerArms(t) PROVE Moves
    BY <2>8 DEF AnswerArms, TypeOK, DictInv, ThreadInv
  <2>9. ASSUME NEW t \in Threads, Decline(t) PROVE Moves
    BY <2>9 DEF Decline, TypeOK, DictInv, ThreadInv
  <2>10. ASSUME NEW t \in Threads, DeclineSends(t) PROVE Moves
    BY <2>10 DEF DeclineSends, Sends, TypeOK, DictInv, ThreadInv
  <2>11. ASSUME NEW d \in Calls, TimerFires(d) PROVE Moves
    BY <2>11 DEF TimerFires, TypeOK, DictInv, ThreadInv
  <2>12. ASSUME NEW t \in Threads, HangupTakes(t) PROVE Moves
    BY <2>12 DEF HangupTakes, TypeOK, DictInv, ThreadInv
  <2>13. ASSUME NEW t \in Threads, HangupDrops(t) PROVE Moves
    BY <2>13 DEF HangupDrops, TypeOK, DictInv, ThreadInv
  <2>14. ASSUME NEW t \in Threads, HangupSays(t) PROVE Moves
    <3>1. CASE held[t] = c
      BY <2>14, <3>1
    <3>2. CASE held[t] # c
      <4>1. (\E kind, m : Sends(held[t], kind, m)) \/ UNCHANGED sent
        BY <2>14 DEF HangupSays, SendsCancel
      <4>. QED BY <3>2, <4>1 DEF Sends, TypeOK
    <3>. QED BY <3>1, <3>2
  <2>15. ASSUME NEW t \in Clients, NEW d \in Outbound, Dial(t, d) PROVE Moves
    BY <2>15 DEF Dial, TypeOK, DictInv, ThreadInv
  <2>16. ASSUME NEW d \in Outbound, WorkerBinds(d) PROVE Moves
    BY <2>16 DEF WorkerBinds, TypeOK, DictInv, ThreadInv
  <2>17. ASSUME NEW d \in Outbound, WorkerRecords(d) PROVE Moves
    BY <2>17 DEF WorkerRecords, TypeOK, DictInv, ThreadInv
  <2>18. ASSUME NEW d \in Outbound, WorkerInvites(d) PROVE Moves
    <3>1. CASE d = c
      BY <2>18, <3>1
    <3>2. CASE d # c
      <4>1. (\E kind, m : Sends(d, kind, m))
        BY <2>18 DEF WorkerInvites
      <4>. QED BY <3>2, <4>1 DEF Sends, TypeOK
    <3>. QED BY <3>1, <3>2
  <2>19. ASSUME NEW d \in Outbound, WorkerSkips(d) PROVE Moves
    BY <2>19 DEF WorkerSkips, TypeOK, DictInv, ThreadInv
  <2>20. ASSUME NEW d \in Outbound, WorkerIsChallenged(d) PROVE Moves
    BY <2>20 DEF WorkerIsChallenged, TypeOK, DictInv, ThreadInv
  <2>21. ASSUME NEW d \in Outbound, WorkerIsRefused(d) PROVE Moves
    <3>1. CASE d = c
      BY <2>21, <3>1
    <3>2. CASE d # c
      <4>1. (\E kind, m : Sends(d, kind, m))
        BY <2>21 DEF WorkerIsRefused
      <4>. QED BY <3>2, <4>1 DEF Sends, TypeOK
    <3>. QED BY <3>1, <3>2
  <2>22. ASSUME NEW d \in Outbound, WorkerIsAnswered(d) PROVE Moves
    <3>1. CASE d = c
      BY <2>22, <3>1
    <3>2. CASE d # c
      <4>1. (\E kind, m : Sends(d, kind, m))
        BY <2>22 DEF WorkerIsAnswered
      <4>. QED BY <3>2, <4>1 DEF Sends, TypeOK
    <3>. QED BY <3>1, <3>2
  <2>23. ASSUME NEW d \in Outbound, WorkerSettles(d) PROVE Moves
    BY <2>23 DEF WorkerSettles, TypeOK, DictInv, ThreadInv
  <2>24. ASSUME NEW d \in Outbound, WorkerArms(d) PROVE Moves
    BY <2>24 DEF WorkerArms, TypeOK, DictInv, ThreadInv
  <2>25. ASSUME NEW d \in Outbound, WorkerGivesUp(d) PROVE Moves
    BY <2>25 DEF WorkerGivesUp, TypeOK, DictInv, ThreadInv
  <2>26. ASSUME NEW d \in Outbound, WorkerCancels(d) PROVE Moves
    <3>1. CASE d = c
      BY <2>26, <3>1
    <3>2. CASE d # c
      <4>1. (\E kind, m : Sends(d, kind, m))
        BY <2>26 DEF WorkerCancels, SendsCancel
      <4>. QED BY <3>2, <4>1 DEF Sends, TypeOK
    <3>. QED BY <3>1, <3>2
  <2>27. ASSUME NEW d \in Outbound, WorkerCleans(d) PROVE Moves
    BY <2>27 DEF WorkerCleans, TypeOK, DictInv, ThreadInv
  <2>28. ASSUME NEW d \in Outbound, WorkerReleases(d) PROVE Moves
    BY <2>28 DEF WorkerReleases, TypeOK, DictInv, ThreadInv
  <2>29. ASSUME NEW d \in Outbound, NEW r \in Responses, GatewayReplies(d, r) PROVE Moves
    BY <2>29 DEF GatewayReplies, TypeOK, DictInv, ThreadInv
  <2>30. ASSUME NEW d \in Outbound, NEW r \in Responses, GatewayRepeats(d, r) PROVE Moves
    BY <2>30 DEF GatewayRepeats, TypeOK, DictInv, ThreadInv
  <2>31. CASE UNCHANGED vars
    BY <2>31 DEF vars
  <2>. QED
    BY <2>1, <2>2, <2>3, <2>4, <2>5, <2>6, <2>7, <2>8, <2>9, <2>10, <2>11, <2>12, <2>13,
       <2>14, <2>15, <2>16, <2>17, <2>18, <2>19, <2>20, <2>21, <2>22, <2>23, <2>24, <2>25,
       <2>26, <2>27, <2>28, <2>29, <2>30, <2>31
    DEF Next, ReaderStep, AnswerStep, HangupStep, WorkerStep, GatewayStep

\* Who touches a worker's queue or the gateway's answers.
LEMMA QueueMoves ==
  ASSUME [Next]_vars
  PROVE  \/ UNCHANGED <<inbox, replied>>
         \/ \E c \in Outbound :
              \/ WorkerSkips(c)
              \/ \E code : Reads(c, code) /\ UNCHANGED replied
              \/ \E r \in Responses : GatewayReplies(c, r) \/ GatewayRepeats(c, r)
BY DEF Next, ReaderStep, AnswerStep, HangupStep, WorkerStep, GatewayStep, HandleInvite,
   HandleInviteAgain, HandleBye, HandleCancel, RemoteEnds, Answer, AnswerSends,
   AnswerRecords, AnswerArms, Decline, DeclineSends, TimerFires, HangupTakes, HangupDrops,
   HangupSays, Dial, WorkerBinds, WorkerRecords, WorkerInvites, WorkerIsChallenged,
   WorkerIsRefused, WorkerIsAnswered, WorkerSettles, WorkerArms, WorkerGivesUp,
   WorkerCancels, WorkerCleans, WorkerReleases, vars, workerVars, peerVars

\* An outbound call that is on the line was there before, or dial() just put it
\* there, before anything was sent for it.
LEMMA CallMoves ==
  ASSUME TypeOK, DictInv, [Next]_vars, NEW c \in Outbound, call' = c
  PROVE  \/ call = c
         \/ status[c] = "unborn" /\ sent'[c] = sent[c] /\ worker'[c] = "bind"
<1>1. \/ call' = call \/ call' = NoCall
      \/ \E d \in Inbound : HandleInvite(d) /\ call' = d
      \/ \E t \in Clients, d \in Outbound : Dial(t, d)
  BY DEF Next, ReaderStep, AnswerStep, HangupStep, WorkerStep, GatewayStep, HandleInvite,
    HandleInviteAgain, HandleBye, HandleCancel, RemoteEnds, Answer, AnswerSends,
    AnswerRecords, AnswerArms, Decline, DeclineSends, TimerFires, HangupTakes,
    HangupDrops, HangupSays, WorkerBinds, WorkerRecords, WorkerInvites, WorkerSkips,
    WorkerIsChallenged, WorkerIsRefused, WorkerIsAnswered, WorkerSettles, WorkerArms,
    WorkerGivesUp, WorkerCancels, WorkerCleans, WorkerReleases, GatewayReplies,
    GatewayRepeats, vars
<1>2. ASSUME NEW t \in Clients, NEW d \in Outbound, Dial(t, d)
      PROVE  d = c /\ status[c] = "unborn" /\ sent'[c] = sent[c] /\ worker'[c] = "bind"
  BY <1>2 DEF Dial, Steps, DictInv, TypeOK, logVars
<1>. QED BY <1>1, <1>2, IdAssumption DEF Calls

\* A worker moves by its own steps, after dial() started it.
LEMMA WorkerMoves ==
  ASSUME TypeOK, [Next]_vars, NEW c \in Outbound
  PROVE  \/ worker'[c] = worker[c]
         \/ \E t \in Clients : Dial(t, c)
         \/ WorkerStep(c)
<1>1. \/ UNCHANGED worker
      \/ \E d \in Outbound : WorkerStep(d) \/ \E t \in Clients : Dial(t, d)
  BY DEF Next, ReaderStep, AnswerStep, HangupStep, GatewayStep, HandleInvite,
     HandleInviteAgain, HandleBye, HandleCancel, RemoteEnds, Answer, AnswerSends,
     AnswerRecords, AnswerArms, Decline, DeclineSends, TimerFires, HangupTakes,
     HangupDrops, HangupSays, GatewayReplies, GatewayRepeats, vars, workerVars
<1>2. ASSUME NEW d \in Outbound, d # c, WorkerStep(d) \/ \E t \in Clients : Dial(t, d)
      PROVE  worker'[c] = worker[c]
  <2>1. UNCHANGED worker \/ \E to : Steps(d, to)
    BY <1>2 DEF Dial, WorkerStep, WorkerBinds, WorkerRecords, WorkerInvites, WorkerSkips,
       WorkerIsChallenged, WorkerIsRefused, WorkerIsAnswered, WorkerSettles, WorkerArms,
       WorkerGivesUp, WorkerCancels, WorkerCleans, WorkerReleases
  <2>. QED BY <1>2, <2>1 DEF Steps, TypeOK
<1>. QED BY <1>1, <1>2

\* Every step sends nothing for an outbound call before dial().
LEMMA SilentStep ==
  TypeOK /\ DictInv /\ ThreadInv /\ SilentInv /\ [Next]_vars /\ DictInv' => SilentInv'
<1> SUFFICES ASSUME TypeOK, DictInv, ThreadInv, SilentInv, [Next]_vars, DictInv', NEW c
   \in Outbound, status'[c] = "unborn"
             PROVE  sent'[c] = {}
  BY DEF SilentInv
<1>1. status[c] = "unborn"
  <2>1. leg'[c] = "idle"
    BY DEF DictInv
  <2>2. leg[c] = "idle"
    <3>1. \/ UNCHANGED leg
          \/ \E d, to : to \in {"open", "closed"} /\ leg' = [leg EXCEPT ![d] = to]
    BY DEF Next, ReaderStep, AnswerStep, HangupStep, WorkerStep, GatewayStep,
       HandleInvite, HandleInviteAgain, HandleBye, HandleCancel, RemoteEnds, Answer,
       AnswerSends, AnswerRecords, AnswerArms, Decline, DeclineSends, TimerFires,
       HangupTakes, HangupDrops, HangupSays, Dial, WorkerBinds, WorkerRecords,
       WorkerInvites, WorkerSkips, WorkerIsChallenged, WorkerIsRefused, WorkerIsAnswered,
       WorkerSettles, WorkerArms, WorkerGivesUp, WorkerCancels, WorkerCleans,
       WorkerReleases, GatewayReplies, GatewayRepeats, vars, peerVars
    <3>. QED BY <2>1, <3>1 DEF TypeOK, Calls
  <2>. QED BY <2>2 DEF DictInv
<1>2. worker[c] = "none" /\ leg[c] = "idle"
  BY <1>1 DEF DictInv
<1>3. sent'[c] = sent[c]
  BY <1>1, <1>2, SentMoves DEF HandleInviteAgain, HangupSays, ThreadInv, WorkerInvites,
     WorkerIsRefused, WorkerIsAnswered, WorkerCancels, Reads
<1>. QED BY <1>1, <1>3 DEF SilentInv

\* Every step keeps what a worker has to read among what the gateway answered.
LEMMA QueueStep == TypeOK /\ TypeOK' /\ QueueInv /\ [Next]_vars => QueueInv'
<1> SUFFICES ASSUME TypeOK, TypeOK', QueueInv, [Next]_vars, NEW d \in Outbound, NEW i \in
   1..Len(inbox'[d])
             PROVE  inbox'[d][i] \in replied'[d]
  BY DEF QueueInv
<1>. USE DEF TypeOK
<1>1. CASE UNCHANGED <<inbox, replied>>
  BY <1>1 DEF QueueInv
<1>2. ASSUME NEW c \in Outbound, inbox[c] # <<>>,
             inbox' = [inbox EXCEPT ![c] = Tail(@)], UNCHANGED replied
      PROVE  inbox'[d][i] \in replied'[d]
  <2>1. \A j \in 1..Len(Tail(inbox[c])) : Tail(inbox[c])[j] \in replied[c]
    BY <1>2 DEF QueueInv
  <2>. QED BY <1>2, <2>1 DEF QueueInv
<1>3. ASSUME NEW c \in Outbound, NEW r \in replied'[c], Arrives(c, r) \/ UNCHANGED inbox
      PROVE  inbox'[d][i] \in replied'[d]
  <2>0. inbox' = [inbox EXCEPT ![c] = Append(@, r)] \/ inbox' = inbox
    BY <1>3 DEF Arrives
  <2>1. replied[d] \subseteq replied'[d] /\ r \in Responses
    BY LogGrows
  <2>2. CASE inbox'[d] = inbox[d]
    BY <2>1, <2>2 DEF QueueInv
  <2>3. CASE d = c /\ inbox'[d] = Append(inbox[d], r)
    <3>1. i = Len(inbox[d]) + 1 \/ i \in 1..Len(inbox[d])
      BY <2>1, <2>3
    <3>. QED BY <2>1, <2>3, <3>1 DEF QueueInv
  <2>. QED BY <2>0, <2>2, <2>3
<1>4. ASSUME NEW c \in Outbound, WorkerSkips(c) \/ \E code : Reads(c, code) /\ UNCHANGED replied
      PROVE  inbox'[d][i] \in replied'[d]
  BY <1>2, <1>4 DEF WorkerSkips, Reads, peerVars
<1>5. ASSUME NEW c \in Outbound, NEW r \in Responses, GatewayReplies(c, r) \/ GatewayRepeats(c, r)
      PROVE  inbox'[d][i] \in replied'[d]
  <2>1. Arrives(c, r) \/ UNCHANGED inbox
    BY <1>5 DEF GatewayReplies, GatewayRepeats
  <2>2. r \in replied'[c]
    BY <1>5 DEF GatewayReplies, GatewayRepeats, peerVars
  <2>. QED BY <1>3, <2>1, <2>2
<1>. QED BY <1>1, <1>4, <1>5, QueueMoves

\* What a worker acts on while it waits is an answer the gateway gave to the CSeq
\* the worker is on.
LEMMA ReadsReplied ==
  ASSUME TypeOK, QueueInv, NEW c \in Outbound, NEW code, Reads(c, code)
  PROVE  /\ worker[c] = "wait"
         /\ \E r \in replied[c] : r \in Responses /\ r.cseq = cseq[c] /\ r.code = code
<1>1. Head(inbox[c]) = inbox[c][1] /\ 1 \in 1..Len(inbox[c])
  BY DEF Reads, TypeOK
<1>. QED BY <1>1 DEF Reads, QueueInv, TypeOK

\* Every step that raises a CSeq has read the challenge to the one before it.
LEMMA ChallengeStep ==
  TypeOK /\ TypeOK' /\ QueueInv /\ ChallengeInv /\ [Next]_vars => ChallengeInv'
<1> SUFFICES ASSUME TypeOK, TypeOK', QueueInv, ChallengeInv, [Next]_vars, NEW c \in
   Outbound, cseq'[c] > 1
             PROVE  [code |-> "401", cseq |-> cseq'[c] - 1, method |-> "INVITE"] \in replied'[c]
  BY DEF ChallengeInv, Challenged
<1>1. UNCHANGED cseq \/ \E d \in Outbound : WorkerIsChallenged(d)
    BY DEF Next, ReaderStep, AnswerStep, HangupStep, WorkerStep, GatewayStep,
       HandleInvite, HandleInviteAgain, HandleBye, HandleCancel, RemoteEnds, Answer,
       AnswerSends, AnswerRecords, AnswerArms, Decline, DeclineSends, TimerFires,
       HangupTakes, HangupDrops, HangupSays, Dial, WorkerBinds, WorkerRecords,
       WorkerInvites, WorkerSkips, WorkerIsRefused, WorkerIsAnswered, WorkerSettles,
       WorkerArms, WorkerGivesUp, WorkerCancels, WorkerCleans, WorkerReleases,
       GatewayReplies, GatewayRepeats, vars, workerVars
<1>2. CASE cseq'[c] = cseq[c]
  BY <1>2, LogGrows DEF ChallengeInv, Challenged
<1>3. CASE WorkerIsChallenged(c)
  <2>1. PICK r \in replied[c] : r \in Responses /\ r.cseq = cseq[c] /\ r.code = "401"
    BY <1>3, ReadsReplied DEF WorkerIsChallenged
  <2>2. r = [code |-> "401", cseq |-> cseq[c], method |-> "INVITE"]
    BY <2>1 DEF Responses
  <2>3. cseq'[c] - 1 = cseq[c] /\ replied' = replied
    BY <1>3 DEF WorkerIsChallenged, TypeOK, peerVars
  <2>. QED BY <2>1, <2>2, <2>3
<1>. QED BY <1>1, <1>2, <1>3 DEF WorkerIsChallenged, TypeOK

\* Every step that sends a further INVITE answers a challenge.
LEMMA RetryStep ==
  TypeOK /\ DictInv /\ ThreadInv /\ ChallengeInv /\ RetryOnlyAfterChallenge /\ [Next]_vars
    => RetryOnlyAfterChallenge'
<1> SUFFICES ASSUME TypeOK, DictInv, ThreadInv, ChallengeInv, RetryOnlyAfterChallenge,
   [Next]_vars,
                    NEW c \in Outbound, NEW n \in 1..MaxCseq, <<"INVITE", n>> \in sent'[c], n > 1
             PROVE  [code |-> "401", cseq |-> n - 1, method |-> "INVITE"] \in replied'[c]
  BY DEF RetryOnlyAfterChallenge
<1>1. CASE <<"INVITE", n>> \in sent[c]
  BY <1>1, LogGrows DEF RetryOnlyAfterChallenge
<1>2. CASE <<"INVITE", n>> \notin sent[c]
  <2>1. \/ HandleInviteAgain(c) \/ (\E t \in Threads : HangupSays(t) /\ held[t] = c)
        \/ WorkerInvites(c) \/ WorkerIsRefused(c) \/ WorkerIsAnswered(c) \/ WorkerCancels(c)
    BY <1>2, SentMoves
  <2>2. \E kind, m : Sends(c, kind, m) /\ (kind = "INVITE" => WorkerInvites(c) /\ m = cseq[c])
    <3>1. CASE HandleInviteAgain(c)
      BY <3>1 DEF HandleInviteAgain
    <3>2. CASE \E t \in Threads : HangupSays(t) /\ held[t] = c
      <4>1. UNCHANGED sent \/ \E kind, m : Sends(c, kind, m) /\ kind # "INVITE"
        BY <3>2 DEF HangupSays, SendsCancel
      <4>. QED BY <1>2, <4>1
    <3>3. CASE WorkerInvites(c)
      BY <3>3 DEF WorkerInvites
    <3>4. CASE WorkerIsRefused(c) \/ WorkerIsAnswered(c) \/ WorkerCancels(c)
      BY <3>4 DEF WorkerIsRefused, WorkerIsAnswered, WorkerCancels, SendsCancel
    <3>. QED BY <2>1, <3>1, <3>2, <3>3, <3>4
  <2>3. WorkerInvites(c) /\ n = cseq[c]
    BY <1>2, <2>2 DEF Sends, TypeOK, Calls
  <2>4. replied' = replied
    BY <2>3 DEF WorkerInvites, peerVars
  <2>. QED BY <2>3, <2>4 DEF ChallengeInv, Challenged
<1>. QED BY <1>1, <1>2

\* Every step that cancels an attempt takes its call off the line first, or its
\* worker to the end.
LEMMA CancelStep ==
  TypeOK /\ TypeOK' /\ DictInv /\ ThreadInv /\ SilentInv /\ CancelInv /\ [Next]_vars => CancelInv'
<1> SUFFICES ASSUME TypeOK, TypeOK', DictInv, ThreadInv, SilentInv, CancelInv,
   [Next]_vars, NEW c \in Outbound
             PROVE  /\ \A r \in replied'[c] : r.method = "CANCEL" => <<"CANCEL", r.cseq>> \in sent'[c]
                    /\ call' = c /\ (\E n \in 1..MaxCseq : <<"CANCEL", n>> \in sent'[c]) =>
                         worker'[c] \in {"clean", "release"}
  BY DEF CancelInv
<1>1. ASSUME NEW r \in replied'[c], r.method = "CANCEL"
      PROVE  <<"CANCEL", r.cseq>> \in sent'[c]
  <2>1. r \in replied[c] \/ <<"CANCEL", r.cseq>> \in sent[c]
    <3>1. UNCHANGED replied \/ \E d \in Outbound, q \in Responses : GatewayReplies(d, q)
      BY DEF Next, ReaderStep, AnswerStep, HangupStep, WorkerStep, GatewayStep,
         HandleInvite, HandleInviteAgain, HandleBye, HandleCancel, RemoteEnds, Answer,
         AnswerSends, AnswerRecords, AnswerArms, Decline, DeclineSends, TimerFires,
         HangupTakes, HangupDrops, HangupSays, Dial, WorkerBinds, WorkerRecords,
         WorkerInvites, WorkerSkips, WorkerIsChallenged, WorkerIsRefused,
         WorkerIsAnswered, WorkerSettles, WorkerArms, WorkerGivesUp, WorkerCancels,
         WorkerCleans, WorkerReleases, GatewayRepeats, vars, peerVars
    <3>2. ASSUME NEW d \in Outbound, NEW q \in Responses, GatewayReplies(d, q), r \notin replied[c]
          PROVE  d = c /\ r = q
      BY <1>1, <3>2 DEF GatewayReplies, TypeOK
    <3>. QED BY <1>1, <3>1, <3>2 DEF GatewayReplies
  <2>. QED BY <1>1, <2>1, LogGrows DEF CancelInv, Calls
<1>2. ASSUME call' = c, NEW n \in 1..MaxCseq, <<"CANCEL", n>> \in sent'[c]
      PROVE  worker'[c] \in {"clean", "release"}
  <2>1. CASE WorkerCancels(c)
    BY <2>1 DEF WorkerCancels, Steps, TypeOK
  <2>2. CASE ~WorkerCancels(c)
    <3>1. <<"CANCEL", n>> \in sent[c]
      <4>1. CASE \E t \in Threads : HangupSays(t) /\ held[t] = c
        BY <4>1, <1>2 DEF HangupSays, ThreadInv
      <4>2. CASE \E kind, m : Sends(c, kind, m) /\ kind # "CANCEL"
        BY <4>2, <1>2 DEF Sends, TypeOK, Calls
      <4>3. CASE HandleInviteAgain(c) \/ WorkerInvites(c) \/ WorkerIsRefused(c) \/ WorkerIsAnswered(c)
        BY <4>2, <4>3 DEF HandleInviteAgain, WorkerInvites, WorkerIsRefused,
           WorkerIsAnswered
      <4>. QED BY <1>2, <2>2, <4>1, <4>3, SentMoves
    <3>2. call = c
      BY <1>2, <3>1, CallMoves DEF SilentInv
    <3>3. worker[c] \in {"clean", "release"}
      BY <3>1, <3>2 DEF CancelInv
    <3>4. worker'[c] = worker[c] \/ WorkerStep(c)
      BY <3>2, WorkerMoves, IdAssumption DEF Dial, Calls
    <3>. QED BY <1>2, <3>3, <3>4, IdAssumption DEF WorkerStep, WorkerBinds, WorkerRecords,
       WorkerInvites, WorkerSkips, WorkerIsChallenged, WorkerIsRefused, WorkerIsAnswered,
       WorkerSettles, WorkerArms, WorkerGivesUp, WorkerCancels, WorkerCleans,
       WorkerReleases, Reads, Steps, TypeOK, Calls
  <2>. QED BY <2>1, <2>2
<1>. QED BY <1>1, <1>2

\* Every step that brings an outbound call up on the line follows an answer to an
\* INVITE and an ACK of it.
LEMMA DialogStep ==
  TypeOK /\ TypeOK' /\ DictInv /\ ThreadInv /\ QueueInv /\ CancelInv /\ DialogInv /\ [Next]_vars
    => DialogInv'
<1> SUFFICES ASSUME TypeOK, TypeOK', DictInv, ThreadInv, QueueInv, CancelInv, DialogInv,
   [Next]_vars,
                    NEW c \in Outbound,
                    (call' = c /\ worker'[c] = "settle") \/ status'[c] = "connected"
             PROVE  Dialog(c)'
  BY DEF DialogInv
<1>1. Dialog(c) => Dialog(c)'
  BY LogGrows DEF Dialog, Calls
<1>2. CASE call' = c /\ worker'[c] = "settle"
  <2>1. call = c
    BY <1>2, CallMoves
  <2>2. CASE worker[c] = "settle"
    BY <1>1, <2>1, <2>2 DEF DialogInv
  <2>3. CASE worker[c] # "settle"
    <3>1. WorkerIsAnswered(c)
      <4>1. WorkerStep(c)
        BY <1>2, <2>1, <2>3, WorkerMoves, IdAssumption DEF Dial, Calls
      <4>. QED BY <1>2, <2>3, <4>1 DEF WorkerStep, WorkerBinds, WorkerRecords,
         WorkerInvites, WorkerSkips,
                  WorkerIsChallenged, WorkerIsRefused, WorkerSettles, WorkerArms, WorkerGivesUp,
                  WorkerCancels, WorkerCleans, WorkerReleases, Steps, TypeOK
    <3>2. PICK r \in replied[c] : /\ worker[c] = "wait" /\ r \in Responses
                                  /\ r.cseq = cseq[c] /\ r.code = "200"
      BY <3>1, ReadsReplied DEF WorkerIsAnswered
    <3>3. r.method # "CANCEL"
      BY <2>1, <3>2 DEF CancelInv, TypeOK
    <3>4. r = [code |-> "200", cseq |-> cseq[c], method |-> "INVITE"]
      BY <3>2, <3>3 DEF Responses
    <3>5. <<"ACK", cseq[c]>> \in sent'[c] /\ replied' = replied
      BY <3>1 DEF WorkerIsAnswered, Sends, TypeOK, Calls, peerVars
    <3>. QED BY <3>2, <3>4, <3>5 DEF Dialog, TypeOK
  <2>. QED BY <2>2, <2>3
<1>3. CASE status'[c] = "connected"
  <2>1. CASE status[c] = "connected"
    BY <1>1, <2>1 DEF DialogInv
  <2>2. CASE status[c] # "connected"
    <3>1. \/ UNCHANGED status
          \/ \E d \in Inbound : status' = [status EXCEPT ![d] = "ringing"]
          \/ \E t \in Threads : Answer(t)
          \/ \E d \in Outbound : WorkerSettles(d) \/ status' = [status EXCEPT ![d] = "dialing"]
      BY DEF Next, ReaderStep, AnswerStep, HangupStep, WorkerStep, GatewayStep,
         HandleInvite, HandleInviteAgain, HandleBye, HandleCancel, RemoteEnds,
         AnswerSends, AnswerRecords, AnswerArms, Decline, DeclineSends, TimerFires,
         HangupTakes, HangupDrops, HangupSays, Dial, WorkerBinds, WorkerRecords,
         WorkerInvites, WorkerSkips, WorkerIsChallenged, WorkerIsRefused,
         WorkerIsAnswered, WorkerArms, WorkerGivesUp, WorkerCancels, WorkerCleans,
         WorkerReleases, GatewayReplies, GatewayRepeats, vars, dictVars
    <3>2. ASSUME NEW t \in Threads, Answer(t) PROVE FALSE
      BY <1>3, <2>2, <3>2 DEF Answer, DictInv, TypeOK, Calls
    <3>3. \E d \in Outbound : WorkerSettles(d)
      <4>1. ASSUME NEW d \in Calls, NEW s \in {"ringing", "dialing"},
                   status' = [status EXCEPT ![d] = s]
            PROVE  FALSE
        BY <1>3, <2>2, <4>1 DEF TypeOK, Calls
      <4>. QED BY <1>3, <2>2, <3>1, <3>2, <4>1 DEF Calls
    <3>4. call = c /\ worker[c] = "settle"
      <4>1. PICK d \in Outbound : WorkerSettles(d)
        BY <3>3
      <4>2. call = d /\ status' = [status EXCEPT ![d] = "connected"] /\ worker[d] = "settle"
        BY <1>3, <2>2, <4>1 DEF WorkerSettles
      <4>. QED BY <1>3, <2>2, <4>2 DEF TypeOK, Calls
    <3>. QED BY <1>1, <3>4 DEF DialogInv
  <2>. QED BY <2>1, <2>2
<1>. QED BY <1>2, <1>3

\* Every step that says BYE to an outbound call says it in a dialog.
LEMMA ByeStep ==
  TypeOK /\ DictInv /\ ThreadInv /\ DialogInv /\ ByeNamesADialog /\ [Next]_vars => ByeNamesADialog'
<1> SUFFICES ASSUME TypeOK, DictInv, ThreadInv, DialogInv, ByeNamesADialog, [Next]_vars,
                    NEW c \in Outbound, <<"BYE", 0>> \in sent'[c]
             PROVE  Dialog(c)'
  BY DEF ByeNamesADialog, Dialog
<1>1. Dialog(c) => Dialog(c)'
  BY LogGrows DEF Dialog, Calls
<1>2. CASE <<"BYE", 0>> \in sent[c]
  BY <1>1, <1>2 DEF ByeNamesADialog, Dialog
<1>3. CASE <<"BYE", 0>> \notin sent[c]
  <2>1. \/ \E kind, m : Sends(c, kind, m) /\ kind # "BYE"
        \/ \E t \in Threads : HangupSays(t) /\ held[t] = c
    <3>1. HandleInviteAgain(c) => \E kind, m : Sends(c, kind, m) /\ kind # "BYE"
      BY DEF HandleInviteAgain
    <3>2. WorkerInvites(c) \/ WorkerIsRefused(c) \/ WorkerIsAnswered(c) \/ WorkerCancels(c)
            => \E kind, m : Sends(c, kind, m) /\ kind # "BYE"
      BY DEF WorkerInvites, WorkerIsRefused, WorkerIsAnswered, WorkerCancels, SendsCancel
    <3>. QED BY <1>3, <3>1, <3>2, SentMoves
  <2>2. PICK t \in Threads : HangupSays(t) /\ held[t] = c
    BY <1>3, <2>1 DEF Sends, TypeOK, Calls
  <2>3. status[c] = "connected"
    <3>1. status[c] # "connected" =>
            UNCHANGED sent \/ \E kind, m : Sends(c, kind, m) /\ kind # "BYE"
      BY <2>2 DEF HangupSays, SendsCancel
    <3>. QED BY <1>3, <3>1 DEF Sends, TypeOK, Calls
  <2>. QED BY <1>1, <2>3 DEF DialogInv
<1>. QED BY <1>2, <1>3

-----------------------------------------------------------------------------
(* The invariant, and what follows                                         *)

\* A line that has just been started satisfies the invariant.
LEMMA InitIInv == Init => IInv
<1> SUFFICES ASSUME Init PROVE IInv OBVIOUS
<1>. USE IdAssumption, BoundAssumption DEF Init, Calls, Threads
<1>1. TypeOK
  BY DEF TypeOK, Statuses, ThreadPcs, WorkerPcs
<1>2. DictInv /\ ThreadInv /\ PortInv /\ InboundPortIsOwned
  BY DEF DictInv, ThreadInv, PortInv, Setting, ConnectedHasAudio, InboundPortIsOwned
<1>3. VerdictInv /\ OneVerdict
  BY DEF VerdictInv, OneVerdict, Deciding, Verdicts
<1>4. SilentInv /\ QueueInv /\ ChallengeInv /\ CancelInv /\ DialogInv
  BY DEF SilentInv, QueueInv, ChallengeInv, CancelInv, DialogInv
<1>5. RetryOnlyAfterChallenge /\ ByeNamesADialog
  BY DEF RetryOnlyAfterChallenge, ByeNamesADialog
<1>. QED BY <1>1, <1>2, <1>3, <1>4, <1>5 DEF IInv

\* Who changes the call on the line, a status or a leg.
LEMMA LineMoves ==
  ASSUME [Next]_vars
  PROVE  \/ UNCHANGED <<call, status, leg>>
         \/ \E c \in Calls : HandleInvite(c) \/ RemoteEnds(c)
         \/ \E t \in Threads : Answer(t) \/ Decline(t) \/ HangupTakes(t)
         \/ \E t \in Clients, c \in Outbound : Dial(t, c)
         \/ \E c \in Outbound : WorkerSettles(c) \/ WorkerReleases(c)
BY DEF Next, ReaderStep, AnswerStep, HangupStep, WorkerStep, GatewayStep,
   HandleInviteAgain, HandleBye, HandleCancel, AnswerSends, AnswerRecords, AnswerArms,
   DeclineSends, TimerFires, HangupDrops, HangupSays, WorkerBinds, WorkerRecords,
   WorkerInvites, WorkerSkips, WorkerIsChallenged, WorkerIsRefused, WorkerIsAnswered,
   WorkerArms, WorkerGivesUp, WorkerCancels, WorkerCleans, GatewayReplies, GatewayRepeats,
   vars, dictVars, peerVars

\* No step of one call's leg or worker takes the line from another call.
LEMMA BusinessStep ==
  TypeOK /\ [Next]_vars =>
    \A c \in Calls :
         leg'[c] # leg[c] \/ (c \in Outbound /\ worker'[c] # worker[c])
             => call' = call \/ call \in {c, NoCall}
<1> SUFFICES ASSUME TypeOK, [Next]_vars, NEW c \in Calls,
                    leg'[c] # leg[c] \/ (c \in Outbound /\ worker'[c] # worker[c])
             PROVE  call' = call \/ call \in {c, NoCall}
  OBVIOUS
<1>1. ASSUME NEW d \in Calls, RemoteEnds(d) PROVE call' = call \/ call = c
  BY <1>1 DEF RemoteEnds, TypeOK, workerVars
<1>2. ASSUME NEW t \in Threads, Answer(t) \/ Decline(t) \/ HangupTakes(t) PROVE FALSE
  BY <1>2 DEF Answer, Decline, HangupTakes, workerVars, peerVars
<1>3. ASSUME NEW d \in Outbound, WorkerReleases(d) PROVE call' = call \/ call = c
  BY <1>3 DEF WorkerReleases, Steps, TypeOK, peerVars
<1>4. ASSUME NEW d \in Calls, HandleInvite(d) PROVE call' = call \/ call = NoCall
  BY <1>4 DEF HandleInvite
<1>. QED BY <1>1, <1>2, <1>3, <1>4, LineMoves DEF Dial, WorkerSettles, dictVars

\* A line that has just been started is one module Line starts with.
LEMMA LineInitial == Init => Contract!LineInit
<1> SUFFICES ASSUME Init PROVE Contract!LineInit OBVIOUS
<1>1. \A c \in Calls : PhaseOf(c) = "new"
  BY IdAssumption DEF Init, PhaseOf
<1>. QED BY <1>1 DEF Init, Contract!LineInit, Contract!Calls, Calls

\* Every step is a step of module Line or changes nothing it can see: the lock
\* sections are where a call takes, moves on and leaves the line.
LEMMA LineStep ==
  TypeOK /\ DictInv /\ PortInv /\ [Next]_vars => [Contract!LineNext]_(Contract!lineVars)
<1> SUFFICES ASSUME TypeOK, DictInv, PortInv, [Next]_vars
             PROVE  Contract!LineNext \/ UNCHANGED Contract!lineVars
  OBVIOUS
<1>. USE IdAssumption DEF Calls, Contract!Calls
<1>1. ASSUME UNCHANGED <<call, status, leg>> PROVE UNCHANGED Contract!lineVars
  BY <1>1 DEF Contract!lineVars, PhaseOf
<1>0. ASSUME NEW c \in Calls, call = NoCall, call' = c, leg[c] = "idle",
             leg' = [leg EXCEPT ![c] = "open"],
             status' = [status EXCEPT ![c] = IF c \in Inbound THEN "ringing" ELSE "dialing"]
      PROVE  Contract!LineNext
  <2>1. PhaseOf(c) = "new" /\ PhaseOf(c)' = IF c \in Inbound THEN "ringing" ELSE "dialing"
    BY <1>0 DEF PhaseOf, TypeOK
  <2>2. \A d \in Calls : d # c => PhaseOf(d)' = PhaseOf(d)
    BY <1>0 DEF PhaseOf, TypeOK
  <2>3. Contract!Seize(c)
    BY <1>0, <2>1, <2>2 DEF Contract!Seize
  <2>. QED BY <2>3 DEF Contract!LineNext
<1>2. ASSUME NEW c \in Calls, HandleInvite(c) PROVE Contract!LineNext
  <2>1. CASE call = NoCall
    BY <1>0, <1>2, <2>1 DEF HandleInvite
  <2>2. CASE call # NoCall
    <3>1. /\ c \in Inbound /\ leg[c] = "idle" /\ leg' = [leg EXCEPT ![c] = "open"]
          /\ UNCHANGED <<call, status>>
      BY <1>2, <2>2 DEF HandleInvite
    <3>2. c # call
      BY <2>2, <3>1 DEF DictInv
    <3>3. PhaseOf(c) = "new" /\ PhaseOf(c)' = "over"
      BY <3>1, <3>2 DEF PhaseOf, TypeOK
    <3>4. \A d \in Calls : d # c => PhaseOf(d)' = PhaseOf(d)
      BY <3>1 DEF PhaseOf, TypeOK
    <3>5. Contract!TurnAway(c)
      BY <2>2, <3>1, <3>3, <3>4 DEF Contract!TurnAway
    <3>. QED BY <3>5 DEF Contract!LineNext
  <2>. QED BY <2>1, <2>2
<1>3. ASSUME NEW c \in Calls, call = c, call' = NoCall, status' = status,
             leg'[c] # "idle", \A d \in Calls : d # c => leg'[d] = leg[d]
      PROVE  Contract!LineNext
  BY <1>3 DEF Contract!LineNext, Contract!Release, PhaseOf
<1>4. ASSUME NEW c \in Calls, RemoteEnds(c)
      PROVE  Contract!LineNext \/ UNCHANGED Contract!lineVars
  <2>1. CASE call = c
    BY <1>3, <1>4, <2>1 DEF RemoteEnds, TypeOK, dictVars
  <2>2. CASE call # c
    BY <1>4, <2>2 DEF RemoteEnds, TypeOK, dictVars, Contract!lineVars, PhaseOf
  <2>. QED BY <2>1, <2>2
<1>5. ASSUME NEW t \in Threads, Answer(t) PROVE Contract!LineNext
  <2>1. CASE call \notin common
    BY <1>3, <1>5, <2>1 DEF Answer, TypeOK, DictInv, peerVars
  <2>2. CASE call \in common
    <3>1. /\ call \in Calls /\ status[call] = "ringing" /\ UNCHANGED <<call, leg>>
          /\ status' = [status EXCEPT ![call] = "connected"]
      BY <1>5, <2>2 DEF Answer, TypeOK, peerVars
    <3>2. PhaseOf(call) = "ringing"
      BY <3>1 DEF PhaseOf
    <3>3. \A d \in Calls : PhaseOf(d)' = IF d = call THEN "connected" ELSE PhaseOf(d)
      BY <3>1 DEF PhaseOf, TypeOK
    <3>4. Contract!Connect(call)
      BY <3>1, <3>2, <3>3 DEF Contract!Connect
    <3>. QED BY <3>1, <3>4 DEF Contract!LineNext
  <2>. QED BY <2>1, <2>2
<1>6. ASSUME NEW t \in Threads, Decline(t) \/ HangupTakes(t)
      PROVE  Contract!LineNext \/ UNCHANGED Contract!lineVars
  <2>1. CASE call = NoCall
    BY <1>1, <1>6, <2>1 DEF Decline, HangupTakes, dictVars, peerVars
  <2>2. CASE call # NoCall
    BY <1>3, <1>6, <2>2 DEF Decline, HangupTakes, dictVars, peerVars, TypeOK, DictInv
  <2>. QED BY <2>1, <2>2
<1>7. ASSUME NEW t \in Clients, NEW c \in Outbound, Dial(t, c) PROVE Contract!LineNext
  BY <1>0, <1>7 DEF Dial
<1>8. ASSUME NEW c \in Outbound, WorkerSettles(c)
      PROVE  Contract!LineNext \/ UNCHANGED Contract!lineVars
  <2>1. CASE call = c
    BY <1>8, <2>1 DEF WorkerSettles, TypeOK, PortInv, Setting, peerVars,
       Contract!LineNext, Contract!Connect, PhaseOf
  <2>2. CASE call # c
    BY <1>1, <1>8, <2>2 DEF WorkerSettles, peerVars
  <2>. QED BY <2>1, <2>2
<1>9. ASSUME NEW c \in Outbound, WorkerReleases(c)
      PROVE  Contract!LineNext \/ UNCHANGED Contract!lineVars
  <2>1. CASE call = c
    BY <1>3, <1>9, <2>1 DEF WorkerReleases, TypeOK, DictInv, dictVars, peerVars
  <2>2. CASE call # c
    BY <1>1, <1>9, <2>2 DEF WorkerReleases, dictVars, peerVars
  <2>. QED BY <2>1, <2>2
<1>. QED BY <1>1, <1>2, <1>4, <1>5, <1>6, <1>7, <1>8, <1>9, LineMoves

\* The inductive invariant holds in every state, for every line, however its
\* threads interleave and whatever the gateway and the network do.
THEOREM Invariance == Spec => []IInv
<1>1. Init => IInv
  BY InitIInv
<1>2. IInv /\ [Next]_vars => IInv'
  <2> SUFFICES ASSUME IInv, [Next]_vars PROVE IInv' OBVIOUS
  <2>1. TypeOK' /\ DictInv' /\ ThreadInv'
    BY TypeStep, DictStep, ThreadStep DEF IInv
  <2>2. PortInv' /\ InboundPortIsOwned'
    BY PortStep, OwnerStep DEF IInv
  <2>3. VerdictInv' /\ OneVerdict'
    BY VerdictStep, OneVerdictStep DEF IInv
  <2>4. SilentInv' /\ QueueInv' /\ ChallengeInv' /\ CancelInv' /\ DialogInv'
    BY <2>1, SilentStep, QueueStep, ChallengeStep, CancelStep, DialogStep DEF IInv
  <2>5. RetryOnlyAfterChallenge' /\ ByeNamesADialog'
    BY RetryStep, ByeStep DEF IInv
  <2>. QED BY <2>1, <2>2, <2>3, <2>4, <2>5 DEF IInv
<1>. QED BY <1>1, <1>2, PTL DEF Spec

\* Every variable keeps its type; a CSeq stays within what was challenged.
THEOREM TypeCorrect == Spec => []TypeOK
<1>1. IInv => TypeOK
  BY DEF IInv
<1>. QED BY <1>1, Invariance, PTL

\* A connected call has its own audio: nobody closes the session of the call on
\* the line while closing that of another (answer, hangup, _outbound_worker).
THEOREM AudioStays == Spec => []ConnectedHasAudio
<1>1. IInv => ConnectedHasAudio
  BY DEF IInv, PortInv
<1>. QED BY <1>1, Invariance, PTL

\* An inbound call's RTP port is never left bound by nobody (handle_bye,
\* handle_cancel, hangup).
THEOREM PortIsNotLeaked == Spec => []InboundPortIsOwned
<1>1. IInv => InboundPortIsOwned
  BY DEF IInv
<1>. QED BY <1>1, Invariance, PTL

\* A caller's INVITE gets one final response, whichever threads answer, decline
\* and hang up at the same time (answer, decline, hangup).
THEOREM OneVerdictEach == Spec => []OneVerdict
<1>1. IInv => OneVerdict
  BY DEF IInv
<1>. QED BY <1>1, Invariance, PTL

\* An INVITE is repeated only for a challenge to the one before it, whatever is
\* lost, late or doubled (_relevant_responses, _retry_invite_with_auth).
THEOREM RetryIsAnswerToChallenge == Spec => []RetryOnlyAfterChallenge
<1>1. IInv => RetryOnlyAfterChallenge
  BY DEF IInv
<1>. QED BY <1>1, Invariance, PTL

\* hangup() says BYE to an outbound call only in a dialog that exists.
THEOREM ByeInDialog == Spec => []ByeNamesADialog
<1>1. IInv => ByeNamesADialog
  BY DEF IInv
<1>. QED BY <1>1, Invariance, PTL

\* A late BYE or CANCEL, or the worker of a call long over, takes the line from
\* no other call (handle_bye, handle_cancel, the worker's finally block).
THEOREM EachCallItsOwnBusiness == Spec => OneCallsBusiness
<1>1. TypeOK /\ [Next]_vars =>
        [\A c \in Calls :
           leg'[c] # leg[c] \/ (c \in Outbound /\ worker'[c] # worker[c])
             => call' = call \/ call \in {c, NoCall}]_vars
  BY BusinessStep
<1>. QED BY <1>1, TypeCorrect, PTL DEF Spec, OneCallsBusiness

\* CallManager implements module Line: threads, messages and failures included,
\* a line carries one call at a time, from new to over.
THEOREM ImplementsLine == Spec => LineContract
<1>1. IInv /\ [Next]_vars => [Contract!LineNext]_(Contract!lineVars)
  BY LineStep DEF IInv
<1>. QED BY <1>1, LineInitial, Invariance, PTL DEF Spec, LineContract, Contract!LineSpec

=============================================================================
