--------------------------- MODULE TalkCallsProofs ---------------------------
(***************************************************************************)
(* Theorems about TalkCalls for any calls, people and kinds of call, and   *)
(* any number of moves, unread messages and lost connections: the types,   *)
(* that nothing of a call is left in the room, that a recorded ring is     *)
(* stopped, and that a dialout is reported from its acceptance to its end. *)
(***************************************************************************)
EXTENDS TalkCalls, SequenceTheorems, TLAPS

Phases == {"new", "ringing", "dialling", "connected", "ending", "refused", "abandoned", "lost", "over"}
Rings == Tasks \cup {"callback", "start", "asking", "joining", "calling", "sounding", "failed",
                     "dialled", "join"}
Conns == Tasks \cup {"callback", "start", "dialogue", "joining", "offering", "report"}
Downs == Tasks \cup {"pop", "reject", "stopping", "stopped", "closed", "ending", "leaving"}
Statuses == {"accepted", "rejected", "connected", "cleared"}
Medias == {"none", "open", "lost", "closed"}
Rooms == Calls \cup {NoRoom, Default}
Entries == [waiting : BOOLEAN, opener : BOOLEAN, room : Rooms, asks : BOOLEAN, media : BOOLEAN]
Publishings == [at : Conns, room : Rooms, asks : BOOLEAN]
Sessions == Calls \cup People
Messages == [type : {"update"}, who : SUBSET Sessions] \cup [type : {"end", "hangup"}]

LineOK ==
    /\ line \in Calls \cup {NoCall} /\ hung \in Calls \cup {NoCall}
    /\ phase \in [Calls -> Phases] /\ raised \subseteq Calls
    /\ line # NoCall => phase[line] \in {"ringing", "dialling", "connected"}
    /\ hung # NoCall => phase[hung] = "ending"
EntriesOK == table \subseteq Calls /\ entry \in [Calls -> Entries]
TasksOK ==
    /\ ring \in [Calls -> Rings] /\ conn \in [Calls -> Publishings]
    /\ down \in [Calls -> Downs] /\ stop \subseteq Calls
RoomOK ==
    /\ ws \in BOOLEAN /\ present \subseteq Sessions /\ inbox \in Seq(Messages)
    /\ known = Unseeded \/ known \subseteq Sessions
HandlerOK == handler # Idle => handler.waiting \in Calls \cup {NoCall}
OutsideOK ==
    /\ plates \subseteq Calls /\ standing \subseteq Calls
    /\ media \in [Calls -> Medias] /\ reports \in [Calls -> Seq(Statuses)]
LossesOK == losses \in Nat /\ (losses = 0 => ws)
Types == LineOK /\ EntriesOK /\ TasksOK /\ RoomOK /\ HandlerOK /\ OutsideOK /\ LossesOK

\* Where a call is before its entry is in the table, and a teardown that has taken
\* an entry out.
Early == {"none", "callback", "dialled"}
Going == {"stopping", "stopped", "closed", "ending", "leaving"}

\* A call enters the table once, after it came to Talk, and leaves it in its teardown.
EntryInv(c) ==
    /\ phase[c] = "new" <=> ring[c] = "none"
    /\ phase[c] = "over" <=> down[c] # "none"
    /\ ring[c] = "callback" => c \in Inbound
    /\ ring[c] \in Early => c \notin table /\ ~entry[c].opener /\ ~entry[c].media
    /\ c \notin table /\ down[c] \in {"none", "pop", "reject"} => ring[c] \in Early
    /\ down[c] \in Going => c \notin table /\ ring[c] \notin Early
    /\ entry[c].opener => ring[c] = "done"

\* What the teardown has still to take away is what the entry knows of.
LeftInv(c) ==
    /\ c \in plates \/ media[c] \in {"open", "lost"} => entry[c].media
    /\ losses = 0 /\ c \notin table =>
         /\ c \in plates => down[c] \in {"stopping", "stopped", "closed"}
         /\ media[c] \in {"open", "lost"} => down[c] \in {"stopping", "stopped"}

\* A ring that is recorded: stop_ring stops it if it waits, the end of the room's
\* call if it was accepted, and both are still to come while it stands.
RingInv(c) ==
    losses = 0 /\ c \notin table /\ entry[c].opener /\ c \in standing =>
        \/ entry[c].waiting /\ down[c] = "stopping"
        \/ ~entry[c].waiting /\ down[c] \in {"closed", "ending"}

Accepted(q) == q # <<>> /\ Head(q) = "accepted"
Cleared(q) == \E i \in DOMAIN q : q[i] = "cleared"

\* The report of a dialout, by how far its request and its teardown are.
ReportInv(c) ==
    c \in Dialouts =>
        /\ IF ring[c] \in Early THEN reports[c] = <<>> ELSE Accepted(reports[c])
        /\ losses = 0 /\ down[c] \in {"ending", "leaving", "done"} => Cleared(reports[c])

CallInv(c) == EntryInv(c) /\ LeftInv(c) /\ RingInv(c) /\ ReportInv(c)
\* Nothing is published of a call that has not come.
ConnInv == \A c \in Calls : conn[c].at # "none" => phase[c] # "new"
IInv == Types /\ ConnInv /\ \A c \in Calls : CallInv(c)

LEMMA Distinct == NoCall \notin Calls /\ Inbound \cap Dialouts = {} /\ Inbound \subseteq Calls
                  /\ Dialouts \subseteq Calls
  BY TalkAssumption DEF Calls

LEMMA InitInv == Init => IInv
<1> SUFFICES ASSUME Init PROVE IInv
  OBVIOUS
<1> USE DEF Init
<1>1. LineOK /\ TasksOK /\ RoomOK /\ HandlerOK
  BY DEF LineOK, TasksOK, RoomOK, HandlerOK, Phases, Rings, Conns, Downs, Tasks, Publishings,
         NotConnected, Rooms
<1>2. EntriesOK
  BY DEF EntriesOK, Entries, NewCall, Rooms
<1>3. OutsideOK /\ LossesOK
  BY DEF OutsideOK, LossesOK, Medias
<1>4. ConnInv
  BY DEF ConnInv, NotConnected
<1>5. ASSUME NEW c \in Calls PROVE CallInv(c)
  BY DEF CallInv, EntryInv, LeftInv, RingInv, ReportInv, NewCall, Early, Going
<1>6. QED
  BY <1>1, <1>2, <1>3, <1>4, <1>5 DEF IInv, Types

\* What a step leaves of a call that it is not about, or that it moves on inside the
\* table without having to do with what the properties speak of.
Alike(c) ==
    /\ (phase'[c] = "new") = (phase[c] = "new") /\ (phase'[c] = "over") = (phase[c] = "over")
    /\ (c \in table') = (c \in table)
    /\ \/ entry'[c] = entry[c]
       \/ c \in table /\ entry'[c].opener = entry[c].opener /\ entry'[c].media = entry[c].media
    /\ \/ ring'[c] = ring[c]
       \/ ring[c] \notin Early \cup {"done"} /\ ring'[c] \notin Early
    /\ down'[c] = down[c]
    /\ media'[c] = media[c] \/ {media[c], media'[c]} \subseteq {"open", "lost"}
    /\ (c \in plates') = (c \in plates) /\ (c \in standing') = (c \in standing)
    /\ reports'[c] = reports[c] /\ losses' = losses
LEMMA OthersKeep ==
    ASSUME NEW c \in Calls, CallInv(c), Alike(c)
    PROVE  CallInv(c)'
<1> USE DEF Alike
<1>1. EntryInv(c)'
  BY DEF CallInv, EntryInv, Early
<1>2. LeftInv(c)' /\ RingInv(c)'
  BY DEF CallInv, LeftInv, RingInv
<1>3. ReportInv(c)'
  BY DEF CallInv, ReportInv, Early
<1>4. QED
  BY <1>1, <1>2, <1>3 DEF CallInv
-----------------------------------------------------------------------------
(* What the parts call. *)

\* hangup(): no call becomes new or over by it.
LEMMA HangsUpKeeps ==
    ASSUME LineOK, NEW onLoop, HangsUp(onLoop)
    PROVE  /\ LineOK'
           /\ \A c \in Calls : /\ (phase'[c] = "new") = (phase[c] = "new")
                               /\ (phase'[c] = "over") = (phase[c] = "over")
<1> USE Distinct DEF LineOK, HangsUp, Set, Phases
<1>1. CASE line = NoCall
  BY <1>1
<1>2. CASE line # NoCall /\ phase[line] = "dialling"
  BY <1>2
<1>3. CASE line # NoCall /\ phase[line] # "dialling"
  BY <1>3
<1>4. QED
  BY <1>1, <1>2, <1>3

\* What a callback of a connected call schedules.
LEMMA ConnectedIs ==
    ASSUME NEW tab, NEW ent \in [Calls -> Entries], NEW d \in Calls, Connected(tab, ent, d)
    PROVE  \E p \in Publishings : p.at = "start" /\ conn' = [conn EXCEPT ![d] = p]
<1> DEFINE r == RoomId(tab, ent, d)
           a == d \in tab /\ ent[d].asks /\ ent[d].room = NoRoom
<1>1. r \in Rooms /\ a \in BOOLEAN
  BY DEF RoomId, Entries, Rooms
<1>2. conn' = [conn EXCEPT ![d] = [at |-> "start", room |-> r, asks |-> a]]
  BY DEF Connected, Set
<1> HIDE DEF r, a
<1>3. [at |-> "start", room |-> r, asks |-> a] \in Publishings
  BY <1>1 DEF Publishings, Conns
<1>4. QED
  BY <1>2, <1>3

\* answer(): the call on the line, if it rings, and what comes of it.
LEMMA AnswersKeep ==
    ASSUME LineOK, ConnInv, conn \in [Calls -> Publishings],
           \/ Answers(ToTell(line))
           \/ \E tab, ent : ent \in [Calls -> Entries] /\ Answers(Connected(tab, ent, line))
    PROVE  /\ LineOK' /\ ConnInv' /\ conn' \in [Calls -> Publishings]
           /\ \A c \in Calls : /\ (phase'[c] = "new") = (phase[c] = "new")
                               /\ (phase'[c] = "over") = (phase[c] = "over")
<1> USE Distinct
<1>1. CASE line # NoCall /\ phase[line] = "ringing"
  <2>1. line \in Calls /\ hung' = hung
    BY <1>1 DEF LineOK, Answers
  <2>2. \/ /\ phase' = [phase EXCEPT ![line] = "connected"] /\ UNCHANGED <<line, raised>>
           /\ \/ ToTell(line)
              \/ \E tab, ent : ent \in [Calls -> Entries] /\ Connected(tab, ent, line)
        \/ /\ line' = NoCall /\ phase' = [phase EXCEPT ![line] = "refused"]
           /\ UNCHANGED <<raised, conn>>
        \/ raised' = raised \cup {line} /\ UNCHANGED <<line, phase, conn>>
    BY <1>1 DEF Answers, Set
  <2>3. LineOK' /\ \A c \in Calls : /\ (phase'[c] = "new") = (phase[c] = "new")
                                    /\ (phase'[c] = "over") = (phase[c] = "over")
    BY <1>1, <2>1, <2>2 DEF LineOK, Phases
  <2>4. conn' = conn \/ \E p \in Publishings : conn' = [conn EXCEPT ![line] = p]
    <3>1. CASE ToTell(line)
      BY <3>1 DEF ToTell, Set, NotConnected, Publishings, Conns, Rooms
    <3>2. CASE \E tab, ent : ent \in [Calls -> Entries] /\ Connected(tab, ent, line)
      BY <2>1, <3>2, ConnectedIs
    <3>3. QED
      BY <2>2, <3>1, <3>2
  <2>5. conn' \in [Calls -> Publishings] /\ \A c \in Calls : c # line => conn'[c] = conn[c]
    BY <2>1, <2>4
  <2>6. phase'[line] # "new"
    BY <1>1, <2>1, <2>3
  <2>7. ConnInv'
    BY <2>3, <2>5, <2>6 DEF ConnInv
  <2>8. QED
    BY <2>3, <2>5, <2>7
<1>2. CASE ~(line # NoCall /\ phase[line] = "ringing")
  BY <1>2 DEF Answers, LineOK, ConnInv
<1>3. QED
  BY <1>1, <1>2

LEMMA SaysKeeps ==
    ASSUME inbox \in Seq(Messages), NEW who \in SUBSET Sessions,
           NEW m \in {Snapshot(who), [type |-> "end"], [type |-> "hangup"]}, Says(m)
    PROVE  inbox' \in Seq(Messages)
<1>1. m \in Messages
  BY DEF Messages, Snapshot
<1>2. QED
  BY <1>1 DEF Says

LEMMA EntersRoomKeeps ==
    ASSUME RoomOK, OutsideOK, NEW r, EntersRoom(r)
    PROVE  RoomOK' /\ ws' = ws
<1>1. CASE inRoom = r
  BY <1>1 DEF EntersRoom, RoomOK
<1>2. CASE inRoom # r
  <2>1. present' \subseteq Sessions /\ Says(Snapshot(present')) /\ UNCHANGED <<ws, known>>
    BY <1>2 DEF EntersRoom, Sessions, OutsideOK
  <2>2. inbox' \in Seq(Messages)
    BY <2>1, SaysKeeps DEF RoomOK
  <2>3. QED
    BY <2>1, <2>2 DEF RoomOK
<1>3. QED
  BY <1>1, <1>2

LEMMA WithdrawsKeeps ==
    ASSUME RoomOK, OutsideOK, NEW c, Withdraws(c)
    PROVE  RoomOK' /\ ws' = ws /\ standing' = standing \ {c}
<1>1. present' \subseteq Sessions /\ UNCHANGED <<ws, known>> /\ standing' = standing \ {c}
  BY DEF Withdraws, RoomOK
<1>2. inbox' \in Seq(Messages)
  <2>1. CASE c \in present
    BY <1>1, <2>1, SaysKeeps DEF Withdraws, RoomOK
  <2>2. CASE c \notin present
    BY <2>2 DEF Withdraws, RoomOK
  <2>3. QED
    BY <2>1, <2>2
<1>3. QED
  BY <1>1, <1>2 DEF RoomOK

LEMMA LeavesKeeps ==
    ASSUME RoomOK, Leaves
    PROVE  RoomOK' /\ ws' = ws
  BY DEF Leaves, RoomOK, roomVars

LEMMA ToldKeeps ==
    ASSUME reports \in [Calls -> Seq(Statuses)], NEW c \in Calls, NEW s \in Statuses
    PROVE  /\ Told(c, s) \in [Calls -> Seq(Statuses)]
           /\ \A d \in Calls : d # c => Told(c, s)[d] = reports[d]
           /\ c \in Dialouts => Told(c, s)[c] = Append(reports[c], s)
<1>1. \A d \in Calls : reports[d] \in Seq(Statuses)
  OBVIOUS
<1>2. Append(reports[c], s) \in Seq(Statuses)
  BY <1>1
<1>3. CASE c \in Dialouts
  <2>1. Told(c, s) = [reports EXCEPT ![c] = Append(reports[c], s)]
    BY <1>3 DEF Told
  <2>2. QED
    BY <1>2, <2>1
<1>4. CASE c \notin Dialouts
  BY <1>4 DEF Told
<1>5. QED
  BY <1>3, <1>4

\* A report that grows keeps what it began with and what it has.
LEMMA Grows ==
    ASSUME NEW q \in Seq(Statuses), NEW s \in Statuses
    PROVE  /\ Accepted(q) => Accepted(Append(q, s))
           /\ Cleared(q) \/ s = "cleared" => Cleared(Append(q, s))
<1>1. DOMAIN q = 1..Len(q) /\ DOMAIN Append(q, s) = 1..Len(q) + 1 /\ Len(q) \in Nat
  OBVIOUS
<1>2. Append(q, s)[Len(q) + 1] = s
  BY AppendProperties
<1>3. \A i \in 1..Len(q) : Append(q, s)[i] = q[i]
  BY AppendProperties
<1>4. Append(q, s) # <<>> /\ Append(q, s) \in Seq(Statuses)
  BY AppendProperties
<1>5. ASSUME Accepted(q) PROVE Accepted(Append(q, s))
  <2>1. 1 \in 1..Len(q) /\ q[1] = "accepted"
    BY <1>1, <1>5 DEF Accepted
  <2>2. QED
    BY <1>3, <1>4, <2>1 DEF Accepted
<1>6. ASSUME Cleared(q) \/ s = "cleared" PROVE Cleared(Append(q, s))
  <2>1. CASE s = "cleared"
    <3>1. Len(q) + 1 \in DOMAIN Append(q, s)
      BY <1>1
    <3>2. QED
      BY <1>2, <2>1, <3>1 DEF Cleared
  <2>2. CASE Cleared(q)
    BY <1>1, <1>3, <2>2 DEF Cleared
  <2>3. QED
    BY <1>6, <2>1, <2>2
<1>7. QED
  BY <1>5, <1>6
-----------------------------------------------------------------------------
(* The call manager and its callbacks. *)

LEMMA ArrivesKeeps == ASSUME IInv, NEW d \in Calls, Arrives(d) PROVE IInv'
<1> USE Distinct DEF Set
<1>0. /\ d \in Inbound /\ phase[d] = "new" /\ line = NoCall /\ line' = d
      /\ phase' = [phase EXCEPT ![d] = "ringing"] /\ ring' = [ring EXCEPT ![d] = "callback"]
      /\ UNCHANGED <<hung, raised, entries, conn, down, stop, roomVars, heard, outside, bounds>>
  BY DEF Arrives
<1>1. Types'
  <2>1. LineOK'
    BY <1>0 DEF IInv, Types, LineOK, Phases
  <2>2. QED
    BY <1>0, <2>1 DEF IInv, Types, EntriesOK, TasksOK, RoomOK, HandlerOK, OutsideOK, LossesOK,
                entries, roomVars, heard, outside, bounds, Rings
<1>2. ConnInv'
  BY <1>0 DEF IInv, Types, LineOK, ConnInv
<1>3. CallInv(d)'
  BY <1>0 DEF IInv, Types, LineOK, TasksOK, CallInv, EntryInv, LeftInv, RingInv, ReportInv, Early, Going,
              entries, roomVars, outside, bounds
<1>4. ASSUME NEW c \in Calls, c # d PROVE CallInv(c)'
  <2>1. Alike(c)
    BY <1>0, <1>4 DEF IInv, Types, LineOK, TasksOK, Alike, entries, outside, bounds
  <2>2. QED
    BY <2>1, OthersKeep DEF IInv
<1>5. QED
  BY <1>1, <1>2, <1>3, <1>4 DEF IInv

LEMMA OnIncomingCallKeeps == ASSUME IInv, NEW d \in Calls, OnIncomingCall(d) PROVE IInv'
<1> USE Distinct DEF Set
<1>0. /\ ring[d] = "callback" /\ table' = table \cup {d}
      /\ UNCHANGED <<down, stop, roomVars, heard, outside, bounds>>
  BY DEF OnIncomingCall
<1>1. PICK k \in Kinds, to \in {"done", "asking", "start"} :
        /\ entry' = [entry EXCEPT ![d] = [NewCall EXCEPT !.asks = k = "conference"]]
        /\ ring' = [ring EXCEPT ![d] = to]
        /\ Answers(ToTell(line)) \/ UNCHANGED <<lineVars, conn>>
  BY DEF OnIncomingCall
<1>2. EntriesOK' /\ ~entry'[d].opener /\ ~entry'[d].media
  BY <1>0, <1>1 DEF IInv, Types, EntriesOK, Entries, NewCall, Rooms
<1>3. /\ LineOK' /\ ConnInv' /\ conn' \in [Calls -> Publishings]
      /\ \A c \in Calls : /\ (phase'[c] = "new") = (phase[c] = "new")
                          /\ (phase'[c] = "over") = (phase[c] = "over")
  <2>1. CASE Answers(ToTell(line))
    BY <2>1, AnswersKeep DEF IInv, Types, TasksOK
  <2>2. CASE UNCHANGED <<lineVars, conn>>
    BY <2>2 DEF IInv, Types, LineOK, TasksOK, ConnInv, lineVars
  <2>3. QED
    BY <1>1, <2>1, <2>2
<1>4. Types'
  BY <1>0, <1>1, <1>2, <1>3 DEF IInv, Types, TasksOK, RoomOK, HandlerOK, OutsideOK, LossesOK,
       roomVars, heard, outside, bounds, Rings, Tasks
<1>5. CallInv(d)'
  <2>1. d \in table' /\ ring'[d] \notin Early /\ ring'[d] # "callback"
    BY <1>0, <1>1 DEF IInv, Types, TasksOK, Early
  <2>2. down[d] \notin Going /\ d \notin plates /\ media[d] \notin {"open", "lost"} /\ d \notin Dialouts
    BY <1>0 DEF IInv, CallInv, EntryInv, LeftInv, Early
  <2>3. EntryInv(d)'
    BY <1>0, <1>2, <1>3, <2>1, <2>2 DEF IInv, CallInv, EntryInv, Early
  <2>4. LeftInv(d)' /\ RingInv(d)' /\ ReportInv(d)'
    BY <1>0, <2>1, <2>2 DEF LeftInv, RingInv, ReportInv, outside
  <2>5. QED
    BY <2>3, <2>4 DEF CallInv
<1>6. ASSUME NEW c \in Calls, c # d PROVE CallInv(c)'
  <2>1. Alike(c)
    BY <1>0, <1>1, <1>3, <1>6 DEF IInv, Types, EntriesOK, TasksOK, Alike, outside, bounds
  <2>2. QED
    BY <2>1, OthersKeep DEF IInv
<1>7. QED
  BY <1>3, <1>4, <1>5, <1>6 DEF IInv

LEMMA ConnectOutboundKeeps == ASSUME IInv, NEW d \in Calls, ConnectOutbound(d) PROVE IInv'
<1> USE Distinct DEF Set
<1>0. PICK to \in {"connected", "lost"} :
        /\ phase[d] \in {"dialling", "abandoned"} /\ phase' = [phase EXCEPT ![d] = to]
        /\ line = d => to = "connected"
        /\ conn' = [conn EXCEPT ![d] = [NotConnected EXCEPT !.at = "callback"]]
        /\ UNCHANGED <<line, hung, raised, entries, ring, down, stop, roomVars, heard, outside, bounds>>
  BY DEF ConnectOutbound, ToTell
<1>1. conn' \in [Calls -> Publishings]
  BY <1>0 DEF IInv, Types, TasksOK, NotConnected, Publishings, Conns, Rooms
<1>2. LineOK'
  BY <1>0 DEF IInv, Types, LineOK, Phases
<1>3. Types'
  BY <1>0, <1>1, <1>2 DEF IInv, Types, EntriesOK, TasksOK, RoomOK, HandlerOK, OutsideOK, LossesOK,
       entries, roomVars, heard, outside, bounds
<1>4. ConnInv'
  BY <1>0 DEF IInv, Types, LineOK, TasksOK, ConnInv
<1>5. ASSUME NEW c \in Calls PROVE Alike(c)
  BY <1>0 DEF IInv, Types, LineOK, Alike, entries, outside, bounds
<1>6. QED
  BY <1>3, <1>4, <1>5, OthersKeep DEF IInv

LEMMA OnCallConnectedKeeps == ASSUME IInv, NEW d \in Calls, OnCallConnected(d) PROVE IInv'
<1>0. /\ conn[d].at = "callback" /\ Connected(table, entry, d)
      /\ UNCHANGED <<lineVars, entries, ring, down, stop, roomVars, heard, outside, bounds>>
  BY DEF OnCallConnected
<1>1. PICK p \in Publishings : conn' = [conn EXCEPT ![d] = p]
  BY <1>0, ConnectedIs DEF IInv, Types, EntriesOK
<1>2. Types'
  BY <1>0, <1>1 DEF IInv, Types, LineOK, EntriesOK, TasksOK, RoomOK, HandlerOK, OutsideOK, LossesOK,
       lineVars, entries, roomVars, heard, outside, bounds
<1>3. ConnInv'
  BY <1>0, <1>1 DEF IInv, Types, TasksOK, ConnInv, lineVars
<1>4. ASSUME NEW c \in Calls PROVE Alike(c)
  BY <1>0 DEF Alike, lineVars, entries, outside, bounds
<1>5. QED
  BY <1>2, <1>3, <1>4, OthersKeep DEF IInv

LEMMA OnCallEndedKeeps == ASSUME IInv, NEW d \in Calls, OnCallEnded(d) \/ OnCallFailed(d) PROVE IInv'
<1> USE Distinct DEF Set
<1>0. PICK to \in {"pop", "reject"} :
        /\ phase[d] \in {"ending", "lost", "refused", "dialling", "abandoned"} /\ phase' = [phase EXCEPT ![d] = "over"]
        /\ down' = [down EXCEPT ![d] = to]
        /\ UNCHANGED <<entries, ring, conn, stop, roomVars, heard, outside, bounds>>
  BY DEF OnCallEnded, OnCallFailed
<1>1. LineOK'
  BY DEF IInv, Types, LineOK, OnCallEnded, OnCallFailed, Phases
<1>2. TasksOK'
  BY <1>0 DEF IInv, Types, TasksOK, Downs
<1>3. Types'
  BY <1>0, <1>1, <1>2 DEF IInv, Types, EntriesOK, RoomOK, HandlerOK, OutsideOK, LossesOK,
       entries, roomVars, heard, outside, bounds
<1>4. ConnInv'
  BY <1>0 DEF IInv, Types, LineOK, ConnInv
<1>5. CallInv(d)'
  <2>1. down[d] = "none" /\ down'[d] \in {"pop", "reject"} /\ phase'[d] = "over" /\ phase[d] # "new"
    BY <1>0 DEF IInv, Types, LineOK, TasksOK, CallInv, EntryInv
  <2>2. QED
    BY <1>0, <2>1 DEF IInv, CallInv, EntryInv, LeftInv, RingInv, ReportInv, Early, Going,
         entries, outside, bounds
<1>6. ASSUME NEW c \in Calls, c # d PROVE CallInv(c)'
  <2>1. Alike(c)
    BY <1>0, <1>6 DEF IInv, Types, LineOK, TasksOK, Alike, entries, outside, bounds
  <2>2. QED
    BY <2>1, OthersKeep DEF IInv
<1>7. QED
  BY <1>3, <1>4, <1>5, <1>6 DEF IInv

LEMMA DialsKeeps == ASSUME IInv, NEW d \in Calls, Dials(d) PROVE IInv'
<1> USE Distinct DEF Set
<1>0. /\ d \in Dialouts /\ phase[d] = "new" /\ line = NoCall /\ line' = d
      /\ phase' = [phase EXCEPT ![d] = "dialling"] /\ ring' = [ring EXCEPT ![d] = "dialled"]
      /\ UNCHANGED <<hung, raised, entries, conn, down, stop, roomVars, heard, outside, bounds>>
  BY DEF Dials
<1>1. Types'
  <2>1. LineOK'
    BY <1>0 DEF IInv, Types, LineOK, Phases
  <2>2. QED
    BY <1>0, <2>1 DEF IInv, Types, EntriesOK, TasksOK, RoomOK, HandlerOK, OutsideOK, LossesOK,
                entries, roomVars, heard, outside, bounds, Rings
<1>2. ConnInv'
  BY <1>0 DEF IInv, Types, LineOK, ConnInv
<1>3. CallInv(d)'
  BY <1>0 DEF IInv, Types, LineOK, TasksOK, CallInv, EntryInv, LeftInv, RingInv, ReportInv, Early, Going,
              entries, roomVars, outside, bounds
<1>4. ASSUME NEW c \in Calls, c # d PROVE CallInv(c)'
  <2>1. Alike(c)
    BY <1>0, <1>4 DEF IInv, Types, LineOK, TasksOK, Alike, entries, outside, bounds
  <2>2. QED
    BY <2>1, OthersKeep DEF IInv
<1>5. QED
  BY <1>1, <1>2, <1>3, <1>4 DEF IInv

LEMMA DialRecordsKeeps == ASSUME IInv, NEW d \in Calls, DialRecords(d) PROVE IInv'
<1> USE Distinct DEF Set
<1>0. /\ ring[d] = "dialled" /\ table' = table \cup {d}
      /\ entry' = [entry EXCEPT ![d] = [NewCall EXCEPT !.room = d]]
      /\ reports' = Told(d, "accepted") /\ ring' = [ring EXCEPT ![d] = "join"]
      /\ UNCHANGED <<lineVars, conn, down, stop, roomVars, heard, plates, media, standing, bounds>>
  BY DEF DialRecords
<1>1. EntriesOK' /\ ~entry'[d].opener /\ ~entry'[d].media
  BY <1>0 DEF IInv, Types, EntriesOK, Entries, NewCall, Rooms
<1>2. /\ reports' \in [Calls -> Seq(Statuses)]
      /\ \A c \in Calls : c # d => reports'[c] = reports[c]
      /\ d \in Dialouts => reports'[d] = Append(reports[d], "accepted")
  BY <1>0, ToldKeeps DEF IInv, Types, OutsideOK, Statuses
<1>3. Types'
  BY <1>0, <1>1, <1>2 DEF IInv, Types, LineOK, TasksOK, RoomOK, HandlerOK, OutsideOK, LossesOK,
       lineVars, roomVars, heard, bounds, Rings
<1>4. ConnInv'
  BY <1>0 DEF IInv, ConnInv, lineVars
<1>5. CallInv(d)'
  <2>1. d \in table' /\ ring'[d] = "join" /\ ring'[d] \notin Early
    BY <1>0 DEF IInv, Types, TasksOK, Early
  <2>2. /\ down[d] \in {"none", "pop", "reject", "done"} /\ d \notin plates
        /\ media[d] \notin {"open", "lost"}
        /\ d \in Dialouts => reports[d] = <<>> /\ (losses = 0 => down[d] # "done")
    BY <1>0 DEF Cleared, IInv, Types, TasksOK, Downs, Tasks, CallInv, EntryInv, LeftInv, ReportInv, Early, Going
  <2>3. EntryInv(d)'
    BY <1>0, <1>1, <2>1, <2>2 DEF IInv, CallInv, EntryInv, Early, Going, lineVars
  <2>4. LeftInv(d)' /\ RingInv(d)'
    BY <1>0, <2>1, <2>2 DEF LeftInv, RingInv
  <2>5. ReportInv(d)'
    <3>1. d \in Dialouts => Accepted(reports'[d])
      BY <1>2, <2>2 DEF Accepted
    <3>2. QED
      BY <1>0, <2>1, <2>2, <3>1 DEF ReportInv, bounds
  <2>6. QED
    BY <2>3, <2>4, <2>5 DEF CallInv
<1>6. ASSUME NEW c \in Calls, c # d PROVE CallInv(c)'
  <2>1. Alike(c)
    BY <1>0, <1>2, <1>6 DEF IInv, Types, EntriesOK, TasksOK, Alike, lineVars, bounds
  <2>2. QED
    BY <2>1, OthersKeep DEF IInv
<1>7. QED
  BY <1>3, <1>4, <1>5, <1>6 DEF IInv
-----------------------------------------------------------------------------
(* The ring, and the joining of a dialout. *)

LEMMA AlikeIsEnough ==
    ASSUME IInv, Types', ConnInv', \A c \in Calls : Alike(c)
    PROVE  IInv'
  BY OthersKeep DEF IInv

LEMMA RingPlacedKeeps == ASSUME IInv, NEW d \in Calls, RingPlaced(d) PROVE IInv'
<1> USE Distinct DEF Set
<1>0. /\ ring[d] = "asking" /\ ring' = [ring EXCEPT ![d] = "done"]
      /\ entry' = IF d \in table THEN [entry EXCEPT ![d] = [entry[d] EXCEPT !.room = d]] ELSE entry
      /\ Answers(Connected(table, entry', line))
      /\ UNCHANGED <<table, down, stop, roomVars, heard, outside, bounds>>
  BY DEF RingPlaced, Update
<1>1. /\ EntriesOK'
      /\ entry'[d].opener = entry[d].opener /\ entry'[d].media = entry[d].media
      /\ entry' = entry \/ d \in table
      /\ \A c \in Calls : c # d => entry'[c] = entry[c]
  BY <1>0 DEF IInv, Types, EntriesOK, Entries, Rooms
<1>2. /\ LineOK' /\ ConnInv' /\ conn' \in [Calls -> Publishings]
      /\ \A c \in Calls : /\ (phase'[c] = "new") = (phase[c] = "new")
                          /\ (phase'[c] = "over") = (phase[c] = "over")
  BY <1>0, <1>1, AnswersKeep DEF IInv, Types, EntriesOK, TasksOK
<1>3. Types'
  BY <1>0, <1>1, <1>2 DEF IInv, Types, TasksOK, RoomOK, HandlerOK, OutsideOK, LossesOK,
       roomVars, heard, outside, bounds, Rings, Tasks
<1>4. ASSUME NEW c \in Calls PROVE Alike(c)
  BY <1>0, <1>1, <1>2 DEF IInv, Types, TasksOK, Alike, Early, outside, bounds
<1>5. QED
  BY <1>2, <1>3, <1>4, AlikeIsEnough

LEMMA JoinsKeep ==
    ASSUME IInv, NEW d \in Calls, RingJoins(d) \/ DialJoins(d) \/ RingFails(d) PROVE IInv'
<1> USE DEF Set
<1>0. PICK to \in {"joining", "done", "failed"} :
         /\ ring[d] \in {"start", "asking", "join", "calling"} /\ ring' = [ring EXCEPT ![d] = to]
         /\ UNCHANGED <<lineVars, entries, conn, down, stop, heard, outside, bounds>>
  BY DEF RingJoins, DialJoins, RingFails
<1>1. RoomOK' /\ ws' = ws
  <2>1. CASE RingJoins(d)
    BY <2>1, EntersRoomKeeps DEF RingJoins, IInv, Types, RoomOK, roomVars
  <2>2. CASE DialJoins(d)
    BY <2>2, EntersRoomKeeps DEF DialJoins, IInv, Types, RoomOK, roomVars
  <2>3. CASE RingFails(d)
    BY <2>3 DEF RingFails, IInv, Types, RoomOK, roomVars
  <2>4. QED
    BY <2>1, <2>2, <2>3
<1>2. Types'
  BY <1>0, <1>1 DEF IInv, Types, LineOK, EntriesOK, TasksOK, HandlerOK, OutsideOK, LossesOK,
       lineVars, entries, heard, outside, bounds, Rings, Tasks
<1>3. ConnInv'
  BY <1>0 DEF IInv, ConnInv, lineVars
<1>4. ASSUME NEW c \in Calls PROVE Alike(c)
  BY <1>0 DEF IInv, Types, TasksOK, Alike, Early, lineVars, entries, outside, bounds
<1>5. QED
  BY <1>2, <1>3, <1>4, AlikeIsEnough

LEMMA RingArmsKeeps == ASSUME IInv, NEW d \in Calls, RingArms(d) PROVE IInv'
<1> USE DEF Set
<1>0. PICK to \in {"calling", "done"} :
         /\ ring[d] = "joining" /\ ring' = [ring EXCEPT ![d] = to]
         /\ entry' = IF d \in table THEN [entry EXCEPT ![d] = [entry[d] EXCEPT !.waiting = TRUE]] ELSE entry
         /\ UNCHANGED <<lineVars, table, conn, down, stop, roomVars, heard, outside, bounds>>
  BY DEF RingArms, Update
<1>1. /\ EntriesOK'
      /\ entry'[d].opener = entry[d].opener /\ entry'[d].media = entry[d].media
      /\ entry' = entry \/ d \in table
      /\ \A c \in Calls : c # d => entry'[c] = entry[c]
  BY <1>0 DEF IInv, Types, EntriesOK, Entries
<1>2. Types'
  BY <1>0, <1>1 DEF IInv, Types, LineOK, TasksOK, RoomOK, HandlerOK, OutsideOK, LossesOK,
       lineVars, roomVars, heard, outside, bounds, Rings, Tasks
<1>3. ConnInv'
  BY <1>0 DEF IInv, ConnInv, lineVars
<1>4. ASSUME NEW c \in Calls PROVE Alike(c)
  BY <1>0, <1>1 DEF IInv, Types, TasksOK, Alike, Early, lineVars, outside, bounds
<1>5. QED
  BY <1>2, <1>3, <1>4, AlikeIsEnough

LEMMA RingSoundsKeeps == ASSUME IInv, NEW d \in Calls, RingSounds(d) PROVE IInv'
<1> USE DEF Set
<1>0. /\ ring[d] = "calling" /\ ring' = [ring EXCEPT ![d] = "sounding"]
      /\ standing' = standing \cup {d}
      /\ UNCHANGED <<lineVars, entries, conn, down, stop, ws, inRoom, known, heard,
                     plates, media, audio, reports, bounds>>
  BY DEF RingSounds
<1>1. RoomOK'
  <2>1. CASE inRoom = Default
    <3>1. present' \subseteq Sessions /\ Says(Snapshot(present'))
      BY <2>1 DEF RingSounds, IInv, Types, RoomOK, Sessions
    <3>2. QED
      BY <1>0, <3>1, SaysKeeps DEF IInv, Types, RoomOK
  <2>2. CASE inRoom # Default
    BY <1>0, <2>2 DEF RingSounds, IInv, Types, RoomOK
  <2>3. QED
    BY <2>1, <2>2
<1>2. Types'
  BY <1>0, <1>1 DEF IInv, Types, LineOK, EntriesOK, TasksOK, HandlerOK, OutsideOK, LossesOK,
       lineVars, entries, heard, bounds, Rings
<1>3. ConnInv'
  BY <1>0 DEF IInv, ConnInv, lineVars
<1>4. CallInv(d)'
  <2>1. ring'[d] = "sounding" /\ ring[d] \notin Early /\ ring'[d] \notin Early /\ ~entry[d].opener
    BY <1>0 DEF IInv, Types, TasksOK, CallInv, EntryInv, Early
  <2>2. QED
    BY <1>0, <2>1 DEF IInv, CallInv, EntryInv, LeftInv, RingInv, ReportInv, lineVars, entries, bounds
<1>5. ASSUME NEW c \in Calls, c # d PROVE CallInv(c)'
  <2>1. Alike(c)
    BY <1>0, <1>5 DEF IInv, Types, TasksOK, Alike, lineVars, entries, bounds
  <2>2. QED
    BY <2>1, OthersKeep DEF IInv
<1>6. QED
  BY <1>2, <1>3, <1>4, <1>5 DEF IInv

LEMMA RingRecordsKeeps == ASSUME IInv, NEW d \in Calls, RingRecords(d) PROVE IInv'
<1> USE DEF Set
<1>0. /\ ring[d] \in {"sounding", "failed"} /\ ring' = [ring EXCEPT ![d] = "done"]
      /\ UNCHANGED <<lineVars, table, conn, down, stop, roomVars, heard, outside, bounds>>
  BY DEF RingRecords
<1>1. /\ EntriesOK' /\ entry'[d].media = entry[d].media
      /\ entry' = entry \/ d \in table
      /\ \A c \in Calls : c # d => entry'[c] = entry[c]
  <2>1. \/ entry' = entry
        \/ d \in table /\ entry' = [entry EXCEPT ![d] = [entry[d] EXCEPT !.opener = TRUE]]
        \/ d \in table /\ entry' = [entry EXCEPT ![d] = [entry[d] EXCEPT !.waiting = FALSE]]
    BY DEF RingRecords, Update
  <2>2. CASE d \in table /\ entry' = [entry EXCEPT ![d] = [entry[d] EXCEPT !.opener = TRUE]]
    BY <1>0, <2>2 DEF IInv, Types, EntriesOK, Entries
  <2>3. CASE d \in table /\ entry' = [entry EXCEPT ![d] = [entry[d] EXCEPT !.waiting = FALSE]]
    BY <1>0, <2>3 DEF IInv, Types, EntriesOK, Entries
  <2>4. QED
    BY <1>0, <2>1, <2>2, <2>3 DEF IInv, Types, EntriesOK
<1>2. Types'
  BY <1>0, <1>1 DEF IInv, Types, LineOK, TasksOK, RoomOK, HandlerOK, OutsideOK, LossesOK,
       lineVars, roomVars, heard, outside, bounds, Rings, Tasks
<1>3. ConnInv'
  BY <1>0 DEF IInv, ConnInv, lineVars
<1>4. CallInv(d)'
  <2>1. ring'[d] = "done" /\ ring[d] \notin Early /\ ring'[d] \notin Early
    BY <1>0 DEF IInv, Types, TasksOK, Early
  <2>2. d \notin table => entry'[d] = entry[d]
    BY <1>1
  <2>3. QED
    BY <1>0, <1>1, <2>1, <2>2 DEF IInv, CallInv, EntryInv, LeftInv, RingInv, ReportInv, Early,
       lineVars, outside, bounds
<1>5. ASSUME NEW c \in Calls, c # d PROVE CallInv(c)'
  <2>1. Alike(c)
    BY <1>0, <1>1, <1>5 DEF IInv, Types, TasksOK, Alike, lineVars, outside, bounds
  <2>2. QED
    BY <2>1, OthersKeep DEF IInv
<1>6. QED
  BY <1>2, <1>3, <1>4, <1>5 DEF IInv
-----------------------------------------------------------------------------
(* What on_call_connected schedules. *)

LEMMA ConnAtKeeps ==
    ASSUME TasksOK, ConnInv, NEW d \in Calls, NEW to \in Conns, conn[d].at # "none",
           ConnAt(d, to), \A c \in Calls : (phase'[c] = "new") = (phase[c] = "new")
    PROVE  conn' \in [Calls -> Publishings] /\ ConnInv'
<1>1. conn' = [conn EXCEPT ![d] = [conn[d] EXCEPT !.at = to]]
  BY DEF ConnAt
<1>2. conn' \in [Calls -> Publishings]
  BY <1>1 DEF TasksOK, Publishings
<1>3. ConnInv'
  BY <1>1 DEF ConnInv, TasksOK
<1>4. QED
  BY <1>2, <1>3

LEMMA ConnWaitsKeeps ==
    ASSUME IInv, NEW d \in Calls, ConnAsks(d) \/ ConnIsTooLate(d) \/ ConnOffers(d) PROVE IInv'
<1>0. PICK to \in Conns :
        /\ conn[d].at # "none" /\ ConnAt(d, to)
        /\ UNCHANGED <<lineVars, entries, ring, down, stop, roomVars, heard, plates, media, standing,
                       reports, bounds>>
  BY DEF ConnAsks, ConnIsTooLate, ConnOffers, Conns, Tasks, outside
<1>1. conn' \in [Calls -> Publishings] /\ ConnInv'
  BY <1>0, ConnAtKeeps DEF IInv, Types, lineVars
<1>2. Types'
  BY <1>0, <1>1 DEF IInv, Types, LineOK, EntriesOK, TasksOK, RoomOK, HandlerOK, OutsideOK, LossesOK,
       lineVars, entries, roomVars, heard, bounds
<1>3. ASSUME NEW c \in Calls PROVE Alike(c)
  BY <1>0 DEF Alike, lineVars, entries, bounds
<1>4. QED
  BY <1>1, <1>2, <1>3, AlikeIsEnough

LEMMA ConnHangsUpKeeps == ASSUME IInv, NEW d \in Calls, ConnHangsUp(d) PROVE IInv'
<1>0. /\ conn[d].at # "none" /\ ConnAt(d, "done") /\ HangsUp(FALSE)
      /\ UNCHANGED <<entries, ring, down, stop, roomVars, heard, outside, bounds>>
  BY DEF ConnHangsUp
<1>1. /\ LineOK'
      /\ \A c \in Calls : /\ (phase'[c] = "new") = (phase[c] = "new")
                          /\ (phase'[c] = "over") = (phase[c] = "over")
  BY <1>0, HangsUpKeeps DEF IInv, Types
<1>2. conn' \in [Calls -> Publishings] /\ ConnInv'
  BY <1>0, <1>1, ConnAtKeeps DEF IInv, Types, Conns, Tasks
<1>3. Types'
  BY <1>0, <1>1, <1>2 DEF IInv, Types, EntriesOK, TasksOK, RoomOK, HandlerOK, OutsideOK, LossesOK,
       entries, roomVars, heard, outside, bounds
<1>4. ASSUME NEW c \in Calls PROVE Alike(c)
  BY <1>0, <1>1 DEF Alike, entries, outside, bounds
<1>5. QED
  BY <1>2, <1>3, <1>4, AlikeIsEnough

LEMMA ConnJoinsKeeps == ASSUME IInv, NEW d \in Calls, ConnJoins(d) PROVE IInv'
<1>0. /\ conn[d].at # "none"
      /\ conn' = [conn EXCEPT ![d] = [NotConnected EXCEPT !.at = "joining"]]
      /\ UNCHANGED <<lineVars, table, ring, down, stop, heard, outside, bounds>>
  BY DEF ConnJoins, Set
<1>1. RoomOK' /\ ws' = ws
  <2>1. \/ \E r : EntersRoom(r)
        \/ UNCHANGED roomVars
    BY DEF ConnJoins
  <2>2. QED
    BY <2>1, EntersRoomKeeps DEF IInv, Types, RoomOK, roomVars
<1>2. /\ EntriesOK'
      /\ entry'[d].opener = entry[d].opener /\ entry'[d].media = entry[d].media
      /\ entry' = entry \/ d \in table
      /\ \A c \in Calls : c # d => entry'[c] = entry[c]
  <2>1. \/ entry' = entry
        \/ d \in table /\ entry' = [entry EXCEPT ![d] = [entry[d] EXCEPT !.room = d]]
    BY DEF ConnJoins
  <2>2. CASE entry' = entry
    BY <1>0, <2>2 DEF IInv, Types, EntriesOK
  <2>3. CASE d \in table /\ entry' = [entry EXCEPT ![d] = [entry[d] EXCEPT !.room = d]]
    BY <1>0, <2>3 DEF IInv, Types, EntriesOK, Entries, Rooms
  <2>4. QED
    BY <2>1, <2>2, <2>3
<1>3. conn' \in [Calls -> Publishings] /\ ConnInv'
  BY <1>0 DEF IInv, Types, TasksOK, Publishings, Conns, NotConnected, Rooms, ConnInv, lineVars
<1>4. Types'
  BY <1>0, <1>1, <1>2, <1>3 DEF IInv, Types, LineOK, TasksOK, HandlerOK, OutsideOK, LossesOK,
       lineVars, heard, outside, bounds
<1>5. ASSUME NEW c \in Calls PROVE Alike(c)
  BY <1>0, <1>2 DEF Alike, lineVars, outside, bounds
<1>6. QED
  BY <1>3, <1>4, <1>5, AlikeIsEnough

LEMMA ConnPlatesKeeps == ASSUME IInv, NEW d \in Calls, ConnPlates(d) PROVE IInv'
<1>0. PICK to \in Conns :
        /\ conn[d].at # "none" /\ ConnAt(d, to)
        /\ UNCHANGED <<lineVars, table, ring, down, stop, roomVars, heard, audio, standing, reports, bounds>>
  BY DEF ConnPlates, Conns, Tasks
<1>1. conn' \in [Calls -> Publishings] /\ ConnInv'
  BY <1>0, ConnAtKeeps DEF IInv, Types, lineVars
<1>2. CASE d \in table /\ ws
  <2>1. /\ plates' = plates \cup {d} /\ media' = [media EXCEPT ![d] = "open"]
        /\ entry' = [entry EXCEPT ![d] = [entry[d] EXCEPT !.media = TRUE]]
    BY <1>2 DEF ConnPlates, Set, Update
  <2>2. /\ EntriesOK' /\ entry'[d].opener = entry[d].opener /\ entry'[d].media
        /\ \A c \in Calls : c # d => entry'[c] = entry[c]
    BY <1>0, <2>1 DEF IInv, Types, EntriesOK, Entries
  <2>3. OutsideOK'
    BY <1>0, <2>1 DEF IInv, Types, OutsideOK, Medias
  <2>4. Types'
    BY <1>0, <1>1, <2>2, <2>3 DEF IInv, Types, LineOK, TasksOK, RoomOK, HandlerOK, LossesOK,
         lineVars, roomVars, heard, bounds
  <2>5. CallInv(d)'
    <3>1. ring[d] \notin Early
      BY <1>2 DEF IInv, CallInv, EntryInv
    <3>2. QED
      BY <1>0, <1>2, <2>2, <3>1 DEF IInv, CallInv, EntryInv, LeftInv, RingInv, ReportInv, lineVars, bounds
  <2>6. ASSUME NEW c \in Calls, c # d PROVE CallInv(c)'
    <3>1. Alike(c)
      BY <1>0, <2>1, <2>2, <2>6 DEF IInv, Types, OutsideOK, Alike, lineVars, bounds
    <3>2. QED
      BY <3>1, OthersKeep DEF IInv
  <2>7. QED
    BY <1>1, <2>4, <2>5, <2>6 DEF IInv
<1>3. CASE ~(d \in table /\ ws)
  <2>1. UNCHANGED <<plates, media, entry>>
    BY <1>3 DEF ConnPlates
  <2>2. Types'
    BY <1>0, <1>1, <2>1 DEF IInv, Types, LineOK, EntriesOK, TasksOK, RoomOK, HandlerOK, OutsideOK, LossesOK,
         lineVars, roomVars, heard, bounds
  <2>3. ASSUME NEW c \in Calls PROVE Alike(c)
    BY <1>0, <2>1 DEF Alike, lineVars, bounds
  <2>4. QED
    BY <1>1, <2>2, <2>3, AlikeIsEnough
<1>4. QED
  BY <1>2, <1>3

LEMMA ConnDiscardsKeeps == ASSUME IInv, NEW d \in Calls, ConnDiscards(d) PROVE IInv'
<1>0. PICK to \in Conns :
        /\ conn[d].at # "none" /\ ConnAt(d, to)
        /\ UNCHANGED <<lineVars, entries, ring, down, stop, roomVars, heard, standing, reports, bounds>>
  BY DEF ConnDiscards, Conns, Tasks
<1>1. conn' \in [Calls -> Publishings] /\ ConnInv'
  BY <1>0, ConnAtKeeps DEF IInv, Types, lineVars
<1>2. /\ media' = media \/ media' = [media EXCEPT ![d] = "closed"]
      /\ plates' = plates \/ plates' = plates \ {d}
  BY DEF ConnDiscards, Set
<1>3. Types'
  BY <1>0, <1>1, <1>2 DEF IInv, Types, LineOK, EntriesOK, TasksOK, RoomOK, HandlerOK, OutsideOK, LossesOK,
       lineVars, entries, roomVars, heard, bounds, Medias
<1>4. CallInv(d)'
  <2>1. /\ media'[d] \in {media[d], "closed"}
        /\ d \in plates' => d \in plates
    BY <1>2 DEF IInv, Types, OutsideOK
  <2>2. QED
    BY <1>0, <2>1 DEF IInv, CallInv, EntryInv, LeftInv, RingInv, ReportInv, lineVars, entries, bounds
<1>5. ASSUME NEW c \in Calls, c # d PROVE CallInv(c)'
  <2>1. Alike(c)
    BY <1>0, <1>2, <1>5 DEF IInv, Types, OutsideOK, Alike, lineVars, entries, bounds
  <2>2. QED
    BY <2>1, OthersKeep DEF IInv
<1>6. QED
  BY <1>1, <1>3, <1>4, <1>5 DEF IInv

\* A report comes after "accepted": the loop is not between dial() and the table.
LEMMA TellsKeeps ==
    ASSUME IInv, NEW d \in Calls, LoopFree, phase[d] # "new", NEW s \in Statuses
    PROVE  /\ Told(d, s) \in [Calls -> Seq(Statuses)]
           /\ \A c \in Calls : c # d => Told(d, s)[c] = reports[c]
           /\ d \in Dialouts => /\ ring[d] \notin Early
                                /\ Accepted(Told(d, s)[d])
                                /\ Cleared(reports[d]) \/ s = "cleared" => Cleared(Told(d, s)[d])
<1>1. reports \in [Calls -> Seq(Statuses)]
  BY DEF IInv, Types, OutsideOK
<1>2. /\ Told(d, s) \in [Calls -> Seq(Statuses)]
      /\ \A c \in Calls : c # d => Told(d, s)[c] = reports[c]
      /\ d \in Dialouts => Told(d, s)[d] = Append(reports[d], s)
  BY <1>1, ToldKeeps
<1>3. ASSUME d \in Dialouts
      PROVE  ring[d] \notin Early /\ Accepted(reports[d])
  <2>1. ring[d] \notin Early
    BY <1>3, Distinct DEF IInv, CallInv, EntryInv, LoopFree, Early
  <2>2. QED
    BY <1>3, <2>1 DEF IInv, CallInv, ReportInv
<1>4. reports[d] \in Seq(Statuses)
  BY <1>1
<1>5. QED
  BY <1>2, <1>3, <1>4, Grows

LEMMA ConnReportsKeeps == ASSUME IInv, NEW d \in Calls, ConnReports(d) PROVE IInv'
<1>0. /\ LoopFree /\ conn[d].at = "report" /\ ConnAt(d, "done") /\ reports' = Told(d, "connected")
      /\ UNCHANGED <<lineVars, entries, ring, down, stop, roomVars, heard, plates, media, standing, bounds>>
  BY DEF ConnReports
<1>1. conn' \in [Calls -> Publishings] /\ ConnInv'
  BY <1>0, ConnAtKeeps DEF IInv, Types, lineVars, Conns, Tasks
<1>2. phase[d] # "new" /\ "connected" \in Statuses
  BY <1>0 DEF IInv, ConnInv, Statuses
<1>3. /\ reports' \in [Calls -> Seq(Statuses)]
      /\ \A c \in Calls : c # d => reports'[c] = reports[c]
      /\ d \in Dialouts => /\ ring[d] \notin Early /\ Accepted(reports'[d])
                           /\ Cleared(reports[d]) => Cleared(reports'[d])
  <2> DEFINE told == Told(d, "connected")
  <2>1. /\ told \in [Calls -> Seq(Statuses)]
        /\ \A c \in Calls : c # d => told[c] = reports[c]
        /\ d \in Dialouts => /\ ring[d] \notin Early /\ Accepted(told[d])
                             /\ Cleared(reports[d]) => Cleared(told[d])
    BY <1>0, <1>2, TellsKeeps
  <2>2. reports' = told
    BY <1>0
  <2>3. QED
    BY <2>1, <2>2
<1>4. Types'
  BY <1>0, <1>1, <1>3 DEF IInv, Types, LineOK, EntriesOK, TasksOK, RoomOK, HandlerOK, OutsideOK, LossesOK,
       lineVars, entries, roomVars, heard, bounds
<1>5. CallInv(d)'
  <2>1. EntryInv(d)' /\ LeftInv(d)' /\ RingInv(d)'
    BY <1>0 DEF IInv, CallInv, EntryInv, LeftInv, RingInv, lineVars, entries, bounds
  <2>2. ReportInv(d)'
    BY <1>0, <1>3 DEF IInv, CallInv, ReportInv, bounds
  <2>3. QED
    BY <2>1, <2>2 DEF CallInv
<1>6. ASSUME NEW c \in Calls, c # d PROVE CallInv(c)'
  <2>1. Alike(c)
    BY <1>0, <1>3, <1>6 DEF Alike, lineVars, entries, bounds
  <2>2. QED
    BY <2>1, OthersKeep DEF IInv
<1>7. QED
  BY <1>1, <1>4, <1>5, <1>6 DEF IInv

LEMMA PublisherDiesKeeps == ASSUME IInv, NEW d \in Calls, PublisherDies(d) PROVE IInv'
<1>0. /\ media[d] = "open" /\ media' = [media EXCEPT ![d] = "lost"] /\ HangsUp(TRUE)
      /\ UNCHANGED <<entries, tasks, roomVars, heard, plates, audio, standing, reports, bounds>>
  BY DEF PublisherDies, Set
<1>1. /\ LineOK'
      /\ \A c \in Calls : /\ (phase'[c] = "new") = (phase[c] = "new")
                          /\ (phase'[c] = "over") = (phase[c] = "over")
  BY <1>0, HangsUpKeeps DEF IInv, Types
<1>2. Types'
  BY <1>0, <1>1 DEF IInv, Types, EntriesOK, TasksOK, RoomOK, HandlerOK, OutsideOK, LossesOK,
       entries, tasks, roomVars, heard, bounds, Medias
<1>3. ConnInv'
  BY <1>0, <1>1 DEF IInv, ConnInv, tasks
<1>4. ASSUME NEW c \in Calls PROVE Alike(c)
  BY <1>0, <1>1 DEF IInv, Types, OutsideOK, Alike, entries, tasks, bounds
<1>5. QED
  BY <1>2, <1>3, <1>4, AlikeIsEnough
-----------------------------------------------------------------------------
(* The teardown. *)

\* From the name plate on: while the connection stands the plate goes, "cleared" is
\* told, and a ring that was accepted is ended next.
LEMMA TakesDownKeeps ==
    ASSUME IInv, NEW d \in Calls, NEW told \in [Calls -> Seq(Statuses)], TakesDown(d, told)
    PROVE  /\ RoomOK' /\ ws' = ws
           /\ down' = [down EXCEPT ![d] = "done"] \/ down' = [down EXCEPT ![d] = "ending"]
           /\ plates' \in {plates, plates \ {d}} /\ (losses = 0 => d \notin plates')
           /\ reports' \in [Calls -> Seq(Statuses)]
           /\ \A c \in Calls : c # d => reports'[c] = told[c]
           /\ Accepted(told[d]) => Accepted(reports'[d])
           /\ d \in Dialouts /\ losses = 0 => Cleared(reports'[d])
           /\ losses = 0 /\ entry[d].opener /\ ~entry[d].waiting => down'[d] = "ending"
<1> USE DEF Set
<1>1. CASE entry[d].media /\ ~ws
  <2>1. /\ down' = [down EXCEPT ![d] = "done"] /\ reports' = told /\ losses # 0
        /\ UNCHANGED <<plates, audio, roomVars>>
    BY <1>1 DEF TakesDown, IInv, Types, LossesOK
  <2>2. RoomOK' /\ ws' = ws
    BY <2>1 DEF IInv, Types, RoomOK, roomVars
  <2>3. QED
    BY <2>1, <2>2
<1>2. CASE ~(entry[d].media /\ ~ws)
  <2>1. /\ plates' = plates \ {d}
        /\ reports' = IF d \in Dialouts THEN [told EXCEPT ![d] = Append(told[d], "cleared")] ELSE told
        /\ \/ /\ entry[d].opener /\ ~entry[d].waiting /\ down' = [down EXCEPT ![d] = "ending"]
              /\ UNCHANGED roomVars
           \/ /\ ~(entry[d].opener /\ ~entry[d].waiting) /\ down' = [down EXCEPT ![d] = "done"]
              /\ Leaves
    BY <1>2 DEF TakesDown
  <2>2. RoomOK' /\ ws' = ws
    BY <2>1, LeavesKeeps DEF IInv, Types, RoomOK, roomVars
  <2>3. told[d] \in Seq(Statuses) /\ "cleared" \in Statuses
    BY DEF Statuses
  <2>4. Append(told[d], "cleared") \in Seq(Statuses)
    BY <2>3, AppendProperties
  <2>5. /\ reports' \in [Calls -> Seq(Statuses)]
        /\ \A c \in Calls : c # d => reports'[c] = told[c]
        /\ d \in Dialouts => reports'[d] = Append(told[d], "cleared")
        /\ d \notin Dialouts => reports'[d] = told[d]
    BY <2>1, <2>4
  <2>6. /\ Accepted(told[d]) => Accepted(reports'[d])
        /\ d \in Dialouts => Cleared(reports'[d])
    BY <2>3, <2>5, Grows
  <2>7. losses = 0 /\ entry[d].opener /\ ~entry[d].waiting => down'[d] = "ending"
    BY <2>1 DEF IInv, Types, TasksOK
  <2>8. QED
    BY <2>1, <2>2, <2>5, <2>6, <2>7
<1>3. QED
  BY <1>1, <1>2

\* What is left of the invariant's types when a teardown goes on.
LEMMA TeardownTypes ==
    ASSUME IInv, NEW d \in Calls, table' = table \ {d}, RoomOK', ws' = ws,
           UNCHANGED <<lineVars, entry, ring, conn, stop, heard, bounds>>,
           NEW to \in Downs, down' = [down EXCEPT ![d] = to],
           plates' \subseteq Calls, standing' \subseteq Calls, media' \in [Calls -> Medias],
           reports' \in [Calls -> Seq(Statuses)]
    PROVE  Types' /\ ConnInv'
<1>1. Types'
  BY DEF IInv, Types, LineOK, EntriesOK, TasksOK, HandlerOK, OutsideOK, LossesOK,
     lineVars, heard, bounds
<1>2. ConnInv'
  BY DEF IInv, ConnInv, lineVars
<1>3. QED
  BY <1>1, <1>2

\* The closing of the media, and what follows it. The ring of a call that comes here
\* was not recorded, does not stand any more, or was accepted.
LEMMA ClosesKeeps ==
    ASSUME IInv, NEW d \in Calls, phase[d] = "over", ring[d] \notin Early, table' = table \ {d},
           UNCHANGED <<lineVars, entry, ring, conn, stop, heard, standing, bounds>>,
           losses = 0 /\ entry[d].opener /\ d \in standing => ~entry[d].waiting,
           NEW told \in [Calls -> Seq(Statuses)], \A c \in Calls : c # d => told[c] = reports[c],
           d \in Dialouts => Accepted(told[d]),
           \/ Closes(d, told)
           \/ TakesDown(d, told) /\ UNCHANGED media /\ (losses = 0 => media[d] \notin {"open", "lost"})
    PROVE  IInv'
<1> USE DEF Set
<1>0. /\ d \notin table' /\ ring'[d] = ring[d] /\ phase'[d] = "over" /\ losses' = losses
      /\ entry'[d] = entry[d] /\ standing' = standing /\ standing \subseteq Calls
      /\ down \in [Calls -> Downs] /\ media \in [Calls -> Medias] /\ plates \subseteq Calls
  BY DEF lineVars, bounds, IInv, Types, TasksOK, OutsideOK
<1>1. ASSUME NEW c \in Calls, c # d, down'[c] = down[c], media'[c] = media[c], reports'[c] = reports[c],
             (c \in plates') = (c \in plates)
      PROVE  CallInv(c)'
  <2>1. Alike(c)
    BY <1>1 DEF Alike, lineVars, bounds
  <2>2. QED
    BY <2>1, OthersKeep DEF IInv
<1>2. CASE entry[d].media /\ Closes(d, told)
  <2>1. /\ media' = [media EXCEPT ![d] = "closed"] /\ reports' = told
        /\ down' = [down EXCEPT ![d] = "closed"] /\ UNCHANGED <<plates, audio, roomVars>>
    BY <1>2 DEF Closes
  <2>2. RoomOK' /\ ws' = ws /\ media' \in [Calls -> Medias] /\ "closed" \in Downs
    BY <1>0, <2>1 DEF IInv, Types, RoomOK, roomVars, Medias, Downs
  <2>3. Types' /\ ConnInv'
    BY <1>0, <2>1, <2>2, TeardownTypes
  <2>4. CallInv(d)'
    <3>1. down'[d] = "closed" /\ media'[d] = "closed"
      BY <1>0, <2>1
    <3>2. EntryInv(d)'
      BY <1>0, <3>1 DEF IInv, CallInv, EntryInv, Going
    <3>3. LeftInv(d)' /\ RingInv(d)'
      BY <1>0, <1>2, <3>1 DEF LeftInv, RingInv
    <3>4. ReportInv(d)'
      BY <1>0, <2>1, <3>1 DEF ReportInv
    <3>5. QED
      BY <3>2, <3>3, <3>4 DEF CallInv
  <2>5. ASSUME NEW c \in Calls, c # d PROVE CallInv(c)'
    BY <1>0, <1>1, <2>1, <2>5
  <2>6. QED
    BY <2>3, <2>4, <2>5 DEF IInv
<1>3. CASE /\ TakesDown(d, told) /\ UNCHANGED media
           /\ losses = 0 => media[d] \notin {"open", "lost"}
  <2>1. /\ RoomOK' /\ ws' = ws
        /\ down' = [down EXCEPT ![d] = "done"] \/ down' = [down EXCEPT ![d] = "ending"]
        /\ plates' \in {plates, plates \ {d}} /\ (losses = 0 => d \notin plates')
        /\ reports' \in [Calls -> Seq(Statuses)]
        /\ \A c \in Calls : c # d => reports'[c] = told[c]
        /\ Accepted(told[d]) => Accepted(reports'[d])
        /\ d \in Dialouts /\ losses = 0 => Cleared(reports'[d])
        /\ losses = 0 /\ entry[d].opener /\ ~entry[d].waiting => down'[d] = "ending"
    BY <1>3, TakesDownKeeps
  <2>2. Types' /\ ConnInv'
    <3>1. PICK to \in Downs : down' = [down EXCEPT ![d] = to]
      BY <2>1 DEF Downs, Tasks
    <3>2. QED
      BY <1>0, <1>3, <2>1, <3>1, TeardownTypes
  <2>3. CallInv(d)'
    <3>1. down'[d] \in {"done", "ending"} /\ media'[d] = media[d] /\ (d \in plates' => d \in plates)
      BY <1>0, <1>3, <2>1
    <3>2. EntryInv(d)'
      BY <1>0, <3>1 DEF IInv, CallInv, EntryInv, Going
    <3>3. LeftInv(d)'
      BY <1>0, <1>3, <2>1, <3>1 DEF IInv, CallInv, LeftInv
    <3>4. RingInv(d)'
      BY <1>0, <2>1, <3>1 DEF RingInv
    <3>5. ReportInv(d)'
      BY <1>0, <2>1, <3>1 DEF ReportInv
    <3>6. QED
      BY <3>2, <3>3, <3>4, <3>5 DEF CallInv
  <2>4. ASSUME NEW c \in Calls, c # d PROVE CallInv(c)'
    <3>1. /\ down'[c] = down[c] /\ media'[c] = media[c] /\ reports'[c] = reports[c]
          /\ (c \in plates') = (c \in plates)
      BY <1>0, <1>3, <2>1, <2>4
    <3>2. QED
      BY <1>1, <2>4, <3>1
  <2>5. QED
    BY <2>2, <2>3, <2>4 DEF IInv
<1>4. QED
  <2>1. ~entry[d].media => media[d] \notin {"open", "lost"}
    BY DEF IInv, CallInv, LeftInv
  <2>2. QED
    BY <1>2, <1>3, <2>1 DEF Closes

LEMMA DownPopsKeeps == ASSUME IInv, NEW d \in Calls, DownPops(d) PROVE IInv'
<1> DEFINE told == IF down[d] = "reject" THEN Told(d, "rejected") ELSE reports
<1>0. /\ LoopFree /\ down[d] \in {"pop", "reject"} /\ table' = table \ {d}
      /\ UNCHANGED <<lineVars, entry, ring, conn, stop, heard, standing, bounds>>
      /\ phase[d] = "over"
  BY DEF DownPops, IInv, CallInv, EntryInv
<1>1. /\ told \in [Calls -> Seq(Statuses)] /\ \A c \in Calls : c # d => told[c] = reports[c]
      /\ d \in Dialouts => ring[d] \notin Early
      /\ d \in Dialouts => Accepted(told[d])
  <2>1. /\ reports \in [Calls -> Seq(Statuses)]
        /\ d \in Dialouts => ring[d] \notin Early
        /\ d \in Dialouts => Accepted(reports[d])
    BY <1>0, Distinct DEF IInv, Types, OutsideOK, CallInv, EntryInv, ReportInv, LoopFree, Early
  <2>2. "rejected" \in Statuses /\ phase[d] # "new"
    BY <1>0 DEF Statuses
  <2>3. QED
    BY <1>0, <2>1, <2>2, TellsKeeps
<1>2. CASE d \in table /\ ~(entry[d].waiting /\ entry[d].opener)
  <2>1. Closes(d, told)
    BY <1>2 DEF DownPops
  <2>2. ring[d] \notin Early
    BY <1>2 DEF IInv, CallInv, EntryInv
  <2> HIDE DEF told
  <2>3. QED
    BY <1>0, <1>1, <1>2, <2>1, <2>2, ClosesKeeps
<1>3. CASE ~(d \in table /\ ~(entry[d].waiting /\ entry[d].opener))
  <2> DEFINE next == IF d \in table THEN "stopping" ELSE "done"
  <2>1. /\ down' = [down EXCEPT ![d] = next] /\ reports' = told
        /\ UNCHANGED <<plates, media, audio, roomVars>>
    BY <1>3 DEF DownPops, Set
  <2>2. next \in Downs
    BY DEF Downs, Tasks
  <2>3. /\ RoomOK' /\ ws' = ws /\ plates' \subseteq Calls /\ standing' \subseteq Calls
        /\ media' \in [Calls -> Medias] /\ reports' \in [Calls -> Seq(Statuses)]
    BY <1>0, <1>1, <2>1 DEF IInv, Types, RoomOK, OutsideOK, roomVars
  <2>4. Types' /\ ConnInv'
    BY <1>0, <2>1, <2>2, <2>3, TeardownTypes
  <2>5. CallInv(d)'
    <3>1. down'[d] = next
      BY <2>1 DEF IInv, Types, TasksOK
    <3>2. d \in table => entry[d].waiting /\ entry[d].opener /\ ring[d] \notin Early
      BY <1>3 DEF IInv, CallInv, EntryInv
    <3>3. d \notin table => ring[d] \in Early /\ ~entry[d].opener /\ ~entry[d].media /\ d \notin Dialouts
      BY <1>0, <1>1 DEF IInv, CallInv, EntryInv
    <3>4. EntryInv(d)'
      BY <1>0, <3>1, <3>2, <3>3 DEF IInv, CallInv, EntryInv, Going, lineVars
    <3>5. LeftInv(d)' /\ RingInv(d)'
      BY <1>0, <2>1, <3>1, <3>2, <3>3 DEF IInv, CallInv, LeftInv, RingInv, bounds
    <3>6. ReportInv(d)'
      BY <1>0, <1>1, <2>1, <3>1, <3>3 DEF ReportInv
    <3>7. QED
      BY <3>4, <3>5, <3>6 DEF CallInv
  <2>6. ASSUME NEW c \in Calls, c # d PROVE CallInv(c)'
    <3>1. Alike(c)
      BY <1>0, <1>1, <2>1, <2>6 DEF IInv, Types, TasksOK, Alike, lineVars, bounds
    <3>2. QED
      BY <3>1, OthersKeep DEF IInv
  <2>7. QED
    BY <2>4, <2>5, <2>6 DEF IInv
<1>4. QED
  BY <1>2, <1>3

LEMMA DownClosesKeeps == ASSUME IInv, NEW d \in Calls, DownCloses(d) PROVE IInv'
<1>1. /\ down[d] \in {"stopped", "closed"}
      /\ UNCHANGED <<lineVars, entries, ring, conn, stop, heard, standing, bounds>>
      /\ Closes(d, reports) \/ (down[d] = "closed" /\ TakesDown(d, reports) /\ UNCHANGED media)
  BY DEF DownCloses
<1>2. phase[d] = "over" /\ ring[d] \notin Early /\ d \notin table
  BY <1>1 DEF IInv, CallInv, EntryInv, Going
<1>3. table' = table \ {d} /\ UNCHANGED entry
  BY <1>1, <1>2 DEF entries
<1>4. losses = 0 /\ entry[d].opener /\ d \in standing => ~entry[d].waiting
  BY <1>1, <1>2 DEF IInv, CallInv, RingInv
<1>5. down[d] = "closed" /\ losses = 0 => media[d] \notin {"open", "lost"}
  BY <1>2 DEF IInv, CallInv, LeftInv
<1>6. reports \in [Calls -> Seq(Statuses)] /\ (d \in Dialouts => Accepted(reports[d]))
  BY <1>2 DEF IInv, Types, OutsideOK, CallInv, ReportInv
<1>7. QED
  BY <1>1, <1>2, <1>3, <1>4, <1>5, <1>6, ClosesKeeps

\* stop_ring and end_room_call: the ring does not stand any more.
LEMMA RingEndsKeeps ==
    ASSUME IInv, NEW d \in Calls, DownStops(d) \/ DownEnds(d) PROVE IInv'
<1>1. PICK to \in {"stopped", "leaving"} :
        /\ down[d] = (IF to = "stopped" THEN "stopping" ELSE "ending")
        /\ down' = [down EXCEPT ![d] = to]
        /\ UNCHANGED <<lineVars, entries, ring, conn, stop, heard, plates, media, reports, bounds>>
  BY DEF DownStops, DownEnds, Set
<1>2. RoomOK' /\ ws' = ws /\ standing' = standing \ {d}
  <2>1. CASE Withdraws(d)
    BY <2>1, WithdrawsKeeps DEF IInv, Types
  <2>2. CASE ~Withdraws(d)
    <3>1. /\ standing' = standing \ {d} /\ UNCHANGED <<ws, inRoom, known>>
          /\ \/ present' = {} /\ Says([type |-> "end"])
             \/ UNCHANGED <<present, inbox>>
      BY <2>2 DEF DownStops, DownEnds
    <3>2. inbox' \in Seq(Messages)
      BY <3>1, SaysKeeps DEF IInv, Types, RoomOK
    <3>3. QED
      BY <3>1, <3>2 DEF IInv, Types, RoomOK
  <2>3. QED
    BY <2>1, <2>2
<1>3. d \notin table /\ table' = table \ {d} /\ UNCHANGED entry
  BY <1>1 DEF IInv, CallInv, EntryInv, Going, entries
<1>4. Types' /\ ConnInv'
  <2>1. to \in Downs /\ plates' \subseteq Calls /\ standing' \subseteq Calls
        /\ media' \in [Calls -> Medias] /\ reports' \in [Calls -> Seq(Statuses)]
    BY <1>1, <1>2 DEF IInv, Types, OutsideOK, Downs
  <2>2. QED
    BY <1>1, <1>2, <1>3, <2>1, TeardownTypes
<1>5. CallInv(d)'
  <2>1. down'[d] = to /\ d \notin standing'
    BY <1>1, <1>2 DEF IInv, Types, TasksOK
  <2>2. EntryInv(d)' /\ LeftInv(d)' /\ RingInv(d)'
    BY <1>1, <1>3, <2>1 DEF IInv, CallInv, EntryInv, LeftInv, RingInv, Going, lineVars, bounds
  <2>3. ReportInv(d)'
    BY <1>1, <2>1 DEF IInv, CallInv, ReportInv, bounds
  <2>4. QED
    BY <2>2, <2>3 DEF CallInv
<1>6. ASSUME NEW c \in Calls, c # d PROVE CallInv(c)'
  <2>1. Alike(c)
    BY <1>1, <1>2, <1>3, <1>6 DEF IInv, Types, TasksOK, OutsideOK, Alike, lineVars, bounds
  <2>2. QED
    BY <2>1, OthersKeep DEF IInv
<1>7. QED
  BY <1>4, <1>5, <1>6 DEF IInv

LEMMA DownLeavesKeeps == ASSUME IInv, NEW d \in Calls, DownLeaves(d) PROVE IInv'
<1>1. /\ down[d] = "leaving" /\ down' = [down EXCEPT ![d] = "done"] /\ Leaves
      /\ UNCHANGED <<lineVars, entries, ring, conn, stop, heard, outside, bounds>>
  BY DEF DownLeaves, Set
<1>2. RoomOK' /\ ws' = ws
  BY <1>1, LeavesKeeps DEF IInv, Types
<1>3. d \notin table /\ table' = table \ {d} /\ UNCHANGED entry
  BY <1>1 DEF IInv, CallInv, EntryInv, Going, entries
<1>4. Types' /\ ConnInv'
  <2>1. "done" \in Downs /\ plates' \subseteq Calls /\ standing' \subseteq Calls
        /\ media' \in [Calls -> Medias] /\ reports' \in [Calls -> Seq(Statuses)]
    BY <1>1 DEF IInv, Types, OutsideOK, Downs, Tasks, outside
  <2>2. QED
    BY <1>1, <1>2, <1>3, <2>1, TeardownTypes
<1>5. CallInv(d)'
  <2>1. down'[d] = "done"
    BY <1>1 DEF IInv, Types, TasksOK
  <2>2. QED
    BY <1>1, <1>3, <2>1 DEF IInv, CallInv, EntryInv, LeftInv, RingInv, ReportInv, Going,
         lineVars, outside, bounds
<1>6. ASSUME NEW c \in Calls, c # d PROVE CallInv(c)'
  <2>1. Alike(c)
    BY <1>1, <1>3, <1>6 DEF IInv, Types, TasksOK, Alike, lineVars, outside, bounds
  <2>2. QED
    BY <2>1, OthersKeep DEF IInv
<1>7. QED
  BY <1>4, <1>5, <1>6 DEF IInv

LEMMA StopsRingKeeps == ASSUME IInv, NEW d \in Calls, StopsRing(d) PROVE IInv'
<1>1. /\ stop' = stop \ {d} /\ Withdraws(d)
      /\ UNCHANGED <<lineVars, entries, ring, conn, down, heard, plates, media, audio, reports, bounds>>
  BY DEF StopsRing
<1>2. RoomOK' /\ ws' = ws /\ standing' = standing \ {d}
  BY <1>1, WithdrawsKeeps DEF IInv, Types
<1>3. Types'
  BY <1>1, <1>2 DEF IInv, Types, LineOK, EntriesOK, TasksOK, HandlerOK, OutsideOK, LossesOK,
       lineVars, entries, heard, bounds
<1>4. ConnInv'
  BY <1>1 DEF IInv, ConnInv, lineVars
<1>5. CallInv(d)'
  BY <1>1, <1>2 DEF IInv, CallInv, EntryInv, LeftInv, RingInv, ReportInv, lineVars, entries, bounds
<1>6. ASSUME NEW c \in Calls, c # d PROVE CallInv(c)'
  <2>1. Alike(c)
    BY <1>1, <1>2, <1>6 DEF Alike, lineVars, entries, bounds
  <2>2. QED
    BY <2>1, OthersKeep DEF IInv
<1>7. QED
  BY <1>3, <1>4, <1>5, <1>6 DEF IInv
-----------------------------------------------------------------------------
(* The reader of messages, the grace period, the room and its connection. *)

\* A message that is taken leaves messages, and an update names sessions.
LEMMA MessagesRead ==
    ASSUME inbox \in Seq(Messages), inbox # <<>>, inbox' = Tail(inbox)
    PROVE  /\ inbox' \in Seq(Messages)
           /\ Head(inbox).type = "update" => Head(inbox).who \subseteq Sessions
<1>1. Head(inbox) \in Messages /\ Tail(inbox) \in Seq(Messages)
  OBVIOUS
<1>2. \A m \in Messages : m.type = "update" => m.who \subseteq Sessions
  BY DEF Messages
<1>3. QED
  BY <1>1, <1>2

LEMMA AcceptsKeeps ==
    ASSUME Types, ConnInv, NEW d \in Calls, Accepts(d), table' = table
    PROVE  /\ LineOK' /\ ConnInv' /\ conn' \in [Calls -> Publishings] /\ EntriesOK'
           /\ stop' \subseteq Calls
           /\ \A c \in Calls :
                /\ (phase'[c] = "new") = (phase[c] = "new") /\ (phase'[c] = "over") = (phase[c] = "over")
                /\ \/ entry'[c] = entry[c]
                   \/ c \in table /\ entry'[c].opener = entry[c].opener
                                 /\ entry'[c].media = entry[c].media
<1>1. /\ entry' = IF d \in table THEN [entry EXCEPT ![d] = [entry[d] EXCEPT !.waiting = FALSE]] ELSE entry
      /\ Answers(Connected(table, entry', line)) /\ stop' \in {stop, stop \cup {d}}
  BY DEF Accepts, Update, Set
<1>2. /\ EntriesOK'
      /\ \A c \in Calls : \/ entry'[c] = entry[c]
                          \/ c \in table /\ entry'[c].opener = entry[c].opener
                                        /\ entry'[c].media = entry[c].media
  <2>1. CASE d \in table
    <3>1. entry' = [entry EXCEPT ![d] = [entry[d] EXCEPT !.waiting = FALSE]]
      BY <1>1, <2>1
    <3>2. QED
      BY <2>1, <3>1 DEF Types, EntriesOK, Entries
  <2>2. CASE d \notin table
    BY <1>1, <2>2 DEF Types, EntriesOK
  <2>3. QED
    BY <2>1, <2>2
<1>3. /\ LineOK' /\ ConnInv' /\ conn' \in [Calls -> Publishings]
      /\ \A c \in Calls : /\ (phase'[c] = "new") = (phase[c] = "new")
                          /\ (phase'[c] = "over") = (phase[c] = "over")
  BY <1>1, <1>2, AnswersKeep DEF Types, EntriesOK, TasksOK
<1>4. stop' \subseteq Calls
  BY <1>1 DEF Types, TasksOK
<1>5. QED
  BY <1>2, <1>3, <1>4

LEMMA ActsKeeps ==
    ASSUME IInv, NEW w \in Calls \cup {NoCall}, NEW entered, NEW left, NEW ours,
           Acts(w, entered, left, ours) \/ UNCHANGED <<lineVars, entry, conn, stop, grace>>,
           RoomOK', HandlerOK', ws' = ws, UNCHANGED <<table, ring, down, outside, bounds>>
    PROVE  IInv'
<1>1. /\ LineOK' /\ ConnInv' /\ conn' \in [Calls -> Publishings] /\ EntriesOK'
      /\ stop' \subseteq Calls
      /\ \A c \in Calls :
           /\ (phase'[c] = "new") = (phase[c] = "new") /\ (phase'[c] = "over") = (phase[c] = "over")
           /\ \/ entry'[c] = entry[c]
              \/ c \in table /\ entry'[c].opener = entry[c].opener
                            /\ entry'[c].media = entry[c].media
  <2>1. CASE w \in Calls /\ Accepts(w)
    BY <2>1, AcceptsKeeps DEF IInv
  <2>2. CASE UNCHANGED <<lineVars, entry, conn, stop>>
    BY <2>2 DEF IInv, Types, LineOK, EntriesOK, TasksOK, ConnInv, lineVars
  <2>3. QED
    BY <2>1, <2>2 DEF Acts
<1>2. Types'
  BY <1>1 DEF IInv, Types, TasksOK, OutsideOK, LossesOK, outside, bounds
<1>3. ASSUME NEW c \in Calls PROVE Alike(c)
  BY <1>1 DEF Alike, outside, bounds
<1>4. QED
  BY <1>1, <1>2, <1>3, AlikeIsEnough

LEMMA HandlerReadsKeeps == ASSUME IInv, HandlerReads PROVE IInv'
<1> DEFINE now == Head(inbox).who
           entered == IF known = Unseeded THEN {} ELSE now \ Members
           left == Members \ now
<1>1. /\ inbox # <<>> /\ Head(inbox).type = "update" /\ inbox' = Tail(inbox) /\ known' = now
      /\ UNCHANGED <<table, ring, down, ws, inRoom, present, outside, bounds>> /\ handler = Idle
  BY DEF HandlerReads
<1>2. RoomOK'
  BY <1>1, MessagesRead DEF IInv, Types, RoomOK
<1>3. PICK w \in Pick(Waiting) :
        \/ /\ handler' = [at |-> "acting", waiting |-> w, ours |-> Ours,
                          entered |-> entered \ Ours, left |-> left # {}]
           /\ UNCHANGED <<lineVars, entry, conn, stop, grace>>
        \/ /\ Acts(w, entered \ Ours, left # {}, Ours) \/ UNCHANGED <<lineVars, entry, conn, stop, grace>>
           /\ UNCHANGED handler
  BY DEF HandlerReads
<1>4. w \in Calls \cup {NoCall}
  BY DEF Pick, Waiting, IInv, Types, EntriesOK
<1>5. HandlerOK'
  BY <1>1, <1>3, <1>4 DEF HandlerOK
<1> HIDE DEF now, entered, left
<1>6. QED
  BY <1>1, <1>2, <1>3, <1>4, <1>5, ActsKeeps

LEMMA HandlerResumesKeeps == ASSUME IInv, HandlerResumes PROVE IInv'
<1>1. /\ handler # Idle /\ handler' = Idle
      /\ Acts(handler.waiting, handler.entered, handler.left, handler.ours)
      /\ UNCHANGED <<table, ring, down, roomVars, outside, bounds>>
  BY DEF HandlerResumes
<1>2. handler.waiting \in Calls \cup {NoCall} /\ HandlerOK'
  BY <1>1 DEF IInv, Types, HandlerOK
<1>3. RoomOK' /\ ws' = ws
  BY <1>1 DEF IInv, Types, RoomOK, roomVars
<1>4. QED
  BY <1>1, <1>2, <1>3, ActsKeeps

\* Whatever ends the call on the line and touches no entry and no task.
LEMMA EndsLineKeeps ==
    ASSUME IInv, (\E onLoop : HangsUp(onLoop)) \/ UNCHANGED lineVars,
           RoomOK', HandlerOK', ws' = ws, UNCHANGED <<entries, tasks, outside, losses>>
    PROVE  IInv'
<1>1. /\ LineOK'
      /\ \A c \in Calls : /\ (phase'[c] = "new") = (phase[c] = "new")
                          /\ (phase'[c] = "over") = (phase[c] = "over")
  <2>1. CASE \E onLoop : HangsUp(onLoop)
    BY <2>1, HangsUpKeeps DEF IInv, Types
  <2>2. CASE UNCHANGED lineVars
    BY <2>2 DEF IInv, Types, LineOK, lineVars
  <2>3. QED
    BY <2>1, <2>2
<1>2. Types'
  BY <1>1 DEF IInv, Types, EntriesOK, TasksOK, OutsideOK, LossesOK, entries, tasks, outside
<1>3. ConnInv'
  BY <1>1 DEF IInv, ConnInv, tasks
<1>4. ASSUME NEW c \in Calls PROVE Alike(c)
  BY <1>1 DEF Alike, entries, tasks, outside
<1>5. QED
  BY <1>2, <1>3, <1>4, AlikeIsEnough

LEMMA EndingsKeep ==
    ASSUME IInv, LineIsFreed \/ HandlerReadsEnd \/ HandlerHangsUp \/ GraceEnds
    PROVE  IInv'
<1>1. CASE LineIsFreed
  <2>1. RoomOK' /\ HandlerOK' /\ ws' = ws
    BY <1>1 DEF LineIsFreed, IInv, Types, RoomOK, HandlerOK, roomVars, heard
  <2>2. QED
    BY <1>1, <2>1, EndsLineKeeps DEF LineIsFreed, bounds
<1>2. CASE HandlerReadsEnd
  <2>1. inbox' \in Seq(Messages)
    BY <1>2, MessagesRead DEF HandlerReadsEnd, IInv, Types, RoomOK
  <2>2. RoomOK' /\ HandlerOK' /\ ws' = ws
    BY <1>2, <2>1 DEF HandlerReadsEnd, Members, IInv, Types, RoomOK, HandlerOK, heard
  <2>3. QED
    BY <1>2, <2>2, EndsLineKeeps DEF HandlerReadsEnd, bounds
<1>3. CASE HandlerHangsUp
  <2>1. inbox' \in Seq(Messages)
    BY <1>3, MessagesRead DEF HandlerHangsUp, IInv, Types, RoomOK
  <2>2. RoomOK' /\ HandlerOK' /\ ws' = ws
    BY <1>3, <2>1 DEF HandlerHangsUp, IInv, Types, RoomOK, HandlerOK, heard
  <2>3. QED
    BY <1>3, <2>2, EndsLineKeeps DEF HandlerHangsUp, bounds
<1>4. CASE GraceEnds
  <2>1. RoomOK' /\ HandlerOK' /\ ws' = ws
    BY <1>4 DEF GraceEnds, IInv, Types, RoomOK, HandlerOK, roomVars
  <2>2. QED
    BY <1>4, <2>1, EndsLineKeeps DEF GraceEnds, bounds
<1>5. QED
  BY <1>1, <1>2, <1>3, <1>4

LEMMA RoomKeeps ==
    ASSUME IInv, (\E p \in People : PersonMoves(p)) \/ MeetingEnds \/ PlateIsHungUp \/ Reconnect
                 \/ UNCHANGED vars
    PROVE  IInv'
<1>1. UNCHANGED <<lineVars, entries, tasks, heard, outside, losses>>
  BY DEF PersonMoves, MeetingEnds, PlateIsHungUp, Reconnect, vars, bounds
<1>2. RoomOK' /\ (ws' = ws \/ ws')
  <2>1. CASE \E p \in People : PersonMoves(p)
    <3>1. present' \subseteq Sessions /\ Says(Snapshot(present')) /\ UNCHANGED <<ws, inRoom, known>>
      BY <2>1 DEF PersonMoves, IInv, Types, RoomOK, Sessions
    <3>2. inbox' \in Seq(Messages)
      BY <3>1, SaysKeeps DEF IInv, Types, RoomOK
    <3>3. QED
      BY <3>1, <3>2 DEF IInv, Types, RoomOK
  <2>2. CASE MeetingEnds
    <3>1. inbox' \in Seq(Messages)
      BY <2>2, SaysKeeps DEF MeetingEnds, IInv, Types, RoomOK
    <3>2. QED
      BY <2>2, <3>1 DEF MeetingEnds, IInv, Types, RoomOK
  <2>3. CASE PlateIsHungUp
    <3>1. inbox' \in Seq(Messages)
      BY <2>3, SaysKeeps DEF PlateIsHungUp, IInv, Types, RoomOK
    <3>2. QED
      BY <2>3, <3>1 DEF PlateIsHungUp, IInv, Types, RoomOK
  <2>4. CASE Reconnect
    BY <2>4 DEF Reconnect, IInv, Types, RoomOK
  <2>5. CASE UNCHANGED vars
    BY <2>5 DEF vars, roomVars, IInv, Types, RoomOK
  <2>6. QED
    BY <2>1, <2>2, <2>3, <2>4, <2>5
<1>3. Types'
  BY <1>1, <1>2 DEF IInv, Types, LineOK, EntriesOK, TasksOK, HandlerOK, OutsideOK, LossesOK,
       lineVars, entries, tasks, heard, outside
<1>4. ConnInv'
  BY <1>1 DEF IInv, ConnInv, lineVars, tasks
<1>5. ASSUME NEW c \in Calls PROVE Alike(c)
  BY <1>1 DEF Alike, lineVars, entries, tasks, outside
<1>6. QED
  BY <1>3, <1>4, <1>5, AlikeIsEnough

LEMMA LoseKeeps == ASSUME IInv, Lose PROVE IInv'
<1>1. /\ losses' = losses + 1 /\ ws' = FALSE
      /\ present' = {} /\ inbox' = <<>> /\ known' = Unseeded /\ plates' = {}
      /\ UNCHANGED <<lineVars, entries, tasks, heard, media, standing, reports>>
  BY DEF Lose
<1>2. losses' \in Nat /\ losses' # 0
  BY <1>1 DEF IInv, Types, LossesOK
<1>3. Types'
  <2>1. LineOK'
    BY <1>1 DEF IInv, Types, LineOK, lineVars
  <2>2. EntriesOK' /\ TasksOK'
    BY <1>1 DEF IInv, Types, EntriesOK, TasksOK, entries, tasks
  <2>3. RoomOK'
    <3>1. present' \subseteq Sessions /\ ws' \in BOOLEAN
      BY <1>1
    <3>2. inbox' \in Seq(Messages)
      BY <1>1
    <3>3. QED
      BY <1>1, <3>1, <3>2 DEF RoomOK
  <2>4. HandlerOK'
    BY <1>1 DEF IInv, Types, HandlerOK, heard
  <2>5. OutsideOK'
    BY <1>1 DEF IInv, Types, OutsideOK
  <2>6. LossesOK'
    BY <1>2 DEF LossesOK
  <2>7. QED
    BY <2>1, <2>2, <2>3, <2>4, <2>5, <2>6 DEF Types
<1>4. ConnInv'
  BY <1>1 DEF IInv, ConnInv, lineVars, tasks
<1>5. ASSUME NEW c \in Calls PROVE CallInv(c)'
  BY <1>1, <1>2 DEF IInv, CallInv, EntryInv, LeftInv, RingInv, ReportInv, lineVars, entries, tasks
<1>6. QED
  BY <1>3, <1>4, <1>5 DEF IInv
-----------------------------------------------------------------------------
LEMMA CallKeepsInv ==
    ASSUME IInv, NEW d \in Calls,
           \/ Arrives(d) \/ Dials(d) \/ DialSteps(d) \/ Callbacks(d) \/ Worker(d)
           \/ RingSteps(d) \/ ConnSteps(d) \/ PublisherDies(d) \/ DownSteps(d)
           \/ StopsRing(d)
    PROVE  IInv'
<1>1. CASE Arrives(d) \/ Dials(d) \/ DialSteps(d)
  BY <1>1, ArrivesKeeps, DialsKeeps, DialRecordsKeeps, JoinsKeep DEF DialSteps
<1>2. CASE Callbacks(d) \/ Worker(d)
  BY <1>2, OnIncomingCallKeeps, OnCallEndedKeeps, OnCallConnectedKeeps, ConnectOutboundKeeps
     DEF Callbacks, Worker
<1>3. CASE RingSteps(d)
  BY <1>3, RingPlacedKeeps, JoinsKeep, RingArmsKeeps, RingSoundsKeeps, RingRecordsKeeps DEF RingSteps
<1>4. CASE ConnSteps(d) \/ PublisherDies(d)
  BY <1>4, ConnWaitsKeeps, ConnHangsUpKeeps, ConnJoinsKeeps, ConnPlatesKeeps, ConnDiscardsKeeps,
     ConnReportsKeeps, PublisherDiesKeeps DEF ConnSteps
<1>5. CASE DownSteps(d) \/ StopsRing(d)
  BY <1>5, DownPopsKeeps, RingEndsKeeps, DownClosesKeeps, DownLeavesKeeps, StopsRingKeeps DEF DownSteps
<1>6. QED
  BY <1>1, <1>2, <1>3, <1>4, <1>5

\* The inductive invariant of the Talk side, in every reachable state.
THEOREM TalkInvariance == Spec => []IInv
<1>1. Init => IInv
  BY InitInv
<1>2. IInv /\ [Next]_vars => IInv'
  <2> SUFFICES ASSUME IInv, [Next]_vars PROVE IInv'
    OBVIOUS
  <2>1. CASE \E d \in Calls :
                \/ Arrives(d) \/ Dials(d) \/ DialSteps(d) \/ Callbacks(d) \/ Worker(d)
                \/ RingSteps(d) \/ ConnSteps(d) \/ PublisherDies(d) \/ DownSteps(d)
                \/ StopsRing(d)
    BY <2>1, CallKeepsInv
  <2>2. CASE LineIsFreed \/ HandlerReadsEnd \/ HandlerHangsUp \/ GraceEnds
    BY <2>2, EndingsKeep
  <2>3. CASE HandlerReads \/ HandlerResumes
    BY <2>3, HandlerReadsKeeps, HandlerResumesKeeps
  <2>4. CASE (\E p \in People : PersonMoves(p)) \/ MeetingEnds \/ PlateIsHungUp \/ Reconnect
             \/ UNCHANGED vars
    BY <2>4, RoomKeeps
  <2>5. CASE Lose
    BY <2>5, LoseKeeps
  <2>6. QED
    BY <2>1, <2>2, <2>3, <2>4, <2>5 DEF Next, Handler
<1>3. QED
  BY <1>1, <1>2, PTL DEF Spec

\* Every variable of the Talk side keeps its type, the call on the line can be ended
\* there, and the call the loop hangs up is the one whose end is on its way.
THEOREM TalkTypes == Spec => []TypeOK
<1>1. IInv => TypeOK
  BY DEF IInv, Types, LineOK, EntriesOK, TasksOK, RoomOK, OutsideOK, TypeOK, Phases, Rings, Conns,
         Downs, Publishings, Sessions
<1>2. QED
  BY <1>1, TalkInvariance, PTL

\* Of a call that is over and out of the table neither publisher nor name plate stays,
\* however teardown and publishing overtake each other (_teardown_call, publish).
THEOREM NothingStays == Spec => []NothingLeftInTheRoom
<1>1. IInv => NothingLeftInTheRoom
  <2> SUFFICES ASSUME IInv, NEW c \in Calls \ table, Quiet(c), ~(losses > 0)
               PROVE  c \notin plates /\ media[c] \in {"none", "closed"}
    BY DEF NothingLeftInTheRoom
  <2>1. losses = 0 /\ down[c] = "done" /\ media[c] \in Medias
    BY DEF IInv, Types, LossesOK, OutsideOK, Quiet
  <2>2. QED
    BY <2>1 DEF IInv, CallInv, LeftInv, Medias
<1>2. QED
  BY <1>1, TalkInvariance, PTL

\* A ring whose session was recorded is stopped (ring_answered, stop_ring,
\* end_room_call).
THEOREM RecordedRingStops == Spec => []RecordedRingIsStopped
<1>1. IInv => RecordedRingIsStopped
  BY DEF IInv, CallInv, RingInv, RecordedRingIsStopped, Quiet
<1>2. QED
  BY <1>1, TalkInvariance, PTL

\* A dialout is told "accepted" first, and "cleared" once its failure or its end was
\* told to Talk's side and is worked off, whichever of its request, its worker and its
\* teardown is first (requested, report, _teardown_call).
THEOREM DialoutReports == Spec => []DialoutIsReported
<1>1. IInv => DialoutIsReported
  <2> SUFFICES ASSUME IInv, NEW c \in Dialouts
               PROVE  /\ reports[c] # <<>> => Head(reports[c]) = "accepted"
                      /\ Quiet(c) /\ losses = 0 =>
                           \E i \in DOMAIN reports[c] : reports[c][i] = "cleared"
    BY DEF DialoutIsReported
  <2>1. CallInv(c)
    BY Distinct DEF IInv
  <2>2. QED
    BY <2>1 DEF CallInv, ReportInv, Accepted, Cleared, Quiet
<1>2. QED
  BY <1>1, TalkInvariance, PTL
==============================================================================
