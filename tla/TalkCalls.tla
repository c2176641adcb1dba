----------------------------- MODULE TalkCalls -----------------------------
(***************************************************************************)
(* The Talk side of one line: the table of calls (_call_sessions), the     *)
(* room connection, the phone's name plate and the session that rings,     *)
(* from the callbacks of the call manager to the teardown.                 *)
(*                                                                         *)
(* Everything in Talk runs on one event loop, so an action is a stretch of *)
(* a coroutine between two awaits; the callbacks of the call manager and   *)
(* the blocking requests run on threads of their own.  The line itself is  *)
(* the abstract one of module Line, except that a call leaves the line     *)
(* before anybody is told of it.                                           *)
(***************************************************************************)
EXTENDS Naturals, Sequences, FiniteSets

CONSTANTS Inbound,     \* calls the gateway offers
          Dialouts,    \* calls Talk asks for
          Kinds,       \* what the dialled number makes of an inbound call
          People,      \* sessions of people in the room
          NoCall,      \* an empty line, and nobody
          NoRoom,      \* the room connection is in no room
          Default,     \* the room the line is configured with
          Unseeded,    \* RoomCallState before its first update
          MaxMoves,    \* bound: how often people come, go or end the call
          MaxInbox,     \* bound: how many messages wait to be read
          MaxLosses    \* bound: how often the room connection is lost

Calls == Inbound \cup Dialouts

ASSUME TalkAssumption ==
    /\ Inbound \cap Dialouts = {} /\ Calls \cap People = {}
    /\ NoCall \notin Calls \cup People
    /\ Kinds \subseteq {"ring", "auto", "conference", "direct"}
    /\ {MaxMoves, MaxInbox, MaxLosses} \subseteq Nat

VARIABLES
    line, phase,        \* the call manager: who holds the line, how far each call is
    raised,             \* history: calls an answer() raised for
    table, entry,       \* _call_sessions, and the Call objects (which outlive it)
    ring, conn, down,   \* the tasks of a call: ringing or dialling, publishing, teardown
    stop,               \* calls with a stop_ring task
    hung,               \* the call whose hangup() the loop is inside
    handler, inbox,     \* the message being handled, and those not read yet
    known, grace,       \* _room_call, and whether a _confirm_empty task waits
    ws, inRoom,         \* the room connection, and the room it is in
    present,            \* sessions in that room's call
    plates, media, audio, \* name plates, publishers, the announced in-call flag
    standing,           \* rings Talk has been asked for and not asked to stop
    reports,            \* what Talk was told of each dialout
    moves, losses

lineVars == <<line, phase, hung, raised>>
entries  == <<table, entry>>
tasks    == <<ring, conn, down, stop>>
roomVars == <<ws, inRoom, present, inbox, known>>
heard    == <<handler, grace>>
outside  == <<plates, media, audio, standing, reports>>
bounds   == <<moves, losses>>
vars == <<lineVars, entries, tasks, roomVars, heard, outside, bounds>>

NewCall == [waiting |-> FALSE, opener |-> FALSE, room |-> NoRoom, asks |-> FALSE, media |-> FALSE]
Idle == [at |-> "idle"]
NotConnected == [at |-> "none", room |-> NoRoom, asks |-> FALSE]

Init ==
    /\ line = NoCall /\ hung = NoCall /\ raised = {}
    /\ phase = [c \in Calls |-> "new"]
    /\ table = {} /\ entry = [c \in Calls |-> NewCall]
    /\ ring = [c \in Calls |-> "none"] /\ down = [c \in Calls |-> "none"]
    /\ conn = [c \in Calls |-> NotConnected] /\ stop = {}
    /\ handler = Idle /\ inbox = <<>> /\ known = Unseeded /\ grace = FALSE
    /\ ws = TRUE /\ inRoom = NoRoom /\ present = {}
    /\ plates = {} /\ media = [c \in Calls |-> "none"] /\ audio = FALSE
    /\ standing = {} /\ reports = [c \in Calls |-> <<>>]
    /\ moves = 0 /\ losses = 0
-----------------------------------------------------------------------------
(* What the parts call. *)

\* Mutant: dial() is awaited.
LoopFreeOfHangup == hung = NoCall

\* A task may run: the loop is not inside hangup(), nor between dial() and
\* the entry of the dialout in the table.
LoopFree == hung = NoCall /\ \A c \in Calls : ring[c] # "dialled"

Set(f, c, v) == [f EXCEPT ![c] = v]
\* entry = _call_sessions.get(c); if entry is not None: ...
Update(c, new) == entry' = IF c \in table THEN Set(entry, c, new) ELSE entry

RoomId(tab, ent, c) == IF c \in tab /\ ent[c].room # NoRoom THEN ent[c].room ELSE Default
\* on_call_connected, with the table it reads.
Connected(tab, ent, c) ==
    conn' = Set(conn, c, [at |-> "start", room |-> RoomId(tab, ent, c),
                          asks |-> c \in tab /\ ent[c].asks /\ ent[c].room = NoRoom])

\* A thread of the SIP side is about to call on_call_connected.
ToTell(c) == conn' = Set(conn, c, [NotConnected EXCEPT !.at = "callback"])

\* call_manager.answer(): it names no call, the one on the line is answered; or
\* refused with 488, of which nobody is told; or its port is taken, and answer()
\* raises with the call ringing on.  Every caller goes on as after an answer.
Answers(told) ==
    /\ IF line # NoCall /\ phase[line] = "ringing"
       THEN \/ /\ phase' = Set(phase, line, "connected") /\ told
               /\ UNCHANGED <<line, raised>>
            \/ /\ line' = NoCall /\ phase' = Set(phase, line, "refused")
               /\ UNCHANGED <<raised, conn>>
            \/ raised' = raised \cup {line} /\ UNCHANGED <<line, phase, conn>>
       ELSE UNCHANGED <<line, phase, raised, conn>>
    /\ UNCHANGED hung

\* call_manager.hangup(): the call on the line leaves it, the callback comes
\* later - for a dialout that still rings, from its worker.
HangsUp(onLoop) ==
    /\ line' = NoCall /\ UNCHANGED raised
    /\ IF line = NoCall THEN UNCHANGED <<phase, hung>>
       ELSE IF phase[line] = "dialling"
       THEN phase' = Set(phase, line, "abandoned") /\ UNCHANGED hung
       ELSE phase' = Set(phase, line, "ending") /\ hung' = IF onLoop THEN line ELSE hung

Says(m) == Len(inbox) < MaxInbox /\ inbox' = Append(inbox, m)
Snapshot(who) == [type |-> "update", who |-> who]
\* The server moves the connection into a room and sends who is in its call;
\* joining the room one is in already changes nothing (already_joined).
EntersRoom(r) ==
    /\ IF inRoom = r THEN UNCHANGED <<inRoom, present, inbox>>
       ELSE \E who \in SUBSET People :
              /\ inRoom' = r
              /\ present' = who \cup (IF r = Default THEN standing ELSE {})
              /\ Says(Snapshot(present'))
    /\ UNCHANGED <<ws, known>>
\* The account that rings leaves the call again.
Withdraws(c) ==
    /\ standing' = standing \ {c}
    /\ present' = present \ {c}
    /\ IF c \in present THEN Says(Snapshot(present')) ELSE UNCHANGED inbox
    /\ UNCHANGED <<ws, inRoom, known>>
\* A status update to Talk; only a dialout has one.
Told(c, status) ==
    IF c \in Dialouts THEN [reports EXCEPT ![c] = Append(@, status)] ELSE reports
-----------------------------------------------------------------------------
(* The call manager and its callbacks (threads of the SIP side). *)

Arrives(c) ==
    /\ c \in Inbound /\ phase[c] = "new" /\ line = NoCall
    /\ line' = c /\ phase' = Set(phase, c, "ringing")
    /\ ring' = Set(ring, c, "callback")
    /\ UNCHANGED <<hung, raised, entries, conn, down, stop, roomVars, heard, outside, bounds>>

\* The dialled number decides: answered at once, asked for a room, rung for, or
\* (direct dial-in) given one by Nextcloud.
OnIncomingCall(c) ==
    /\ ring[c] = "callback"
    /\ table' = table \cup {c}
    /\ \E k \in Kinds :
         /\ entry' = Set(entry, c, [NewCall EXCEPT !.asks = k = "conference"])
         /\ IF k \in {"auto", "conference"}
            THEN ring' = Set(ring, c, "done") /\ Answers(ToTell(line))
            ELSE /\ ring' = Set(ring, c, IF k = "direct" THEN "asking" ELSE "start")
                 /\ UNCHANGED <<lineVars, conn>>
    /\ UNCHANGED <<down, stop, roomVars, heard, outside, bounds>>

\* The worker of a dialout takes a 200: the call is connected - unless it was hung
\* up after its 200 came, or the 200 is the one to the CANCEL of a hangup.
ConnectOutbound(c) ==
    /\ phase[c] \in {"dialling", "abandoned"}
    /\ phase' = Set(phase, c, IF line = c THEN "connected" ELSE "lost")
    /\ ToTell(c)
    /\ UNCHANGED <<line, hung, raised, entries, ring, down, stop, roomVars, heard, outside, bounds>>

\* The callback comes either way, and without the lock: after a hangup, too.
OnCallConnected(c) ==
    /\ conn[c].at = "callback"
    /\ Connected(table, entry, c)
    /\ UNCHANGED <<lineVars, entries, ring, down, stop, roomVars, heard, outside, bounds>>

\* BYE, CANCEL, the safety timer, the hangup button of the control page.
LineIsFreed ==
    /\ line # NoCall
    /\ HangsUp(FALSE)
    /\ UNCHANGED <<entries, tasks, roomVars, heard, outside, bounds>>

\* After a hangup; and for every BYE and CANCEL, those of a call that is off the
\* line already included.
OnCallEnded(c) ==
    /\ phase[c] \in {"ending", "lost", "refused"}
    /\ phase' = Set(phase, c, "over") /\ hung' = IF hung = c THEN NoCall ELSE hung
    /\ down' = Set(down, c, "pop")
    /\ UNCHANGED <<line, raised, entries, ring, conn, stop, roomVars, heard, outside, bounds>>

\* Mutant: the attempt stays on the line.
OnCallFailedOnly(c) ==
    /\ phase[c] \in {"dialling", "abandoned"}
    /\ phase' = Set(phase, c, "over") /\ down' = Set(down, c, "reject")
    /\ UNCHANGED <<line, hung, raised, entries, ring, conn, stop, roomVars, heard, outside, bounds>>

\* Refused while it rang, or given up after a hangup.
OnCallFailed(c) ==
    /\ phase[c] \in {"dialling", "abandoned"}
    /\ phase' = Set(phase, c, "over") /\ line' = IF line = c THEN NoCall ELSE line
    /\ down' = Set(down, c, "reject")
    /\ UNCHANGED <<hung, raised, entries, ring, conn, stop, roomVars, heard, outside, bounds>>
-----------------------------------------------------------------------------
(* A dialout request: dial(), and without another await the table. *)

Dials(c) ==
    /\ LoopFree /\ c \in Dialouts /\ phase[c] = "new" /\ line = NoCall
    /\ line' = c /\ phase' = Set(phase, c, "dialling") /\ ring' = Set(ring, c, "dialled")
    /\ UNCHANGED <<hung, raised, entries, conn, down, stop, roomVars, heard, outside, bounds>>

DialRecords(c) ==
    /\ ring[c] = "dialled"
    /\ table' = table \cup {c} /\ entry' = Set(entry, c, [NewCall EXCEPT !.room = c])
    /\ reports' = Told(c, "accepted")
    /\ ring' = Set(ring, c, "join")
    /\ UNCHANGED <<lineVars, conn, down, stop, roomVars, heard, plates, media, audio, standing, bounds>>

DialJoins(c) ==
    /\ LoopFree /\ ring[c] = "join"
    /\ ring' = Set(ring, c, "done")
    /\ IF ws THEN EntersRoom(c) ELSE UNCHANGED roomVars
    /\ UNCHANGED <<lineVars, entries, conn, down, stop, heard, outside, bounds>>
-----------------------------------------------------------------------------
(* InboundCalls.ring *)

\* Direct dial-in: Nextcloud made a conversation of the call's own.
RingPlaced(c) ==
    /\ LoopFree /\ ring[c] = "asking"
    /\ ring' = Set(ring, c, "done")
    /\ Update(c, [entry[c] EXCEPT !.room = c])
    /\ Answers(Connected(table, entry', line))
    /\ UNCHANGED <<table, down, stop, roomVars, heard, outside, bounds>>

\* Without a room connection there is nothing to send the join on: the task
\* ends there.
RingJoins(c) ==
    /\ LoopFree /\ ring[c] \in {"start", "asking"}
    /\ IF ws THEN ring' = Set(ring, c, "joining") /\ EntersRoom(Default)
             ELSE ring' = Set(ring, c, "done") /\ UNCHANGED roomVars
    /\ UNCHANGED <<lineVars, entries, conn, down, stop, heard, outside, bounds>>

RingArms(c) ==
    /\ LoopFree /\ ring[c] = "joining"
    /\ ring' = Set(ring, c, IF c \in table THEN "calling" ELSE "done")
    /\ Update(c, [entry[c] EXCEPT !.waiting = TRUE])
    /\ UNCHANGED <<lineVars, table, conn, down, stop, roomVars, heard, outside, bounds>>

\* start_ring, on a thread: from the moment Talk rings, its account is in the
\* room's call; the opener comes back later.
RingSounds(c) ==
    /\ ring[c] = "calling"
    /\ ring' = Set(ring, c, "sounding")
    /\ standing' = standing \cup {c}
    /\ IF inRoom = Default
       THEN present' = present \cup {c} /\ Says(Snapshot(present'))
       ELSE UNCHANGED <<present, inbox>>
    /\ UNCHANGED <<lineVars, entries, conn, down, stop, ws, inRoom, known, heard,
                   plates, media, audio, reports, bounds>>

RingFails(c) ==
    /\ ring[c] = "calling"
    /\ ring' = Set(ring, c, "failed")
    /\ UNCHANGED <<lineVars, entries, conn, down, stop, roomVars, heard, outside, bounds>>

\* Mutant: whatever start_ring returns, the call stops waiting.
RingRecordsOnly(c) ==
    /\ LoopFree /\ ring[c] \in {"sounding", "failed"}
    /\ ring' = Set(ring, c, "done")
    /\ Update(c, [entry[c] EXCEPT !.opener = ring[c] = "sounding", !.waiting = FALSE])
    /\ UNCHANGED <<lineVars, table, conn, down, stop, roomVars, heard, outside, bounds>>

RingRecords(c) ==
    /\ LoopFree /\ ring[c] \in {"sounding", "failed"}
    /\ ring' = Set(ring, c, "done")
    /\ Update(c, IF ring[c] = "sounding" THEN [entry[c] EXCEPT !.opener = TRUE]
                                         ELSE [entry[c] EXCEPT !.waiting = FALSE])
    /\ UNCHANGED <<lineVars, table, conn, down, stop, roomVars, heard, outside, bounds>>
-----------------------------------------------------------------------------
(* What on_call_connected schedules: the dialogue, the publishing, the       *)
(* report.  conn[c].room is the roomid it starts with.                       *)

ConnAt(c, at) == conn' = [conn EXCEPT ![c].at = at]

\* ask_which_room, up to the dialogue on its thread.
ConnAsks(c) ==
    /\ LoopFree /\ conn[c].at = "start" /\ conn[c].asks
    /\ ConnAt(c, IF c \in table THEN "dialogue" ELSE "done")
    /\ UNCHANGED <<lineVars, entries, ring, down, stop, roomVars, heard, outside, bounds>>

\* The caller named no conversation: hangup() on a thread.
ConnHangsUp(c) ==
    /\ conn[c].at = "dialogue"
    /\ ConnAt(c, "done")
    /\ HangsUp(FALSE)
    /\ UNCHANGED <<entries, ring, down, stop, roomVars, heard, outside, bounds>>

\* publish() begins: into the room known from the start, or just dialled.
ConnJoins(c) ==
    /\ LoopFree
    /\ \/ /\ conn[c].at = "start" /\ ~conn[c].asks
          /\ UNCHANGED entry
       \/ /\ conn[c].at = "dialogue" /\ c \in table
          /\ entry' = [entry EXCEPT ![c].room = c]
    /\ LET r == IF conn[c].asks THEN c ELSE conn[c].room
       IN  /\ conn' = Set(conn, c, [NotConnected EXCEPT !.at = "joining"])
           /\ IF ws THEN EntersRoom(r) ELSE UNCHANGED roomVars
    /\ UNCHANGED <<lineVars, table, ring, down, stop, heard, outside, bounds>>

\* The dialogue placed a caller who is gone.
ConnIsTooLate(c) ==
    /\ LoopFree /\ conn[c].at = "dialogue" /\ c \notin table
    /\ ConnAt(c, "done")
    /\ UNCHANGED <<lineVars, entries, ring, down, stop, roomVars, heard, outside, bounds>>

\* Mutant: the entry does not get them.
ConnPlatesOnly(c) ==
    /\ LoopFree /\ conn[c].at = "joining" /\ c \in table /\ ws
    /\ ConnAt(c, "offering")
    /\ plates' = plates \cup {c} /\ media' = Set(media, c, "open")
    /\ UNCHANGED <<lineVars, entries, ring, down, stop, roomVars, heard, audio, standing, reports, bounds>>

\* The name plate and the publisher; then the wait for ICE.
ConnPlates(c) ==
    /\ LoopFree /\ conn[c].at = "joining"
    /\ IF c \in table /\ ws
       THEN /\ ConnAt(c, "offering")
            /\ plates' = plates \cup {c} /\ media' = Set(media, c, "open")
            /\ Update(c, [entry[c] EXCEPT !.media = TRUE])
       ELSE /\ ConnAt(c, IF c \in table THEN "done" ELSE "report")
            /\ UNCHANGED <<plates, media, entry>>
    /\ UNCHANGED <<lineVars, table, ring, down, stop, roomVars, heard, audio, standing, reports, bounds>>

\* Mutant: the audio is not announced.
ConnOffersSilently(c) ==
    /\ LoopFree /\ conn[c].at = "offering" /\ c \in table
    /\ ConnAt(c, IF ws THEN "report" ELSE "done")
    /\ UNCHANGED <<lineVars, entries, ring, down, stop, roomVars, heard, outside, bounds>>

\* The offer goes out and the audio is announced.
ConnOffers(c) ==
    /\ LoopFree /\ conn[c].at = "offering" /\ c \in table
    /\ ConnAt(c, IF ws THEN "report" ELSE "done")
    /\ audio' = (audio \/ ws)
    /\ UNCHANGED <<lineVars, entries, ring, down, stop, roomVars, heard, plates, media, standing, reports, bounds>>

\* Too late: the publisher is discarded - unless the offer of a connection the
\* teardown closed raised, or there is nothing left to withdraw the plate on.
ConnDiscards(c) ==
    /\ LoopFree /\ conn[c].at = "offering" /\ c \notin table
    /\ \/ /\ media[c] = "closed"
          /\ ConnAt(c, "done") /\ UNCHANGED <<media, plates>>
       \/ /\ media' = Set(media, c, "closed")
          /\ ConnAt(c, IF ws THEN "report" ELSE "done")
          /\ plates' = IF ws THEN plates \ {c} ELSE plates
    /\ UNCHANGED <<lineVars, entries, ring, down, stop, roomVars, heard, audio, standing, reports, bounds>>

ConnReports(c) ==
    /\ LoopFree /\ conn[c].at = "report"
    /\ ConnAt(c, "done")
    /\ reports' = Told(c, "connected")
    /\ UNCHANGED <<lineVars, entries, ring, down, stop, roomVars, heard, plates, media, audio, standing, bounds>>

\* The publisher's connection fails; the call on the line is hung up.
PublisherDies(c) ==
    /\ LoopFree /\ media[c] = "open"
    /\ media' = Set(media, c, "lost")
    /\ HangsUp(TRUE)
    /\ UNCHANGED <<entries, tasks, roomVars, heard, plates, audio, standing, reports, bounds>>
-----------------------------------------------------------------------------
(* _teardown_call, one action per stretch between its awaits. *)

Leaves == IF ws THEN /\ inRoom' = NoRoom /\ present' = {} /\ known' = Unseeded
                     /\ UNCHANGED <<ws, inbox>>
                ELSE UNCHANGED roomVars
\* From the name plate on: without a room connection withdrawing it raises.
TakesDown(c, told) ==
    LET e == entry[c] IN
    IF e.media /\ ~ws
    THEN /\ down' = Set(down, c, "done") /\ reports' = told
         /\ UNCHANGED <<plates, audio, roomVars>>
    ELSE /\ plates' = plates \ {c} /\ audio' = (audio /\ ~e.media)
         /\ reports' = IF c \in Dialouts THEN [told EXCEPT ![c] = Append(@, "cleared")] ELSE told
         /\ IF e.opener /\ ~e.waiting
            THEN down' = Set(down, c, "ending") /\ UNCHANGED roomVars
            ELSE down' = Set(down, c, "done") /\ Leaves

\* media.close() comes first, if there is anything to close.
Closes(c, told) ==
    IF entry[c].media
    THEN /\ media' = Set(media, c, "closed") /\ reports' = told
         /\ down' = Set(down, c, "closed")
         /\ UNCHANGED <<plates, audio, roomVars>>
    ELSE TakesDown(c, told) /\ UNCHANGED media

\* Mutant: a ring nobody accepted goes on.
DownPopsOnly(c) ==
    /\ LoopFree /\ down[c] \in {"pop", "reject"}
    /\ table' = table \ {c}
    /\ IF c \in table THEN Closes(c, reports)
       ELSE down' = Set(down, c, "done") /\ UNCHANGED <<plates, media, audio, roomVars, reports>>
    /\ UNCHANGED <<lineVars, entry, ring, conn, stop, heard, standing, bounds>>

DownPops(c) ==
    /\ LoopFree /\ down[c] \in {"pop", "reject"}
    /\ table' = table \ {c}
    /\ LET told == IF down[c] = "reject" THEN Told(c, "rejected") ELSE reports
           next == IF c \in table THEN "stopping" ELSE "done"
       IN  IF c \in table /\ ~(entry[c].waiting /\ entry[c].opener) THEN Closes(c, told)
           ELSE /\ down' = Set(down, c, next) /\ reports' = told
                /\ UNCHANGED <<plates, media, audio, roomVars>>
    /\ UNCHANGED <<lineVars, entry, ring, conn, stop, heard, standing, bounds>>

\* stop_ring, on a thread.
DownStops(c) ==
    /\ down[c] = "stopping"
    /\ down' = Set(down, c, "stopped")
    /\ Withdraws(c)
    /\ UNCHANGED <<lineVars, entries, ring, conn, stop, heard, plates, media, audio, reports, bounds>>

\* Mutant: nothing comes after stop_ring.
DownClosesOnly(c) ==
    /\ LoopFree /\ down[c] = "closed" /\ TakesDown(c, reports)
    /\ UNCHANGED <<lineVars, entries, ring, conn, stop, heard, media, standing, bounds>>

DownCloses(c) ==
    /\ LoopFree
    /\ \/ down[c] = "stopped" /\ Closes(c, reports)
       \/ down[c] = "closed" /\ TakesDown(c, reports) /\ UNCHANGED media
    /\ UNCHANGED <<lineVars, entries, ring, conn, stop, heard, standing, bounds>>

\* end_room_call, on a thread: with moderator rights for everyone, without
\* them only for the account itself.
DownEnds(c) ==
    /\ down[c] = "ending"
    /\ down' = Set(down, c, "leaving")
    /\ \/ Withdraws(c)
       \/ /\ standing' = standing \ {c}
          /\ IF inRoom = Default THEN present' = {} /\ Says([type |-> "end"])
                                 ELSE UNCHANGED <<present, inbox>>
          /\ UNCHANGED <<ws, inRoom, known>>
    /\ UNCHANGED <<lineVars, entries, ring, conn, stop, heard, plates, media, audio, reports, bounds>>

DownLeaves(c) ==
    /\ LoopFree /\ down[c] = "leaving"
    /\ down' = Set(down, c, "done")
    /\ Leaves
    /\ UNCHANGED <<lineVars, entries, ring, conn, stop, heard, outside, bounds>>

\* The stop_ring task of an accepted call.
StopsRing(c) ==
    /\ c \in stop
    /\ stop' = stop \ {c}
    /\ Withdraws(c)
    /\ UNCHANGED <<lineVars, entries, ring, conn, down, heard, plates, media, audio, reports, bounds>>
-----------------------------------------------------------------------------
(* _handle_room_message: one message at a time.  An update is folded into    *)
(* RoomCallState and the calls it may concern are picked; when it moved      *)
(* somebody during a call the handler talks to the room before it goes on    *)
(* with what it picked.                                                      *)

Members == IF known = Unseeded THEN {} ELSE known
Ours == {c \in table : entry[c].opener}
AnyoneBesides(ours) == Members \ ours # {}
InCall(c) == entry[c].media /\ media[c] # "closed"

\* The call picked last of each sort, or NoCall.
Pick(S) == IF S = {} THEN {NoCall} ELSE S
Active == {c \in table : InCall(c)}
Waiting == {c \in table : ~InCall(c) /\ entry[c].waiting}
RingingDialouts == {c \in table \cap Dialouts : ~InCall(c)}

Accepts(c) ==
    /\ Update(c, [entry[c] EXCEPT !.waiting = FALSE])
    /\ Answers(Connected(table, entry', line))
    /\ stop' = IF entry[c].opener THEN stop \cup {c} ELSE stop
    /\ UNCHANGED grace

\* The rest of updated(), for a waiting call or a call in the room, with what it
\* found when it began: who entered that is not the bridge's own, whether
\* somebody left, and which sessions are the bridge's own.
Acts(waiting, entered, left, ours) ==
    IF waiting # NoCall
    THEN IF entered # {} THEN Accepts(waiting)
         ELSE UNCHANGED <<lineVars, entry, conn, stop, grace>>
    ELSE /\ grace' = (grace \/ (left /\ ~AnyoneBesides(ours)))
         /\ UNCHANGED <<lineVars, entry, conn, stop>>

\* participants/update with sessions: what moved, and the calls it may concern.
HandlerReads ==
    /\ LoopFree /\ handler = Idle /\ inbox # <<>> /\ Head(inbox).type = "update"
    /\ inbox' = Tail(inbox)
    /\ LET now == Head(inbox).who
           entered == IF known = Unseeded THEN {} ELSE now \ Members
           left == Members \ now
       IN  /\ known' = now
           /\ \E waiting \in Pick(Waiting) :
                IF Active # {} /\ entered \cup left # {}
                THEN /\ handler' = [at |-> "acting", waiting |-> waiting, ours |-> Ours,
                                    entered |-> entered \ Ours, left |-> left # {}]
                     /\ UNCHANGED <<lineVars, entry, conn, stop, grace>>
                ELSE /\ IF Active \cup Waiting \cup RingingDialouts = {}
                        THEN UNCHANGED <<lineVars, entry, conn, stop, grace>>
                        ELSE Acts(waiting, entered \ Ours, left # {}, Ours)
                     /\ UNCHANGED handler
    /\ UNCHANGED <<table, ring, down, ws, inRoom, present, outside, bounds>>

HandlerResumes ==
    /\ LoopFree /\ handler # Idle
    /\ Acts(handler.waiting, handler.entered, handler.left, handler.ours)
    /\ handler' = Idle
    /\ UNCHANGED <<table, ring, down, roomVars, outside, bounds>>

\* participants/update of all, the end of the room's call: it moves nobody, and
\* ends the call unless one still waits to be accepted.
HandlerReadsEnd ==
    /\ LoopFree /\ handler = Idle /\ inbox # <<>> /\ Head(inbox).type = "end"
    /\ inbox' = Tail(inbox) /\ known' = Members
    /\ IF Waiting = {} /\ Active \cup RingingDialouts # {} THEN HangsUp(TRUE)
                                                           ELSE UNCHANGED lineVars
    /\ UNCHANGED <<entries, tasks, ws, inRoom, present, heard, outside, bounds>>

\* control/hangup, addressed to the name plate.
HandlerHangsUp ==
    /\ LoopFree /\ handler = Idle /\ inbox # <<>> /\ Head(inbox).type = "hangup"
    /\ inbox' = Tail(inbox)
    /\ HangsUp(TRUE)
    /\ UNCHANGED <<entries, tasks, ws, inRoom, present, known, heard, outside, bounds>>

\* _confirm_empty, after the grace period; of two that wait at once the model
\* keeps the later one.
GraceEnds ==
    /\ LoopFree /\ grace
    /\ grace' = FALSE
    /\ IF table = {} \/ AnyoneBesides(Ours) THEN UNCHANGED lineVars ELSE HangsUp(TRUE)
    /\ UNCHANGED <<entries, tasks, roomVars, handler, outside, bounds>>
-----------------------------------------------------------------------------
(* The room and the connection to it. *)

Moves == moves < MaxMoves /\ moves' = moves + 1

PersonMoves(p) ==
    /\ inRoom # NoRoom /\ Moves
    /\ present' = IF p \in present THEN present \ {p} ELSE present \cup {p}
    /\ Says(Snapshot(present'))
    /\ UNCHANGED <<lineVars, entries, tasks, ws, inRoom, known, heard, outside, losses>>

\* "End meeting for everyone".
MeetingEnds ==
    /\ inRoom # NoRoom /\ Moves
    /\ present' = {} /\ Says([type |-> "end"])
    /\ UNCHANGED <<lineVars, entries, tasks, ws, inRoom, known, heard, outside, losses>>

\* The phone participant is hung up in Talk.
PlateIsHungUp ==
    /\ ws /\ plates # {} /\ Moves
    /\ Says([type |-> "hangup"])
    /\ UNCHANGED <<lineVars, entries, tasks, ws, inRoom, present, known, heard, outside, losses>>

\* The session goes with its connection, and with it everything in the room.
Lose ==
    /\ LoopFree /\ ws /\ handler = Idle /\ losses < MaxLosses
    /\ losses' = losses + 1 /\ ws' = FALSE
    /\ inRoom' = NoRoom /\ present' = {} /\ inbox' = <<>> /\ known' = Unseeded
    /\ plates' = {} /\ audio' = FALSE
    /\ UNCHANGED <<lineVars, entries, tasks, heard, media, standing, reports, moves>>

Reconnect ==
    /\ LoopFree /\ ~ws
    /\ ws' = TRUE /\ known' = Unseeded
    /\ UNCHANGED <<lineVars, entries, tasks, inRoom, present, inbox, heard, outside, bounds>>
-----------------------------------------------------------------------------
RingSteps(c) ==
    \/ RingPlaced(c) \/ RingJoins(c) \/ RingArms(c)
    \/ RingSounds(c) \/ RingFails(c) \/ RingRecords(c)
ConnSteps(c) ==
    \/ ConnAsks(c) \/ ConnHangsUp(c) \/ ConnJoins(c) \/ ConnIsTooLate(c)
    \/ ConnPlates(c) \/ ConnOffers(c) \/ ConnDiscards(c) \/ ConnReports(c)
DownSteps(c) ==
    \/ DownPops(c) \/ DownStops(c) \/ DownCloses(c) \/ DownEnds(c) \/ DownLeaves(c)
DialSteps(c) == DialRecords(c) \/ DialJoins(c)
Callbacks(c) == OnIncomingCall(c) \/ OnCallConnected(c) \/ OnCallEnded(c)
Worker(c) == ConnectOutbound(c) \/ OnCallFailed(c)
Handler == HandlerReads \/ HandlerResumes \/ HandlerReadsEnd \/ HandlerHangsUp

Next ==
    \/ \E c \in Calls :
          \/ Arrives(c) \/ Dials(c) \/ DialSteps(c) \/ Callbacks(c) \/ Worker(c)
          \/ RingSteps(c) \/ ConnSteps(c) \/ PublisherDies(c) \/ DownSteps(c) \/ StopsRing(c)
    \/ LineIsFreed \/ Handler
    \/ GraceEnds
    \/ \E p \in People : PersonMoves(p)
    \/ MeetingEnds \/ PlateIsHungUp \/ Lose \/ Reconnect

Spec == Init /\ [][Next]_vars

\* Callbacks, scheduled coroutines, requests and queued messages are served; the
\* worker of an abandoned attempt takes a 200 or gives up (see CallManager).  Nobody
\* has to call, answer, send a BYE, move or lose a connection.
Fairness ==
    /\ \A c \in Calls :
         /\ WF_vars(phase[c] = "ending" /\ OnCallEnded(c))
         /\ WF_vars(OnIncomingCall(c) \/ OnCallConnected(c)) /\ WF_vars(DialSteps(c)) /\ WF_vars(RingSteps(c))
         /\ WF_vars(ConnSteps(c)) /\ WF_vars(DownSteps(c)) /\ WF_vars(StopsRing(c))
         /\ WF_vars(phase[c] = "abandoned" /\ Worker(c))
    /\ WF_vars(Handler)
    /\ WF_vars(GraceEnds)
FairSpec == Spec /\ Fairness
-----------------------------------------------------------------------------
(* Properties *)

Tasks == {"none", "done"}
TypeOK ==
    /\ line \in Calls \cup {NoCall} /\ hung \in Calls \cup {NoCall}
    /\ raised \subseteq Calls /\ table \subseteq Calls /\ standing \subseteq Calls /\ plates \subseteq Calls
    /\ stop \subseteq Calls /\ present \subseteq Calls \cup People
    /\ line # NoCall => phase[line] \in {"ringing", "dialling", "connected"}
    /\ hung # NoCall => phase[hung] = "ending"
    /\ phase \in [Calls -> {"new", "ringing", "dialling", "connected", "ending", "refused",
                            "abandoned", "lost", "over"}]
    /\ known = Unseeded \/ known \subseteq Calls \cup People
    /\ \A c \in Calls :
         /\ ring[c] \in Tasks \cup {"callback", "start", "asking", "joining", "calling",
                                    "sounding", "failed", "dialled", "join"}
         /\ conn[c].at \in Tasks \cup {"callback", "start", "dialogue", "joining", "offering", "report"}
         /\ down[c] \in Tasks \cup {"pop", "reject", "stopping", "stopped", "closed",
                                       "ending", "leaving"}

\* Nothing more happens for this call.
Quiet(c) == /\ phase[c] = "over"
            /\ down[c] = "done" /\ {ring[c], conn[c].at} \subseteq Tasks /\ c \notin stop

\* A call that is over and out of the table leaves neither a publisher nor a name
\* plate behind while the room connection stood - however its teardown, the
\* publishing it overtakes and the calls after it interleave (_teardown_call,
\* publish). The table is part of it: an entry that on_incoming_call makes after
\* the call has been torn down is taken out by nobody.
NothingLeftInTheRoom ==
    \A c \in Calls \ table : Quiet(c) =>
        /\ c \notin plates \/ losses > 0
        /\ media[c] \in {"none", "closed"} \/ losses > 0

\* A ring whose session was recorded is stopped, by whoever saw the call last: the
\* accepted call's task, the teardown's stop_ring, or the end of the room's call.
RecordedRingIsStopped ==
    \A c \in Calls \ table :
        Quiet(c) /\ entry[c].opener /\ losses = 0 => c \notin standing

\* Talk hears "accepted" of a dialout before anything else, though its worker may
\* fail before the request is answered; and "cleared" once Talk's side was told that
\* the dialout failed or ended and has worked that off - refused, answered, hung up
\* while it was still being published (requested, report, _teardown_call).  That it is
\* told is another matter: HungUpIsCleared, below.
DialoutIsReported ==
    \A c \in Dialouts :
        /\ reports[c] # <<>> => Head(reports[c]) = "accepted"
        /\ Quiet(c) /\ losses = 0 => \E i \in DOMAIN reports[c] : reports[c][i] = "cleared"

\* An answered call the room connection stands for comes to announce its audio,
\* unless it ends first.
ConnectedIsHeard ==
    \A c \in Calls : (phase[c] = "connected" /\ c \in table)
                        ~> (audio \/ phase[c] # "connected" \/ losses > 0)

\* Somebody who enters the room's call once a call waits for them is noticed, before
\* it first rings and while it rings: the call is answered or has gone, or answer()
\* raised - unless Talk cannot be rung at all (ring(), updated()).  It speaks of an
\* update that is still unread when the call is armed; for one read earlier see
\* WindowIsClosed, below.
Noticed(c) == \/ phase[c] # "ringing" \/ c \in raised
              \/ ring[c] = "failed" \/ losses > 0 \/ \E d \in Dialouts : phase[d] # "new"
Unread(p) == inRoom = Default /\ p \in present /\ known # Unseeded /\ p \notin Members
AnswerIsNoticed ==
    \A c \in Inbound, p \in People : (c \in table /\ entry[c].waiting /\ Unread(p)) ~> Noticed(c)

\* Every ended call's tasks come to their end.
EveryEndSettles == \A c \in Calls : (phase[c] = "over") ~> Quiet(c)
-----------------------------------------------------------------------------
(* Violated (README, section 3). *)

\* Only a person answers: the account that rings "has to be recognized and
\* excluded" (start_ring), but its session is known only after it has joined.
OnlyAPersonAccepts ==
    [][\A c \in Calls : entry[c].waiting /\ ~entry'[c].waiting /\ ring[c] # "failed"
            => known' \cap People # {}]_vars

\* "Arming the call before ringing closes the window in between" (ring): somebody who
\* enters the room's call after its state was established is noticed.  One whose
\* update is read before the call is armed is not.
WindowIsClosed ==
    \A c \in Inbound, p \in People : (ring[c] = "joining" /\ Unread(p)) ~> Noticed(c)

\* "Whatever the ringing put up has to come down again" (on_call_failed): the entry
\* of a dialout that was hung up while it rang goes.
HungUpIsCleared == \A c \in Dialouts : (phase[c] = "abandoned") ~> (c \notin table)

\* The room is left "once the call it was there for is over" (leave): not under a
\* call that waits or speaks in it.
LeavesItsOwnRoom ==
    [][(ws' /\ inRoom # NoRoom /\ inRoom' = NoRoom) =>
          \A c \in table' : ~entry[c].waiting /\ ~entry[c].media]_vars
=============================================================================
