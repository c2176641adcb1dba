---------------------------- MODULE TcpTransport ----------------------------
(***************************************************************************)
(* The TCP transport of one line: the connection its own requests go out   *)
(* on, opened when needed and shared by every thread under a lock; the     *)
(* connections the gateway opens; a reader thread per connection, which    *)
(* puts messages together from the stream (split_messages) and answers     *)
(* each on the connection it came by, or, when that is gone, on the line's *)
(* own.                                                                    *)
(*                                                                         *)
(* A stream is a sequence of tokens: a line break is "r", "n", and a       *)
(* header line is one token that carries the Content-Length it announces.  *)
(***************************************************************************)
EXTENDS Naturals, Sequences, FiniteSets, SequencesExt

CONSTANTS Clients,   \* threads that send requests: calls, registrar, control API
          Accepted,  \* connections the gateway opens
          Own,       \* 1..n: connections this side opens, in that order
          None,      \* no connection, nobody
          Streams,   \* what the gateway may send on an accepted connection
          MaxSends   \* bound: requests per client

ASSUME TransportAssumption ==
    /\ Clients \cap Accepted = {} /\ Accepted \cap Own = {}
    /\ None \notin Clients \cup Accepted \cup Own
    /\ Own = 1..Cardinality(Own) /\ MaxSends \in Nat

Conns == Accepted \cup Own
Threads == Clients \cup Accepted  \* the threads that send; a reader goes by its connection

VARIABLES
    out, lock,     \* _out, and who has _out_lock
    end,           \* each connection: none, open, gone (closed by the gateway), closed
    reader, buffer, todo, \* its reader thread, what that has read, and still has to handle
    coming,        \* what is on its way to the reader
    at, attempt,   \* each thread inside send()
    sends,         \* per client
    stream, got, outcome \* the gateway's stream; messages handled; how sends ended

vars == <<out, lock, end, reader, buffer, todo, coming, at, attempt, sends, stream, got, outcome>>
socket == <<end, reader>>
reading == <<buffer, todo, coming, stream, got>>
-----------------------------------------------------------------------------
(* split_messages *)

Crlf == <<"r", "n">>
Blank == Crlf \o Crlf
ContentLength(header) == CASE header = "h2" -> 2 [] header = "h4" -> 4 [] OTHER -> 0

Streaming == Seq({"r", "n", "h0", "h2", "h4"})

HeaderEnds(b) == {i \in 4..Len(b) : SubSeq(b, i - 3, i) = Blank}
HeaderEnd(b) == CHOOSE i \in HeaderEnds(b) : \A j \in HeaderEnds(b) : i <= j
\* Mutant: the body is not part of the message.
MessageEndShort(b) == HeaderEnd(b)
MessageEnd(b) == HeaderEnd(b) + ContentLength(b[1])

Incomplete(b) == HeaderEnds(b) = {} \/ Len(b) < MessageEnd(b)
Drop(b, n) == SubSeq(b, n + 1, Len(b))

\* The messages complete in b, keepalives skipped, and the rest.
Split[b \in Streaming] ==
    IF IsPrefix(Crlf, b) THEN Split[Drop(b, 2)]
    ELSE IF Incomplete(b) THEN [messages |-> <<>>, rest |-> b]
    ELSE LET more == Split[Drop(b, MessageEnd(b))]
         IN  [messages |-> <<SubSeq(b, 1, MessageEnd(b))>> \o more.messages, rest |-> more.rest]

\* What the gateway sends: messages, each with the body it announces, and keepalives.
IsMessage(m) ==
    /\ m \in Streaming /\ ~IsPrefix(Crlf, m)
    /\ \E i \in HeaderEnds(m) : /\ \A j \in HeaderEnds(m) : i <= j
                               /\ Len(m) = i + ContentLength(m[1])
ASSUME StreamsAssumption ==
    \A s \in Streams : /\ s \in Seq(Streaming)
                       /\ \A i \in 1..Len(s) : s[i] \in {Crlf, Blank} \/ IsMessage(s[i])
-----------------------------------------------------------------------------
Init ==
    /\ out = None /\ lock = None
    /\ end = [c \in Conns |-> "none"] /\ reader = [c \in Conns |-> "none"]
    /\ buffer = [a \in Accepted |-> <<>>] /\ todo = [a \in Accepted |-> <<>>]
    /\ stream \in [Accepted -> Streams] /\ coming = [a \in Accepted |-> FlattenSeq(stream[a])]
    /\ at = [t \in Threads |-> "idle"] /\ attempt = [t \in Threads |-> 0]
    /\ sends = [s \in Clients |-> 0]
    /\ got = [a \in Accepted |-> <<>>] /\ outcome = [t \in Threads |-> "none"]

At(t, where) == at' = [at EXCEPT ![t] = where]
Fresh == {c \in Own : end[c] = "none" /\ \A d \in Own : d < c => end[d] # "none"}
\* send() comes to its end: it returns, or raises.
Returns(t, how) == At(t, "idle") /\ outcome' = [outcome EXCEPT ![t] = how]
-----------------------------------------------------------------------------
(* send() *)

\* A request of the line's own.
Sends(s) ==
    /\ at[s] = "idle" /\ sends[s] < MaxSends
    /\ sends' = [sends EXCEPT ![s] = @ + 1]
    /\ At(s, "waits") /\ attempt' = [attempt EXCEPT ![s] = 1]
    /\ UNCHANGED <<out, lock, socket, reading, outcome>>

\* An answer, on the connection the request came by.  A connection the gateway
\* has closed may still take it, or raise.
Replies(c) ==
    /\ at[c] = "reply" /\ end[c] \in {"open", "gone"}
    /\ Returns(c, "sent")
    /\ UNCHANGED <<out, lock, socket, reading, attempt, sends>>

ReplyFallsBack(c) ==
    /\ at[c] = "reply" /\ end[c] # "open"
    /\ At(c, "waits") /\ attempt' = [attempt EXCEPT ![c] = 1]
    /\ UNCHANGED <<out, lock, socket, reading, sends, outcome>>

Locks(t) ==
    /\ at[t] = "waits" /\ lock = None
    /\ lock' = t /\ At(t, "has")
    /\ UNCHANGED <<out, socket, reading, attempt, sends, outcome>>

\* _connect: the reader starts with the connection.
Connects(t) ==
    /\ at[t] = "has" /\ out = None
    /\ \E c \in Fresh : /\ out' = c
                        /\ end' = [end EXCEPT ![c] = "open"]
                        /\ reader' = [reader EXCEPT ![c] = "reading"]
    /\ UNCHANGED <<lock, at, attempt, sends, reading, outcome>>

\* _connect raises: there is no connection to close, and the handler of the error
\* raises in turn.
\* Mutant: out of the block, but not out of the lock.
ConnectFailsLocked(t) ==
    /\ at[t] = "has" /\ out = None
    /\ Returns(t, "raised")
    /\ UNCHANGED <<out, lock, socket, attempt, sends, reading>>
ConnectFails(t) ==
    /\ at[t] = "has" /\ out = None
    /\ lock' = None /\ Returns(t, "raised")
    /\ UNCHANGED <<out, socket, attempt, sends, reading>>

Writes(t) ==
    /\ at[t] = "has" /\ out # None
    /\ lock' = None /\ Returns(t, "sent")
    /\ UNCHANGED <<out, socket, attempt, sends, reading>>

\* sendall raises: the connection is closed, and tried again once.
WriteFails(t) ==
    /\ at[t] = "has" /\ out # None /\ end[out] # "open"
    /\ out' = None /\ end' = [end EXCEPT ![out] = "closed"]
    /\ IF attempt[t] = 1
       THEN attempt' = [attempt EXCEPT ![t] = 2] /\ UNCHANGED <<lock, at, outcome>>
       ELSE lock' = None /\ Returns(t, "raised") /\ UNCHANGED attempt
    /\ UNCHANGED <<reader, sends, reading>>
-----------------------------------------------------------------------------
(* The accept loop and the readers. *)

Accepts(a) ==
    /\ a \in Accepted /\ end[a] = "none"
    /\ end' = [end EXCEPT ![a] = "open"] /\ reader' = [reader EXCEPT ![a] = "reading"]
    /\ UNCHANGED <<out, lock, at, attempt, sends, reading, outcome>>

\* A chunk of any length is appended and split; every message is handled here.
Reads(a) ==
    /\ a \in Accepted /\ reader[a] = "reading" /\ todo[a] = <<>> /\ at[a] = "idle"
    /\ end[a] \in {"open", "gone"}
    /\ \E n \in 1..Len(coming[a]) :
         LET split == Split[buffer[a] \o SubSeq(coming[a], 1, n)] IN
         /\ coming' = [coming EXCEPT ![a] = SubSeq(@, n + 1, Len(@))]
         /\ buffer' = [buffer EXCEPT ![a] = split.rest]
         /\ todo' = [todo EXCEPT ![a] = split.messages]
    /\ UNCHANGED <<out, lock, socket, at, attempt, sends, stream, got, outcome>>

Handles(a) ==
    /\ todo[a] # <<>> /\ at[a] = "idle"
    /\ todo' = [todo EXCEPT ![a] = Tail(@)]
    /\ got' = [got EXCEPT ![a] = Append(@, Head(todo[a]))]
    /\ At(a, "reply")
    /\ UNCHANGED <<out, lock, socket, attempt, sends, buffer, coming, stream, outcome>>

\* The far end has closed, or this side has: the loop is left.
ReaderEnds(c) ==
    /\ reader[c] = "reading" /\ end[c] # "open"
    /\ c \in Accepted => todo[c] = <<>> /\ at[c] = "idle"
    /\ reader' = [reader EXCEPT ![c] = "ended"]
    /\ UNCHANGED <<out, lock, end, reading, at, attempt, sends, outcome>>

\* Mutants: whatever connection _out is now, it is cleared; or none is.
ReaderCleansAny(c) ==
    /\ reader[c] = "ended" /\ lock = None
    /\ out' = None
    /\ end' = [end EXCEPT ![c] = "closed"] /\ reader' = [reader EXCEPT ![c] = "done"]
    /\ UNCHANGED <<lock, reading, at, attempt, sends, outcome>>
ReaderCleansItself(c) ==
    /\ reader[c] = "ended"
    /\ end' = [end EXCEPT ![c] = "closed"] /\ reader' = [reader EXCEPT ![c] = "done"]
    /\ UNCHANGED <<out, lock, reading, at, attempt, sends, outcome>>
ReaderCleans(c) ==
    /\ reader[c] = "ended" /\ lock = None
    /\ out' = IF out = c THEN None ELSE out
    /\ end' = [end EXCEPT ![c] = "closed"] /\ reader' = [reader EXCEPT ![c] = "done"]
    /\ UNCHANGED <<lock, reading, at, attempt, sends, outcome>>

GatewayCloses(c) ==
    /\ end[c] = "open"
    /\ end' = [end EXCEPT ![c] = "gone"]
    /\ UNCHANGED <<out, lock, reader, reading, at, attempt, sends, outcome>>
-----------------------------------------------------------------------------
SendSteps(t) == Locks(t) \/ Connects(t) \/ ConnectFails(t) \/ Writes(t) \/ WriteFails(t)
ReaderSteps(c) == ReaderEnds(c) \/ ReaderCleans(c)
Answers(a) == Handles(a) \/ Replies(a) \/ ReplyFallsBack(a)

Next ==
    \/ \E s \in Clients : Sends(s)
    \/ \E t \in Threads : SendSteps(t)
    \/ \E a \in Accepted : Accepts(a) \/ Reads(a) \/ Answers(a)
    \/ \E c \in Conns : ReaderSteps(c) \/ GatewayCloses(c)

\* Threads run; the lock is handed on sooner or later.
Fairness ==
    /\ \A t \in Threads : SF_vars(Locks(t)) /\ WF_vars(SendSteps(t))
    /\ \A a \in Accepted : WF_vars(Answers(a)) /\ WF_vars(Reads(a))
    /\ \A c \in Conns : WF_vars(ReaderSteps(c))
Spec == Init /\ [][Next]_vars /\ Fairness
-----------------------------------------------------------------------------
(* Properties *)

TypeOK ==
    /\ out \in Own \cup {None} /\ lock \in Threads \cup {None}
    /\ end \in [Conns -> {"none", "open", "gone", "closed"}]
    /\ reader \in [Conns -> {"none", "reading", "ended", "done"}]
    /\ at \in [Threads -> {"idle", "reply", "waits", "has"}]
    /\ attempt \in [Threads -> 0..2]
    /\ \A t \in Threads : at[t] = "has" <=> lock = t

\* The messages of a stream, without its keepalives.
MessagesIn(s) ==
    LET found[i \in 0..Len(s)] ==
          IF i = 0 THEN <<>>
          ELSE IF s[i] \in {Crlf, Blank} THEN found[i - 1] ELSE Append(found[i - 1], s[i])
    IN  found[Len(s)]

\* However the stream is cut up, what is handled is what was sent, message by
\* message, keepalives left out, and nothing is kept back at its end
\* (split_messages).
FramingIsExact ==
    \A a \in Accepted :
        /\ IsPrefix(got[a], MessagesIn(stream[a]))
        /\ coming[a] = <<>> => got[a] \o todo[a] = MessagesIn(stream[a]) /\ buffer[a] = <<>>

\* The connection requests go out on has a reader that is not done with it: its
\* answers are heard, and when it ends it is taken out of use.
OutIsRead == out # None => reader[out] \in {"reading", "ended"}

\* No connection of the line's own is left open and unused, whichever of reader and
\* sender notices first that the one before it is gone.
NothingLeaks == \A c \in Own : end[c] = "open" => out = c

\* Whoever calls send() comes back from it - also a reader whose answer falls back
\* to the line's own connection.
SendsEnd == \A t \in Threads : at[t] # "idle" ~> at[t] = "idle"

\* Violated: a send gives up only after "one retry on a fresh connection" (send).
GivesUpAfterTwo == \A t \in Threads : outcome[t] = "raised" => attempt[t] = 2
=============================================================================
