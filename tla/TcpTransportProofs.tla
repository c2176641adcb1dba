------------------------- MODULE TcpTransportProofs -------------------------
(***************************************************************************)
(* Theorems about TcpTransport for any number of clients, of connections   *)
(* and of requests, and any streams of messages and keepalives.            *)
(***************************************************************************)
EXTENDS TcpTransport, Recursion, SequenceTheorems, TLAPS

\* The connection in use, read, and the only one open: together with the types
\* this is inductive.
Inv == TypeOK /\ OutIsRead /\ NothingLeaks

\* What the steps leave alone that are not about connections of the line's own.
LEMMA Elsewhere ==
    ASSUME Inv, UNCHANGED <<out, socket>>, TypeOK'
    PROVE  Inv'
  BY DEF Inv, OutIsRead, NothingLeaks, socket

LEMMA InitInv == Init => Inv
  BY TransportAssumption DEF Init, Inv, TypeOK, OutIsRead, NothingLeaks, Conns, Threads

\* The steps of a thread inside send().
LEMMA SendKeepsInv ==
    ASSUME NEW t \in Threads, Inv, SendSteps(t)
    PROVE  Inv'
<1> USE DEF Inv, TypeOK, At, Returns, socket
<1>0. t # None /\ None \notin Threads
  BY TransportAssumption DEF Threads
<1>1. CASE Locks(t)
  <2>1. TypeOK'
    BY <1>0, <1>1 DEF Locks
  <2>2. QED
    BY <2>1, <1>1, Elsewhere DEF Locks
<1>2. CASE Connects(t)
  <2>1. PICK c \in Fresh : /\ out' = c
                           /\ end' = [end EXCEPT ![c] = "open"]
                           /\ reader' = [reader EXCEPT ![c] = "reading"]
    BY <1>2 DEF Connects
  <2>2. c \in Own /\ c \in Conns
    BY DEF Fresh, Conns
  <2>3. TypeOK'
    BY <1>2, <2>1, <2>2 DEF Connects
  <2>4. OutIsRead'
    BY <2>1, <2>2 DEF OutIsRead
  <2>5. NothingLeaks'
    BY <1>2, <2>1, <2>2, TransportAssumption DEF Connects, NothingLeaks, Conns
  <2>6. QED
    BY <2>3, <2>4, <2>5
<1>3. CASE ConnectFails(t)
  <2>1. TypeOK'
    BY <1>0, <1>3 DEF ConnectFails
  <2>2. QED
    BY <2>1, <1>3, Elsewhere DEF ConnectFails
<1>4. CASE Writes(t)
  <2>1. TypeOK'
    BY <1>0, <1>4 DEF Writes
  <2>2. QED
    BY <2>1, <1>4, Elsewhere DEF Writes
<1>5. CASE WriteFails(t)
  <2>1. out \in Own /\ out \in Conns
    BY <1>5 DEF WriteFails, Conns
  <2>2. TypeOK'
    <3>1. CASE attempt[t] = 1
      BY <1>5, <2>1, <3>1 DEF WriteFails
    <3>2. CASE attempt[t] # 1
      BY <1>0, <1>5, <2>1, <3>2 DEF WriteFails
    <3>3. QED
      BY <3>1, <3>2
  <2>3. OutIsRead'
    BY <1>5 DEF WriteFails, OutIsRead
  <2>4. NothingLeaks'
    BY <1>5, <2>1 DEF WriteFails, NothingLeaks, Conns
  <2>5. QED
    BY <2>2, <2>3, <2>4
<1>6. QED
  BY <1>1, <1>2, <1>3, <1>4, <1>5 DEF SendSteps

\* The steps on a connection the gateway opened.
LEMMA AcceptedKeepsInv ==
    ASSUME NEW a \in Accepted, Inv, Accepts(a) \/ Reads(a) \/ Answers(a)
    PROVE  Inv'
<1> USE DEF Inv, TypeOK, At, Returns, socket
<1>0. a \in Threads /\ a \in Conns /\ a \notin Own /\ None \notin Threads
  BY TransportAssumption DEF Threads, Conns
<1>1. CASE Accepts(a)
  <2>1. TypeOK'
    BY <1>0, <1>1 DEF Accepts
  <2>2. OutIsRead' /\ NothingLeaks'
    BY <1>0, <1>1, TransportAssumption DEF Accepts, OutIsRead, NothingLeaks, Conns
  <2>3. QED
    BY <2>1, <2>2
<1>2. CASE Reads(a)
  <2>1. TypeOK'
    BY <1>2 DEF Reads
  <2>2. QED
    BY <2>1, <1>2, Elsewhere DEF Reads
<1>3. CASE Handles(a)
  <2>1. TypeOK'
    BY <1>0, <1>3 DEF Handles
  <2>2. QED
    BY <2>1, <1>3, Elsewhere DEF Handles
<1>4. CASE Replies(a)
  <2>1. TypeOK'
    BY <1>0, <1>4 DEF Replies
  <2>2. QED
    BY <2>1, <1>4, Elsewhere DEF Replies
<1>5. CASE ReplyFallsBack(a)
  <2>1. TypeOK'
    BY <1>0, <1>5 DEF ReplyFallsBack
  <2>2. QED
    BY <2>1, <1>5, Elsewhere DEF ReplyFallsBack
<1>6. QED
  BY <1>1, <1>2, <1>3, <1>4, <1>5 DEF Answers, Accepts, Reads

\* The reader of a connection notices its end, and the far end closes it.
LEMMA EndsKeepInv ==
    ASSUME NEW c \in Conns, Inv, ReaderSteps(c) \/ GatewayCloses(c)
    PROVE  Inv'
<1> USE DEF Inv, TypeOK, socket
<1>1. CASE ReaderEnds(c)
  BY <1>1 DEF ReaderEnds, OutIsRead, NothingLeaks, Conns
<1>2. CASE ReaderCleans(c)
  <2>1. TypeOK'
    BY <1>2 DEF ReaderCleans
  <2>2. OutIsRead'
    BY <1>2, TransportAssumption DEF ReaderCleans, OutIsRead, Conns
  <2>3. NothingLeaks'
    BY <1>2 DEF ReaderCleans, NothingLeaks, Conns
  <2>4. QED
    BY <2>1, <2>2, <2>3
<1>3. CASE GatewayCloses(c)
  BY <1>3 DEF GatewayCloses, OutIsRead, NothingLeaks, Conns
<1>4. QED
  BY <1>1, <1>2, <1>3 DEF ReaderSteps

LEMMA NextKeepsInv == Inv /\ [Next]_vars => Inv'
<1> SUFFICES ASSUME Inv, [Next]_vars PROVE Inv'
  OBVIOUS
<1>1. CASE \E s \in Clients : Sends(s)
  <2>1. PICK s \in Clients : Sends(s)
    BY <1>1
  <2>2. s \in Threads /\ None \notin Threads
    BY TransportAssumption DEF Threads
  <2>3. TypeOK'
    BY <2>1, <2>2 DEF Inv, TypeOK, Sends, At, socket
  <2>4. QED
    BY <2>1, <2>3, Elsewhere DEF Sends
<1>2. CASE \E t \in Threads : SendSteps(t)
  BY <1>2, SendKeepsInv
<1>3. CASE \E a \in Accepted : Accepts(a) \/ Reads(a) \/ Answers(a)
  BY <1>3, AcceptedKeepsInv
<1>4. CASE \E c \in Conns : ReaderSteps(c) \/ GatewayCloses(c)
  BY <1>4, EndsKeepInv
<1>5. CASE UNCHANGED vars
  BY <1>5 DEF vars, Inv, TypeOK, OutIsRead, NothingLeaks
<1>6. QED
  BY <1>1, <1>2, <1>3, <1>4, <1>5 DEF Next

\* The invariant holds in every reachable state.
THEOREM TransportInvariance == Spec => []Inv
  BY InitInv, NextKeepsInv, PTL DEF Spec

\* Whoever has the lock is the one inside send()'s critical section, for every
\* number of threads.
THEOREM TransportTypes == Spec => []TypeOK
  BY TransportInvariance, PTL DEF Inv

\* Requests never go out on a connection nobody reads.
THEOREM OutHasReader == Spec => []OutIsRead
  BY TransportInvariance, PTL DEF Inv

\* The line has at most one connection of its own open: the one in use.
THEOREM OneOwnConnection == Spec => []NothingLeaks
  BY TransportInvariance, PTL DEF Inv
-----------------------------------------------------------------------------
(* Pieces of a stream. *)

Tokens == {"r", "n", "h0", "h2", "h4"}

LEMMA LenIsNat ==
    ASSUME NEW b \in Streaming
    PROVE  Len(b) \in Nat /\ b \in Seq(Tokens)
  BY DEF Streaming, Tokens

LEMMA Joined ==
    ASSUME NEW x \in Streaming, NEW y \in Streaming,
           NEW m \in Nat, m = Len(x), NEW n \in Nat, n = Len(y)
    PROVE  /\ x \o y \in Streaming /\ Len(x \o y) = m + n
           /\ \A i \in 1..m : (x \o y)[i] = x[i]
           /\ \A i \in 1..n : (x \o y)[m + i] = y[i]
<1>1. /\ x \o y \in Seq(Tokens) /\ Len(x \o y) = m + n
      /\ \A i \in 1..m + n : (x \o y)[i] = IF i <= m THEN x[i] ELSE y[i - m]
  BY LenIsNat, ConcatProperties
<1>2. x \o y \in Streaming
  BY <1>1 DEF Streaming, Tokens
<1>3. ASSUME NEW i \in 1..m PROVE (x \o y)[i] = x[i]
  BY <1>1
<1>4. ASSUME NEW i \in 1..n PROVE (x \o y)[m + i] = y[i]
  <2>1. m + i \in 1..m + n /\ ~(m + i <= m) /\ (m + i) - m = i
    OBVIOUS
  <2>2. QED
    BY <1>1, <2>1
<1>5. QED
  BY <1>1, <1>2, <1>3, <1>4

LEMMA Dropped ==
    ASSUME NEW b \in Streaming, NEW l \in Nat, l = Len(b), NEW n \in 0..l
    PROVE  /\ Drop(b, n) \in Streaming /\ Len(Drop(b, n)) = l - n
           /\ \A i \in 1..l - n : Drop(b, n)[i] = b[n + i]
<1>1. n \in Nat /\ n <= l
  OBVIOUS
<1>2. \A i \in n + 1..l : b[i] \in Tokens
  BY <1>1, LenIsNat
<1>3. /\ SubSeq(b, n + 1, l) \in Seq(Tokens)
      /\ Len(SubSeq(b, n + 1, l)) = IF n + 1 <= l THEN l - (n + 1) + 1 ELSE 0
      /\ \A i \in 1..l - (n + 1) + 1 : SubSeq(b, n + 1, l)[i] = b[n + 1 + i - 1]
  BY <1>1, <1>2, SubSeqProperties
<1>4. Len(SubSeq(b, n + 1, l)) = l - n
  BY <1>1, <1>3
<1>5. \A i \in 1..l - n : i \in 1..l - (n + 1) + 1 /\ n + 1 + i - 1 = n + i
  BY <1>1
<1>6. QED
  BY <1>3, <1>4, <1>5 DEF Drop, Streaming, Tokens

LEMMA Fronts ==
    ASSUME NEW b \in Streaming, NEW n \in 1..Len(b)
    PROVE  SubSeq(b, 1, n) \in Streaming
<1> PICK l \in Nat : l = Len(b)
  BY LenIsNat
<1>1. \A i \in 1..n : b[i] \in Tokens
  BY LenIsNat
<1>2. SubSeq(b, 1, n) \in Seq(Tokens)
  BY <1>1, SubSeqProperties
<1>3. QED
  BY <1>2 DEF Streaming, Tokens

LEMMA DropOfJoined ==
    ASSUME NEW x \in Streaming, NEW y \in Streaming, NEW m \in Nat, m = Len(x), NEW n \in 0..m
    PROVE  Drop(x \o y, n) = Drop(x, n) \o y
<1>0. PICK k \in Nat : k = Len(y)
  BY LenIsNat
<1>1. PICK d \in Streaming :
         d = Drop(x, n) /\ Len(d) = m - n /\ \A i \in 1..m - n : d[i] = x[n + i]
  BY Dropped
<1>2. PICK w \in Streaming :
         /\ w = x \o y /\ Len(w) = m + k
         /\ \A i \in 1..m : w[i] = x[i]
         /\ \A i \in 1..k : w[m + i] = y[i]
  <2>1. /\ x \o y \in Streaming /\ Len(x \o y) = m + k
        /\ \A i \in 1..m : (x \o y)[i] = x[i]
        /\ \A i \in 1..k : (x \o y)[m + i] = y[i]
    BY <1>0, Joined
  <2>2. QED
    BY <2>1
<1>3. PICK l \in Nat : l = m + k /\ n \in 0..l
  OBVIOUS
<1>4. PICK s \in Streaming :
         s = Drop(w, n) /\ Len(s) = l - n /\ \A i \in 1..l - n : s[i] = w[n + i]
  <2>1. /\ Drop(w, n) \in Streaming /\ Len(Drop(w, n)) = l - n
        /\ \A i \in 1..l - n : Drop(w, n)[i] = w[n + i]
    BY <1>2, <1>3, Dropped
  <2>2. QED
    BY <2>1
<1>5. PICK t \in Streaming :
         /\ t = d \o y /\ Len(t) = (m - n) + k
         /\ \A i \in 1..m - n : t[i] = d[i]
         /\ \A i \in 1..k : t[(m - n) + i] = y[i]
  <2>0. m - n \in Nat
    OBVIOUS
  <2>1. PICK h \in Nat : h = m - n /\ h = Len(d)
    BY ONLY <1>1, <2>0
  <2>2. /\ d \o y \in Streaming /\ Len(d \o y) = h + k
        /\ \A i \in 1..h : (d \o y)[i] = d[i]
        /\ \A i \in 1..k : (d \o y)[h + i] = y[i]
    <3>1. d \in Streaming /\ y \in Streaming /\ h \in Nat /\ h = Len(d) /\ k \in Nat /\ k = Len(y)
      BY <1>0, <2>1
    <3>2. QED
      BY ONLY <3>1, Joined
  <2>3. QED
    BY <2>1, <2>2
<1>6. ASSUME NEW i \in 1..l - n PROVE s[i] = t[i]
  <2>1. CASE i <= m - n
    <3>1. i \in 1..m - n /\ n + i \in 1..m
      BY <2>1
    <3>2. QED
      BY <1>1, <1>2, <1>4, <1>5, <3>1
  <2>2. CASE ~(i <= m - n)
    <3>1. PICK j \in 1..k : i = (m - n) + j /\ n + i = m + j
      <4>1. i - (m - n) \in 1..k /\ n \in Int /\ i \in Int
        BY <1>3, <2>2
      <4>2. i = (m - n) + (i - (m - n)) /\ n + i = m + (i - (m - n))
        BY <4>1
      <4>3. QED
        BY ONLY <4>1, <4>2
    <3>2. s[i] = y[j]
      <4>1. s[i] = w[m + j]
        BY <1>4, <3>1
      <4>2. QED
        BY <1>2, <4>1
    <3>3. t[i] = y[j]
      BY <1>5, <3>1
    <3>4. QED
      BY <3>2, <3>3
  <2>3. QED
    BY <2>1, <2>2
<1>7. s = t
  <2>1. s \in Seq(Tokens) /\ t \in Seq(Tokens) /\ Len(s) = Len(t) /\ Len(s) = l - n
    BY <1>3, <1>4, <1>5, LenIsNat
  <2>2. QED
    BY <1>6, <2>1, SeqEqual
<1>8. QED
  BY <1>1, <1>2, <1>4, <1>5, <1>7

LEMMA FrontOfJoined ==
    ASSUME NEW x \in Streaming, NEW y \in Streaming, NEW m \in 1..Len(x), NEW n \in 1..Len(x)
    PROVE  SubSeq(x \o y, m, n) = SubSeq(x, m, n)
  BY LenIsNat, SubSeqOfConcat1

LEMMA Pings ==
    ASSUME NEW b \in Streaming
    PROVE  IsPrefix(Crlf, b) <=> Len(b) >= 2 /\ b[1] = "r" /\ b[2] = "n"
<1>1. Len(Crlf) = 2 /\ Crlf[1] = "r" /\ Crlf[2] = "n" /\ Crlf \in Seq(Tokens)
  BY DEF Crlf, Tokens
<1>2. SubSeq(Crlf, 1, 2) = Crlf
  BY <1>1, SubSeqFull
<1>3. CASE Len(b) >= 2
  <2> DEFINE s == SubSeq(b, 1, 2)
  <2>1. s \in Seq(Tokens) /\ Len(s) = 2 /\ \A i \in 1..2 : s[i] = b[i]
    <3>1. \A i \in 1..2 : b[i] \in Tokens
      BY <1>3, LenIsNat
    <3>2. /\ SubSeq(b, 1, 2) \in Seq(Tokens)
          /\ Len(SubSeq(b, 1, 2)) = IF 1 <= 2 THEN 2 - 1 + 1 ELSE 0
          /\ \A i \in 1..2 - 1 + 1 : SubSeq(b, 1, 2)[i] = b[1 + i - 1]
      BY <3>1, SubSeqProperties
    <3>3. QED
      BY <3>2
  <2>2. s = Crlf <=> s[1] = Crlf[1] /\ s[2] = Crlf[2]
    <3>1. ASSUME s[1] = Crlf[1], s[2] = Crlf[2] PROVE s = Crlf
      <4>1. \A i \in 1..2 : s[i] = Crlf[i]
        BY <3>1
      <4> HIDE DEF s
      <4>2. QED
        BY <1>1, <2>1, <4>1, SeqEqual
    <3>2. QED
      BY <3>1
  <2>3. IsPrefix(Crlf, b) <=> Crlf = s
    BY <1>1, <1>2, <1>3 DEF IsPrefix
  <2>4. QED
    BY <1>1, <1>3, <2>1, <2>2, <2>3
<1>4. CASE ~(Len(b) >= 2)
  BY <1>1, <1>4, LenIsNat DEF IsPrefix
<1>5. QED
  BY <1>3, <1>4
-----------------------------------------------------------------------------
(* Where a message ends. *)

LEMMA HeaderEndsOfJoined ==
    ASSUME NEW x \in Streaming, NEW y \in Streaming, NEW m \in Nat, m = Len(x), NEW i \in 4..m
    PROVE  i \in HeaderEnds(x \o y) <=> i \in HeaderEnds(x)
<1>1. PICK k \in Nat : k = Len(y)
  BY LenIsNat
<1>2. Len(x \o y) = m + k
  BY <1>1, Joined
<1>3. i - 3 \in 1..Len(x) /\ i \in 1..Len(x)
  OBVIOUS
<1>4. SubSeq(x \o y, i - 3, i) = SubSeq(x, i - 3, i)
  BY <1>3, FrontOfJoined
<1>5. i \in 4..Len(x \o y) /\ i \in 4..Len(x)
  BY <1>2
<1>6. QED
  BY ONLY <1>4, <1>5 DEF HeaderEnds

LEMMA HeaderEndOf ==
    ASSUME NEW b \in Streaming, HeaderEnds(b) # {}
    PROVE  /\ HeaderEnd(b) \in HeaderEnds(b) /\ HeaderEnd(b) \in 4..Len(b)
           /\ \A j \in HeaderEnds(b) : HeaderEnd(b) <= j
<1>1. HeaderEnds(b) \in SUBSET Nat /\ HeaderEnds(b) \subseteq 4..Len(b)
  BY LenIsNat DEF HeaderEnds
<1>2. \E i \in HeaderEnds(b) : \A j \in HeaderEnds(b) : i <= j
  BY <1>1, LeastNatural
<1>3. HeaderEnd(b) \in HeaderEnds(b) /\ \A j \in HeaderEnds(b) : HeaderEnd(b) <= j
  BY <1>2 DEF HeaderEnd
<1>4. QED
  BY <1>1, <1>3

LEMMA EndOf ==
    ASSUME NEW b \in Streaming, ~Incomplete(b)
    PROVE  MessageEnd(b) \in 4..Len(b) /\ HeaderEnds(b) # {}
<1>1. HeaderEnds(b) # {} /\ ~(Len(b) < MessageEnd(b))
  BY DEF Incomplete
<1>2. ContentLength(b[1]) \in Nat
  BY DEF ContentLength
<1>3. HeaderEnd(b) \in 4..Len(b) /\ Len(b) \in Nat
  BY <1>1, HeaderEndOf, LenIsNat
<1>4. MessageEnd(b) \in Nat /\ MessageEnd(b) >= 4
  BY <1>2, <1>3 DEF MessageEnd
<1>5. QED
  BY <1>1, <1>3, <1>4

\* A message that is complete ends where it does whatever comes behind it.
LEMMA CompleteStays ==
    ASSUME NEW x \in Streaming, NEW y \in Streaming, ~Incomplete(x)
    PROVE  ~Incomplete(x \o y) /\ MessageEnd(x \o y) = MessageEnd(x)
<1>1. PICK m \in Nat, k \in Nat : m = Len(x) /\ k = Len(y)
  BY LenIsNat
<1>2. PICK w \in Streaming :
         w = x \o y /\ Len(w) = m + k /\ \A i \in 1..m : w[i] = x[i]
  <2>1. /\ x \o y \in Streaming /\ Len(x \o y) = m + k
        /\ \A i \in 1..m : (x \o y)[i] = x[i]
    BY <1>1, Joined
  <2>2. QED
    BY <2>1
<1>3. MessageEnd(x) \in 4..m /\ HeaderEnds(x) # {}
  BY <1>1, EndOf
<1>4. PICK h \in 4..m :
         h = HeaderEnd(x) /\ h \in HeaderEnds(x) /\ \A j \in HeaderEnds(x) : h <= j
  BY <1>1, <1>3, HeaderEndOf
<1>5. \A i \in 4..m : i \in HeaderEnds(w) <=> i \in HeaderEnds(x)
  BY <1>1, <1>2, HeaderEndsOfJoined
<1>6. h \in HeaderEnds(w)
  BY <1>4, <1>5
<1>7. PICK g \in 4..Len(w) :
         g = HeaderEnd(w) /\ g \in HeaderEnds(w) /\ \A j \in HeaderEnds(w) : g <= j
  BY <1>6, HeaderEndOf
<1>8. g = h
  <2>1. g <= h
    BY <1>6, <1>7
  <2>2. g \in 4..m
    BY <1>2, <1>4, <1>7, <2>1
  <2>3. h <= g
    BY <1>4, <1>5, <1>7, <2>2
  <2>4. QED
    BY <1>4, <2>1, <2>2, <2>3
<1>9. w[1] = x[1]
  BY <1>2, <1>3
<1>10. MessageEnd(w) = MessageEnd(x)
  BY <1>4, <1>7, <1>8, <1>9 DEF MessageEnd
<1>11. ~(Len(w) < MessageEnd(w))
  BY <1>1, <1>2, <1>3, <1>10
<1>12. QED
  BY <1>2, <1>6, <1>10, <1>11 DEF Incomplete

LEMMA PingStays ==
    ASSUME NEW x \in Streaming, NEW y \in Streaming, Len(x) >= 2
    PROVE  IsPrefix(Crlf, x \o y) <=> IsPrefix(Crlf, x)
<1>1. PICK m \in Nat, k \in Nat : m = Len(x) /\ k = Len(y)
  BY LenIsNat
<1>2. x \o y \in Streaming /\ Len(x \o y) = m + k /\ \A i \in 1..m : (x \o y)[i] = x[i]
  BY <1>1, Joined
<1>3. (x \o y)[1] = x[1] /\ (x \o y)[2] = x[2] /\ Len(x \o y) >= 2
  BY <1>1, <1>2
<1>4. QED
  BY <1>2, <1>3, Pings
-----------------------------------------------------------------------------
(* What is made of a stream. *)

Parsed == [messages : Seq(Streaming), rest : Streaming]
OneMore(b, r) == [messages |-> <<SubSeq(b, 1, MessageEnd(b))>> \o r.messages, rest |-> r.rest]
IsSplit(f) ==
    f = [b \in Streaming |->
            IF IsPrefix(Crlf, b) THEN f[Drop(b, 2)]
            ELSE IF Incomplete(b) THEN [messages |-> <<>>, rest |-> b]
            ELSE OneMore(b, f[Drop(b, MessageEnd(b))])]

LEMMA Shorter ==
    ASSUME NEW b \in Streaming
    PROVE  /\ IsPrefix(Crlf, b) => Drop(b, 2) \in Streaming /\ Len(Drop(b, 2)) < Len(b)
           /\ ~Incomplete(b) => /\ Drop(b, MessageEnd(b)) \in Streaming
                                /\ Len(Drop(b, MessageEnd(b))) < Len(b)
                                /\ SubSeq(b, 1, MessageEnd(b)) \in Streaming
<1>0. PICK l \in Nat : l = Len(b)
  BY LenIsNat
<1>1. ASSUME IsPrefix(Crlf, b)
      PROVE  Drop(b, 2) \in Streaming /\ Len(Drop(b, 2)) < Len(b)
  <2>1. 2 \in 0..l
    BY <1>0, <1>1, Pings
  <2>2. Drop(b, 2) \in Streaming /\ Len(Drop(b, 2)) = l - 2
    BY <1>0, <2>1, Dropped
  <2>3. QED
    BY <1>0, <2>2
<1>2. ASSUME ~Incomplete(b)
      PROVE  /\ Drop(b, MessageEnd(b)) \in Streaming
             /\ Len(Drop(b, MessageEnd(b))) < Len(b)
             /\ SubSeq(b, 1, MessageEnd(b)) \in Streaming
  <2>1. PICK n \in 4..l : n = MessageEnd(b)
    BY <1>0, <1>2, EndOf
  <2>2. n \in 0..l /\ n \in 1..Len(b)
    BY <1>0
  <2>3. Drop(b, n) \in Streaming /\ Len(Drop(b, n)) = l - n
    BY <1>0, <2>2, Dropped
  <2>4. SubSeq(b, 1, n) \in Streaming
    BY <2>2, Fronts
  <2>5. QED
    BY <1>0, <2>1, <2>3, <2>4
<1>3. QED
  BY <1>1, <1>2

LEMMA OneMoreInShape ==
    ASSUME NEW b \in Streaming, ~Incomplete(b), NEW r \in Parsed
    PROVE  OneMore(b, r) \in Parsed
<1>1. PICK s \in Streaming : s = SubSeq(b, 1, MessageEnd(b))
  BY Shorter
<1>2. r.messages \in Seq(Streaming) /\ r.rest \in Streaming
  BY DEF Parsed
<1>3. <<s>> \in Seq(Streaming)
  OBVIOUS
<1>4. <<s>> \o r.messages \in Seq(Streaming)
  BY <1>2, <1>3, ConcatProperties
<1>5. QED
  BY <1>1, <1>2, <1>4 DEF OneMore, Parsed

LEMMA SplitExists == \E f : IsSplit(f)
<1> DEFINE size == [b \in Streaming |-> Len(b)]
           stop == {b \in Streaming : ~IsPrefix(Crlf, b) /\ Incomplete(b)}
           next == [b \in Streaming \ stop |->
                       IF IsPrefix(Crlf, b) THEN Drop(b, 2) ELSE Drop(b, MessageEnd(b))]
           base == [b \in stop |-> [messages |-> <<>>, rest |-> b]]
           step == [p \in (Streaming \ stop) \X Parsed |->
                       IF IsPrefix(Crlf, p[1]) THEN p[2] ELSE OneMore(p[1], p[2])]
<1>1. Falls(Streaming, Parsed, size, stop, next, base, step)
  <2>1. size \in [Streaming -> Nat] /\ stop \in SUBSET Streaming
    BY LenIsNat
  <2>2. ASSUME NEW b \in Streaming \ stop PROVE next[b] \in Streaming /\ Len(next[b]) < Len(b)
    BY Shorter
  <2>3. next \in [Streaming \ stop -> Streaming]
        /\ \A b \in Streaming \ stop : size[next[b]] < size[b]
    BY <2>2
  <2>4. base \in [stop -> Parsed]
    <3>1. <<>> \in Seq(Streaming)
      OBVIOUS
    <3>2. QED
      BY <3>1 DEF Parsed
  <2>5. ASSUME NEW b \in Streaming \ stop, NEW r \in Parsed
        PROVE  (IF IsPrefix(Crlf, b) THEN r ELSE OneMore(b, r)) \in Parsed
    BY OneMoreInShape
  <2>6. step \in [(Streaming \ stop) \X Parsed -> Parsed]
    BY <2>5
  <2> HIDE DEF size, stop, next, base, step
  <2>7. QED
    BY <2>1, <2>3, <2>4, <2>6 DEF Falls
<1>2. [messages |-> <<>>, rest |-> <<>>] \in Parsed
  BY DEF Parsed, Streaming
<1>3. PICK f \in [Streaming -> Parsed] : \A b \in Streaming : FallAt(f, b, stop, next, base, step)
  <2> HIDE DEF size, stop, next, base, step
  <2>1. QED
    BY <1>1, <1>2, FallExists
<1>4. ASSUME NEW b \in Streaming
      PROVE  f[b] = IF IsPrefix(Crlf, b) THEN f[Drop(b, 2)]
                    ELSE IF Incomplete(b) THEN [messages |-> <<>>, rest |-> b]
                    ELSE OneMore(b, f[Drop(b, MessageEnd(b))])
  <2>1. f[b] = IF b \in stop THEN base[b] ELSE step[<<b, f[next[b]]>>]
    BY <1>3 DEF FallAt
  <2>2. CASE b \in stop
    BY <2>1, <2>2
  <2>3. CASE b \notin stop
    <3>1. next[b] \in Streaming
      BY <2>3, Shorter
    <3>2. <<b, f[next[b]]>> \in (Streaming \ stop) \X Parsed
      BY <2>3, <3>1
    <3>3. f[b] = IF IsPrefix(Crlf, b) THEN f[next[b]] ELSE OneMore(b, f[next[b]])
      BY <2>1, <2>3, <3>2
    <3>4. QED
      BY <2>3, <3>3
  <2>4. QED
    BY <2>2, <2>3
<1>5. QED
  BY <1>4 DEF IsSplit

LEMMA SplitIs == IsSplit(Split)
  BY SplitExists, Zenon DEF Split, IsSplit, OneMore

LEMMA SplitAt ==
    ASSUME NEW b \in Streaming
    PROVE  /\ IsPrefix(Crlf, b) => Split[b] = Split[Drop(b, 2)]
           /\ ~IsPrefix(Crlf, b) /\ Incomplete(b) => Split[b] = [messages |-> <<>>, rest |-> b]
           /\ ~IsPrefix(Crlf, b) /\ ~Incomplete(b)
                => Split[b] = OneMore(b, Split[Drop(b, MessageEnd(b))])
<1> DEFINE f == Split
<1>1. IsSplit(f)
  BY SplitIs
<1> HIDE DEF f
<1>2. f[b] = IF IsPrefix(Crlf, b) THEN f[Drop(b, 2)]
             ELSE IF Incomplete(b) THEN [messages |-> <<>>, rest |-> b]
             ELSE OneMore(b, f[Drop(b, MessageEnd(b))])
  BY <1>1 DEF IsSplit
<1>3. QED
  BY <1>2 DEF f

LEMMA SplitInShape ==
    ASSUME NEW b \in Streaming
    PROVE  Split[b] \in Parsed
<1> DEFINE P == {x \in Streaming : Split[x] \in Parsed}
           size == [x \in Streaming |-> Len(x)]
<1>1. ASSUME NEW x \in Streaming, \A y \in Streaming : size[y] < size[x] => y \in P
      PROVE  x \in P
  <2>0. \A y \in Streaming : Len(y) < Len(x) => Split[y] \in Parsed
    BY <1>1
  <2>1. CASE IsPrefix(Crlf, x)
    BY <2>0, <2>1, Shorter, SplitAt
  <2>2. CASE ~IsPrefix(Crlf, x) /\ Incomplete(x)
    <3>1. <<>> \in Seq(Streaming)
      OBVIOUS
    <3>2. Split[x] = [messages |-> <<>>, rest |-> x]
      BY <2>2, SplitAt
    <3>3. [messages |-> <<>>, rest |-> x] \in Parsed
      BY ONLY <3>1, x \in Streaming DEF Parsed
    <3>4. QED
      BY ONLY <3>2, <3>3, x \in Streaming
  <2>3. CASE ~IsPrefix(Crlf, x) /\ ~Incomplete(x)
    <3>1. Split[Drop(x, MessageEnd(x))] \in Parsed
      BY <2>0, <2>3, Shorter
    <3>2. QED
      BY <2>3, <3>1, SplitAt, OneMoreInShape
  <2>4. QED
    BY <2>1, <2>2, <2>3
<1>2. P \in SUBSET Streaming /\ size \in [Streaming -> Nat]
  BY LenIsNat
<1>3. P = Streaming
  <2> HIDE DEF P, size
  <2>1. QED
    BY <1>1, <1>2, InductOnSize
<1>4. QED
  BY <1>3

\* What is made of more of a stream is what was made of it before, and what is made of
\* the rest with the more behind it.
Goes(x, y) ==
    /\ Split[x \o y].messages = Split[x].messages \o Split[Split[x].rest \o y].messages
    /\ Split[x \o y].rest = Split[Split[x].rest \o y].rest

LEMMA JoinedIn ==
    ASSUME NEW x \in Streaming, NEW y \in Streaming
    PROVE  x \o y \in Streaming
<1>1. PICK m \in Nat, k \in Nat : m = Len(x) /\ k = Len(y)
  BY LenIsNat
<1>2. QED
  BY <1>1, Joined

LEMMA SplitParts ==
    ASSUME NEW b \in Streaming
    PROVE  Split[b].messages \in Seq(Streaming) /\ Split[b].rest \in Streaming
  BY SplitInShape DEF Parsed

LEMMA GoesOnPing ==
    ASSUME NEW x \in Streaming, NEW y \in Streaming, IsPrefix(Crlf, x), Goes(Drop(x, 2), y)
    PROVE  Goes(x, y)
<1>0. PICK m \in Nat : m = Len(x) /\ 2 \in 0..m /\ Len(x) >= 2
  BY LenIsNat, Pings
<1>1. Drop(x \o y, 2) = Drop(x, 2) \o y
  BY <1>0, DropOfJoined
<1>2. IsPrefix(Crlf, x \o y) /\ x \o y \in Streaming
  BY <1>0, PingStays, JoinedIn
<1>3. Split[x \o y] = Split[Drop(x, 2) \o y] /\ Split[x] = Split[Drop(x, 2)]
  BY <1>1, <1>2, SplitAt
<1>4. QED
  BY <1>3 DEF Goes

LEMMA GoesOnRest ==
    ASSUME NEW x \in Streaming, NEW y \in Streaming, ~IsPrefix(Crlf, x), Incomplete(x)
    PROVE  Goes(x, y)
<1>1. Split[x].messages = <<>> /\ Split[x].rest = x
  <2>1. Split[x] = [messages |-> <<>>, rest |-> x]
    BY SplitAt
  <2>2. QED
    BY ONLY <2>1
<1>2. Split[x \o y].messages \in Seq(Streaming)
  BY JoinedIn, SplitParts
<1>3. <<>> \o Split[x \o y].messages = Split[x \o y].messages
  BY <1>2, ConcatEmptySeq
<1>4. QED
  BY <1>1, <1>3 DEF Goes

LEMMA GoesOnMessage ==
    ASSUME NEW x \in Streaming, NEW y \in Streaming, ~IsPrefix(Crlf, x), ~Incomplete(x),
           Goes(Drop(x, MessageEnd(x)), y)
    PROVE  Goes(x, y)
<1>0. PICK m \in Nat, n \in Nat : m = Len(x) /\ n = MessageEnd(x) /\ n \in 4..m
  BY LenIsNat, EndOf
<1>1. PICK d \in Streaming : d = Drop(x, n)
  BY <1>0, Shorter
<1>2. PICK w \in Streaming : w = x \o y
  BY JoinedIn
<1>3. Drop(w, n) = d \o y
  <2>1. n \in 0..m
    BY <1>0
  <2>2. Drop(x \o y, n) = Drop(x, n) \o y
    BY <1>0, <2>1, DropOfJoined
  <2>3. QED
    BY <1>1, <1>2, <2>2
<1>4. MessageEnd(w) = n /\ ~Incomplete(w)
  BY <1>0, <1>2, CompleteStays
<1>5. ~IsPrefix(Crlf, w)
  BY <1>0, <1>2, PingStays
<1>6. PICK s \in Streaming : s = SubSeq(x, 1, n) /\ s = SubSeq(w, 1, n)
  <2>1. 1 \in 1..Len(x) /\ n \in 1..Len(x)
    BY <1>0
  <2>2. SubSeq(w, 1, n) = SubSeq(x, 1, n)
    BY <1>2, <2>1, FrontOfJoined
  <2>3. SubSeq(x, 1, n) \in Streaming
    BY <2>1, Fronts
  <2>4. QED
    BY <2>2, <2>3
<1>7. Split[w] = OneMore(w, Split[d \o y]) /\ Split[x] = OneMore(x, Split[d])
  <2>1. Split[w] = OneMore(w, Split[Drop(w, MessageEnd(w))])
    BY <1>4, <1>5, SplitAt
  <2>2. Split[x] = OneMore(x, Split[Drop(x, MessageEnd(x))])
    BY SplitAt
  <2>3. QED
    BY <1>0, <1>1, <1>3, <1>4, <2>1, <2>2
<1>8. /\ Split[w].messages = <<s>> \o Split[d \o y].messages
      /\ Split[w].rest = Split[d \o y].rest
      /\ Split[x].messages = <<s>> \o Split[d].messages
      /\ Split[x].rest = Split[d].rest
  <2>1. /\ OneMore(w, Split[d \o y])
              = [messages |-> <<s>> \o Split[d \o y].messages, rest |-> Split[d \o y].rest]
        /\ OneMore(x, Split[d]) = [messages |-> <<s>> \o Split[d].messages, rest |-> Split[d].rest]
    BY <1>0, <1>4, <1>6, Zenon DEF OneMore
  <2>2. QED
    BY ONLY <1>7, <2>1
<1>9. PICK a \in Seq(Streaming), c \in Seq(Streaming), o \in Seq(Streaming) :
         /\ a = Split[d].messages /\ c = Split[Split[d].rest \o y].messages /\ o = <<s>>
  <2>1. Split[d].rest \o y \in Streaming
    BY SplitParts, JoinedIn
  <2>2. <<s>> \in Seq(Streaming)
    OBVIOUS
  <2>3. QED
    BY <2>1, <2>2, SplitParts
<1>10. o \o (a \o c) = (o \o a) \o c
  BY ConcatAssociative
<1>11. Split[d \o y].messages = a \o c /\ Split[d \o y].rest = Split[Split[d].rest \o y].rest
  BY <1>0, <1>1, <1>9 DEF Goes
<1>12. QED
  BY <1>2, <1>8, <1>9, <1>10, <1>11 DEF Goes

LEMMA SplitGoesOn ==
    ASSUME NEW x \in Streaming, NEW y \in Streaming
    PROVE  Goes(x, y)
<1> DEFINE P == {b \in Streaming : Goes(b, y)}
           size == [b \in Streaming |-> Len(b)]
<1>1. ASSUME NEW b \in Streaming, \A c \in Streaming : size[c] < size[b] => c \in P
      PROVE  b \in P
  <2>0. \A c \in Streaming : Len(c) < Len(b) => Goes(c, y)
    BY <1>1
  <2>1. CASE IsPrefix(Crlf, b)
    BY <2>0, <2>1, Shorter, GoesOnPing
  <2>2. CASE ~IsPrefix(Crlf, b) /\ Incomplete(b)
    BY <2>2, GoesOnRest
  <2>3. CASE ~IsPrefix(Crlf, b) /\ ~Incomplete(b)
    BY <2>0, <2>3, Shorter, GoesOnMessage
  <2>4. QED
    BY <2>1, <2>2, <2>3
<1>2. P \in SUBSET Streaming /\ size \in [Streaming -> Nat]
  BY LenIsNat
<1>3. P = Streaming
  <2> HIDE DEF P, size
  <2>1. QED
    BY <1>1, <1>2, InductOnSize
<1>4. QED
  BY <1>3

\* Of the rest nothing more is made.
LEMMA RestIsRest ==
    ASSUME NEW x \in Streaming, NEW r, r = Split[x].rest
    PROVE  Split[r].messages = <<>> /\ Split[r].rest = r
<1>1. r \in Streaming /\ r \o <<>> = r /\ x \o <<>> = x /\ <<>> \in Streaming
  BY SplitParts, LenIsNat, ConcatEmptySeq DEF Streaming
<1>2. Goes(x, <<>>)
  BY <1>1, SplitGoesOn
<1>3. Split[x].messages = Split[x].messages \o Split[r].messages /\ r = Split[r].rest
  BY <1>1, <1>2 DEF Goes
<1>4. Split[r].messages = <<>>
  <2>1. Split[x].messages \in Seq(Streaming) /\ Split[r].messages \in Seq(Streaming)
    BY <1>1, SplitParts
  <2>2. PICK a \in Seq(Streaming), c \in Seq(Streaming) :
           a = Split[x].messages /\ c = Split[r].messages /\ a \o c = a
    BY <1>3, <2>1
  <2>3. Len(a \o c) = Len(a) + Len(c) /\ Len(a) \in Nat /\ Len(c) \in Nat
    BY ConcatProperties, LenProperties
  <2>4. Len(c) = 0
    <3>1. Len(a \o c) = Len(a)
      BY <2>2, Zenon
    <3>2. PICK m \in Nat, n \in Nat : m = Len(a) /\ n = Len(c) /\ m = m + n
      BY <2>3, <3>1, Zenon
    <3>3. QED
      BY ONLY <3>2, m \in Nat, n \in Nat
  <2>5. c = <<>>
    BY <2>4, EmptySeq
  <2>6. QED
    BY <2>2, <2>5
<1>5. QED
  BY <1>3, <1>4
-----------------------------------------------------------------------------
(* What is made of what the gateway sends. *)

LEMMA SplitOfNothing == Split[<<>>] = [messages |-> <<>>, rest |-> <<>>] /\ <<>> \in Streaming
<1>1. <<>> \in Streaming /\ Len(<<>>) = 0
  BY DEF Streaming
<1>2. ~IsPrefix(Crlf, <<>>)
  BY <1>1, Pings
<1>3. HeaderEnds(<<>>) = {}
  BY <1>1 DEF HeaderEnds
<1>4. QED
  BY <1>1, <1>2, <1>3, SplitAt DEF Incomplete

LEMMA SplitOfKeepalive ==
    ASSUME NEW u \in {Crlf, Blank}
    PROVE  u \in Streaming /\ Split[u] = [messages |-> <<>>, rest |-> <<>>]
<1>1. /\ Crlf \in Streaming /\ Len(Crlf) = 2 /\ Crlf[1] = "r" /\ Crlf[2] = "n"
      /\ Blank \in Streaming /\ Len(Blank) = 4
      /\ Blank[1] = "r" /\ Blank[2] = "n" /\ Blank[3] = "r" /\ Blank[4] = "n"
  BY DEF Crlf, Blank, Streaming
<1>2. Drop(Crlf, 2) = <<>>
  BY <1>1, SubSeqEmpty DEF Drop
<1>3. Drop(Blank, 2) = Crlf
  <2>1. Len(Crlf) \in Nat /\ Crlf \in Streaming /\ 2 \in 0..2 /\ Len(Crlf) = 2
    BY <1>1
  <2>2. Drop(Crlf \o Crlf, 2) = Drop(Crlf, 2) \o Crlf
    BY <2>1, DropOfJoined
  <2>3. <<>> \o Crlf = Crlf
    BY <1>1, LenIsNat, ConcatEmptySeq
  <2>4. QED
    BY <1>2, <2>2, <2>3 DEF Blank
<1>4. IsPrefix(Crlf, Crlf) /\ IsPrefix(Crlf, Blank)
  BY <1>1, Pings
<1>5. Split[Crlf] = Split[<<>>] /\ Split[Blank] = Split[Crlf]
  BY <1>1, <1>2, <1>3, <1>4, SplitAt
<1>6. QED
  BY <1>1, <1>5, SplitOfNothing

LEMMA SplitOfMessage ==
    ASSUME NEW u, IsMessage(u)
    PROVE  u \in Streaming /\ Split[u] = [messages |-> <<u>>, rest |-> <<>>]
<1>1. u \in Streaming /\ ~IsPrefix(Crlf, u) /\ HeaderEnds(u) # {}
  BY DEF IsMessage
<1>2. PICK l \in Nat : l = Len(u) /\ MessageEnd(u) = l
  <2>1. PICK i \in HeaderEnds(u) :
           (\A j \in HeaderEnds(u) : i <= j) /\ Len(u) = i + ContentLength(u[1])
    BY DEF IsMessage
  <2>2. /\ HeaderEnd(u) \in HeaderEnds(u) /\ HeaderEnd(u) \in Nat /\ i \in Nat
        /\ \A j \in HeaderEnds(u) : HeaderEnd(u) <= j
    BY <1>1, HeaderEndOf DEF HeaderEnds
  <2>3. HeaderEnd(u) = i
    <3>1. HeaderEnd(u) <= i /\ i <= HeaderEnd(u)
      BY <2>1, <2>2
    <3>2. QED
      BY <2>2, <3>1
  <2>4. QED
    BY <1>1, <2>1, <2>3, LenIsNat DEF MessageEnd
<1>3. ~Incomplete(u)
  BY <1>1, <1>2 DEF Incomplete
<1>4. Drop(u, l) = <<>>
  BY <1>2, SubSeqEmpty DEF Drop
<1>5. SubSeq(u, 1, l) = u
  BY <1>1, <1>2, LenIsNat, SubSeqFull
<1>6. Split[u] = OneMore(u, Split[<<>>])
  BY <1>1, <1>2, <1>3, <1>4, SplitAt
<1>7. <<u>> \o <<>> = <<u>>
  <2>1. <<u>> \in Seq(Streaming)
    BY <1>1
  <2>2. QED
    BY <2>1, ConcatEmptySeq
<1>8. OneMore(u, Split[<<>>]) = [messages |-> <<u>> \o <<>>, rest |-> <<>>]
  BY <1>2, <1>5, SplitOfNothing DEF OneMore
<1>9. QED
  BY <1>1, <1>6, <1>7, <1>8

\* What FlattenSeq and MessagesIn make of the first i units of a stream.
FlatTo(f, s) == f = [i \in 1..Len(s) |-> IF i = 1 THEN s[i] ELSE f[i - 1] \o s[i]]
FoundTo(g, s) ==
    g = [i \in 0..Len(s) |->
            IF i = 0 THEN <<>>
            ELSE IF s[i] \in {Crlf, Blank} THEN g[i - 1] ELSE Append(g[i - 1], s[i])]

LEMMA FlatIs ==
    ASSUME NEW s \in Seq(Streaming), s # <<>>
    PROVE  \E f : FlatTo(f, s) /\ FlattenSeq(s) = f[Len(s)]
<1> DEFINE step == [p \in Streaming \X Streaming |-> p[1] \o p[2]]
<1>0. PICK n \in Nat : n = Len(s) /\ n # 0
  BY EmptySeq
<1>1. step \in [Streaming \X Streaming -> Streaming] /\ <<>> \in Streaming
  BY JoinedIn, SplitOfNothing
<1>2. PICK r : IsRun(r, step, <<>>, s)
  BY RunExists
<1>3. \A i \in 0..n : r[i] \in Streaming
  <2> HIDE DEF step
  <2>1. \A i \in 0..Len(s) : r[i] \in Streaming
    BY <1>1, <1>2, FoldedInShape
  <2>2. QED
    BY <1>0, <2>1
<1>4. ASSUME NEW i \in 1..n PROVE r[i] = r[i - 1] \o s[i] /\ s[i] \in Streaming
  <2>1. i \in 0..Len(s) /\ i # 0 /\ i - 1 \in 0..n /\ i \in 1..Len(s)
    BY <1>0
  <2>2. r[i] = step[<<r[i - 1], s[i]>>]
    BY <1>2, <2>1 DEF IsRun
  <2>3. s[i] \in Streaming
    BY <2>1, ElementOfSeq
  <2>4. <<r[i - 1], s[i]>> \in Streaming \X Streaming
    BY <1>3, <2>1, <2>3
  <2>5. QED
    BY <2>2, <2>3, <2>4
<1>5. r[0] = <<>>
  BY <1>0, <1>2 DEF IsRun
<1> DEFINE f == [i \in 1..n |-> r[i]]
<1>6. ASSUME NEW i \in 1..n PROVE f[i] = IF i = 1 THEN s[i] ELSE f[i - 1] \o s[i]
  <2>1. CASE i = 1
    <3>1. r[i - 1] = <<>>
      BY <1>5, <2>1
    <3>2. <<>> \o s[i] = s[i]
      BY <1>4, LenIsNat, ConcatEmptySeq
    <3>3. QED
      BY <1>4, <2>1, <3>1, <3>2
  <2>2. CASE i # 1
    <3>1. i - 1 \in 1..n
      BY <2>2
    <3>2. QED
      BY <1>4, <2>2, <3>1
  <2>3. QED
    BY <2>1, <2>2
<1>7. FlatTo(f, s)
  <2>1. f = [i \in 1..n |-> IF i = 1 THEN s[i] ELSE f[i - 1] \o s[i]]
    BY <1>6
  <2>2. QED
    BY <1>0, <2>1, Zenon DEF FlatTo
<1> DEFINE c == CHOOSE c : FlatTo(c, s)
<1>8. FlatTo(c, s)
  <2> HIDE DEF f
  <2>1. QED
    BY <1>7
<1>9. FlattenSeq(s) = c[Len(s)]
  <2>1. Len(s) # 0
    BY <1>0
  <2>2. QED
    BY <2>1, Zenon DEF FlattenSeq, FlatTo
<1>10. QED
  BY <1>8, <1>9

LEMMA FoundIs ==
    ASSUME NEW s \in Seq(Streaming)
    PROVE  \E g : FoundTo(g, s) /\ MessagesIn(s) = g[Len(s)]
<1> DEFINE step == [p \in Seq(Streaming) \X Streaming |->
                       IF p[2] \in {Crlf, Blank} THEN p[1] ELSE Append(p[1], p[2])]
<1>0. PICK n \in Nat : n = Len(s)
  BY EmptySeq
<1>1. step \in [Seq(Streaming) \X Streaming -> Seq(Streaming)] /\ <<>> \in Seq(Streaming)
  OBVIOUS
<1>2. PICK r : IsRun(r, step, <<>>, s)
  BY RunExists
<1>3. \A i \in 0..n : r[i] \in Seq(Streaming)
  <2> HIDE DEF step
  <2>1. \A i \in 0..Len(s) : r[i] \in Seq(Streaming)
    BY <1>1, <1>2, FoldedInShape
  <2>2. QED
    BY <1>0, <2>1
<1>4. ASSUME NEW i \in 1..n
      PROVE  r[i] = IF s[i] \in {Crlf, Blank} THEN r[i - 1] ELSE Append(r[i - 1], s[i])
  <2>1. i \in 0..Len(s) /\ i # 0 /\ i - 1 \in 0..n /\ i \in 1..Len(s)
    BY <1>0
  <2>2. r[i] = step[<<r[i - 1], s[i]>>]
    BY <1>2, <2>1 DEF IsRun
  <2>3. s[i] \in Streaming
    BY <2>1, ElementOfSeq
  <2>4. <<r[i - 1], s[i]>> \in Seq(Streaming) \X Streaming
    BY <1>3, <2>1, <2>3
  <2>5. QED
    BY <2>2, <2>4
<1>5. FoundTo(r, s)
  <2>1. r = [i \in 0..Len(s) |-> IF i = 0 THEN <<>> ELSE step[<<r[i - 1], s[i]>>]]
    BY <1>2 DEF IsRun
  <2>2. ASSUME NEW i \in 0..Len(s)
        PROVE  (IF i = 0 THEN <<>> ELSE step[<<r[i - 1], s[i]>>])
               = IF i = 0 THEN <<>>
                 ELSE IF s[i] \in {Crlf, Blank} THEN r[i - 1] ELSE Append(r[i - 1], s[i])
    <3>1. CASE i = 0
      BY <3>1
    <3>2. CASE i # 0
      <4>1. i \in 1..n
        BY <1>0, <3>2
      <4>2. r[i] = step[<<r[i - 1], s[i]>>]
        BY <1>2, <3>2 DEF IsRun
      <4>3. QED
        BY <1>4, <3>2, <4>1, <4>2
    <3>3. QED
      BY <3>1, <3>2
  <2> HIDE DEF step
  <2>3. QED
    BY <2>1, <2>2 DEF FoundTo
<1> DEFINE c == CHOOSE c : FoundTo(c, s)
<1>6. FoundTo(c, s)
  BY <1>5
<1>7. MessagesIn(s) = c[Len(s)]
  BY Zenon DEF MessagesIn, FoundTo
<1>8. QED
  BY <1>6, <1>7

\* One more unit: a message is one more message, a keepalive nothing.
LEMMA SplitOfOneMore ==
    ASSUME NEW x \in Streaming, NEW g \in Seq(Streaming),
           Split[x] = [messages |-> g, rest |-> <<>>],
           NEW u \in Streaming, u \in {Crlf, Blank} \/ IsMessage(u)
    PROVE  Split[x \o u] = [messages |-> IF u \in {Crlf, Blank} THEN g ELSE Append(g, u),
                            rest |-> <<>>]
<1>1. Split[x].messages = g /\ Split[x].rest = <<>>
  OBVIOUS
<1>2. <<>> \o u = u
  BY LenIsNat, ConcatEmptySeq
<1>3. Split[x \o u].messages = g \o Split[u].messages /\ Split[x \o u].rest = Split[u].rest
  <2>1. /\ Split[x \o u].messages = Split[x].messages \o Split[Split[x].rest \o u].messages
        /\ Split[x \o u].rest = Split[Split[x].rest \o u].rest
    BY SplitGoesOn DEF Goes
  <2>2. Split[x].rest \o u = u
    BY <1>1, <1>2, Zenon
  <2>3. QED
    BY ONLY <1>1, <2>1, <2>2, Zenon
<1>4. Split[x \o u] = [messages |-> g \o Split[u].messages, rest |-> Split[u].rest]
  BY <1>3, JoinedIn, SplitInShape DEF Parsed
<1>5. CASE u \in {Crlf, Blank}
  <2>1. Split[u].messages = <<>> /\ Split[u].rest = <<>>
    BY <1>5, SplitOfKeepalive
  <2>2. g \o <<>> = g
    BY ConcatEmptySeq
  <2>3. QED
    BY <1>4, <1>5, <2>1, <2>2
<1>6. CASE u \notin {Crlf, Blank}
  <2>1. Split[u] = [messages |-> <<u>>, rest |-> <<>>]
    BY <1>6, SplitOfMessage
  <2>2. Split[u].messages = <<u>> /\ Split[u].rest = <<>>
    BY ONLY <2>1
  <2>3. Append(g, u) = g \o <<u>>
    BY AppendIsConcat
  <2>4. QED
    BY <1>4, <1>6, <2>2, <2>3
<1>7. QED
  BY <1>5, <1>6

\* A stream read as a whole gives its messages, and nothing is left.
LEMMA SplitOfStream ==
    ASSUME NEW s \in Streams
    PROVE  /\ FlattenSeq(s) \in Streaming /\ MessagesIn(s) \in Seq(Streaming)
           /\ Split[FlattenSeq(s)] = [messages |-> MessagesIn(s), rest |-> <<>>]
<1>0. s \in Seq(Streaming)
  BY StreamsAssumption
<1>1. PICK n \in Nat : n = Len(s)
  BY <1>0, EmptySeq
<1>2. \A i \in 1..n : s[i] \in Streaming /\ (s[i] \in {Crlf, Blank} \/ IsMessage(s[i]))
  BY <1>0, <1>1, StreamsAssumption, ElementOfSeq
<1>3. PICK g : FoundTo(g, s) /\ MessagesIn(s) = g[n]
  BY <1>0, <1>1, FoundIs
<1>4. /\ g[0] = <<>>
      /\ \A i \in 1..n :
           g[i] = IF s[i] \in {Crlf, Blank} THEN g[i - 1] ELSE Append(g[i - 1], s[i])
  <2>1. 0 \in 0..Len(s) /\ \A i \in 1..n : i \in 0..Len(s) /\ i # 0
    BY <1>1
  <2>2. g[0] = <<>>
    BY <1>3, <2>1 DEF FoundTo
  <2>3. ASSUME NEW i \in 1..n
        PROVE  g[i] = IF s[i] \in {Crlf, Blank} THEN g[i - 1] ELSE Append(g[i - 1], s[i])
    BY <1>3, <2>1 DEF FoundTo
  <2>4. QED
    BY <2>2, <2>3
<1>5. CASE s = <<>>
  <2>1. n = 0 /\ FlattenSeq(s) = <<>>
    BY <1>1, <1>5 DEF FlattenSeq
  <2>2. <<>> \in Seq(Streaming)
    OBVIOUS
  <2>3. QED
    BY <1>3, <1>4, <2>1, <2>2, SplitOfNothing
<1>6. CASE s # <<>>
  <2>1. n # 0
    BY <1>0, <1>1, <1>6, EmptySeq
  <2>2. PICK f : FlatTo(f, s) /\ FlattenSeq(s) = f[n]
    BY <1>0, <1>1, <1>6, FlatIs
  <2>3. \A i \in 1..n : f[i] = IF i = 1 THEN s[i] ELSE f[i - 1] \o s[i]
    BY <1>1, <2>2 DEF FlatTo
  <2> DEFINE Right(i) == /\ f[i] \in Streaming /\ g[i] \in Seq(Streaming)
                         /\ Split[f[i]] = [messages |-> g[i], rest |-> <<>>]
             S == {i \in Nat : i < n => Right(i + 1)}
  <2>4. ASSUME NEW i \in 1..n, NEW x \in Streaming, NEW h \in Seq(Streaming), h = g[i - 1],
               Split[x] = [messages |-> h, rest |-> <<>>], f[i] = x \o s[i]
        PROVE  Right(i)
    <3>1. PICK u \in Streaming : u = s[i] /\ (u \in {Crlf, Blank} \/ IsMessage(u))
      BY <1>2
    <3>2. Split[x \o u] = [messages |-> IF u \in {Crlf, Blank} THEN h ELSE Append(h, u),
                           rest |-> <<>>]
      BY <2>4, <3>1, SplitOfOneMore
    <3>3. g[i] = IF u \in {Crlf, Blank} THEN h ELSE Append(h, u)
      BY <1>4, <2>4, <3>1
    <3>4. g[i] \in Seq(Streaming)
      BY <3>3, AppendProperties
    <3>5. f[i] = x \o u /\ f[i] \in Streaming
      BY <2>4, <3>1, JoinedIn
    <3>6. QED
      BY <3>2, <3>3, <3>4, <3>5
  <2>5. 0 \in S
    <3>1. 1 \in 1..n /\ f[1] = s[1]
      BY <2>1, <2>3
    <3>2. <<>> \o s[1] = s[1]
      BY <1>2, <3>1, LenIsNat, ConcatEmptySeq
    <3>3. <<>> \in Streaming /\ <<>> \in Seq(Streaming) /\ g[1 - 1] = <<>>
      BY <1>4, SplitOfNothing
    <3>4. Right(1)
      <4> HIDE DEF Right
      <4>1. QED
        BY <2>4, <3>1, <3>2, <3>3, SplitOfNothing
    <3>5. QED
      BY <3>4
  <2>6. ASSUME NEW i \in S PROVE i + 1 \in S
    <3> SUFFICES ASSUME i + 1 < n PROVE Right(i + 2)
      OBVIOUS
    <3>1. Right(i + 1)
      OBVIOUS
    <3>2. i + 2 \in 1..n /\ i + 2 # 1 /\ (i + 2) - 1 = i + 1
      OBVIOUS
    <3>3. f[i + 2] = f[i + 1] \o s[i + 2]
      BY <2>3, <3>2
    <3>4. PICK x \in Streaming, h \in Seq(Streaming) :
             x = f[i + 1] /\ h = g[(i + 2) - 1] /\ Split[x] = [messages |-> h, rest |-> <<>>]
      BY <3>1, <3>2
    <3> HIDE DEF Right
    <3>5. QED
      BY <2>4, <3>2, <3>3, <3>4
  <2>7. S = Nat
    <3> HIDE DEF S
    <3>1. S \in SUBSET Nat
      BY DEF S
    <3>2. QED
      BY <2>5, <2>6, <3>1, Induct
  <2>8. n - 1 \in S /\ n - 1 < n /\ (n - 1) + 1 = n
    <3> HIDE DEF S
    <3>1. QED
      BY <2>1, <2>7
  <2>9. Right(n)
    BY <2>8
  <2>10. QED
    BY <1>3, <2>2, <2>9
<1>7. QED
  BY <1>5, <1>6
-----------------------------------------------------------------------------
(* The readers. *)

\* Of each connection of the gateway's: what was handled and is to be handled, and then
\* what buffer and the rest of the stream give together, are the messages sent; the
\* buffer alone gives none.
FramedOn(a) ==
    /\ buffer[a] \in Streaming /\ coming[a] \in Streaming
    /\ got[a] \in Seq(Streaming) /\ todo[a] \in Seq(Streaming)
    /\ MessagesIn(stream[a]) \in Seq(Streaming)
    /\ Split[buffer[a]] = [messages |-> <<>>, rest |-> buffer[a]]
    /\ Split[buffer[a] \o coming[a]].rest = <<>>
    /\ (got[a] \o todo[a]) \o Split[buffer[a] \o coming[a]].messages = MessagesIn(stream[a])

FramingInv ==
    /\ buffer \in [Accepted -> Streaming] /\ coming \in [Accepted -> Streaming]
    /\ got \in [Accepted -> Seq(Streaming)] /\ todo \in [Accepted -> Seq(Streaming)]
    /\ \A a \in Accepted : FramedOn(a)

LEMMA InitFraming == Init => FramingInv
<1> SUFFICES ASSUME Init PROVE FramingInv
  OBVIOUS
<1>0. <<>> \in Streaming /\ <<>> \in Seq(Streaming) /\ <<>> \o <<>> = <<>>
  BY SplitOfNothing
<1>1. ASSUME NEW a \in Accepted
      PROVE  /\ buffer[a] = <<>> /\ got[a] = <<>> /\ todo[a] = <<>>
             /\ stream[a] \in Streams /\ coming[a] = FlattenSeq(stream[a])
  BY DEF Init
<1>2. ASSUME NEW a \in Accepted
      PROVE  FramedOn(a)
  <2>1. PICK x \in Streaming, m \in Seq(Streaming) :
           /\ x = coming[a] /\ m = MessagesIn(stream[a])
           /\ Split[x] = [messages |-> m, rest |-> <<>>]
    BY <1>1, SplitOfStream
  <2>2. <<>> \o x = x /\ <<>> \o m = m
    BY <2>1, LenIsNat, ConcatEmptySeq
  <2>3. Split[x].messages = m /\ Split[x].rest = <<>>
    BY <2>1
  <2>4. QED
    BY <1>0, <1>1, <2>1, <2>2, <2>3, SplitOfNothing DEF FramedOn
<1>3. /\ buffer \in [Accepted -> Streaming] /\ coming \in [Accepted -> Streaming]
      /\ got \in [Accepted -> Seq(Streaming)] /\ todo \in [Accepted -> Seq(Streaming)]
  BY <1>0, <1>1, SplitOfStream DEF Init
<1>4. QED
  BY <1>2, <1>3 DEF FramingInv

LEMMA ReadsFramed ==
    ASSUME FramingInv, NEW a \in Accepted, Reads(a)
    PROVE  FramingInv'
<1> DEFINE b == buffer[a]
           c == coming[a]
<1>0. FramedOn(a) /\ b \in Streaming /\ c \in Streaming /\ todo[a] = <<>>
  BY DEF FramingInv, FramedOn, Reads
<1>1. PICK n \in 1..Len(c) :
         LET split == Split[b \o SubSeq(c, 1, n)] IN
         /\ coming' = [coming EXCEPT ![a] = SubSeq(@, n + 1, Len(@))]
         /\ buffer' = [buffer EXCEPT ![a] = split.rest]
         /\ todo' = [todo EXCEPT ![a] = split.messages]
  BY DEF Reads
<1>2. PICK l \in Nat : l = Len(c) /\ n \in 1..l
  BY <1>0, LenIsNat
<1>3. PICK chunk \in Streaming, d \in Streaming :
         chunk = SubSeq(c, 1, n) /\ d = SubSeq(c, n + 1, Len(c)) /\ c = chunk \o d
  <2>1. SubSeq(c, 1, n) \in Streaming
    BY <1>0, Fronts
  <2>2. n \in 0..l
    BY <1>2
  <2>3. Drop(c, n) \in Streaming
    BY <1>0, <1>2, <2>2, Dropped
  <2>4. SubSeq(c, 1, n) \o SubSeq(c, n + 1, l) = SubSeq(c, 1, l)
    <3>1. 1 \in 1..l + 1 /\ n \in 1 - 1..l /\ l \in n..l
      BY <1>2
    <3>2. c \in Seq(Tokens)
      BY <1>0, LenIsNat
    <3> HIDE DEF c
    <3>3. QED
      BY <1>2, <3>1, <3>2, ConcatAdjacentSubSeq
  <2>5. SubSeq(c, 1, l) = c
    BY <1>0, <1>2, LenIsNat, SubSeqFull
  <2>6. QED
    BY <1>2, <2>1, <2>3, <2>4, <2>5 DEF Drop
<1>4. PICK x \in Streaming : x = b \o chunk
  BY <1>0, JoinedIn
<1>5. x \o d = b \o c
  <2>1. PICK s \in Seq(Tokens), t \in Seq(Tokens), u \in Seq(Tokens) : s = b /\ t = chunk /\ u = d
    BY <1>0, LenIsNat
  <2>2. (s \o t) \o u = s \o (t \o u)
    BY ONLY s \in Seq(Tokens), t \in Seq(Tokens), u \in Seq(Tokens), ConcatAssociative
  <2>3. QED
    BY <1>3, <1>4, <2>1, <2>2
<1>6. PICK m \in Seq(Streaming), r \in Streaming : m = Split[x].messages /\ r = Split[x].rest
  BY SplitParts
<1>7. /\ coming' = [coming EXCEPT ![a] = d]
      /\ buffer' = [buffer EXCEPT ![a] = r]
      /\ todo' = [todo EXCEPT ![a] = m]
      /\ got' = got /\ stream' = stream
  BY <1>1, <1>3, <1>4, <1>6 DEF Reads
<1>8. coming'[a] = d /\ buffer'[a] = r /\ todo'[a] = m
  BY <1>7 DEF FramingInv
<1>9. PICK q \in Seq(Streaming) : q = Split[r \o d].messages
  BY JoinedIn, SplitParts
<1>10. Split[b \o c].messages = m \o q /\ Split[b \o c].rest = Split[r \o d].rest
  <2>1. Goes(x, d)
    BY SplitGoesOn
  <2>2. /\ Split[x \o d].messages = Split[x].messages \o Split[Split[x].rest \o d].messages
        /\ Split[x \o d].rest = Split[Split[x].rest \o d].rest
    BY <2>1 DEF Goes
  <2>3. QED
    BY ONLY <1>5, <1>6, <1>9, <2>2, Zenon
<1>11. Split[r] = [messages |-> <<>>, rest |-> r]
  <2>1. Split[r].messages = <<>> /\ Split[r].rest = r /\ Split[r] \in Parsed
    BY <1>6, RestIsRest, SplitInShape
  <2>2. QED
    BY <2>1 DEF Parsed
<1>12. FramedOn(a)'
  <2>1. PICK g \in Seq(Streaming), sent \in Seq(Streaming) :
            g = got[a] /\ sent = MessagesIn(stream[a])
    BY <1>0 DEF FramedOn
  <2>2. g \o <<>> = g
    BY ConcatEmptySeq
  <2>3. g \o (m \o q) = sent
    BY <1>0, <1>10, <2>1, <2>2 DEF FramedOn
  <2>4. (g \o m) \o q = sent
    <3>1. g \in Seq(Streaming) /\ m \in Seq(Streaming) /\ q \in Seq(Streaming)
      OBVIOUS
    <3>2. (g \o m) \o q = g \o (m \o q)
      BY ONLY <3>1, ConcatAssociative
    <3>3. QED
      BY ONLY <2>3, <3>2, Zenon
  <2>5. Split[r \o d].rest = <<>>
    BY <1>0, <1>10 DEF FramedOn
  <2> HIDE DEF b, c
  <2>6. QED
    BY <1>7, <1>8, <1>9, <1>11, <2>1, <2>4, <2>5 DEF FramedOn
<1>13. ASSUME NEW o \in Accepted, o # a PROVE FramedOn(o)'
  <2>1. coming'[o] = coming[o] /\ buffer'[o] = buffer[o] /\ todo'[o] = todo[o]
    BY <1>7, <1>13 DEF FramingInv
  <2>2. FramedOn(o)
    BY DEF FramingInv
  <2>3. QED
    BY <1>7, <2>1, <2>2 DEF FramedOn
<1>14. QED
  BY <1>7, <1>12, <1>13 DEF FramingInv

LEMMA HandlesFramed ==
    ASSUME FramingInv, NEW a \in Accepted, Handles(a)
    PROVE  FramingInv'
<1>1. PICK g \in Seq(Streaming), t \in Seq(Streaming) : g = got[a] /\ t = todo[a] /\ t # <<>>
  BY DEF FramingInv, Handles
<1>2. /\ todo' = [todo EXCEPT ![a] = Tail(t)] /\ got' = [got EXCEPT ![a] = Append(g, Head(t))]
      /\ buffer' = buffer /\ coming' = coming /\ stream' = stream
  BY <1>1 DEF Handles
<1>3. Head(t) \in Streaming /\ Tail(t) \in Seq(Streaming)
  BY <1>1, HeadTailProperties
<1>4. Append(g, Head(t)) \in Seq(Streaming)
  BY <1>3, AppendProperties
<1>5. Append(g, Head(t)) \o Tail(t) = g \o t
  <2>1. PICK h \in Seq(Streaming), r \in Seq(Streaming) : h = <<Head(t)>> /\ r = Tail(t)
    <3>1. <<Head(t)>> \in Seq(Streaming)
      BY ONLY <1>3
    <3>2. QED
      BY <1>3, <3>1
  <2>2. Append(g, Head(t)) = g \o h
    BY <1>3, <2>1, AppendIsConcat
  <2>3. t = h \o r
    BY <1>1, <2>1
  <2>4. (g \o h) \o r = g \o (h \o r)
    BY ONLY g \in Seq(Streaming), h \in Seq(Streaming), r \in Seq(Streaming), ConcatAssociative
  <2>5. QED
    BY <2>1, <2>2, <2>3, <2>4
<1>6. got'[a] = Append(g, Head(t)) /\ todo'[a] = Tail(t)
  BY <1>2 DEF FramingInv
<1>7. FramedOn(a)'
  <2>1. FramedOn(a)
    BY DEF FramingInv
  <2>2. got'[a] \o todo'[a] = got[a] \o todo[a]
    BY <1>1, <1>5, <1>6
  <2>3. QED
    BY <1>2, <1>3, <1>4, <1>6, <2>1, <2>2 DEF FramedOn
<1>8. ASSUME NEW o \in Accepted, o # a PROVE FramedOn(o)'
  <2>1. got'[o] = got[o] /\ todo'[o] = todo[o]
    BY <1>2, <1>8 DEF FramingInv
  <2>2. FramedOn(o)
    BY DEF FramingInv
  <2>3. QED
    BY <1>2, <2>1, <2>2 DEF FramedOn
<1>9. QED
  BY <1>2, <1>3, <1>4, <1>7, <1>8 DEF FramingInv

LEMMA NextFraming == FramingInv /\ [Next]_vars => FramingInv'
<1> SUFFICES ASSUME FramingInv, [Next]_vars PROVE FramingInv'
  OBVIOUS
<1>1. ASSUME NEW a \in Accepted, Reads(a) PROVE FramingInv'
  BY <1>1, ReadsFramed
<1>2. ASSUME NEW a \in Accepted, Handles(a) PROVE FramingInv'
  BY <1>2, HandlesFramed
<1>3. CASE UNCHANGED reading
  BY <1>3 DEF reading, FramingInv, FramedOn
<1>4. UNCHANGED reading \/ \E a \in Accepted : Reads(a) \/ Handles(a)
  <2>1. ASSUME NEW s \in Clients, Sends(s) PROVE UNCHANGED reading
    BY <2>1 DEF Sends
  <2>2. ASSUME NEW t \in Threads, SendSteps(t) PROVE UNCHANGED reading
    BY <2>2 DEF SendSteps, Locks, Connects, ConnectFails, Writes, WriteFails
  <2>3. ASSUME NEW a \in Accepted, Accepts(a) \/ Replies(a) \/ ReplyFallsBack(a)
        PROVE  UNCHANGED reading
    BY <2>3 DEF Accepts, Replies, ReplyFallsBack
  <2>4. ASSUME NEW c \in Conns, ReaderSteps(c) \/ GatewayCloses(c) PROVE UNCHANGED reading
    BY <2>4 DEF ReaderSteps, ReaderEnds, ReaderCleans, GatewayCloses
  <2>5. UNCHANGED vars => UNCHANGED reading
    BY DEF vars, reading
  <2>6. QED
    BY <2>1, <2>2, <2>3, <2>4, <2>5 DEF Next, Answers
<1>5. QED
  BY <1>1, <1>2, <1>3, <1>4

\* What is in front of a sequence is a prefix of it.
LEMMA FrontIsPrefix ==
    ASSUME NEW g \in Seq(Streaming), NEW r \in Seq(Streaming)
    PROVE  IsPrefix(g, g \o r)
<1>1. PICK m \in Nat, k \in Nat : m = Len(g) /\ k = Len(r) /\ Len(g \o r) = m + k
  BY LenProperties, ConcatProperties
<1>2. SubSeq(g \o r, 1, m) = SubSeq(g, 1, m)
  <2>1. CASE m = 0
    BY <2>1, SubSeqEmpty
  <2>2. CASE m # 0
    <3>1. 1 \in 1..Len(g) /\ m \in 1..Len(g)
      BY <1>1, <2>2
    <3>2. QED
      BY <3>1, SubSeqOfConcat1
  <2>3. QED
    BY <2>1, <2>2
<1>3. Len(g) <= Len(g \o r)
  BY ONLY <1>1, m \in Nat, k \in Nat
<1>4. QED
  BY <1>1, <1>2, <1>3 DEF IsPrefix

LEMMA FramedIsExact == FramingInv => FramingIsExact
<1> SUFFICES ASSUME FramingInv, NEW a \in Accepted
             PROVE  /\ IsPrefix(got[a], MessagesIn(stream[a]))
                    /\ coming[a] = <<>> => /\ got[a] \o todo[a] = MessagesIn(stream[a])
                                           /\ buffer[a] = <<>>
  BY DEF FramingIsExact
<1>0. FramedOn(a)
  BY DEF FramingInv
<1>1. PICK g \in Seq(Streaming), t \in Seq(Streaming), m \in Seq(Streaming), b \in Streaming :
         /\ g = got[a] /\ t = todo[a] /\ m = Split[buffer[a] \o coming[a]].messages
         /\ b = buffer[a]
  BY <1>0, JoinedIn, SplitParts DEF FramedOn
<1>2. (g \o t) \o m = MessagesIn(stream[a])
  BY <1>0, <1>1 DEF FramedOn
<1>3. IsPrefix(got[a], MessagesIn(stream[a]))
  <2>1. (g \o t) \o m = g \o (t \o m)
    BY ONLY g \in Seq(Streaming), t \in Seq(Streaming), m \in Seq(Streaming), ConcatAssociative
  <2>2. t \o m \in Seq(Streaming)
    BY ConcatProperties
  <2>3. IsPrefix(g, g \o (t \o m))
    BY <2>2, FrontIsPrefix
  <2>4. QED
    BY <1>1, <1>2, <2>1, <2>3
<1>4. ASSUME coming[a] = <<>>
      PROVE  got[a] \o todo[a] = MessagesIn(stream[a]) /\ buffer[a] = <<>>
  <2>1. b \o <<>> = b
    BY LenIsNat, ConcatEmptySeq
  <2>2. m = Split[b].messages /\ Split[b].rest = <<>>
    BY <1>0, <1>1, <1>4, <2>1 DEF FramedOn
  <2>3. Split[b].messages = <<>> /\ Split[b].rest = b
    BY <1>0, <1>1 DEF FramedOn
  <2>4. (g \o t) \o <<>> = g \o t
    <3>1. g \o t \in Seq(Streaming)
      BY ConcatProperties
    <3>2. QED
      BY <3>1, ConcatEmptySeq
  <2>5. QED
    BY <1>1, <1>2, <2>2, <2>3, <2>4
<1>5. QED
  BY <1>3, <1>4

\* For any streams of messages and keepalives and any way they are cut into chunks: what
\* is handled is what was sent, in order, and at the end of a stream nothing is kept.
THEOREM EveryCutIsExact == Spec => []FramingIsExact
  BY InitFraming, NextFraming, FramedIsExact, PTL DEF Spec
=============================================================================
