---------------------------- MODULE MixingProofs ----------------------------
(***************************************************************************)
(* Theorems about Mixing for any number of participants, any capacity,     *)
(* block and chunk, and any samples.                                       *)
(***************************************************************************)
EXTENDS Mixing, Recursion, SequenceTheorems, FiniteSetTheorems, TLAPS

\* The states of a SourceBuffer, and the samples it holds, oldest first.
Buffer == [data : [0..Capacity - 1 -> Samples], read_at : 0..Capacity - 1, available : 0..Capacity]
Contents(b) == [i \in 1..b.available |-> b.data[(b.read_at + i - 1) % Capacity]]

Inv == DOMAIN sources \subseteq Keys /\ \A k \in DOMAIN sources : sources[k] \in Buffer
-----------------------------------------------------------------------------
(* Positions wrap around at most once at a time. *)

LEMMA Wraps ==
    ASSUME NEW C \in Nat, C > 0, NEW x \in -C..2 * C - 1
    PROVE  /\ x % C = IF x < 0 THEN x + C ELSE IF x < C THEN x ELSE x - C
           /\ x % C \in 0..C - 1
<1>1. CASE x \in -C..-1
  BY <1>1
<1>2. CASE x \in 0..C - 1
  BY <1>2
<1>3. CASE x \in C..2 * C - 1
  BY <1>3
<1>4. QED
  BY <1>1, <1>2, <1>3

LEMMA Sizes == Capacity \in Nat /\ Capacity > 0 /\ Block \in Nat /\ Block > 1 /\ MaxChunk \in Nat
               /\ 0 \in Samples
  BY MixingAssumption

\* A cell inside the buffer, wherever it starts.
LEMMA CellWraps ==
    ASSUME NEW from \in 0..Capacity - 1, NEW i \in 0..Capacity
    PROVE  /\ (from + i) % Capacity = IF from + i < Capacity THEN from + i ELSE from + i - Capacity
           /\ (from + i) % Capacity \in 0..Capacity - 1
  BY Sizes, Wraps

\* Positions counted from one further on, and how far a cell is behind another.
LEMMA CellAgain ==
    ASSUME NEW from \in 0..Capacity - 1, NEW d \in 0..Capacity, NEW j \in 0..Capacity,
           d + j <= Capacity
    PROVE  (((from + d) % Capacity) + j) % Capacity = (from + (d + j)) % Capacity
<1>1. PICK c \in 0..Capacity - 1 :
         /\ c = (from + d) % Capacity
         /\ c = IF from + d < Capacity THEN from + d ELSE from + d - Capacity
  BY CellWraps
<1>2. (c + j) % Capacity = IF c + j < Capacity THEN c + j ELSE c + j - Capacity
  BY CellWraps
<1>3. d + j \in 0..Capacity
  BY Sizes
<1>4. (from + (d + j)) % Capacity
         = IF from + (d + j) < Capacity THEN from + (d + j) ELSE from + (d + j) - Capacity
  BY <1>3, CellWraps
<1>5. (c + j) % Capacity = (from + (d + j)) % Capacity
  BY <1>1, <1>2, <1>4, Sizes
<1>6. QED
  BY <1>1, <1>5

LEMMA CellBehind ==
    ASSUME NEW from \in 0..Capacity - 1, NEW d \in 0..Capacity, NEW j \in 0..Capacity - 1,
           NEW c, c = (from + j) % Capacity, NEW e, e = (from + d) % Capacity
    PROVE  (c - e) % Capacity = IF j < d THEN j - d + Capacity ELSE j - d
<1>1. c \in 0..Capacity - 1 /\ c = IF from + j < Capacity THEN from + j ELSE from + j - Capacity
  BY CellWraps, Sizes
<1>2. e \in 0..Capacity - 1 /\ e = IF from + d < Capacity THEN from + d ELSE from + d - Capacity
  BY CellWraps
<1>3. c - e \in -Capacity..2 * Capacity - 1
  BY <1>1, <1>2, Sizes
<1>4. (c - e) % Capacity = IF c - e < 0 THEN c - e + Capacity ELSE c - e
  BY <1>1, <1>2, <1>3, Wraps, Sizes
<1>5. QED
  BY <1>1, <1>2, <1>4, Sizes

LEMMA ContentsAreSamples ==
    ASSUME NEW b \in Buffer
    PROVE  Contents(b) \in Seq(Samples) /\ Len(Contents(b)) = b.available
<1>1. PICK available \in 0..Capacity, from \in 0..Capacity - 1,
           data \in [0..Capacity - 1 -> Samples] :
         available = b.available /\ from = b.read_at /\ data = b.data
  BY DEF Buffer
<1>2. \A i \in 1..available : data[(from + i - 1) % Capacity] \in Samples
  <2>1. TAKE i \in 1..available
  <2>2. i - 1 \in 0..Capacity /\ from + i - 1 = from + (i - 1)
    BY Sizes
  <2>3. (from + i - 1) % Capacity \in 0..Capacity - 1
    BY <2>2, CellWraps
  <2>4. QED
    BY <2>3
<1>3. [i \in 1..available |-> data[(from + i - 1) % Capacity]] \in Seq(Samples)
      /\ Len([i \in 1..available |-> data[(from + i - 1) % Capacity]]) = available
  BY <1>2, Sizes
<1>4. QED
  BY <1>1, <1>3 DEF Contents

LEMMA EmptyIsBuffer == Empty \in Buffer /\ Contents(Empty) = <<>>
  BY Sizes DEF Empty, Buffer, Contents

-----------------------------------------------------------------------------
(* write *)

\* A chunk that fills the buffer replaces what is in it by its tail.
LEMMA WriteReplaces ==
    ASSUME NEW b \in Buffer, NEW chunk \in Seq(Samples), NEW n \in Nat, n = Len(chunk), n >= Capacity,
           NEW w, w = WriteChunk(b, chunk)
    PROVE  /\ w \in Buffer /\ w.available = Capacity
           /\ \A i \in 1..Capacity : Contents(w)[i] = chunk[n - Capacity + i]
<1>1. w = [data |-> [i \in 0..Capacity - 1 |-> chunk[n - Capacity + i + 1]],
           read_at |-> 0, available |-> Capacity]
  BY DEF WriteChunk, Replaced, Newest
<1>2. \A i \in 0..Capacity - 1 : chunk[n - Capacity + i + 1] \in Samples
  <2>1. \A i \in 0..Capacity - 1 : n - Capacity + i + 1 \in 1..n
    BY Sizes
  <2>2. QED
    BY <2>1, ElementOfSeq
<1>3. w \in Buffer
  BY <1>1, <1>2, Sizes DEF Buffer
<1>4. ASSUME NEW i \in 1..Capacity
      PROVE  w.data[(w.read_at + i - 1) % Capacity] = chunk[n - Capacity + i]
  <2>1. i - 1 \in 0..Capacity /\ 0 + i - 1 = i - 1 /\ 0 + (i - 1) = i - 1 /\ 0 \in 0..Capacity - 1
        /\ i - 1 < Capacity /\ i - 1 \in 0..Capacity - 1
    BY Sizes
  <2>2. (0 + (i - 1)) % Capacity = i - 1
    BY <2>1, CellWraps
  <2>3. w.data[i - 1] = chunk[n - Capacity + (i - 1) + 1]
    BY <1>1, <2>1
  <2>4. n - Capacity + (i - 1) + 1 = n - Capacity + i
    BY Sizes
  <2>5. QED
    BY <1>1, <2>1, <2>2, <2>3, <2>4
<1>5. QED
  BY <1>1, <1>3, <1>4 DEF Contents

\* The two slices of a chunk are the chunk, cell by cell from where it is laid down.
LEMMA LaidIs ==
    ASSUME NEW data \in [0..Capacity - 1 -> Samples], NEW at \in 0..Capacity - 1,
           NEW chunk \in Seq(Samples), NEW n \in Nat, n = Len(chunk), n < Capacity,
           NEW laid, laid = Laid(data, at, chunk)
    PROVE  /\ laid \in [0..Capacity - 1 -> Samples]
           /\ \A c \in 0..Capacity - 1 :
                 laid[c] = IF (c - at) % Capacity < n THEN chunk[((c - at) % Capacity) + 1] ELSE data[c]
<1>1. PICK first : first = Smaller(n, Capacity - at)
  OBVIOUS
<1>2. first \in 0..n /\ first = IF n <= Capacity - at THEN n ELSE Capacity - at
  BY <1>1, Sizes DEF Smaller
<1>3. laid = [i \in 0..Capacity - 1 |->
                IF at <= i /\ i < at + first THEN chunk[i - at + 1]
                ELSE IF i < n - first THEN chunk[first + i + 1] ELSE data[i]]
  BY <1>1 DEF Laid
<1>4. ASSUME NEW c \in 0..Capacity - 1
      PROVE  laid[c] = IF (c - at) % Capacity < n THEN chunk[((c - at) % Capacity) + 1] ELSE data[c]
  <2>1. c - at \in -Capacity..2 * Capacity - 1
    BY Sizes
  <2>2. (c - at) % Capacity = IF c - at < 0 THEN c - at + Capacity ELSE c - at
    BY <2>1, Wraps, Sizes
  <2>3. CASE at <= c
    <3>1. (c - at) % Capacity = c - at
      BY <2>2, <2>3, Sizes
    <3>2. (c < at + first) <=> (c - at < n)
      BY <1>2, <2>3, Sizes
    <3>3. ~(c < at + first) => ~(c < n - first)
      BY <1>2, <2>3, Sizes
    <3>4. QED
      BY <1>3, <2>3, <3>1, <3>2, <3>3
  <2>4. CASE ~(at <= c)
    <3>1. (c - at) % Capacity = c - at + Capacity
      BY <2>2, <2>4, Sizes
    <3>2. (c < n - first) <=> (c - at + Capacity < n)
      BY <1>2, <2>4, Sizes
    <3>3. c < n - first => first + c + 1 = c - at + Capacity + 1
      BY <1>2, <2>4, Sizes
    <3>4. QED
      BY <1>3, <2>4, <3>1, <3>2, <3>3
  <2>5. QED
    BY <2>3, <2>4
<1>5. ASSUME NEW c \in 0..Capacity - 1 PROVE laid[c] \in Samples
  <2>1. c - at \in -Capacity..2 * Capacity - 1
    BY Sizes
  <2>2. PICK d \in 0..Capacity - 1 : d = (c - at) % Capacity
    BY <2>1, Wraps, Sizes
  <2>3. d < n => d + 1 \in 1..n
    BY <2>2, Sizes
  <2>4. d < n => chunk[d + 1] \in Samples
    BY <2>3, ElementOfSeq
  <2>5. QED
    BY <1>4, <2>2, <2>4
<1>6. QED
  BY <1>3, <1>4, <1>5

\* A smaller one goes behind what is left when the oldest have made room.
LEMMA WriteAppends ==
    ASSUME NEW b \in Buffer, NEW chunk \in Seq(Samples), NEW n \in Nat, n = Len(chunk), n > 0,
           n < Capacity, NEW w, w = WriteChunk(b, chunk),
           NEW behind, behind = Larger(0, n - (Capacity - b.available)),
           NEW kept, kept = b.available - behind
    PROVE  /\ w \in Buffer /\ w.available = kept + n
           /\ behind \in 0..b.available
           /\ \A i \in 1..kept : Contents(w)[i] = Contents(b)[behind + i]
           /\ \A i \in kept + 1..kept + n : Contents(w)[i] = chunk[i - kept]
<1>1. b.available \in 0..Capacity /\ b.read_at \in 0..Capacity - 1
      /\ b.data \in [0..Capacity - 1 -> Samples]
  BY DEF Buffer
<1>2. /\ behind \in 0..Capacity /\ behind \in 0..b.available
      /\ kept \in 0..Capacity - 1 /\ kept + n \in 0..Capacity
  <2>1. PICK available \in 0..Capacity : available = b.available
    BY <1>1
  <2>2. behind = IF 0 >= n - (Capacity - available) THEN 0 ELSE n - (Capacity - available)
    BY <2>1 DEF Larger
  <2>3. behind \in 0..available /\ behind \in 0..Capacity /\ available - behind \in 0..Capacity - 1
        /\ available - behind + n \in 0..Capacity
    BY <2>2, Sizes
  <2>4. QED
    BY <2>1, <2>3
<1>3. PICK ra : ra = (b.read_at + behind) % Capacity
  OBVIOUS
<1>4. ra \in 0..Capacity - 1
  BY <1>1, <1>2, <1>3, CellWraps, Sizes
<1>5. PICK at : at = (ra + kept) % Capacity
  OBVIOUS
<1>a. at \in 0..Capacity - 1
  BY <1>2, <1>4, <1>5, CellWraps, Sizes
<1>6. w = [data |-> Laid(b.data, at, chunk), read_at |-> ra, available |-> kept + n]
  <2>1. ra + b.available - behind = ra + kept
    BY <1>1, <1>2, <1>4
  <2>2. ~(n >= Capacity)
    BY Sizes
  <2>3. QED
    BY <1>3, <1>5, <2>1, <2>2 DEF WriteChunk
<1>7. /\ w.read_at = ra /\ w.available = kept + n
      /\ w.data \in [0..Capacity - 1 -> Samples]
      /\ \A c \in 0..Capacity - 1 :
            w.data[c] = IF (c - at) % Capacity < n THEN chunk[((c - at) % Capacity) + 1] ELSE b.data[c]
  <2>1. w.data = Laid(b.data, at, chunk)
    BY <1>6
  <2>2. w.data \in [0..Capacity - 1 -> Samples]
        /\ \A c \in 0..Capacity - 1 :
              w.data[c] = IF (c - at) % Capacity < n THEN chunk[((c - at) % Capacity) + 1] ELSE b.data[c]
    BY <1>1, <1>a, <2>1, LaidIs
  <2>3. QED
    BY <1>6, <2>2
<1>8. w \in Buffer
  BY <1>2, <1>4, <1>6, <1>7 DEF Buffer
<1>9. ASSUME NEW i \in 1..kept + n, NEW cell, cell = (ra + (i - 1)) % Capacity
      PROVE  /\ cell \in 0..Capacity - 1
             /\ (cell - at) % Capacity = IF i <= kept THEN i - 1 - kept + Capacity ELSE i - 1 - kept
             /\ Contents(w)[i] = w.data[cell]
  <2>1. i - 1 \in 0..Capacity - 1 /\ ra + i - 1 = ra + (i - 1) /\ kept \in 0..Capacity
    BY <1>2, <1>4, Sizes
  <2>2. cell \in 0..Capacity - 1
    BY <1>4, <1>9, <2>1, CellWraps, Sizes
  <2>3. (cell - at) % Capacity = IF i - 1 < kept THEN i - 1 - kept + Capacity ELSE i - 1 - kept
    BY <1>4, <1>5, <1>9, <2>1, CellBehind
  <2>4. i - 1 < kept <=> i <= kept
    BY <1>2
  <2>5. Contents(w)[i] = w.data[cell]
    BY <1>7, <1>9, <2>1 DEF Contents
  <2>6. QED
    BY <2>2, <2>3, <2>4, <2>5
<1>10. ASSUME NEW i \in 1..kept
       PROVE  Contents(w)[i] = Contents(b)[behind + i]
  <2>1. PICK cell : cell = (ra + (i - 1)) % Capacity
    OBVIOUS
  <2>2. i \in 1..kept + n /\ i <= kept
    BY <1>2
  <2>3. cell \in 0..Capacity - 1 /\ (cell - at) % Capacity = i - 1 - kept + Capacity
        /\ Contents(w)[i] = w.data[cell]
    BY <1>9, <2>1, <2>2
  <2>4. ~(i - 1 - kept + Capacity < n)
    BY <1>2, Sizes
  <2>5. w.data[cell] = b.data[cell]
    BY <1>7, <2>3, <2>4
  <2>6. i - 1 \in 0..Capacity /\ behind + (i - 1) <= Capacity
        /\ b.read_at + (behind + i) - 1 = b.read_at + (behind + (i - 1))
        /\ behind + i \in 1..b.available
    <3>1. PICK available \in 0..Capacity, from \in 0..Capacity - 1 :
             available = b.available /\ from = b.read_at
      BY <1>1
    <3>2. kept = available - behind
      BY <3>1
    <3>3. behind \in 0..available /\ Capacity \in Nat /\ from \in Nat /\ i \in 1..available - behind
      BY <1>2, <3>1, <3>2, Sizes
    <3>4. i - 1 \in 0..Capacity /\ behind + (i - 1) <= Capacity
          /\ from + (behind + i) - 1 = from + (behind + (i - 1))
          /\ behind + i \in 1..available
      BY ONLY <3>3, available \in 0..Capacity
    <3>5. QED
      BY <3>1, <3>4
  <2>7. cell = (b.read_at + (behind + (i - 1))) % Capacity
    <3>1. \A from \in 0..Capacity - 1, d \in 0..Capacity, j \in 0..Capacity :
             d + j <= Capacity => (((from + d) % Capacity) + j) % Capacity = (from + (d + j)) % Capacity
      BY CellAgain
    <3>2. (((b.read_at + behind) % Capacity) + (i - 1)) % Capacity
             = (b.read_at + (behind + (i - 1))) % Capacity
      BY ONLY <1>1, <1>2, <2>6, <3>1
    <3>3. QED
      BY ONLY <1>3, <2>1, <3>2
  <2>8. Contents(b)[behind + i] = b.data[cell]
    BY <2>6, <2>7 DEF Contents
  <2>9. QED
    BY <2>3, <2>5, <2>8
<1>11. ASSUME NEW i \in kept + 1..kept + n
       PROVE  Contents(w)[i] = chunk[i - kept]
  <2>1. PICK cell : cell = (ra + (i - 1)) % Capacity
    OBVIOUS
  <2>2. i \in 1..kept + n /\ ~(i <= kept) /\ i - 1 - kept < n
        /\ i - 1 - kept + 1 = i - kept
    BY <1>2
  <2>3. cell \in 0..Capacity - 1 /\ (cell - at) % Capacity = i - 1 - kept
        /\ Contents(w)[i] = w.data[cell]
    BY <1>9, <2>1, <2>2
  <2>4. QED
    BY <1>7, <2>2, <2>3
<1>12. QED
  BY <1>2, <1>7, <1>8, <1>10, <1>11

\* The newest samples of a sequence, as many as a buffer holds.
NewestOnes(s) == IF Len(s) <= Capacity THEN s ELSE SubSeq(s, Len(s) - Capacity + 1, Len(s))

LEMMA NewestOf ==
    ASSUME NEW s \in Seq(Samples), NEW t \in Seq(Samples),
           NEW d \in Nat, d = Larger(0, Len(s) - Capacity), Len(t) = Len(s) - d,
           \A i \in 1..Len(t) : t[i] = s[d + i]
    PROVE  t = NewestOnes(s)
<1>0. Len(s) \in Nat /\ Len(t) \in Nat
  OBVIOUS
<1>1. CASE Len(s) <= Capacity
  <2>1. d = 0
    BY <1>0, <1>1, Sizes DEF Larger
  <2>2. \A i \in 1..Len(t) : t[i] = s[i]
    BY <1>0, <2>1
  <2>3. t = s
    BY <1>0, <2>1, <2>2, SeqEqual
  <2>4. QED
    BY <1>1, <2>3 DEF NewestOnes
<1>2. CASE ~(Len(s) <= Capacity)
  <2>1. d = Len(s) - Capacity
    BY <1>0, <1>2, Sizes DEF Larger
  <2>2. d + 1 \in Int /\ d + 1 >= 1 /\ d + 1 <= Len(s) /\ \A i \in d + 1..Len(s) : s[i] \in Samples
    BY <1>0, <1>2, <2>1, Sizes
  <2> DEFINE u == SubSeq(s, d + 1, Len(s))
  <2>3. u \in Seq(Samples) /\ Len(u) = Len(s) - (d + 1) + 1
        /\ \A i \in 1..Len(s) - (d + 1) + 1 : u[i] = s[d + 1 + i - 1]
    BY <1>0, <2>2, SubSeqProperties
  <2> HIDE DEF u
  <2>4. Len(u) = Len(t) /\ \A i \in 1..Len(t) : u[i] = s[d + i]
    <3>1. Len(u) = Len(t)
      BY <1>0, <2>1, <2>3
    <3>2. \A i \in 1..Len(t) : i \in 1..Len(s) - (d + 1) + 1 /\ d + 1 + i - 1 = d + i
      BY <1>0, <2>1
    <3>3. QED
      BY <2>3, <3>1, <3>2
  <2>5. t = u
    BY <2>3, <2>4, SeqEqual
  <2>6. QED
    BY <1>0, <1>2, <2>1, <2>5, Sizes DEF u, NewestOnes
<1>3. QED
  BY <1>1, <1>2

\* The samples of a buffer with a chunk behind them.
Extended(b, chunk) == Contents(b) \o chunk

LEMMA Appended ==
    ASSUME NEW b \in Buffer, NEW chunk \in Seq(Samples), NEW n \in Nat, n = Len(chunk),
           NEW available \in 0..Capacity, available = b.available
    PROVE  /\ Extended(b, chunk) \in Seq(Samples) /\ Len(Extended(b, chunk)) = available + n
           /\ \A i \in 1..available : Extended(b, chunk)[i] = Contents(b)[i]
           /\ \A i \in available + 1..available + n : Extended(b, chunk)[i] = chunk[i - available]
<1>1. PICK c \in Seq(Samples) : c = Contents(b) /\ Len(c) = available
  BY ContentsAreSamples
<1>2. c \o chunk \in Seq(Samples) /\ Len(c \o chunk) = available + n
      /\ \A i \in 1..available + n :
            (c \o chunk)[i] = IF i <= available THEN c[i] ELSE chunk[i - available]
  <2>1. c \o chunk \in Seq(Samples) /\ Len(c \o chunk) = Len(c) + Len(chunk)
        /\ \A i \in 1..Len(c) + Len(chunk) :
              (c \o chunk)[i] = IF i <= Len(c) THEN c[i] ELSE chunk[i - Len(c)]
    BY ConcatProperties
  <2>2. QED
    BY ONLY <1>1, <2>1, n = Len(chunk)
<1>0. available \in Nat /\ n \in Nat
  BY Sizes
<1>4. \A i \in 1..available : i \in 1..available + n /\ i <= available
  BY ONLY <1>0
<1>5. \A i \in available + 1..available + n : i \in 1..available + n /\ ~(i <= available)
  BY ONLY <1>0
<1>6. Extended(b, chunk) = c \o chunk
  BY <1>1 DEF Extended
<1>7. QED
  BY <1>1, <1>2, <1>4, <1>5, <1>6

\* Of what was there and a chunk behind it, the newest samples are kept.
LEMMA WriteIsPut ==
    ASSUME NEW b \in Buffer, NEW chunk \in Seq(Samples), NEW n \in Nat, n = Len(chunk), n > 0,
           NEW w, w = WriteChunk(b, chunk)
    PROVE  w \in Buffer /\ Contents(w) = NewestOnes(Extended(b, chunk))
<1>1. PICK s : s = Extended(b, chunk)
  OBVIOUS
<1>2. PICK available \in 0..Capacity : available = b.available
  BY DEF Buffer
<1>3. /\ Len(s) = available + n /\ s \in Seq(Samples)
      /\ \A i \in 1..available : s[i] = Contents(b)[i]
      /\ \A i \in available + 1..available + n : s[i] = chunk[i - available]
  <2>1. /\ Len(Extended(b, chunk)) = available + n /\ Extended(b, chunk) \in Seq(Samples)
        /\ \A i \in 1..available : Extended(b, chunk)[i] = Contents(b)[i]
        /\ \A i \in available + 1..available + n : Extended(b, chunk)[i] = chunk[i - available]
    BY <1>2, Appended
  <2>2. QED
    BY <1>1, <2>1
<1>4. CASE n >= Capacity
  <2>1. /\ w \in Buffer /\ w.available = Capacity
        /\ \A i \in 1..Capacity : Contents(w)[i] = chunk[n - Capacity + i]
    BY <1>4, WriteReplaces
  <2>2. Contents(w) \in Seq(Samples) /\ Len(Contents(w)) = Capacity
    BY <2>1, ContentsAreSamples
  <2>3. PICK d \in Nat : d = available + n - Capacity
    BY <1>4, Sizes
  <2>4. d = Larger(0, Len(s) - Capacity) /\ Len(Contents(w)) = Len(s) - d
    BY <1>3, <1>4, <2>2, <2>3, Sizes DEF Larger
  <2>5. ASSUME NEW i \in 1..Len(Contents(w))
        PROVE  Contents(w)[i] = s[d + i]
    <3>1. i \in 1..Capacity /\ d + i \in available + 1..available + n
          /\ d + i - available = n - Capacity + i
      BY <1>4, <2>2, <2>3, Sizes
    <3>2. Contents(w)[i] = chunk[n - Capacity + i]
      BY <2>1, <3>1
    <3>3. s[d + i] = chunk[d + i - available]
      BY <1>3, <3>1
    <3>4. QED
      BY ONLY <3>1, <3>2, <3>3
  <2>6. Contents(w) = NewestOnes(s)
    BY <1>3, <2>2, <2>4, <2>5, NewestOf
  <2>7. QED
    BY <1>1, <2>1, <2>6
<1>5. CASE ~(n >= Capacity)
  <2>1. PICK behind, kept : /\ behind = Larger(0, n - (Capacity - b.available))
                            /\ kept = b.available - behind
    OBVIOUS
  <2>0. n < Capacity
    BY <1>5, Sizes
  <2>2. /\ w \in Buffer /\ w.available = kept + n
        /\ behind \in 0..b.available
        /\ \A i \in 1..kept : Contents(w)[i] = Contents(b)[behind + i]
        /\ \A i \in kept + 1..kept + n : Contents(w)[i] = chunk[i - kept]
    BY <2>0, <2>1, WriteAppends
  <2>3. Contents(w) \in Seq(Samples) /\ Len(Contents(w)) = kept + n
    BY <2>2, ContentsAreSamples
  <2>4. behind \in 0..available /\ kept = available - behind
    BY <1>2, <2>1, <2>2
  <2>5. behind \in Nat /\ behind = Larger(0, Len(s) - Capacity)
        /\ Len(Contents(w)) = Len(s) - behind
    <3>1. n - (Capacity - available) = Len(s) - Capacity
      BY <1>3, Sizes
    <3>2. behind = Larger(0, Len(s) - Capacity)
      BY <1>2, <2>1, <3>1
    <3>3. behind \in Nat /\ kept + n = available + n - behind
      BY ONLY <2>4, available \in 0..Capacity, n \in Nat
    <3>4. QED
      BY ONLY <1>3, <2>3, <3>2, <3>3
  <2>6. ASSUME NEW i \in 1..Len(Contents(w))
        PROVE  Contents(w)[i] = s[behind + i]
    <3>1. i \in 1..kept + n /\ kept \in Nat
      BY <2>3, <2>4, Sizes
    <3>2. CASE i <= kept
      <4>1. i \in 1..kept /\ behind + i \in 1..available
        BY <2>4, <3>1, <3>2
      <4>2. QED
        BY <1>3, <2>2, <4>1
    <3>3. CASE ~(i <= kept)
      <4>1. i \in kept + 1..kept + n /\ behind + i \in available + 1..available + n
            /\ (behind + i) - available = i - kept
        BY <2>4, <3>1, <3>3
      <4>2. Contents(w)[i] = chunk[i - kept]
        BY <2>2, <4>1
      <4>3. s[behind + i] = chunk[(behind + i) - available]
        <5>1. \A j \in available + 1..available + n : s[j] = chunk[j - available]
          BY <1>3
        <5>2. QED
          BY ONLY <4>1, <5>1
      <4>4. chunk[(behind + i) - available] = chunk[i - kept]
        BY ONLY <4>1
      <4>5. QED
        BY ONLY <4>2, <4>3, <4>4
    <3>4. QED
      BY <3>2, <3>3
  <2>7. Contents(w) = NewestOnes(s)
    BY <1>3, <2>3, <2>5, <2>6, NewestOf
  <2>8. QED
    BY <1>1, <2>2, <2>7
<1>6. QED
  BY <1>4, <1>5

\* What is written is a sequence of samples, and not an empty one.
LEMMA ChunksAreSequences ==
    ASSUME NEW chunk \in Chunks
    PROVE  chunk \in Seq(Samples) /\ Len(chunk) \in Nat /\ Len(chunk) > 0
<1>1. PICK n \in 1..MaxChunk : chunk \in [1..n -> Samples]
  BY DEF Chunks
<1>2. chunk \in Seq(Samples) /\ Len(chunk) = n
  BY <1>1, Sizes
<1>3. QED
  BY <1>2, Sizes
-----------------------------------------------------------------------------
(* read *)

LEMMA ReadIsTake ==
    ASSUME NEW b \in Buffer, NEW w, w = AfterRead(b)
    PROVE  /\ w \in Buffer
           /\ BlockOf(b) = [i \in 1..Block |-> IF i <= Len(Contents(b)) THEN Contents(b)[i] ELSE 0]
           /\ Contents(w) = SubSeq(Contents(b), Block + 1, Len(Contents(b)))
<1>0. Contents(b) \in Seq(Samples) /\ Len(Contents(b)) = b.available
  BY ContentsAreSamples
<1>1. PICK available \in 0..Capacity, from \in 0..Capacity - 1 :
         available = b.available /\ from = b.read_at
  BY DEF Buffer
<1>2. PICK have : have = Smaller(Block, available)
  OBVIOUS
<1>3. have \in 0..available /\ have \in 0..Capacity
      /\ have = IF Block <= available THEN Block ELSE available
  BY <1>2, Sizes DEF Smaller
<1>4. w = [b EXCEPT !.read_at = (from + have) % Capacity, !.available = available - have]
  BY <1>1, <1>2 DEF AfterRead
<1>5. w \in Buffer /\ w.data = b.data
      /\ w.read_at = (from + have) % Capacity /\ w.available = available - have
  <2>1. (from + have) % Capacity \in 0..Capacity - 1 /\ available - have \in 0..Capacity
    BY <1>3, CellWraps, Sizes
  <2>2. QED
    BY <1>4, <2>1 DEF Buffer
<1>6. BlockOf(b) = [i \in 1..Block |-> IF i <= Len(Contents(b)) THEN Contents(b)[i] ELSE 0]
  <2>1. ASSUME NEW i \in 1..Block, i <= available
        PROVE  Contents(b)[i] = b.data[(b.read_at + i - 1) % Capacity]
    <3>1. i \in 1..available
      BY <2>1, Sizes
    <3>2. QED
      BY <1>1, <3>1 DEF Contents
  <2>2. QED
    BY <1>0, <1>1, <2>1 DEF BlockOf
<1>7. Contents(w) \in Seq(Samples) /\ Len(Contents(w)) = available - have
  BY <1>5, ContentsAreSamples
<1>8. ASSUME NEW i \in 1..available - have
      PROVE  Contents(w)[i] = Contents(b)[have + i]
  <2>1. have + i \in 1..available /\ i - 1 \in 0..Capacity /\ have + (i - 1) <= Capacity
    BY <1>3, Sizes
  <2>2. PICK ra \in 0..Capacity - 1 : ra = (from + have) % Capacity
    BY <1>3, CellWraps
  <2>3. ra + i - 1 = ra + (i - 1) /\ from + (have + i) - 1 = from + (have + (i - 1))
    BY <1>3, Sizes
  <2>4. (ra + (i - 1)) % Capacity = (from + (have + (i - 1))) % Capacity
    BY <1>3, <2>1, <2>2, CellAgain
  <2>5. Contents(w)[i] = b.data[(ra + i - 1) % Capacity]
    BY <1>5, <2>2 DEF Contents
  <2>6. Contents(b)[have + i] = b.data[(from + (have + i) - 1) % Capacity]
    BY <1>1, <2>1 DEF Contents
  <2>7. QED
    BY <2>3, <2>4, <2>5, <2>6
<1>9. Contents(w) = SubSeq(Contents(b), Block + 1, Len(Contents(b)))
  <2>1. CASE available <= Block
    <3>1. available - have = 0
      BY <1>3, <2>1, Sizes
    <3>2. Contents(w) = <<>>
      BY <1>7, <3>1, EmptySeq
    <3>3. SubSeq(Contents(b), Block + 1, available) = <<>>
      BY <2>1, Sizes, SubSeqEmpty
    <3>4. QED
      BY <1>0, <1>1, <3>2, <3>3
  <2>2. CASE ~(available <= Block)
    <3>1. have = Block /\ available - have \in Nat
      BY <1>3, <2>2, Sizes
    <3>2. \A i \in Block + 1..available : Contents(b)[i] \in Samples
      <4>1. \A i \in Block + 1..available : i \in 1..available
        BY Sizes
      <4>2. QED
        BY <1>0, <1>1, <4>1, ElementOfSeq
    <3> DEFINE u == SubSeq(Contents(b), Block + 1, available)
    <3>3. u \in Seq(Samples) /\ Len(u) = available - (Block + 1) + 1
          /\ \A i \in 1..available - (Block + 1) + 1 : u[i] = Contents(b)[Block + 1 + i - 1]
      BY <2>2, <3>2, Sizes, SubSeqProperties
    <3> HIDE DEF u
    <3>4. Len(u) = available - have
      BY <3>1, <3>3, Sizes
    <3>5. \A i \in 1..available - have :
             i \in 1..available - (Block + 1) + 1 /\ Block + 1 + i - 1 = have + i
      BY <3>1, Sizes
    <3>6. \A i \in 1..available - have : Contents(w)[i] = u[i]
      BY <1>8, <3>3, <3>5
    <3>7. Contents(w) = u
      BY <1>7, <3>3, <3>4, <3>6, SeqEqual
    <3>8. QED
      BY <1>0, <1>1, <3>7 DEF u
  <2>3. QED
    BY <2>1, <2>2
<1>10. QED
  BY <1>5, <1>6, <1>9
-----------------------------------------------------------------------------
(* The steps *)

LEMMA ReadSays ==
    Read => /\ sources' = [k \in DOMAIN sources |-> AfterRead(sources[k])]
            /\ blocks' = [k \in Keys |-> IF k \in DOMAIN sources THEN BlockOf(sources[k])
                                         ELSE blocks[k]]
            /\ wrote' = Nothing
  BY Zenon DEF Read

LEMMA InitInv == Init => Inv
  BY DEF Init, Inv

LEMMA NextInv == Inv /\ [Next]_vars => Inv'
<1> SUFFICES ASSUME Inv, [Next]_vars PROVE Inv'
  OBVIOUS
<1> USE DEF Inv
<1>1. ASSUME NEW k \in Keys, Add(k)
      PROVE  Inv'
  BY <1>1, EmptyIsBuffer DEF Add, With, Known
<1>2. ASSUME NEW k \in Keys, Remove(k)
      PROVE  Inv'
  BY <1>2 DEF Remove, Without
<1>3. ASSUME NEW k \in Keys, NEW chunk \in Chunks, Write(k, chunk)
      PROVE  Inv'
  <2>1. PICK b \in Buffer : b = IF Known(k) THEN sources[k] ELSE Empty
    BY EmptyIsBuffer DEF Known
  <2>2. WriteChunk(b, chunk) \in Buffer
    BY ChunksAreSequences, WriteIsPut
  <2>3. sources' = With(sources, k, WriteChunk(b, chunk))
    BY <1>3, <2>1 DEF Write
  <2>4. QED
    BY <2>2, <2>3 DEF With
<1>4. CASE Read
  <2>1. sources' = [k \in DOMAIN sources |-> AfterRead(sources[k])]
    BY <1>4, ReadSays
  <2>2. QED
    BY <2>1, ReadIsTake
<1>5. CASE UNCHANGED vars
  BY <1>5 DEF vars
<1>6. QED
  BY <1>1, <1>2, <1>3, <1>4, <1>5 DEF Next

\* What is held for a participant, before and after a step.
LEMMA HeldIs ==
    ASSUME NEW k \in Keys
    PROVE  /\ Held(k) = IF Known(k) THEN Contents(sources[k]) ELSE <<>>
           /\ Held(k)' = IF Known(k)' THEN Contents(sources'[k]) ELSE <<>>
  BY DEF Held, Known, Contents

LEMMA WriteImplementsPut ==
    ASSUME Inv, NEW k \in Keys, NEW chunk \in Chunks, Write(k, chunk)
    PROVE  Queue(k)!Put
<1>1. PICK b \in Buffer : b = IF Known(k) THEN sources[k] ELSE Empty
  BY EmptyIsBuffer DEF Known, Inv
<1>2. PICK w : w = WriteChunk(b, chunk)
  OBVIOUS
<1>3. Known(k)' /\ sources'[k] = w /\ blocks' = blocks /\ Given(k)' = chunk
  BY <1>1, <1>2 DEF Write, With, Known, Given
<1>4. Held(k) = Contents(b) /\ Held(k)' = Contents(w)
  BY <1>1, <1>3, HeldIs, EmptyIsBuffer
<1>5. Contents(w) = NewestOnes(Extended(b, chunk))
  BY <1>2, ChunksAreSequences, WriteIsPut
<1>6. QED
  BY <1>3, <1>4, <1>5 DEF Queue!Put, Queue!Newest, NewestOnes, Extended

LEMMA ReadImplementsTake ==
    ASSUME Inv, NEW k \in Keys, Read, Known(k)
    PROVE  Queue(k)!Take
<1>1. PICK b, w : b \in Buffer /\ b = sources[k] /\ w = AfterRead(b)
  BY DEF Known, Inv
<1>2. Known(k)' /\ sources'[k] = w /\ blocks'[k] = BlockOf(b) /\ Given(k)' = <<>>
  BY <1>1, ReadSays DEF Known, Given, Nothing
<1>3. Held(k) = Contents(b) /\ Held(k)' = Contents(w)
  BY <1>1, <1>2, HeldIs
<1>4. QED
  BY <1>1, <1>2, <1>3, ReadIsTake DEF Queue!Take

LEMMA StepsAreQueueSteps ==
    ASSUME Inv, [Next]_vars, NEW k \in Keys
    PROVE  Queue(k)!QueueStep
<1> USE DEF Queue!QueueStep
<1> USE DEF Queue!Keep, Given, Nothing
<1>1. ASSUME NEW j \in Keys, Add(j) PROVE Queue(k)!QueueStep
  <2>1. Held(k)' = Held(k)
    BY <1>1, HeldIs, EmptyIsBuffer DEF Add, With, Known
  <2>2. QED
    BY <1>1, <2>1 DEF Add
<1>2. ASSUME NEW j \in Keys, Remove(j) PROVE Queue(k)!QueueStep
  <2>1. CASE j = k
    <3>1. Held(k)' = <<>> /\ blocks' = blocks /\ Given(k)' = <<>>
      BY <1>2, <2>1, HeldIs DEF Remove, Without, Known
    <3>2. QED
      BY <3>1 DEF Queue!Clear
  <2>2. CASE j # k
    <3>1. Held(k)' = Held(k) /\ blocks' = blocks /\ Given(k)' = <<>>
      BY <1>2, <2>2, HeldIs DEF Remove, Without, Known
    <3>2. QED
      BY <3>1
  <2>3. QED
    BY <2>1, <2>2
<1>3. ASSUME NEW j \in Keys, NEW chunk \in Chunks, Write(j, chunk)
      PROVE  Queue(k)!QueueStep
  <2>1. CASE j = k
    BY <1>3, <2>1, WriteImplementsPut
  <2>2. CASE j # k
    <3>1. Held(k)' = Held(k) /\ blocks' = blocks /\ Given(k)' = <<>>
      BY <1>3, <2>2, HeldIs DEF Write, With, Known
    <3>2. QED
      BY <3>1
  <2>3. QED
    BY <2>1, <2>2
<1>4. CASE Read
  <2>1. CASE Known(k)
    BY <1>4, <2>1, ReadImplementsTake
  <2>2. CASE ~Known(k)
    <3>1. Held(k)' = Held(k) /\ blocks'[k] = blocks[k] /\ Given(k)' = <<>>
      BY <1>4, <2>2, HeldIs, ReadSays DEF Known
    <3>2. QED
      BY <3>1
  <2>3. QED
    BY <2>1, <2>2
<1>5. CASE UNCHANGED vars
  BY <1>5 DEF vars, Held
<1>6. QED
  BY <1>1, <1>2, <1>3, <1>4, <1>5 DEF Next

\* The buffer of every participant is always one write can have left behind.
THEOREM BuffersStayInShape == Spec => []Inv
  BY InitInv, NextInv, PTL DEF Spec

\* For every capacity and block, and any chunks of any samples: the buffer of a
\* participant, with its wrapped positions, its overruns and underruns, is a queue that
\* gives what was written back in order and forgets only the oldest.
THEOREM BuffersAreQueues == Spec => SourcesAreQueues
<1>1. Init => \A k \in Keys : Queue(k)!QueueInit
  BY DEF Init, Held, Given, Nothing, Queue!QueueInit
<1>2. Inv /\ [Next]_vars => [\A k \in Keys : Queue(k)!QueueStep]_vars
  BY StepsAreQueueSteps
<1>3. QED
  BY <1>1, <1>2, BuffersStayInShape, PTL DEF Spec, SourcesAreQueues
-----------------------------------------------------------------------------
(* What a block sums up to, and how loud it is. *)

\* u is the sum of v over every set of participants, one picked after the other.
First(S) == CHOOSE x \in S : TRUE
Added(u, v) == [S \in SUBSET DOMAIN v |-> IF S = {} THEN 0 ELSE v[First(S)] + u[S \ {First(S)}]]
IsSum(u, v) == u = Added(u, v)

LEMMA FirstOf ==
    ASSUME NEW S, S # {}
    PROVE  First(S) \in S
  BY DEF First

LEMMA OneLess ==
    ASSUME NEW K, IsFiniteSet(K), NEW S \in SUBSET K, S # {}
    PROVE  /\ S \ {First(S)} \in SUBSET K
           /\ Cardinality(S) \in Nat /\ Cardinality(S \ {First(S)}) = Cardinality(S) - 1
<1>1. IsFiniteSet(S) /\ Cardinality(S) \in Nat
  BY FS_Subset, FS_CardinalityType
<1>2. Cardinality(S \ {First(S)}) = Cardinality(S) - 1
  BY <1>1, FirstOf, FS_RemoveElement
<1>3. QED
  BY <1>1, <1>2

LEMMA AddedStaysInShape ==
    ASSUME NEW K, NEW v \in [K -> Int], NEW u \in [SUBSET K -> Int]
    PROVE  Added(u, v) \in [SUBSET K -> Int]
<1>1. ASSUME NEW S \in SUBSET K, S # {}
      PROVE  v[First(S)] \in Int /\ u[S \ {First(S)}] \in Int
  BY <1>1, FirstOf
<1>2. QED
  BY <1>1 DEF Added

\* Adding goes on until the sums of all sets no larger than n are right.
RightUpTo(u, v, n) == \A S \in SUBSET DOMAIN v : Cardinality(S) <= n => u[S] = Added(u, v)[S]

LEMMA SumExists ==
    ASSUME NEW K, IsFiniteSet(K), NEW v \in [K -> Int]
    PROVE  \E u \in [SUBSET K -> Int] : IsSum(u, v)
<1> DEFINE N == {n \in Nat : \E u \in [SUBSET K -> Int] : RightUpTo(u, v, n)}
<1>1. 0 \in N
  <2> DEFINE u == [S \in SUBSET K |-> 0]
  <2>1. \A S \in SUBSET K : Cardinality(S) <= 0 => S = {}
    <3> SUFFICES ASSUME NEW S \in SUBSET K, Cardinality(S) <= 0, S # {} PROVE FALSE
      OBVIOUS
    <3>1. Cardinality(S) \in Nat /\ Cardinality(S \ {First(S)}) = Cardinality(S) - 1
          /\ S \ {First(S)} \in SUBSET K
      BY OneLess
    <3>2. Cardinality(S \ {First(S)}) \in Nat
      BY <3>1, FS_Subset, FS_CardinalityType
    <3>3. QED
      BY <3>1, <3>2
  <2>2. RightUpTo(u, v, 0)
    BY <2>1 DEF RightUpTo, Added
  <2>3. u \in [SUBSET K -> Int]
    OBVIOUS
  <2>4. QED
    BY <2>2, <2>3
<1>2. ASSUME NEW n \in N PROVE n + 1 \in N
  <2>1. PICK u \in [SUBSET K -> Int] : RightUpTo(u, v, n)
    OBVIOUS
  <2>2. PICK g \in [SUBSET K -> Int] : g = Added(u, v)
    BY AddedStaysInShape
  <2>3. ASSUME NEW S \in SUBSET K, Cardinality(S) <= n + 1
        PROVE  g[S] = Added(g, v)[S]
    <3>1. CASE S = {}
      BY <2>2, <3>1 DEF Added
    <3>2. CASE S # {}
      <4> DEFINE R == S \ {First(S)}
      <4>1. R \in SUBSET K /\ Cardinality(R) <= n
        BY <2>3, <3>2, OneLess
      <4>2. g[R] = u[R]
        BY <2>1, <2>2, <4>1 DEF RightUpTo
      <4>3. g[S] = v[First(S)] + u[R] /\ Added(g, v)[S] = v[First(S)] + g[R]
        BY <2>2, <3>2 DEF Added
      <4>4. QED
        BY <4>2, <4>3
    <3>3. QED
      BY <3>1, <3>2
  <2>4. RightUpTo(g, v, n + 1)
    BY <2>3 DEF RightUpTo
  <2>5. QED
    BY <2>2, <2>4
<1>3. N = Nat
  <2> HIDE DEF N
  <2>1. N \in SUBSET Nat
    BY DEF N
  <2>2. QED
    BY <1>1, <1>2, <2>1, Induct
<1>4. Cardinality(K) \in N
  BY <1>3, FS_CardinalityType
<1>5. PICK u \in [SUBSET K -> Int] : RightUpTo(u, v, Cardinality(K))
  BY <1>4
<1>6. \A S \in SUBSET K : u[S] = Added(u, v)[S]
  BY <1>5, FS_Subset DEF RightUpTo
<1>7. u = Added(u, v)
  <2>1. Added(u, v) \in [SUBSET K -> Int]
    BY AddedStaysInShape
  <2>2. QED
    BY <1>6, <2>1
<1>8. QED
  BY <1>7 DEF IsSum

\* Whatever satisfies the equation of a sum is one.
LEMMA SumsAreInts ==
    ASSUME NEW K, IsFiniteSet(K), NEW v \in [K -> Int], NEW u, IsSum(u, v)
    PROVE  u[K] \in Int
<1> DEFINE N == {n \in Nat : \A S \in SUBSET K : Cardinality(S) = n => u[S] \in Int}
<1>0. ASSUME NEW S \in SUBSET K
      PROVE  /\ S = {} => u[S] = 0
             /\ S # {} => u[S] = v[First(S)] + u[S \ {First(S)}]
  <2>1. Added(u, v)[S] = IF S = {} THEN 0 ELSE v[First(S)] + u[S \ {First(S)}]
    BY DEF Added
  <2>2. u[S] = Added(u, v)[S]
    BY Zenon DEF IsSum
  <2>3. QED
    BY <2>1, <2>2
<1>1. 0 \in N
  <2>1. \A S \in SUBSET K : Cardinality(S) = 0 => S = {}
    BY FS_Subset, FS_EmptySet
  <2>2. \A S \in SUBSET K : Cardinality(S) = 0 => u[S] = 0
    BY <1>0, <2>1, Zenon
  <2>3. QED
    BY <2>2
<1>2. ASSUME NEW n \in N PROVE n + 1 \in N
  <2> SUFFICES ASSUME NEW S \in SUBSET K, Cardinality(S) = n + 1 PROVE u[S] \in Int
    OBVIOUS
  <2>1. CASE S = {}
    <3>1. u[S] = 0
      BY <1>0, <2>1, Zenon
    <3>2. QED
      BY ONLY <3>1
  <2>2. CASE S # {}
    <3>1. S \ {First(S)} \in SUBSET K /\ Cardinality(S \ {First(S)}) = n
      BY <2>2, OneLess
    <3>2. u[S \ {First(S)}] \in Int
      BY <3>1
    <3>3. v[First(S)] \in Int
      BY <2>2, FirstOf
    <3>4. u[S] = v[First(S)] + u[S \ {First(S)}]
      BY <1>0, <2>2
    <3>5. QED
      BY ONLY <3>2, <3>3, <3>4
  <2>3. QED
    BY <2>1, <2>2
<1>3. N = Nat
  <2> HIDE DEF N
  <2>1. N \in SUBSET Nat
    BY DEF N
  <2>2. QED
    BY <1>1, <1>2, <2>1, Induct
<1>4. Cardinality(K) \in N
  BY <1>3, FS_CardinalityType
<1>5. QED
  BY <1>4

LEMMA TotalIsInt ==
    ASSUME NEW K, IsFiniteSet(K), NEW v \in [K -> Int]
    PROVE  Total(v) \in Int
<1> DEFINE sum == CHOOSE u : IsSum(u, v)
<1>1. IsSum(sum, v)
  BY SumExists
<1>2. sum[K] \in Int
  <2> HIDE DEF sum
  <2> QED
    BY <1>1, SumsAreInts
<1>3. Total(v) = sum[DOMAIN v]
  BY Zenon DEF Total, IsSum, Added, First
<1>4. QED
  BY <1>2, <1>3

\* Of finitely many numbers one is the largest.
LEMMA LargestOf ==
    ASSUME NEW n \in Nat, n > 0, NEW a \in [1..n -> Int]
    PROVE  \E j \in 1..n : \A i \in 1..n : a[i] <= a[j]
<1> DEFINE N == {m \in Nat : m < n => \E j \in 1..m + 1 : \A i \in 1..m + 1 : a[i] <= a[j]}
<1>1. 0 \in N
  <2>1. \A i \in 1..0 + 1 : i = 1
    OBVIOUS
  <2>2. a[1] \in Int
    OBVIOUS
  <2>3. 1 \in 1..0 + 1
    OBVIOUS
  <2>4. \A i \in 1..0 + 1 : a[i] <= a[1]
    BY <2>1, <2>2
  <2>5. QED
    BY <2>3, <2>4
<1>2. ASSUME NEW m \in N PROVE m + 1 \in N
  <2> SUFFICES ASSUME m + 1 < n
               PROVE  \E j \in 1..m + 2 : \A i \in 1..m + 2 : a[i] <= a[j]
    OBVIOUS
  <2>1. PICK j \in 1..m + 1 : \A i \in 1..m + 1 : a[i] <= a[j]
    OBVIOUS
  <2>2. m + 2 \in 1..n /\ a[m + 2] \in Int /\ j \in 1..n /\ a[j] \in Int /\ m \in Nat
    OBVIOUS
  <2>3. \A i \in 1..m + 2 : i \in 1..n /\ a[i] \in Int /\ (i \in 1..m + 1 \/ i = m + 2)
    BY <2>2
  <2>4. CASE a[m + 2] <= a[j]
    <3>1. \A i \in 1..m + 2 : a[i] <= a[j]
      BY <2>1, <2>2, <2>3, <2>4
    <3>2. j \in 1..m + 2
      BY <2>2
    <3>3. QED
      BY ONLY <3>1, <3>2
  <2>5. CASE a[j] <= a[m + 2]
    <3>1. ASSUME NEW i \in 1..m + 2 PROVE a[i] <= a[m + 2]
      BY ONLY <2>1, <2>2, <2>3, <2>5, <3>1, m \in Nat
    <3>2. m + 2 \in 1..m + 2
      BY <2>2
    <3>3. QED
      BY ONLY <3>1, <3>2
  <2>6. QED
    BY <2>2, <2>4, <2>5
<1>3. N = Nat
  <2> HIDE DEF N
  <2>1. N \in SUBSET Nat
    BY DEF N
  <2>2. QED
    BY <1>1, <1>2, <2>1, Induct
<1>4. n - 1 \in Nat /\ n - 1 < n /\ n - 1 + 1 = n
  OBVIOUS
<1>5. n - 1 \in N
  BY <1>3, <1>4
<1>6. QED
  BY <1>4, <1>5

LEMMA PeakIsNat ==
    ASSUME NEW block \in [1..Block -> Int]
    PROVE  Peak(block) \in Nat
<1> DEFINE a == [i \in 1..Block |-> Larger(block[i], -block[i])]
           M == {Larger(block[i], -block[i]) : i \in 1..Block}
<1>1. \A i \in 1..Block : a[i] \in Nat
  BY DEF Larger
<1>2. Block \in Nat /\ Block > 0
  BY MixingAssumption
<1>3. PICK j \in 1..Block : \A i \in 1..Block : a[i] <= a[j]
  <2>1. a \in [1..Block -> Int]
    BY <1>1
  <2>2. QED
    BY <1>2, <2>1, LargestOf
<1>4. \E m \in M : \A n \in M : n <= m
  BY <1>3
<1>5. Peak(block) \in M
  BY <1>4 DEF Peak
<1>6. QED
  BY <1>1, <1>5
-----------------------------------------------------------------------------
(* The gain *)

LEMMA Quotient ==
    ASSUME NEW a \in Nat, NEW b \in Nat, b > 0
    PROVE  a \div b \in Nat /\ b * (a \div b) <= a
  OBVIOUS

\* What a block needs brings its peak under the ceiling.
LEMMA NeededFits ==
    ASSUME NEW peak \in Nat
    PROVE  Needed(peak) \in 0..100 /\ peak * Needed(peak) <= 100 * Ceiling
<1>1. PICK c \in Nat : c = Ceiling
  BY MixingAssumption
<1>2. CASE peak <= c
  <2>1. Needed(peak) = 100
    BY <1>1, <1>2 DEF Needed
  <2>2. QED
    BY <1>1, <1>2, <2>1
<1>3. CASE ~(peak <= c)
  <2>1. PICK q : q = (100 * c) \div peak
    OBVIOUS
  <2>2. 100 * c \in Nat /\ peak > 0
    BY <1>1, <1>3
  <2>3. q \in Nat /\ peak * q <= 100 * c
    BY <2>1, <2>2, Quotient
  <2>4. q <= 100
    <3>1. SUFFICES ASSUME q > 100 PROVE FALSE
      BY <2>3
    <3>2. peak * q >= peak * 101
      BY <2>3, <3>1
    <3>3. PICK p \in Nat : p = peak * q
      BY <2>3
    <3>4. QED
      BY <1>1, <1>3, <2>3, <3>2, <3>3
  <2>5. Needed(peak) = q
    BY <1>1, <1>3, <2>1 DEF Needed
  <2>6. QED
    BY <1>1, <2>3, <2>4, <2>5
<1>4. QED
  BY <1>1, <1>2, <1>3

LEMMA GainFits ==
    ASSUME gain \in 0..100, NEW peak \in Nat
    PROVE  GainFor(peak) \in 0..100 /\ peak * GainFor(peak) <= 100 * Ceiling
<1>1. PICK need \in 0..100 : need = Needed(peak)
  BY NeededFits
<1>2. peak * need <= 100 * Ceiling /\ Ceiling \in Nat
  BY <1>1, NeededFits, MixingAssumption
<1>3. PICK released \in 0..100 : released = 100 - ((100 - gain) * Release) \div 100
  <2>1. PICK r \in 0..100 : r = Release
    BY MixingAssumption
  <2>2. PICK away \in 0..100 : away = 100 - gain
    OBVIOUS
  <2>3. PICK p \in 0..10000 : p = away * r
    <3>1. away * r <= 100 * r /\ away * r >= 0 /\ away * r \in Int
      BY <2>1, <2>2
    <3>2. QED
      BY <2>1, <3>1
  <2>4. 100 - p \div 100 \in 0..100
    BY <2>3
  <2>5. (100 - gain) * Release = p
    BY ONLY <2>1, <2>2, <2>3
  <2>6. QED
    BY ONLY <2>4, <2>5
<1>4. PICK g : g = GainFor(peak)
  OBVIOUS
<1>5. g \in 0..100 /\ g <= need
  BY <1>1, <1>3, <1>4 DEF GainFor, Smaller
<1>6. peak * g <= peak * need
  BY <1>5
<1>7. QED
  <2>1. PICK x \in Int, y \in Int : x = peak * g /\ y = peak * need
    BY <1>5
  <2>2. QED
    BY <1>2, <1>4, <1>5, <1>6, <2>1
-----------------------------------------------------------------------------
(* The block held back *)

LEMMA BlocksAreNumbers ==
    ASSUME NEW b \in Buffer, NEW i \in 1..Block
    PROVE  BlockOf(b)[i] \in Int
<1>1. Contents(b) \in Seq(Samples)
  BY ContentsAreSamples
<1>2. i <= Len(Contents(b)) => Contents(b)[i] \in Samples
  BY <1>1, Sizes
<1>3. BlockOf(b)[i] = IF i <= Len(Contents(b)) THEN Contents(b)[i] ELSE 0
  BY ReadIsTake
<1>4. Samples \subseteq Int
  BY MixingAssumption
<1>5. CASE i <= Len(Contents(b))
  <2>1. Contents(b)[i] \in Int
    BY <1>2, <1>4, <1>5
  <2>2. QED
    BY ONLY <1>3, <1>5, <2>1, Zenon
<1>6. CASE ~(i <= Len(Contents(b)))
  <2>1. BlockOf(b)[i] = 0
    BY ONLY <1>3, <1>6, Zenon
  <2>2. QED
    BY ONLY <2>1
<1>7. QED
  BY <1>5, <1>6

\* The samples of the mix, sums over the participants whose gates are open.
LEMMA MixIsNumbers ==
    ASSUME Inv, NEW open \in SUBSET DOMAIN sources
    PROVE  [i \in 1..Block |-> Total([k \in open |-> BlockOf(sources[k])[i]])]
             \in [1..Block -> Int]
<1>1. IsFiniteSet(open)
  <2>1. open \in SUBSET Keys
    BY DEF Inv
  <2>2. QED
    BY <2>1, MixingAssumption, FS_Subset
<1>2. ASSUME NEW i \in 1..Block
      PROVE  Total([k \in open |-> BlockOf(sources[k])[i]]) \in Int
  <2>1. [k \in open |-> BlockOf(sources[k])[i]] \in [open -> Int]
    BY BlocksAreNumbers DEF Inv
  <2>2. QED
    BY <1>1, <2>1, TotalIsInt
<1>3. QED
  BY <1>2

\* What is held back is a mix, and the gain one that never amplifies and that what is
\* held allows.
LimiterInv ==
    /\ gain \in 0..100
    /\ held # None => held \in [1..Block -> Int] /\ Peak(held) * gain <= 100 * Ceiling

LEMMA ReadKeepsLimiter ==
    ASSUME Inv, LimiterInv, Read
    PROVE  LimiterInv'
<1>1. PICK mix \in [1..Block -> Int] : gain' = GainFor(Peak(mix)) /\ held' = mix
  <2> DEFINE open == {k \in DOMAIN sources : AfterBlock(gates[k], BlockOf(sources[k])).open}
             mix == [i \in 1..Block |-> Total([k \in open |-> BlockOf(sources[k])[i]])]
  <2>1. mix \in [1..Block -> Int]
    BY MixIsNumbers
  <2>2. Limits(mix)
    BY Zenon DEF Read
  <2>3. QED
    BY <2>1, <2>2, Zenon DEF Limits
<1>2. PICK peak \in Nat : peak = Peak(mix)
  BY PeakIsNat
<1>3. gain' \in 0..100 /\ peak * gain' <= 100 * Ceiling
  BY <1>1, <1>2, GainFits DEF LimiterInv
<1>4. Peak(held)' = peak
  BY <1>1, <1>2 DEF Peak
<1>5. QED
  BY <1>1, <1>3, <1>4 DEF LimiterInv

\* For every ceiling, release and number of participants: the gain is one the block
\* held back allows, after every read and whatever the reads before it brought.
THEOREM HeldBlockFits == Spec => []HeldFits
<1>1. Init => LimiterInv
  BY DEF Init, LimiterInv
<1>2. Inv /\ LimiterInv /\ [Next]_vars => LimiterInv'
  <2> SUFFICES ASSUME Inv, LimiterInv, [Next]_vars PROVE LimiterInv'
    OBVIOUS
  <2>1. CASE Read
    BY <2>1, ReadKeepsLimiter
  <2>2. CASE UNCHANGED limiter
    BY <2>2 DEF limiter, LimiterInv, Peak
  <2>3. Read \/ UNCHANGED limiter
    BY DEF Next, Add, Write, Remove, vars, limiter
  <2>4. QED
    BY <2>1, <2>2, <2>3
<1>3. LimiterInv => HeldFits
  BY DEF LimiterInv, HeldFits
<1>4. QED
  BY <1>1, <1>2, <1>3, BuffersStayInShape, PTL DEF Spec
=============================================================================
