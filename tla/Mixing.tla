------------------------------- MODULE Mixing -------------------------------
(***************************************************************************)
(* The mixer of one call: a ring buffer per participant, a gate that holds *)
(* a quiet one out, and a limiter with one block of look-ahead.  Every     *)
(* entry point runs under one lock, so an action is one call.              *)
(*                                                                         *)
(* A gain is a number of hundredths, and what the ramp and the release     *)
(* compute is rounded down to one; statistics are left out.                *)
(***************************************************************************)
EXTENDS Integers, Sequences, FiniteSets

CONSTANTS Keys,       \* participants
          Samples,    \* sample values, of 16 bits
          Capacity,   \* samples a source may hold
          Block,      \* samples read at a time
          MaxChunk,   \* bound: samples written at a time
          FullScale,  \* the largest sample
          Ceiling,    \* the level the sum is held to
          Threshold,  \* the level that opens a gate
          Hold,       \* blocks a gate stays open after that
          Release,    \* what one block leaves of the distance to full gain
          None        \* nothing held yet, nobody written to

ASSUME MixingAssumption ==
    /\ {Capacity, Block, MaxChunk, FullScale, Ceiling, Threshold, Hold, Release} \subseteq Nat
    /\ Samples \subseteq -FullScale - 1..FullScale /\ 0 \in Samples
    /\ Block > 1 /\ Capacity > 0 /\ Ceiling > 0 /\ Release <= 100 /\ IsFiniteSet(Keys)

VARIABLES sources,    \* key -> SourceBuffer
          gates,      \* key -> NoiseGate
          gain, held, \* the limiter
          sent,       \* the block the phone got last
          blocks,     \* the last block read of each source, before the gate
          wrote       \* history: the chunk the last call wrote, and to whom

vars == <<sources, gates, gain, held, sent, blocks, wrote>>
limiter == <<gain, held, sent>>

Chunks == UNION {[1..n -> Samples] : n \in 1..MaxChunk}

Larger(a, b) == IF a >= b THEN a ELSE b
Smaller(a, b) == IF a <= b THEN a ELSE b
-----------------------------------------------------------------------------
(* SourceBuffer: cells 0..Capacity-1, the oldest sample at read_at. *)

Empty == [data |-> [i \in 0..Capacity - 1 |-> 0], read_at |-> 0, available |-> 0]

\* A chunk laid down from a cell on, in two slices when it runs past the end.
Laid(data, at, chunk) ==
    LET first == Smaller(Len(chunk), Capacity - at)
    IN  [i \in 0..Capacity - 1 |->
            IF at <= i /\ i < at + first THEN chunk[i - at + 1]
            ELSE IF i < Len(chunk) - first THEN chunk[first + i + 1] ELSE data[i]]
\* One that fills the buffer replaces what is in it by its own tail.
Newest(chunk) == [i \in 0..Capacity - 1 |-> chunk[Len(chunk) - Capacity + i + 1]]
Replaced(chunk) == [data |-> Newest(chunk), read_at |-> 0, available |-> Capacity]

\* Mutant of the next: the read position stays when the oldest are dropped.
WriteOver(b, chunk) ==
    IF Len(chunk) >= Capacity THEN Replaced(chunk)
    ELSE [data |-> Laid(b.data, (b.read_at + b.available) % Capacity, chunk),
          read_at |-> b.read_at, available |-> Smaller(b.available + Len(chunk), Capacity)]
\* write
WriteChunk(b, chunk) ==
    IF Len(chunk) >= Capacity THEN Replaced(chunk)
    ELSE LET behind == Larger(0, Len(chunk) - (Capacity - b.available))
             read_at == (b.read_at + behind) % Capacity
             at == (read_at + b.available - behind) % Capacity
         IN  [data |-> Laid(b.data, at, chunk), read_at |-> read_at,
              available |-> b.available - behind + Len(chunk)]

\* read: the block, and what is left.
BlockOf(b) ==
    [i \in 1..Block |-> IF i <= b.available THEN b.data[(b.read_at + i - 1) % Capacity] ELSE 0]
AfterRead(b) ==
    LET have == Smaller(Block, b.available)
    IN  [b EXCEPT !.read_at = (@ + have) % Capacity, !.available = @ - have]
-----------------------------------------------------------------------------
(* NoiseGate.passes *)

\* The magnitude numpy finds in 16 bits: the lowest value is its own.
Magnitude16(v) == IF v = -FullScale - 1 THEN v ELSE Larger(v, -v)
Closed == [quiet |-> Hold + 1, open |-> FALSE]
AfterBlock(g, block) ==
    IF \E i \in 1..Block : Magnitude16(block[i]) >= Threshold THEN [quiet |-> 0, open |-> TRUE]
    ELSE LET quiet == Smaller(g.quiet + 1, Hold + 1)
         IN  [quiet |-> quiet, open |-> g.open /\ quiet <= Hold]
-----------------------------------------------------------------------------
(* Limiter.apply *)

Peak(block) == LET M == {Larger(block[i], -block[i]) : i \in 1..Block}
               IN  CHOOSE m \in M : \A n \in M : n <= m
Needed(peak) == IF peak <= Ceiling THEN 100 ELSE (100 * Ceiling) \div peak
\* Mutant: released past what the new block allows.
GainForOnly(peak) ==
    IF Needed(peak) < gain THEN Needed(peak) ELSE 100 - ((100 - gain) * Release) \div 100
GainFor(peak) ==
    IF Needed(peak) < gain THEN Needed(peak)
    ELSE Smaller(Needed(peak), 100 - ((100 - gain) * Release) \div 100)
Clip(v) == Larger(-FullScale - 1, Smaller(v, FullScale))
\* The held block, ramped from one gain to the other.
Ramped(block, from, to) ==
    [i \in 1..Block |->
        Clip((block[i] * (from * (Block - 1) + (to - from) * (i - 1))) \div (100 * (Block - 1)))]

Limits(mix) ==
    /\ gain' = GainFor(Peak(mix))
    /\ held' = mix
    /\ sent' = IF held = None THEN [i \in 1..Block |-> 0] ELSE Ramped(held, gain, gain')
-----------------------------------------------------------------------------
(* Mixer *)

Nothing == [to |-> None, chunk |-> <<>>]

Init ==
    /\ sources = <<>> /\ gates = <<>>
    /\ gain = 100 /\ held = None /\ sent = None /\ blocks = [k \in Keys |-> <<>>]
    /\ wrote = Nothing

With(f, k, v) == [x \in DOMAIN f \cup {k} |-> IF x = k THEN v ELSE f[x]]
Without(f, k) == [x \in DOMAIN f \ {k} |-> f[x]]

Known(k) == k \in DOMAIN sources
Adds(k) == gates' = IF Known(k) THEN gates ELSE With(gates, k, Closed)
Add(k) ==
    /\ sources' = IF Known(k) THEN sources ELSE With(sources, k, Empty)
    /\ Adds(k) /\ wrote' = Nothing /\ UNCHANGED <<limiter, blocks>>

\* write: a source nobody knows is added.
Write(k, chunk) ==
    /\ sources' = With(sources, k, WriteChunk(IF Known(k) THEN sources[k] ELSE Empty, chunk))
    /\ Adds(k) /\ wrote' = [to |-> k, chunk |-> chunk] /\ UNCHANGED <<limiter, blocks>>

Remove(k) ==
    /\ k \in DOMAIN sources
    /\ sources' = Without(sources, k) /\ gates' = Without(gates, k)
    /\ wrote' = Nothing /\ UNCHANGED <<limiter, blocks>>

Total(v) ==
    LET sum[S \in SUBSET DOMAIN v] ==
          IF S = {} THEN 0 ELSE LET k == CHOOSE x \in S : TRUE IN v[k] + sum[S \ {k}]
    IN  sum[DOMAIN v]

Read ==
    LET open == {k \in DOMAIN sources : AfterBlock(gates[k], BlockOf(sources[k])).open} IN
    /\ gates' = [k \in DOMAIN sources |-> AfterBlock(gates[k], BlockOf(sources[k]))]
    /\ blocks' = [k \in Keys |-> IF k \in DOMAIN sources THEN BlockOf(sources[k]) ELSE blocks[k]]
    /\ sources' = [k \in DOMAIN sources |-> AfterRead(sources[k])]
    /\ wrote' = Nothing
    /\ Limits([i \in 1..Block |-> Total([k \in open |-> BlockOf(sources[k])[i]])])

Next ==
    \/ \E k \in Keys : Add(k) \/ Remove(k) \/ \E chunk \in Chunks : Write(k, chunk)
    \/ Read
Spec == Init /\ [][Next]_vars
-----------------------------------------------------------------------------
(* Properties *)

TypeOK ==
    /\ DOMAIN gates = DOMAIN sources /\ DOMAIN sources \subseteq Keys /\ gain \in 0..100
    /\ \A k \in DOMAIN sources :
         /\ sources[k].data \in [0..Capacity - 1 -> Samples]
         /\ sources[k].read_at \in 0..Capacity - 1 /\ sources[k].available \in 0..Capacity
         /\ gates[k].quiet \in 0..Hold + 1

\* Whatever chunks come and however the positions wrap, a source is a queue that gives
\* the samples of what was written back in their order and forgets the oldest when full
\* (SourceBuffer).
Held(k) == IF k \notin DOMAIN sources THEN <<>>
           ELSE [i \in 1..sources[k].available |->
                    sources[k].data[(sources[k].read_at + i - 1) % Capacity]]
Given(k) == IF wrote.to = k THEN wrote.chunk ELSE <<>>
Queue(k) == INSTANCE SampleQueue WITH queue <- Held(k), given <- Given(k), taken <- blocks[k],
                                      Silence <- 0
SourcesAreQueues == /\ \A k \in Keys : Queue(k)!QueueInit
                    /\ [][\A k \in Keys : Queue(k)!QueueStep]_vars

\* The gain never exceeds what the block still held back allows: the first samples
\* of every block the phone gets are under the ceiling, whatever came before.
HeldFits == held # None => Peak(held) * gain <= 100 * Ceiling

\* Violated: the sum is held to CEILING, "the level it is held to".
NeverAboveCeiling == sent # None => \A i \in 1..Block : sent[i] \in -Ceiling..Ceiling
=============================================================================
