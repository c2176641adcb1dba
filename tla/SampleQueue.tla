---------------------------- MODULE SampleQueue ----------------------------
(***************************************************************************)
(* What the buffer of one participant promises: a queue of samples that    *)
(* gives them back in order, silence when it has none, and forgets the     *)
(* oldest when it is full ("Overrun drops the oldest", SourceBuffer).      *)
(***************************************************************************)
EXTENDS Naturals, Sequences

CONSTANTS Chunks,    \* sequences of samples, as they are written
          Silence,   \* the sample of a gap
          Capacity,  \* how many samples are kept
          Block      \* how many are read at a time

VARIABLES queue,     \* the samples held, oldest first
          given,     \* the chunk put in by the last call, if it was a write
          taken      \* the block read last

Newest(s, n) == IF Len(s) <= n THEN s ELSE SubSeq(s, Len(s) - n + 1, Len(s))

Put == /\ given' \in Chunks
       /\ queue' = Newest(queue \o given', Capacity)
       /\ UNCHANGED taken

Take ==
    /\ given' = <<>>
    /\ taken' = [i \in 1..Block |-> IF i <= Len(queue) THEN queue[i] ELSE Silence]
    /\ queue' = SubSeq(queue, Block + 1, Len(queue))

Clear == given' = <<>> /\ queue' = <<>> /\ UNCHANGED taken

\* Other calls.
Keep == given' = <<>> /\ UNCHANGED <<queue, taken>>

QueueInit == queue = <<>> /\ given = <<>> /\ taken = <<>>
QueueStep == [Put \/ Take \/ Clear \/ Keep]_<<queue, given, taken>>
QueueSpec == QueueInit /\ [][QueueStep]_<<queue, given, taken>>
=============================================================================
