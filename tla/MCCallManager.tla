--------------------------- MODULE MCCallManager ---------------------------
(* CallManager on small instances. *)
EXTENDS CallManagerInv, TLC

\* Bound: an attempt is challenged only on a line nobody has called yet.
RetriesAlone == (\E c \in Outbound : cseq[c] > 1) => \A c \in Inbound : leg[c] = "idle"

Symmetry == Permutations(Inbound) \cup Permutations(Outbound) \cup Permutations(Clients)
=============================================================================
