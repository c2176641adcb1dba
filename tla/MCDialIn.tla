------------------------------ MODULE MCDialIn ------------------------------
(* The gateways for TLC: one that sends events, one that plays tones, and one
   that does both. *)
EXTENDS DialIn
MCGateways == {{"event"}, {"tone"}, {"event", "tone"}}
=============================================================================
