-------------------------------- MODULE Line --------------------------------
(***************************************************************************)
(* What one line promises its two sides: it holds at most one call, a      *)
(* call takes a free line only, moves from alerting to connected while it  *)
(* holds the line and no other way, and a call that is over stays over.    *)
(*                                                                         *)
(* This is the contract the module docstring of bridge/sip_call.py states  *)
(* ("holds at most one active call on that line - a second incoming call   *)
(* on the same line is rejected"), without threads, sockets or messages.   *)
(* CallManager is the detailed specification that implements it.           *)
(***************************************************************************)
CONSTANTS Inbound,    \* Call-IDs of calls the gateway offers
          Outbound,   \* Call-IDs of calls this side places
          NoCall      \* the value of an empty line

Calls == Inbound \cup Outbound

VARIABLES holder,     \* the call that has the line, or NoCall
          phase       \* what each call has been through

lineVars == <<holder, phase>>

LineInit ==
    /\ holder = NoCall
    /\ phase = [c \in Calls |-> "new"]

\* A call takes the line: alerting here (inbound) or at the far end.
Seize(c) ==
    /\ holder = NoCall
    /\ phase[c] = "new"
    /\ holder' = c
    /\ phase' = [phase EXCEPT ![c] = IF c \in Inbound THEN "ringing" ELSE "dialing"]

\* A second caller hears the busy tone.
TurnAway(c) ==
    /\ c \in Inbound
    /\ holder # NoCall
    /\ phase[c] = "new"
    /\ phase' = [phase EXCEPT ![c] = "over"]
    /\ UNCHANGED holder

Connect(c) ==
    /\ holder = c
    /\ phase[c] \in {"ringing", "dialing"}
    /\ phase' = [phase EXCEPT ![c] = "connected"]
    /\ UNCHANGED holder

Release(c) ==
    /\ holder = c
    /\ holder' = NoCall
    /\ phase' = [phase EXCEPT ![c] = "over"]

LineNext == \E c \in Calls : Seize(c) \/ TurnAway(c) \/ Connect(c) \/ Release(c)

LineSpec == LineInit /\ [][LineNext]_lineVars
=============================================================================
