--------------------------- MODULE RegistrarProofs ---------------------------
(***************************************************************************)
(* Theorems about Registrar for any number of control API threads, of      *)
(* slots for keepalive threads, and of crashes.                            *)
(***************************************************************************)
EXTENDS Registrar, TLAPS

\* The steps inside the registrar's lock.
Inside == {"register", "persist", "start", "deregister", "forget", "quitting"}
Resuming == {"on", "register", "persist", "start"}

\* Whoever is inside has the lock; while the daemon resumes the line no request is
\* served yet, and nobody runs in a process that is down.
LockInv ==
    /\ \A a \in Actors : lock = a <=> pc[a] \in Inside
    /\ pc[Main] \in Resuming => \A a \in Switches : pc[a] = "idle"
    /\ ~up => \A a \in Actors : pc[a] = "idle"
    /\ pc[Main] \in {"quit", "quitting"} => downs < MaxDowns

\* The one keepalive thread is the one remembered, and one that waits has not
\* been told to stop.
KeeperInv ==
    /\ \A k \in Keepers : alive[k] # "none" => keeper = k
    /\ \A k \in Keepers : alive[k] = "waiting" => ~stop

\* What the switches have come to, step by step.
SwitchInv ==
    /\ \A a \in Actors : /\ pc[a] \in {"register", "persist", "start"} => wanted
                         /\ pc[a] = "start" => marker \/ unsaved
                         /\ pc[a] \in {"deregister", "forget"} => stop
    /\ marker => switched \/ unsaved \/ \E a \in Actors : pc[a] = "start"
    /\ \A k \in Keepers :
           alive[k] \in {"waiting", "due", "raised"} /\ ~stop => wanted /\ (marker \/ unsaved)

IInv == TypeOK /\ LockInv /\ KeeperInv /\ SwitchInv
LEMMA InitInv == Init => IInv
<1> SUFFICES ASSUME Init PROVE IInv
  OBVIOUS
<1> USE DEF Init
<1>1. TypeOK
  <2>1. downs \in 0..MaxDowns
    BY ActorAssumption
  <2>2. /\ marker \in BOOLEAN /\ bound \in BOOLEAN /\ switched \in BOOLEAN
        /\ unsaved \in BOOLEAN /\ stopped \in BOOLEAN
    OBVIOUS
  <2>3. QED
    BY <2>1, <2>2 DEF TypeOK
<1>2. LockInv
  <2>1. Main \in Actors /\ Switches \subseteq Actors /\ NoOne \notin Actors
    BY ActorAssumption DEF Actors
  <2>2. QED
    BY <2>1 DEF LockInv, Inside, Resuming
<1>3. KeeperInv /\ SwitchInv
  BY DEF KeeperInv, SwitchInv
<1>4. QED
  BY <1>1, <1>2, <1>3 DEF IInv

\* What a save may come to: an error leaves the file, or the new one is there already.
LEMMA Persisted ==
    ASSUME TypeOK, NEW on \in BOOLEAN, Persist(on)
    PROVE  /\ marker' \in BOOLEAN /\ unsaved' \in BOOLEAN
           /\ ~unsaved' => (marker' <=> on)
<1>1. PICK raised \in BOOLEAN : /\ marker' \in IF raised THEN {marker, marker \/ on} ELSE {on}
                                /\ unsaved' = raised
  BY DEF Persist
<1>2. CASE raised
  <2>1. marker' = marker \/ marker' = (marker \/ on)
    BY <1>1, <1>2
  <2>2. marker \in BOOLEAN /\ (marker \/ on) \in BOOLEAN
    BY DEF TypeOK
  <2>3. QED
    BY <1>1, <1>2, <2>1, <2>2
<1>3. CASE ~raised
  <2>1. marker' = on
    BY <1>1, <1>3
  <2>2. QED
    BY <1>1, <1>3, <2>1
<1>4. QED
  BY <1>2, <1>3

\* The steps of turn_on() and turn_off().
LEMMA SwitchKeepsInv ==
    ASSUME NEW a \in Actors, IInv, Toggle(a) \/ SwitchStep(a)
    PROVE  IInv'
<1> USE DEF IInv, TypeOK, LockInv, KeeperInv, SwitchInv, Goes, Inside, Resuming, deviceVars,
        processVars
<1>0. Main \in Actors /\ Main \notin Switches /\ NoOne \notin Actors /\ NoOne \notin Keepers
      /\ Switches \subseteq Actors /\ MaxDowns \in Nat
  BY ActorAssumption DEF Actors
<1>1. CASE Toggle(a)
  <2>1. TypeOK'
    BY <1>0, <1>1 DEF Toggle
  <2>2. LockInv'
    BY <1>0, <1>1 DEF Toggle
  <2>3. KeeperInv'
    BY <1>0, <1>1 DEF Toggle
  <2>4. SwitchInv'
    BY <1>0, <1>1 DEF Toggle
  <2>5. QED
    BY <2>1, <2>2, <2>3, <2>4
<1>2. CASE TurnOn(a)
  <2>1. TypeOK'
    BY <1>0, <1>2 DEF TurnOn
  <2>2. LockInv'
    BY <1>0, <1>2 DEF TurnOn
  <2>3. KeeperInv'
    BY <1>0, <1>2 DEF TurnOn
  <2>4. SwitchInv'
    BY <1>0, <1>2 DEF TurnOn
  <2>5. QED
    BY <2>1, <2>2, <2>3, <2>4
<1>3. CASE \E result \in BOOLEAN : TurnOnRegisters(a, result)
  <2>1. TypeOK'
    BY <1>0, <1>3 DEF TurnOnRegisters, Register
  <2>2. LockInv'
    BY <1>0, <1>3 DEF TurnOnRegisters, Register
  <2>3. KeeperInv'
    BY <1>0, <1>3 DEF TurnOnRegisters, Register
  <2>4. SwitchInv'
    BY <1>0, <1>3 DEF TurnOnRegisters, Register
  <2>5. QED
    BY <2>1, <2>2, <2>3, <2>4
<1>4. CASE TurnOnRaises(a)
  <2>1. TypeOK'
    <3>1. up' \in BOOLEAN /\ downs' \in 0..MaxDowns
      <4>1. CASE a = Main /\ downs < MaxDowns
        <5>1. up' = FALSE /\ downs' = downs + 1
          BY <1>4, <4>1 DEF TurnOnRaises
        <5>2. downs' \in 0..MaxDowns
          BY <1>0, <4>1, <5>1
        <5>3. QED
          BY <5>1, <5>2, Zenon
      <4>2. CASE ~(a = Main /\ downs < MaxDowns)
        BY <1>4, <4>2, Zenon DEF TurnOnRaises
      <4>3. QED
        BY <4>1, <4>2
    <3>2. QED
      BY <1>0, <1>4, <3>1 DEF TurnOnRaises
  <2>2. LockInv'
    <3>1. CASE a = Main
      <4>1. pc' = [pc EXCEPT ![Main] = "idle"] /\ pc[Main] = "register" /\ lock' = NoOne
        BY <1>4, <3>1 DEF TurnOnRaises
      <4>2. \A b \in Actors : b = Main \/ b \in Switches
        BY DEF Actors
      <4>3. \A b \in Actors : pc'[b] = "idle"
        BY <1>0, <4>1, <4>2
      <4>4. QED
        BY <1>0, <4>1, <4>3
    <3>2. CASE a # Main
      <4>1. /\ pc[a] = "register" /\ pc' = [pc EXCEPT ![a] = "idle"]
            /\ lock' = NoOne /\ up' = up /\ downs' = downs
        BY <1>4, <3>2 DEF TurnOnRaises
      <4>2. up
        BY <4>1
      <4>3. QED
        BY <1>0, <3>2, <4>1, <4>2
    <3>3. QED
      BY <3>1, <3>2
  <2>3. KeeperInv'
    BY <1>0, <1>4 DEF TurnOnRaises
  <2>4. SwitchInv'
    BY <1>0, <1>4 DEF TurnOnRaises
  <2>5. QED
    BY <2>1, <2>2, <2>3, <2>4
<1>5. CASE Persists(a)
  <2>0. /\ marker' \in BOOLEAN /\ unsaved' \in BOOLEAN
        /\ ~unsaved' => (marker' <=> TRUE)
    BY <1>5, Persisted DEF Persists
  <2>1. TypeOK'
    BY <1>0, <1>5, <2>0 DEF Persists
  <2>2. LockInv'
    BY <1>0, <1>5, <2>0 DEF Persists
  <2>3. KeeperInv'
    BY <1>0, <1>5, <2>0 DEF Persists
  <2>4. SwitchInv'
    BY <1>0, <1>5, <2>0 DEF Persists
  <2>5. QED
    BY <2>1, <2>2, <2>3, <2>4
<1>6. CASE StartsKeeper(a)
  <2>1. TypeOK'
    BY <1>0, <1>6 DEF StartsKeeper
  <2>2. LockInv'
    BY <1>0, <1>6 DEF StartsKeeper
  <2>3. KeeperInv'
    BY <1>0, <1>6 DEF StartsKeeper
  <2>4. SwitchInv'
    BY <1>0, <1>6 DEF StartsKeeper
  <2>5. QED
    BY <2>1, <2>2, <2>3, <2>4
<1>7. CASE TurnOff(a)
  <2>0. /\ marker' \in BOOLEAN /\ unsaved' \in BOOLEAN
        /\ switched' \in BOOLEAN
        /\ marker' => marker \/ unsaved'
        /\ marker' /\ ~unsaved' => (marker /\ ~unsaved /\ switched' = switched)
    <3>1. CASE registered
      <4>1. UNCHANGED <<marker, switched, unsaved>>
        BY <1>7, <3>1, Zenon DEF TurnOff
      <4>2. QED
        BY <4>1
    <3>2. CASE ~registered
      <4>1. Persist(FALSE) /\ switched' = FALSE
        BY <1>7, <3>2, Zenon DEF TurnOff
      <4>2. marker' \in BOOLEAN /\ unsaved' \in BOOLEAN /\ (~unsaved' => (marker' <=> FALSE))
        BY <4>1, Persisted
      <4>3. marker' => marker \/ unsaved'
        BY <4>2
      <4>4. QED
        BY <4>1, <4>2, <4>3
    <3>3. QED
      BY <3>1, <3>2
  <2>1. TypeOK'
    BY <1>0, <1>7, <2>0 DEF TurnOff, SetStop
  <2>2. LockInv'
    <3>1. CASE registered
      <4>1. pc' = [pc EXCEPT ![a] = "deregister"] /\ lock' = a /\ lock = NoOne /\ pc[a] = "off"
        BY <1>7, <3>1, Zenon DEF TurnOff, Goes
      <4>2. UNCHANGED <<up, downs>>
        BY <1>7 DEF TurnOff
      <4>3. QED
        BY <1>0, <4>1, <4>2
    <3>2. CASE ~registered
      <4>1. pc' = [pc EXCEPT ![a] = "idle"] /\ lock' = lock /\ lock = NoOne /\ pc[a] = "off"
        BY <1>7, <3>2, Zenon DEF TurnOff, Goes
      <4>2. UNCHANGED <<up, downs>>
        BY <1>7 DEF TurnOff
      <4>3. QED
        BY <1>0, <4>1, <4>2
    <3>3. QED
      BY <3>1, <3>2
  <2>3. KeeperInv'
    BY <1>0, <1>7, <2>0 DEF TurnOff, SetStop
  <2>4. SwitchInv'
    <3>1. pc' = [pc EXCEPT ![a] = "deregister"] \/ pc' = [pc EXCEPT ![a] = "idle"]
      BY <1>7, Zenon DEF TurnOff, Goes
    <3>2. stop' /\ lock = NoOne /\ pc[a] = "off"
      BY <1>7 DEF TurnOff, SetStop
    <3>3. \A b \in Actors : pc[b] \notin Inside
      BY <1>0, <3>2
    <3>4. \A b \in Actors : pc'[b] \notin Inside \ {"deregister"}
      BY <3>1, <3>3
    <3>5. marker' => switched' \/ unsaved'
      BY <2>0, <3>3
    <3>6. QED
      BY <3>2, <3>4, <3>5
  <2>5. QED
    BY <2>1, <2>2, <2>3, <2>4
<1>8. CASE Deregisters(a)
  <2>1. TypeOK'
    BY <1>0, <1>8 DEF Deregisters
  <2>2. LockInv'
    BY <1>0, <1>8 DEF Deregisters
  <2>3. KeeperInv'
    BY <1>0, <1>8 DEF Deregisters
  <2>4. SwitchInv'
    BY <1>0, <1>8 DEF Deregisters
  <2>5. QED
    BY <2>1, <2>2, <2>3, <2>4
<1>9. CASE DeregisterRaises(a)
  <2>1. TypeOK'
    BY <1>0, <1>9 DEF DeregisterRaises
  <2>2. LockInv'
    BY <1>0, <1>9 DEF DeregisterRaises
  <2>3. KeeperInv'
    BY <1>0, <1>9 DEF DeregisterRaises
  <2>4. SwitchInv'
    BY <1>0, <1>9 DEF DeregisterRaises
  <2>5. QED
    BY <2>1, <2>2, <2>3, <2>4
<1>10. CASE Forgets(a)
  <2>0. /\ marker' \in BOOLEAN /\ unsaved' \in BOOLEAN
        /\ ~unsaved' => (marker' <=> FALSE)
    BY <1>10, Persisted DEF Forgets
  <2>1. TypeOK'
    BY <1>0, <1>10, <2>0 DEF Forgets
  <2>2. LockInv'
    BY <1>0, <1>10, <2>0 DEF Forgets
  <2>3. KeeperInv'
    BY <1>0, <1>10, <2>0 DEF Forgets
  <2>4. SwitchInv'
    BY <1>0, <1>10, <2>0 DEF Forgets
  <2>5. QED
    BY <2>1, <2>2, <2>3, <2>4
<1>11. QED
  BY <1>1, <1>2, <1>3, <1>4, <1>5, <1>6, <1>7, <1>8, <1>9, <1>10 DEF SwitchStep

\* The steps of a keepalive thread.
LEMMA KeeperKeepsInv ==
    ASSUME NEW k \in Keepers, IInv, KeeperStep(k)
    PROVE  IInv'
<1> USE DEF IInv, TypeOK, LockInv, KeeperInv, SwitchInv, Inside, Resuming, deviceVars,
        processVars
<1>0. NoOne \notin Actors /\ NoOne \notin Keepers
  BY ActorAssumption DEF Actors
<1>1. CASE FallsDue(k)
  <2>1. TypeOK'
    BY <1>0, <1>1 DEF FallsDue
  <2>2. LockInv'
    BY <1>0, <1>1 DEF FallsDue
  <2>3. KeeperInv'
    BY <1>0, <1>1 DEF FallsDue
  <2>4. SwitchInv'
    BY <1>0, <1>1 DEF FallsDue
  <2>5. QED
    BY <2>1, <2>2, <2>3, <2>4
<1>2. CASE \E result \in BOOLEAN : Refreshes(k, result)
  <2>1. TypeOK'
    BY <1>0, <1>2 DEF Refreshes, Register, Rests
  <2>2. LockInv'
    BY <1>0, <1>2 DEF Refreshes, Register, Rests
  <2>3. KeeperInv'
    BY <1>0, <1>2 DEF Refreshes, Register, Rests
  <2>4. SwitchInv'
    BY <1>0, <1>2 DEF Refreshes, Register, Rests
  <2>5. QED
    BY <2>1, <2>2, <2>3, <2>4
<1>3. CASE RefreshRaises(k)
  <2>1. TypeOK'
    BY <1>0, <1>3 DEF RefreshRaises
  <2>2. LockInv'
    BY <1>0, <1>3 DEF RefreshRaises
  <2>3. KeeperInv'
    BY <1>0, <1>3 DEF RefreshRaises
  <2>4. SwitchInv'
    BY <1>0, <1>3 DEF RefreshRaises
  <2>5. QED
    BY <2>1, <2>2, <2>3, <2>4
<1>4. CASE NotesRaise(k)
  <2>1. TypeOK'
    BY <1>0, <1>4 DEF NotesRaise, Rests
  <2>2. LockInv'
    BY <1>0, <1>4 DEF NotesRaise, Rests
  <2>3. KeeperInv'
    BY <1>0, <1>4 DEF NotesRaise, Rests
  <2>4. SwitchInv'
    BY <1>0, <1>4 DEF NotesRaise, Rests
  <2>5. QED
    BY <2>1, <2>2, <2>3, <2>4
<1>5. CASE Resigns(k)
  <2>1. TypeOK'
    BY <1>0, <1>5 DEF Resigns
  <2>2. LockInv'
    BY <1>0, <1>5 DEF Resigns
  <2>3. KeeperInv'
    BY <1>0, <1>5 DEF Resigns
  <2>4. SwitchInv'
    BY <1>0, <1>5 DEF Resigns
  <2>5. QED
    BY <2>1, <2>2, <2>3, <2>4
<1>6. CASE Leaves(k)
  <2>1. TypeOK'
    BY <1>0, <1>6 DEF Leaves
  <2>2. LockInv'
    BY <1>0, <1>6 DEF Leaves
  <2>3. KeeperInv'
    BY <1>0, <1>6 DEF Leaves
  <2>4. SwitchInv'
    BY <1>0, <1>6 DEF Leaves
  <2>5. QED
    BY <2>1, <2>2, <2>3, <2>4
<1>7. QED
  BY <1>1, <1>2, <1>3, <1>4, <1>5, <1>6 DEF KeeperStep

\* The process is told to stop, goes down and comes back.
LEMMA ProcessKeepsInv ==
    ASSUME IInv,
           \/ Terminate \/ TerminateTurnsOff \/ TerminateExits \/ TerminateRaises
           \/ Crash \/ Restart \/ StartedByHand \/ BindingExpires
    PROVE  IInv'
<1> USE DEF IInv, TypeOK, LockInv, KeeperInv, SwitchInv, Goes, Inside, Resuming, deviceVars,
        processVars
<1>0. Main \in Actors /\ Main \notin Switches /\ NoOne \notin Actors /\ NoOne \notin Keepers
      /\ Switches \subseteq Actors /\ MaxDowns \in Nat
  BY ActorAssumption DEF Actors
<1>1. CASE Terminate
  <2>1. TypeOK'
    BY <1>0, <1>1 DEF Terminate
  <2>2. LockInv'
    BY <1>0, <1>1 DEF Terminate
  <2>3. KeeperInv'
    BY <1>0, <1>1 DEF Terminate
  <2>4. SwitchInv'
    BY <1>0, <1>1 DEF Terminate
  <2>5. QED
    BY <2>1, <2>2, <2>3, <2>4
<1>2. CASE TerminateTurnsOff
  <2>1. TypeOK'
    BY <1>0, <1>2 DEF TerminateTurnsOff, SetStop
  <2>2. LockInv'
    BY <1>0, <1>2 DEF TerminateTurnsOff, SetStop
  <2>3. KeeperInv'
    BY <1>0, <1>2 DEF TerminateTurnsOff, SetStop
  <2>4. SwitchInv'
    BY <1>0, <1>2 DEF TerminateTurnsOff, SetStop
  <2>5. QED
    BY <2>1, <2>2, <2>3, <2>4
<1>3. CASE TerminateExits
  <2>1. TypeOK'
    <3>1. downs' \in 0..MaxDowns
      BY <1>0, <1>3 DEF TerminateExits, GoesDown
    <3>2. switched' \in BOOLEAN
      BY <1>3 DEF TerminateExits
    <3>3. QED
      BY <1>0, <1>3, <3>1, <3>2 DEF TerminateExits, GoesDown, Fresh
  <2>2. LockInv'
    BY <1>0, <1>3 DEF TerminateExits, GoesDown, Fresh
  <2>3. KeeperInv'
    BY <1>0, <1>3 DEF TerminateExits, GoesDown, Fresh
  <2>4. SwitchInv'
    BY <1>0, <1>3 DEF TerminateExits, GoesDown, Fresh
  <2>5. QED
    BY <2>1, <2>2, <2>3, <2>4
<1>4. CASE TerminateRaises
  <2>1. TypeOK'
    <3>1. downs' \in 0..MaxDowns
      BY <1>0, <1>4 DEF TerminateRaises, GoesDown
    <3>2. switched' \in BOOLEAN /\ unsaved' \in BOOLEAN
      BY <1>4 DEF TerminateRaises
    <3>3. QED
      BY <1>0, <1>4, <3>1, <3>2 DEF TerminateRaises, GoesDown, Fresh
  <2>2. LockInv'
    BY <1>0, <1>4 DEF TerminateRaises, GoesDown, Fresh
  <2>3. KeeperInv'
    BY <1>0, <1>4 DEF TerminateRaises, GoesDown, Fresh
  <2>4. SwitchInv'
    BY <1>0, <1>4 DEF TerminateRaises, GoesDown, Fresh
  <2>5. QED
    BY <2>1, <2>2, <2>3, <2>4
<1>5. CASE Crash
  <2>1. TypeOK'
    <3>1. downs' \in 0..MaxDowns
      BY <1>0, <1>5 DEF Crash, GoesDown
    <3>2. switched' \in BOOLEAN /\ stopped' \in BOOLEAN
      <4>1. switched' \in BOOLEAN
        BY <1>5 DEF Crash
      <4>2. \/ stopped' = FALSE
            \/ stopped' = (pc[Main] \in {"on", "register", "persist", "start"})
        BY <1>5 DEF Crash
      <4>3. (pc[Main] \in {"on", "register", "persist", "start"}) \in BOOLEAN
        OBVIOUS
      <4>4. QED
        BY <4>1, <4>2, <4>3, Zenon
    <3>3. QED
      BY <1>0, <1>5, <3>1, <3>2 DEF Crash, GoesDown, Fresh
  <2>2. LockInv'
    BY <1>0, <1>5 DEF Crash, GoesDown, Fresh
  <2>3. KeeperInv'
    BY <1>0, <1>5 DEF Crash, GoesDown, Fresh
  <2>4. SwitchInv'
    BY <1>0, <1>5 DEF Crash, GoesDown, Fresh
  <2>5. QED
    BY <2>1, <2>2, <2>3, <2>4
<1>6. CASE Restart
  <2>1. TypeOK'
    BY <1>0, <1>6 DEF Restart, Boots, Fresh
  <2>2. LockInv'
    BY <1>0, <1>6 DEF Restart, Boots, Fresh
  <2>3. KeeperInv'
    BY <1>0, <1>6 DEF Restart, Boots, Fresh
  <2>4. SwitchInv'
    BY <1>0, <1>6 DEF Restart, Boots, Fresh
  <2>5. QED
    BY <2>1, <2>2, <2>3, <2>4
<1>7. CASE StartedByHand
  <2>1. TypeOK'
    BY <1>0, <1>7 DEF StartedByHand, Boots, Fresh
  <2>2. LockInv'
    BY <1>0, <1>7 DEF StartedByHand, Boots, Fresh
  <2>3. KeeperInv'
    BY <1>0, <1>7 DEF StartedByHand, Boots, Fresh
  <2>4. SwitchInv'
    BY <1>0, <1>7 DEF StartedByHand, Boots, Fresh
  <2>5. QED
    BY <2>1, <2>2, <2>3, <2>4
<1>8. CASE BindingExpires
  <2>1. TypeOK'
    BY <1>0, <1>8 DEF BindingExpires
  <2>2. LockInv'
    BY <1>0, <1>8 DEF BindingExpires
  <2>3. KeeperInv'
    BY <1>0, <1>8 DEF BindingExpires
  <2>4. SwitchInv'
    BY <1>0, <1>8 DEF BindingExpires
  <2>5. QED
    BY <2>1, <2>2, <2>3, <2>4
<1>9. QED
  BY <1>1, <1>2, <1>3, <1>4, <1>5, <1>6, <1>7, <1>8

LEMMA NextKeepsInv == IInv /\ [Next]_vars => IInv'
<1> SUFFICES ASSUME IInv, [Next]_vars PROVE IInv'
  OBVIOUS
<1>1. CASE UNCHANGED vars
  BY <1>1 DEF vars, IInv, TypeOK, LockInv, KeeperInv, SwitchInv
<1>2. QED
  BY <1>1, SwitchKeepsInv, KeeperKeepsInv, ProcessKeepsInv DEF Next

\* The invariant holds in every reachable state.
THEOREM RegistrarInvariance == Spec => []IInv
  BY InitInv, NextKeepsInv, PTL DEF Spec

\* TypeOK for every number of threads: among others the lock has one holder and
\* `registered` is never anything but a truth value.
THEOREM RegistrarTypes == Spec => []TypeOK
  BY RegistrarInvariance, PTL DEF IInv

\* However many requests switch the line on and off, and however long a thread
\* takes to end, one keepalive thread at most refreshes the registration.
THEOREM OneKeeperOnly == Spec => []OneKeeper
<1>1. IInv => OneKeeper
  BY DEF IInv, KeeperInv, OneKeeper
<1>2. QED
  BY <1>1, RegistrarInvariance, PTL

\* Whatever crashes in between, a state file that could be written says how the line was
\* switched.
THEOREM MarkerIsRight == Spec => []MarkerRemembersSwitch
<1>1. IInv => MarkerRemembersSwitch
  BY ActorAssumption DEF IInv, LockInv, KeeperInv, SwitchInv, MarkerRemembersSwitch, Inside
<1>2. QED
  BY <1>1, RegistrarInvariance, PTL

\* No step binds a line at the gateway that is not wanted: a refresh that was due
\* when the line was switched off, or a switch overtaken by another, included.
THEOREM OnlyTheWantedAreBound == Spec => NeverBoundUnwanted
<1>1. IInv /\ [Next]_vars => [~bound /\ bound' => wanted]_vars
  <2> SUFFICES ASSUME IInv, Next, ~bound, bound' PROVE wanted
    OBVIOUS
  <2>1. CASE \E a \in Actors : Toggle(a) \/ SwitchStep(a)
    <3>1. PICK a \in Actors : Toggle(a) \/ SwitchStep(a)
      BY <2>1
    <3>2. \E result \in BOOLEAN : TurnOnRegisters(a, result)
      BY <3>1 DEF Toggle, SwitchStep, TurnOn, TurnOnRaises, Persists, StartsKeeper, TurnOff,
                  Deregisters, DeregisterRaises, Forgets, deviceVars
    <3>3. QED
      BY <3>2 DEF TurnOnRegisters, IInv, SwitchInv
  <2>2. CASE \E k \in Keepers : KeeperStep(k)
    BY <2>2 DEF KeeperStep, FallsDue, Refreshes, RefreshRaises, NotesRaise, Resigns, Leaves, deviceVars
  <2>3. CASE \/ Terminate \/ TerminateTurnsOff \/ TerminateExits \/ TerminateRaises
             \/ Crash \/ Restart \/ StartedByHand \/ BindingExpires
    BY <2>3 DEF Terminate, TerminateTurnsOff, TerminateExits, TerminateRaises, Crash, Restart,
                StartedByHand, Boots, BindingExpires, deviceVars
  <2>4. QED
    BY <2>1, <2>2, <2>3 DEF Next
<1>2. QED
  BY <1>1, RegistrarInvariance, PTL DEF Spec, NeverBoundUnwanted
=============================================================================
