------------------------------ MODULE Registrar ------------------------------
(***************************************************************************)
(* One line's registration: bridge/sip_registrar.py, class SipRegistrar,   *)
(* driven by the threads of the control API (POST /toggle) and by the      *)
(* daemon, which resumes a line at start and deregisters it on SIGTERM.    *)
(*                                                                         *)
(* turn_on and turn_off hold the registrar's lock across the network, so   *)
(* they are steps between which the process can crash; what is read        *)
(* without the lock (do_POST's `registered`) is a step of its own.  A      *)
(* REGISTER and its answer are one step with the three outcomes            *)
(* _do_register has: answered, not answered or refused - the gateway may   *)
(* have taken it all the same - and raised.                                *)
(***************************************************************************)
EXTENDS Naturals, FiniteSets

CONSTANTS Switches,    \* threads of the control API
          Main,        \* the daemon's main thread
          Keepers,     \* slots for keepalive threads
          NoOne,       \* None; the lock's value when it is free
          MaxDowns     \* bound: how often the process goes down

Actors == Switches \cup {Main}

ASSUME ActorAssumption ==
    /\ Main \notin Switches
    /\ NoOne \notin Actors \cup Keepers
    /\ MaxDowns \in Nat

VARIABLES
    up,          \* the process runs
    stopped,     \* systemd takes it for stopped, and leaves it so
    downs,       \* how often it has gone down
    registered, wanted, stop,      \* stop: stop_event.is_set()
    keeper,      \* self.keepalive_thread
    alive,       \* where each keepalive thread is
    lock,        \* self.lock
    pc,          \* where each actor is
    marker,      \* the state file exists
    bound,       \* the gateway has a binding for this line
    \* History:
    switched,    \* how the line was last switched, by a call that returned
    unsaved      \* the last _persist() swallowed an OSError

vars == <<up, stopped, downs, registered, wanted, stop, keeper, alive, lock, pc, marker,
          bound, switched, unsaved>>
processVars == <<up, stopped, downs>>
deviceVars == <<marker, bound, switched, unsaved>>

TypeOK ==
    /\ up \in BOOLEAN /\ stopped \in BOOLEAN /\ downs \in 0..MaxDowns
    /\ registered \in BOOLEAN /\ wanted \in BOOLEAN /\ stop \in BOOLEAN
    /\ keeper \in Keepers \cup {NoOne}
    /\ alive \in [Keepers -> {"none", "waiting", "due", "raised", "leaving"}]
    /\ lock \in Actors \cup {NoOne}
    /\ pc \in [Actors -> {"idle", "on", "register", "persist", "start",
                          "off", "deregister", "forget", "quit", "quitting"}]
    /\ marker \in BOOLEAN /\ bound \in BOOLEAN /\ switched \in BOOLEAN /\ unsaved \in BOOLEAN

Fresh ==  \* a process that has just been started
    /\ registered' = FALSE /\ wanted' = FALSE /\ stop' = FALSE
    /\ keeper' = NoOne
    /\ alive' = [k \in Keepers |-> "none"]
    /\ lock' = NoOne

Init ==
    /\ up = TRUE /\ stopped = FALSE /\ downs = 0
    /\ registered = FALSE /\ wanted = FALSE /\ stop = FALSE
    /\ keeper = NoOne
    /\ alive = [k \in Keepers |-> "none"]
    /\ lock = NoOne
    /\ pc = [a \in Actors |-> "idle"]
    /\ marker = FALSE /\ bound = FALSE /\ switched = FALSE /\ unsaved = FALSE

-----------------------------------------------------------------------------
Goes(a, to) == pc' = [pc EXCEPT ![a] = to]

\* Variant: a timeout falls off the end of _do_register and returns None.
RegisterFallsThrough(onOff, result) ==
    /\ registered' = IF result THEN TRUE ELSE NoOne
    /\ bound' \in IF result THEN {onOff} ELSE {bound, onOff}

\* _do_register: what it returns, and what the gateway makes of it.
Register(onOff, result) ==
    /\ registered' = result
    /\ bound' \in IF result THEN {onOff} ELSE {bound, onOff}

\* stop_event.set(): a thread inside wait() is woken for good, one that comes
\* to wait() later returns at once.
SetStop ==
    /\ stop' = TRUE
    /\ alive' = [k \in Keepers |-> IF alive[k] = "waiting" THEN "leaving" ELSE alive[k]]

\* _persist(). With an OSError, which is swallowed, the file stays as it is, or open() has
\* made it already; without a state_dir nothing is saved, as if every time failed.
Persist(on) ==
    \E raised \in BOOLEAN : /\ marker' \in IF raised THEN {marker, marker \/ on} ELSE {on}
                            /\ unsaved' = raised

-----------------------------------------------------------------------------
(* POST /toggle and the daemon's resume: turn_on().                        *)

\* `registered` is read without the lock; the line may change before the lock
\* is taken.
Toggle(a) ==
    /\ a \in Switches /\ up /\ pc[a] = "idle" /\ pc[Main] = "idle"
    /\ Goes(a, IF registered THEN "off" ELSE "on")
    /\ UNCHANGED <<processVars, registered, wanted, stop, keeper, alive, lock, deviceVars>>

TurnOn(a) ==
    /\ pc[a] = "on" /\ lock = NoOne
    /\ IF registered
         THEN Goes(a, "idle") /\ switched' = TRUE /\ UNCHANGED <<wanted, lock>>
         ELSE Goes(a, "register") /\ wanted' = TRUE /\ lock' = a /\ UNCHANGED switched
    /\ UNCHANGED <<processVars, registered, stop, keeper, alive, marker, bound, unsaved>>

TurnOnRegisters(a, result) ==
    /\ pc[a] = "register"
    /\ Register(TRUE, result)
    /\ Goes(a, "persist")
    /\ UNCHANGED <<processVars, wanted, stop, keeper, alive, lock, marker, switched, unsaved>>

\* Variant: the daemon catches what resuming a line raises, and goes on without.
TurnOnRaisesInside(a) ==
    /\ pc[a] = "register"
    /\ lock' = NoOne
    /\ Goes(a, "idle")
    /\ UNCHANGED <<processVars, registered, wanted, stop, keeper, alive, deviceVars>>

\* Sending raised - a gateway that refuses the TCP connection: turn_on() is left
\* with the lock, and at start the daemon with it.
TurnOnRaises(a) ==
    /\ pc[a] = "register"
    /\ lock' = NoOne
    /\ IF a = Main /\ downs < MaxDowns
         THEN up' = FALSE /\ downs' = downs + 1
         ELSE a # Main /\ UNCHANGED <<up, downs>>
    /\ Goes(a, "idle")
    /\ UNCHANGED <<stopped, registered, wanted, stop, keeper, alive, deviceVars>>

\* Variant: only a registration that succeeded is remembered.
PersistsSuccess(a) ==
    /\ pc[a] = "persist"
    /\ Persist(registered)
    /\ Goes(a, "start")
    /\ UNCHANGED <<processVars, registered, wanted, stop, keeper, alive, lock, bound, switched>>

Persists(a) ==
    /\ pc[a] = "persist"
    /\ Persist(TRUE)
    /\ Goes(a, "start")
    /\ UNCHANGED <<processVars, registered, wanted, stop, keeper, alive, lock, bound, switched>>

\* Variant: every turn_on() starts a thread.
StartsAnotherKeeper(a) ==
    /\ pc[a] = "start"
    /\ stop' = FALSE
    /\ \E k \in Keepers : /\ alive[k] = "none"
                          /\ keeper' = k
                          /\ alive' = [alive EXCEPT ![k] = "waiting"]
    /\ lock' = NoOne
    /\ Goes(a, "idle")
    /\ switched' = TRUE
    /\ UNCHANGED <<processVars, registered, wanted, marker, bound, unsaved>>

\* A keepalive thread that is on its way out still counts as alive.
StartsKeeper(a) ==
    /\ pc[a] = "start"
    /\ stop' = FALSE
    /\ IF keeper = NoOne \/ alive[keeper] = "none"
         THEN \E k \in Keepers : /\ alive[k] = "none"
                                 /\ keeper' = k
                                 /\ alive' = [alive EXCEPT ![k] = "waiting"]
         ELSE UNCHANGED <<keeper, alive>>
    /\ lock' = NoOne
    /\ Goes(a, "idle")
    /\ switched' = TRUE
    /\ UNCHANGED <<processVars, registered, wanted, marker, bound, unsaved>>

-----------------------------------------------------------------------------
(* turn_off(): by a toggle, or with persist=False by shut_down().          *)

TurnOff(a) ==
    /\ pc[a] = "off" /\ lock = NoOne
    /\ wanted' = FALSE
    /\ SetStop
    /\ IF registered
         THEN Goes(a, "deregister") /\ lock' = a /\ UNCHANGED <<marker, switched, unsaved>>
         ELSE Goes(a, "idle") /\ Persist(FALSE) /\ switched' = FALSE /\ UNCHANGED lock
    /\ UNCHANGED <<processVars, registered, keeper, bound>>

\* The outcome is what turn_off() returns; `registered` is cleared either way.
Deregisters(a) ==
    /\ pc[a] = "deregister"
    /\ registered' = FALSE
    /\ bound' \in {bound, FALSE}
    /\ Goes(a, "forget")
    /\ UNCHANGED <<processVars, wanted, stop, keeper, alive, lock, marker, switched, unsaved>>

DeregisterRaises(a) ==
    /\ pc[a] = "deregister"
    /\ lock' = NoOne
    /\ Goes(a, "idle")
    /\ UNCHANGED <<processVars, registered, wanted, stop, keeper, alive, deviceVars>>

Forgets(a) ==
    /\ pc[a] = "forget"
    /\ Persist(FALSE) /\ switched' = FALSE
    /\ lock' = NoOne
    /\ Goes(a, "idle")
    /\ UNCHANGED <<processVars, registered, wanted, stop, keeper, alive, bound>>

-----------------------------------------------------------------------------
(* The keepalive thread.                                                   *)

\* The refresh falls due: stop_event.wait() times out.
FallsDue(k) ==
    /\ alive[k] = "waiting"
    /\ alive' = [alive EXCEPT ![k] = "due"]
    /\ UNCHANGED <<processVars, registered, wanted, stop, keeper, lock, pc, deviceVars>>

\* Back to stop_event.wait(), which a stop set meanwhile ends at once.
Rests(k) == alive' = [alive EXCEPT ![k] = IF stop THEN "leaving" ELSE "waiting"]

\* Variant: a refresh that is due goes out even if the line was switched off.
RefreshesRegardless(k, result) ==
    /\ alive[k] = "due" /\ lock = NoOne
    /\ Register(TRUE, result)
    /\ Rests(k)
    /\ UNCHANGED <<processVars, wanted, stop, keeper, lock, pc, marker, switched, unsaved>>

Refreshes(k, result) ==
    /\ alive[k] = "due" /\ lock = NoOne
    /\ wanted
    /\ Register(TRUE, result)
    /\ Rests(k)
    /\ UNCHANGED <<processVars, wanted, stop, keeper, lock, pc, marker, switched, unsaved>>

\* Variant: a refresh that raises ends the thread.
RefreshRaisesOut(k) ==
    /\ alive[k] = "due" /\ lock = NoOne
    /\ wanted
    /\ registered' = FALSE
    /\ alive' = [alive EXCEPT ![k] = "none"]
    /\ UNCHANGED <<processVars, wanted, stop, keeper, lock, pc, deviceVars>>

RefreshRaises(k) ==
    /\ alive[k] = "due" /\ lock = NoOne
    /\ wanted
    /\ alive' = [alive EXCEPT ![k] = "raised"]
    /\ UNCHANGED <<processVars, registered, wanted, stop, keeper, lock, pc, deviceVars>>

\* The except branch takes the lock once more; the line may have been switched off, and
\* on again, in between.
NotesRaise(k) ==
    /\ alive[k] = "raised" /\ lock = NoOne
    /\ registered' = FALSE
    /\ Rests(k)
    /\ UNCHANGED <<processVars, wanted, stop, keeper, lock, pc, deviceVars>>

\* Due, and switched off in the meantime.
Resigns(k) ==
    /\ alive[k] = "due" /\ lock = NoOne
    /\ ~wanted
    /\ alive' = [alive EXCEPT ![k] = "leaving"]
    /\ UNCHANGED <<processVars, registered, wanted, stop, keeper, lock, pc, deviceVars>>

\* The thread is over; until now is_alive() said otherwise.
Leaves(k) ==
    /\ alive[k] = "leaving"
    /\ alive' = [alive EXCEPT ![k] = "none"]
    /\ UNCHANGED <<processVars, registered, wanted, stop, keeper, lock, pc, deviceVars>>

-----------------------------------------------------------------------------
(* The process.                                                            *)

\* SIGTERM: shut_down() calls turn_off(persist=False) and exits.
Terminate ==
    /\ up /\ pc[Main] = "idle" /\ downs < MaxDowns
    /\ Goes(Main, "quit")
    /\ UNCHANGED <<processVars, registered, wanted, stop, keeper, alive, lock, deviceVars>>

TerminateTurnsOff ==
    /\ pc[Main] = "quit" /\ lock = NoOne
    /\ wanted' = FALSE
    /\ SetStop
    /\ lock' = Main
    /\ Goes(Main, "quitting")
    /\ UNCHANGED <<processVars, registered, keeper, deviceVars>>

GoesDown ==
    /\ up' = FALSE
    /\ downs' = downs + 1
    /\ pc' = [a \in Actors |-> "idle"]
    /\ Fresh

\* With the deregistration, answered or not, if the line was registered. The exit status
\* is 0, after which systemd does not start it again.
TerminateExits ==
    /\ pc[Main] = "quitting"
    /\ bound' \in IF registered THEN {bound, FALSE} ELSE {bound}
    /\ GoesDown
    /\ stopped' = TRUE
    /\ UNCHANGED <<marker, switched, unsaved>>

\* The deregistration raises out of shut_down(): a failure, unless systemd itself is what
\* stops the service.
TerminateRaises ==
    /\ pc[Main] = "quitting" /\ registered
    /\ GoesDown
    /\ stopped' \in BOOLEAN
    /\ UNCHANGED deviceVars

\* A switch the crash cuts short counts as whatever it had come to. While the daemon
\* resumes its lines a SIGTERM has no handler yet, and ends it as a clean stop.
Crash ==
    /\ up /\ downs < MaxDowns /\ pc[Main] # "quitting"
    /\ GoesDown
    /\ stopped' \in {FALSE, pc[Main] \in {"on", "register", "persist", "start"}}
    /\ switched' = IF lock = NoOne THEN switched ELSE marker
    /\ UNCHANGED <<marker, bound, unsaved>>

\* main() resumes a line that was on.
Boots ==
    /\ up' = TRUE /\ stopped' = FALSE
    /\ Goes(Main, IF marker THEN "on" ELSE "idle")
    /\ Fresh
    /\ UNCHANGED <<downs, deviceVars>>

\* Restart=on-failure.
Restart == ~up /\ ~stopped /\ Boots

\* Somebody starts the service, or the host.
StartedByHand == ~up /\ stopped /\ Boots

\* The gateway drops a binding nobody refreshed, or reboots (external).
BindingExpires ==
    /\ bound
    /\ bound' = FALSE
    /\ UNCHANGED <<processVars, registered, wanted, stop, keeper, alive, lock, pc, marker,
                   switched, unsaved>>

-----------------------------------------------------------------------------
SwitchStep(a) ==
    \/ TurnOn(a) \/ (\E result \in BOOLEAN : TurnOnRegisters(a, result))
    \/ TurnOnRaises(a) \/ Persists(a) \/ StartsKeeper(a)
    \/ TurnOff(a) \/ Deregisters(a) \/ DeregisterRaises(a) \/ Forgets(a)

KeeperStep(k) ==
    \/ FallsDue(k) \/ (\E result \in BOOLEAN : Refreshes(k, result)) \/ RefreshRaises(k)
    \/ NotesRaise(k) \/ Resigns(k) \/ Leaves(k)

Next ==
    \/ \E a \in Actors : Toggle(a) \/ SwitchStep(a)
    \/ \E k \in Keepers : KeeperStep(k)
    \/ Terminate \/ TerminateTurnsOff \/ TerminateExits \/ TerminateRaises
    \/ Crash \/ Restart \/ StartedByHand \/ BindingExpires

Spec == Init /\ [][Next]_vars

\* A thread that runs goes on, a shutdown comes to its end, systemd restarts a process
\* that failed (nobody has to start one that was stopped), and a gateway that is asked
\* again and again answers at last.
Fairness ==
    /\ \A a \in Actors : /\ WF_vars(SwitchStep(a))
                         /\ SF_vars(TurnOn(a))
                         /\ SF_vars(TurnOnRegisters(a, TRUE))
    /\ \A k \in Keepers : WF_vars(KeeperStep(k)) /\ SF_vars(Refreshes(k, TRUE))
    /\ WF_vars(TerminateTurnsOff) /\ WF_vars(TerminateExits) /\ WF_vars(Restart)

FairSpec == Spec /\ Fairness

-----------------------------------------------------------------------------
(* What holds.                                                             *)

\* However switching on and off interleaves with threads that are still on
\* their way out, at most one keepalive thread refreshes the registration.
OneKeeper == \A j, k \in Keepers : alive[j] # "none" /\ alive[k] # "none" => j = k

\* Whatever the gateway answered, across crashes, restarts and shutdowns: unless saving
\* failed, a line that was switched off is not brought back by its state file, and one whose
\* keepalive goes on trying for it has one (_persist, turn_on, turn_off).
MarkerRemembersSwitch ==
    lock = NoOne /\ ~unsaved =>
        /\ marker => switched
        /\ wanted /\ (\E k \in Keepers : alive[k] = "waiting") => marker

\* A line that was switched off is not registered again by a refresh that was
\* due at the time.
NeverBoundUnwanted == [][~bound /\ bound' => wanted]_vars

\* "So the loop keeps trying until it is told to stop": with a keepalive in its
\* loop and not told to stop, a wanted line that lost its registration gets it
\* back, whatever its refreshes ran into.
ComesBack ==
    (up /\ wanted /\ ~registered /\ ~stop
        /\ \E k \in Keepers : alive[k] \in {"waiting", "due", "raised"})
        ~> (registered \/ ~wanted \/ ~up)

\* A line with a state file is registered again by a process that systemd restarts or
\* somebody starts, unless it is switched off or the process is stopped: nothing between
\* the start and the first REGISTER, raising included, lets it be forgotten.
ResumesAfterDown ==
    (marker /\ switched /\ keeper = NoOne /\ ~stopped)
        ~> (up /\ registered) \/ ~switched \/ stopped

-----------------------------------------------------------------------------
(* What the repository says of this code, and an execution contradicts.    *)

\* "Switching a line on marks it as wanted and starts the keepalive, which keeps
\* retrying every few seconds whatever the first REGISTER did" (docs/ADMIN.md).
WantedIsKept ==
    up /\ wanted /\ lock = NoOne => \E k \in Keepers : alive[k] # "none"

\* The same, said of a turn_on() that returned.
SwitchedOnIsKept ==
    [][\A a \in Actors : pc[a] = "start" /\ pc'[a] = "idle" /\ up'
            => \E k \in Keepers : alive'[k] \notin {"none", "leaving"}]_vars

\* "an admin explicitly toggling off, or `systemctl stop`, clears the persisted state
\* first" (daemon.py).
StopClearsMarker == [][pc[Main] = "quitting" /\ ~up' => ~marker']_vars
=============================================================================
