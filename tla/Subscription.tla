----------------------------- MODULE Subscription -----------------------------
(***************************************************************************)
(* The negotiation for one participant's audio: bridge/subscription.py,    *)
(* class Subscription.  It does no I/O: each operator is told what         *)
(* happened and returns the machine it leaves behind and the step to take. *)
(* A step's delay says whether it is taken at once or after a wait.        *)
(***************************************************************************)
EXTENDS Naturals

CONSTANT MaxAttempts     \* config: how often the bridge asks in all

ASSUME AttemptsAssumption == MaxAttempts \in Nat \ {0}

\* CLOSED is left out: nothing in the bridge calls close().
States == {"idle", "requested", "answering", "connecting", "flowing", "given-up"}

\* sid: the handle the newest offer names, 0 for none.
Machines == [state : States, attempts : 0..MaxAttempts, generation : Nat, sid : Nat]
Fresh    == [state |-> "idle", attempts |-> 0, generation |-> 0, sid |-> 0]

\* Step(action): a step that names no generation has that of a fresh machine.
Step(action, delayed, generation) ==
    [action |-> action, delayed |-> delayed, generation |-> generation, sid |-> 0]
Nothing == Step("nothing", FALSE, 0)

Steps == [action : {"nothing", "request", "rebuild", "answer", "give-up"},
          delayed : BOOLEAN, generation : Nat, sid : Nat]

Leaves(m, step) == [machine |-> m, step |-> step]

\* Audio that flows and a machine that has given up absorb what comes late.
Absorbs(m) == m.state \in {"flowing", "given-up"}

Start(m) ==
    IF m.state # "idle" THEN Leaves(m, Nothing)
    ELSE Leaves([m EXCEPT !.state = "requested", !.attempts = 1],
                Step("request", FALSE, 0))

AnswerSent(m, generation) ==
    IF m.state = "answering" /\ generation = m.generation
      THEN [m EXCEPT !.state = "connecting"] ELSE m

Offer(m, sid) ==
    IF Absorbs(m) THEN Leaves(m, Nothing)
    ELSE Leaves([m EXCEPT !.state = "answering", !.generation = @ + 1, !.sid = sid],
                [Step("answer", FALSE, m.generation + 1) EXCEPT !.sid = sid])

\* Variant: asks once more than it may.
RetryOnceMore(m, action) ==
    IF m.attempts > MaxAttempts
      THEN Leaves([m EXCEPT !.state = "given-up"], Step("give-up", FALSE, 0))
      ELSE Leaves([m EXCEPT !.state = "requested", !.attempts = @ + 1,
                            !.generation = @ + 1],
                  Step(action, TRUE, m.generation + 1))

\* Requests and rebuilds come out of one budget, and the step that spends the
\* last of it names no generation.
Retry(m, action) ==
    IF m.attempts >= MaxAttempts
      THEN Leaves([m EXCEPT !.state = "given-up"], Step("give-up", FALSE, 0))
      ELSE Leaves([m EXCEPT !.state = "requested", !.attempts = @ + 1,
                            !.generation = @ + 1],
                  Step(action, TRUE, m.generation + 1))

\* Variant: a refusal only counts while the answer is being made.
RefusedWhileAnswering(m) ==
    IF m.state # "answering" THEN Leaves(m, Nothing) ELSE Retry(m, "rebuild")

\* A refusal, by a driver that does not say of which answer.
Refused(m) == IF Absorbs(m) THEN Leaves(m, Nothing) ELSE Retry(m, "rebuild")

NoPublisher(m) ==
    IF Absorbs(m) \/ m.state = "idle" THEN Leaves(m, Nothing) ELSE Retry(m, "request")

MediaArrived(m) == [m EXCEPT !.state = "flowing"]

\* Variant: only a newer negotiation overtakes a step, not audio that flows.
StillNewest(m, step) == step.generation = m.generation

StillCurrent(m, step) == ~Absorbs(m) /\ step.generation = m.generation
=============================================================================
