------------------------------- MODULE DialIn -------------------------------
(***************************************************************************)
(* A caller who keys in a meeting number: the keypad, the roads a key      *)
(* takes (RTP events, tones in the audio), the guard that makes one press  *)
(* of them, and the dialogue, which runs on a thread of its own.           *)
(*                                                                         *)
(* Time is counted in audio blocks.  The first packet of an event comes    *)
(* up to Lag blocks after the key went down, before its tone or after it,  *)
(* the key still down, up, or another one down; events keep their order.   *)
(* A tone begins up to Lead blocks after that, and before the next key.    *)
(* The same key comes again when the guard has forgotten it, as dtmf.py    *)
(* takes from measurement.  Prompts are left out but for their being cut   *)
(* short by a key, and for the sends that fail once the session is closed. *)
(***************************************************************************)
EXTENDS Naturals, Sequences, SequencesExt

CONSTANTS Digits, Hash, Star,   \* keys: TERMINATOR and CLEAR are keys of their own
          NoKey,                \* no key, and the sentinel stop() queues
          Gateways,             \* how one sends a press: sets of "event", "tone"
          Window,               \* blocks a repeat is dropped for
          Lead, Lag,            \* bounds: how late a tone, and an event, may be
          MinBlocks, MaxGap,    \* what makes a tone a press
          MaxDigits, Attempts,
          MaxPresses            \* bound: presses of the caller

Keys == Digits \cup {Hash, Star}
Silence == "silence"

\* The guard is longer than a tone takes to be one, late and with the longest gaps.
ASSUME DialInAssumption ==
    /\ {NoKey, Silence} \cap Keys = {} /\ {Hash, Star} \cap Digits = {} /\ Hash # Star
    /\ Gateways \subseteq (SUBSET {"event", "tone"}) \ {{}}
    /\ {Window, MaxGap, MaxPresses, Lead, Lag} \subseteq Nat /\ MinBlocks \in Nat \ {0, 1}
    /\ {MaxDigits, Attempts} \subseteq Nat \ {0}
    /\ Lead >= MaxGap /\ Window > Lead + 1 + (MinBlocks - 1) * (MaxGap + 1)

\* No event is so late that the key after it can have been recognised by its tone.
EventsKeepUp == Lag <= 2 * MinBlocks /\ Lag < Window

VARIABLES
    sends,      \* what this call's gateway does
    caller,     \* the key held down, and the blocks of it that passed
    pressed,    \* every press
    owed,       \* the events still under way: the ages of their presses, oldest first
    tones,      \* InbandDtmf
    guard,      \* DigitGuard, with the age of its digit
    heard,      \* every digit reported, and the silences the dialogue gave up at
    call,       \* the call, as the call manager ends it
    ivr,        \* the dialogue, as the table of calls names it
    stopped,    \* DialInIvr.stopped
    digits,     \* DialInIvr.digits
    at, typed,  \* where the dialogue is, and what collect() has
    pin,        \* it asks for the PIN
    attempt,
    answers,    \* what collect() returned, while the caller was there
    placed      \* the dialogue found a conversation

keypad == <<sends, caller, pressed>>
roads == <<owed, tones, guard>>
dialogue == <<at, typed, pin, attempt, answers, placed>>
vars == <<keypad, roads, heard, call, ivr, stopped, digits, dialogue>>

NoTone == [candidate |-> NoKey, blocks |-> 0, gap |-> 0, reported |-> NoKey]

Init ==
    /\ sends \in Gateways
    /\ caller = [down |-> NoKey, onset |-> FALSE, loud |-> 0, quiet |-> MaxGap + 1]
    /\ pressed = <<>> /\ owed = <<>> /\ tones = NoTone
    /\ guard = [digit |-> NoKey, age |-> Window]
    /\ heard = <<>> /\ call = "up" /\ ivr = [set |-> FALSE, from |-> 0]
    /\ stopped = FALSE /\ digits = <<>>
    /\ at = "off" /\ typed = <<>> /\ pin = FALSE /\ attempt = 0 /\ answers = <<>> /\ placed = FALSE

AtMost(n, m) == IF n <= m THEN n ELSE m
-----------------------------------------------------------------------------
(* The caller and the gateway. *)

Press(k) ==
    /\ call = "up" /\ caller.down = NoKey /\ Len(pressed) < MaxPresses
    /\ caller.quiet > 0
    /\ pressed # <<>> /\ k = Last(pressed) =>
         caller.quiet > MaxGap /\ guard.age = Window /\ owed = <<>>
    /\ caller' = [down |-> k, onset |-> TRUE, loud |-> 0, quiet |-> 0]
    /\ pressed' = Append(pressed, k)
    /\ owed' = IF "event" \in sends THEN Append(owed, 0) ELSE owed
    /\ UNCHANGED <<sends, tones, guard, heard, call, ivr, stopped, digits, dialogue>>

\* Not before the shortest press a receiver has to accept.
LiftsFinger ==
    /\ caller.down # NoKey /\ caller.loud >= MinBlocks
    /\ caller' = [caller EXCEPT !.down = NoKey, !.quiet = 0]
    /\ UNCHANGED <<sends, pressed, roads, heard, call, ivr, stopped, digits, dialogue>>

\* What a block of audio reads as: before the tone and within it a block may be
\* unreadable, and the tone's first one reads as some other key.
Reads ==
    IF caller.down = NoKey THEN {NoKey}
    ELSE {caller.down}
         \cup (IF caller.quiet < (IF caller.loud = 0 THEN Lead ELSE MaxGap) THEN {NoKey} ELSE {})
         \cup (IF caller.onset THEN Keys ELSE {})
Passes(read) ==
    LET loud == caller.down # NoKey /\ read = caller.down
    IN  caller' = [caller EXCEPT !.onset = @ /\ read = NoKey,
                                 !.loud = IF loud THEN AtMost(@ + 1, MinBlocks) ELSE @,
                                 !.quiet = IF loud THEN 0 ELSE AtMost(@ + 1, Lead + 1)]
-----------------------------------------------------------------------------
(* The receive thread of the RTP session. *)

\* Mutant: a key is not told from another.
AcceptsOneOfTwo(k) == guard.age >= Window
\* DigitGuard.accepts
Accepts(k) == k # guard.digit \/ guard.age >= Window

\* report_digit, and on_dtmf: a digit goes to the dialogue if one is running.
Reports(k, age) ==
    IF k # NoKey /\ Accepts(k)
    THEN /\ guard' = [digit |-> k, age |-> 0]
         /\ heard' = Append(heard, k)
         /\ digits' = IF ivr.set THEN Append(digits, k) ELSE digits
    ELSE guard' = [guard EXCEPT !.age = age] /\ UNCHANGED <<heard, digits>>

\* DtmfEvents.feed: the first packet of a press that arrives; the rest report nothing.
EventPacket ==
    /\ call = "up" /\ owed # <<>> /\ owed' = Tail(owed)
    /\ Reports(pressed[Len(pressed) - Len(owed) + 1], guard.age)
    /\ UNCHANGED <<keypad, tones, call, ivr, stopped, dialogue>>

\* Mutant: a gap as long as the longest one allowed ends the press.
GapEndsEarly(t) == t.gap + 1 >= MaxGap
GapEnds(t) == t.gap + 1 > MaxGap
\* InbandDtmf.feed: the detector after a block.
Listens(t, read) ==
    IF read = NoKey
    THEN IF GapEnds(t) THEN NoTone ELSE [t EXCEPT !.gap = @ + 1]
    ELSE LET new == read # t.candidate
             blocks == AtMost((IF new THEN 0 ELSE t.blocks) + 1, MinBlocks)
             said == IF new THEN NoKey ELSE t.reported
         IN  [candidate |-> read, blocks |-> blocks, gap |-> 0,
              reported |-> IF blocks >= MinBlocks THEN read ELSE said]
Detects(t, read) ==
    LET u == Listens(t, read)
    IN  IF read # NoKey /\ u.reported = read /\ (t.candidate # read \/ t.reported # read)
        THEN read ELSE NoKey

\* A packet of audio.
Block ==
    /\ call = "up" /\ \A i \in 1..Len(owed) : owed[i] < Lag
    /\ owed' = [i \in 1..Len(owed) |-> owed[i] + 1]
    /\ \E read \in Reads :
         /\ Passes(read)
         /\ IF "tone" \in sends
            THEN /\ tones' = Listens(tones, read)
                 /\ Reports(Detects(tones, read), AtMost(guard.age + 1, Window))
            ELSE Reports(NoKey, AtMost(guard.age + 1, Window)) /\ UNCHANGED tones
    /\ UNCHANGED <<sends, pressed, call, ivr, stopped, dialogue>>
-----------------------------------------------------------------------------
(* The end of the call: rtp.close(), then on_call_ended. *)

HangsUp == /\ call = "up" /\ call' = "closed"
           /\ UNCHANGED <<keypad, roads, heard, ivr, stopped, digits, dialogue>>

\* Mutant: the sentinel without the flag.
OnCallEndedUnflagged ==
    /\ call = "closed"
    /\ call' = IF ivr.set THEN "stopping" ELSE "over"
    /\ UNCHANGED <<keypad, roads, heard, ivr, stopped, digits, dialogue>>
\* A dialogue the table names is stopped.  Stop and sentinel are two steps.
OnCallEnded ==
    /\ call = "closed"
    /\ call' = IF ivr.set THEN "stopping" ELSE "over"
    /\ stopped' = ivr.set
    /\ UNCHANGED <<keypad, roads, heard, ivr, digits, dialogue>>
\* Mutant: the flag is enough.
SentinelForgotten == call = "stopping" /\ call' = "over"
                     /\ UNCHANGED <<keypad, roads, heard, ivr, stopped, digits, dialogue>>
Sentinel == /\ call = "stopping" /\ call' = "over" /\ digits' = Append(digits, NoKey)
            /\ UNCHANGED <<keypad, roads, heard, ivr, stopped, dialogue>>
-----------------------------------------------------------------------------
(* The dialogue: DialInIvr.run on its thread. *)

others == <<keypad, roads, call, stopped>>

\* ask_which_room names the dialogue in the table and starts it.
Starts ==
    /\ at = "off" /\ at' = "ask"
    /\ ivr' = [set |-> TRUE, from |-> Len(heard)]
    /\ UNCHANGED <<others, heard, digits, typed, pin, attempt, answers, placed>>

\* run() returns or raises; the table names no dialogue any more.
Ends(room) ==
    at' = "done" /\ ivr' = [ivr EXCEPT !.set = FALSE] /\ placed' = room
Goes(to) == at' = to /\ UNCHANGED <<ivr, placed>>

\* announce and play end when they are through, at a key or at stop(); a send
\* into a closed session raises, which ends the dialogue.
Sounds == call = "up" \/ stopped \/ digits # <<>>

Asks ==
    /\ at = "ask" /\ (IF Sounds THEN Goes("look") ELSE Ends(FALSE))
    /\ UNCHANGED <<others, heard, digits, typed, pin, attempt, answers>>

Welcomes ==
    /\ at = "accepted" /\ Ends(Sounds)
    /\ UNCHANGED <<others, heard, digits, typed, pin, attempt, answers>>

TurnsAway ==
    /\ at = "refused" /\ Ends(FALSE)
    /\ UNCHANGED <<others, heard, digits, typed, pin, attempt, answers>>

Rejects ==
    /\ at = "rejected" /\ attempt' = attempt + 1 /\ pin' = FALSE
    /\ IF Sounds /\ attempt' < Attempts THEN Goes("ask") ELSE Ends(FALSE)
    /\ UNCHANGED <<others, heard, digits, typed, answers>>

\* collect: the test of its loop, and the wait for a digit.
Looks ==
    /\ at = "look" /\ (IF stopped THEN Ends(FALSE) ELSE Goes("get"))
    /\ UNCHANGED <<others, heard, digits, typed, pin, attempt, answers>>

\* What collect returns is asked about, unless the caller is gone.
Returns(number) ==
    /\ typed' = <<>>
    /\ IF stopped THEN Ends(FALSE) /\ UNCHANGED answers
       ELSE /\ answers' = Append(answers, number)
            /\ Goes(IF number = <<>> THEN "rejected" ELSE "resolve")

\* Mutant: a mistyped number is not cleared.
TypesOn(key) == IF key \in Digits THEN Append(typed, key) ELSE typed
Types(key) == IF key \in Digits THEN Append(typed, key) ELSE IF key = Star THEN <<>> ELSE typed

Gets ==
    /\ at = "get" /\ digits # <<>> /\ digits' = Tail(digits)
    /\ LET key == Head(digits)
           now == Types(key)
       IN  IF key = NoKey THEN Returns(<<>>)
           ELSE IF (key = Hash /\ now # <<>>) \/ Len(now) >= MaxDigits THEN Returns(now)
           ELSE typed' = now /\ Goes("look") /\ UNCHANGED answers
    /\ UNCHANGED <<others, heard, pin, attempt>>

\* queue.Empty, after first_digit_timeout or next_digit_timeout.
GivesUpWaiting ==
    /\ at = "get" /\ digits = <<>> /\ Returns(typed)
    /\ heard' = IF stopped THEN heard ELSE Append(heard, Silence)
    /\ UNCHANGED <<others, digits, pin, attempt>>

\* join_by_meeting_id: Nextcloud's answer to the number, or to the PIN.
Resolves ==
    /\ at = "resolve"
    /\ \/ \E verdict \in {"accepted", "refused", "rejected"} : Goes(verdict) /\ UNCHANGED pin
       \/ ~pin /\ pin' = TRUE /\ Goes("ask")
    /\ UNCHANGED <<others, heard, digits, typed, attempt, answers>>
-----------------------------------------------------------------------------
Dials == (\E k \in Keys : Press(k)) \/ LiftsFinger \/ EventPacket \/ Block
Next ==
    \/ Dials
    \/ HangsUp \/ OnCallEnded \/ Sentinel
    \/ Starts \/ Asks \/ Welcomes \/ TurnsAway \/ Rejects
    \/ Looks \/ Gets \/ GivesUpWaiting \/ Resolves
Spec == Init /\ [][Next]_vars
-----------------------------------------------------------------------------
(* Properties *)

TypeOK ==
    /\ sends \in Gateways
    /\ caller \in [down : Keys \cup {NoKey}, onset : BOOLEAN, loud : 0..MinBlocks, quiet : 0..Lead + 1]
    /\ owed \in Seq(0..Lag)
    /\ tones \in [candidate : Keys \cup {NoKey}, blocks : 0..MinBlocks, gap : 0..MaxGap,
                  reported : Keys \cup {NoKey}]
    /\ guard \in [digit : Keys \cup {NoKey}, age : 0..Window]
    /\ \A i \in 1..Len(digits) : digits[i] = NoKey => stopped /\ i = Len(digits)
    /\ Len(typed) < MaxDigits /\ attempt \in 0..Attempts
    /\ ivr.set <=> at \notin {"off", "done"}

\* The keys among what was heard, in order.
KeysOf(said) ==
    LET keys[i \in 0..Len(said)] ==
          IF i = 0 THEN <<>>
          ELSE IF said[i] = Silence THEN keys[i - 1] ELSE Append(keys[i - 1], said[i])
    IN  keys[Len(said)]

\* Whatever the gateway sends of a press, as events, as tones or as both, in either
\* order, with an onset read as another key and a block nobody can read: it is reported
\* once, in order, and by the time the key is up; by the time its event has come, when
\* there is no tone.  It takes events that keep up (report_digit, DigitGuard, InbandDtmf).
EveryPressIsOne ==
    LET keys == KeysOf(heard) IN
    call = "up" =>
        /\ IsPrefix(keys, pressed)
        /\ caller.down = NoKey /\ ("tone" \in sends \/ owed = <<>>) => keys = pressed

\* Violated: "A press reported twice - as an event, as the tone the same gateway also
\* plays [...] - is one press", as long as the roads drift apart by less than the guard
\* is long.  The guard knows one key: an event that comes after the next key was
\* recognised is reported again (DigitGuard.accepts).
TwoRoadsOnePress == Len(KeysOf(heard)) <= Len(pressed)

\* What a key, or a silence, makes of what was understood before it.
KeysIn(s, key) ==
    CASE key = Silence \/ (key = Hash /\ s.typed # <<>>) ->
             [typed |-> <<>>, answers |-> Append(s.answers, s.typed)]
      [] key = Hash /\ s.typed = <<>> -> s
      [] key = Star -> [s EXCEPT !.typed = <<>>]
      [] OTHER -> IF Len(s.typed) + 1 < MaxDigits THEN [s EXCEPT !.typed = Append(@, key)]
                  ELSE [typed |-> <<>>, answers |-> Append(s.answers, Append(s.typed, key))]
Understood(before, keys) ==
    LET s[i \in 0..Len(keys)] == IF i = 0 THEN before ELSE KeysIn(s[i - 1], keys[i])
    IN  s[Len(keys)]

\* What was collected and what still waits is what was keyed since the dialogue
\* began: no attempt, prompt or PIN question loses a key or counts one twice, and a
\* hash with nothing before it answers nothing (collect, announce).
NothingKeyedIsLost ==
    ivr.set /\ ~stopped =>
        Understood([typed |-> typed, answers |-> answers], digits)
        = Understood([typed |-> <<>>, answers |-> <<>>], SubSeq(heard, ivr.from + 1, Len(heard)))

\* Once the call is over no dialogue waits for a key that cannot come: one in its
\* collect() is stopped and finds the sentinel, and one that began as the call ended
\* never gets so far (stop, play, on_call_ended).
HangupIsNoticed ==
    call = "over" /\ at \in {"look", "get"} => stopped /\ digits # <<>> /\ Last(digits) = NoKey
=============================================================================
