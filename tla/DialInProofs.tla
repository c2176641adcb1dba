----------------------------- MODULE DialInProofs -----------------------------
(***************************************************************************)
(* Theorems about DialIn for any keys, gateways, lengths of a press and    *)
(* numbers of digits and attempts: the types; that a dialogue never waits  *)
(* for the keys of a caller who is gone; that no key is lost on the way    *)
(* through the dialogue; and that every press is reported once.            *)
(***************************************************************************)
EXTENDS DialIn, Recursion, TLAPS

Places == {"off", "ask", "look", "get", "resolve", "accepted", "refused", "rejected", "done"}
Gaps == 0..Lead + 1
Blocks == 0..MinBlocks
Running == at \notin {"off", "done"}

\* Types of what TypeOK says less about.
Shapes ==
    /\ digits \in Seq(Keys \cup {NoKey}) /\ typed \in Seq(Keys)
    /\ heard \in Seq(Keys \cup {Silence}) /\ ivr \in [set : BOOLEAN, from : Nat]
    /\ stopped \in BOOLEAN /\ at \in Places
    /\ call \in {"up", "closed", "stopping", "over"}

\* The keypad, the events under way, and the detectors that listen to it.
RoadsInv ==
    /\ sends \in Gateways
    /\ pressed \in Seq(Keys) /\ owed \in Seq(0..Lag) /\ Len(owed) <= Len(pressed)
    /\ caller \in [down : Keys \cup {NoKey}, onset : BOOLEAN, loud : Blocks, quiet : Gaps]
    /\ tones \in [candidate : Keys \cup {NoKey}, blocks : 0..MinBlocks, gap : 0..MaxGap,
                  reported : Keys \cup {NoKey}]
    /\ guard \in [digit : Keys \cup {NoKey}, age : 0..Window]

\* What the dialogue has typed and tried.
AttemptInv ==
    /\ Len(typed) < MaxDigits
    /\ attempt \in 0..Attempts /\ (at # "done" => attempt < Attempts)

\* The table names the dialogue while it runs, and a dialogue that was not begun
\* has no keys; only a dialogue that was named is stopped, and the sentinel is the
\* last thing it is given.
StopInv ==
    /\ ivr.set <=> Running
    /\ at = "off" => digits = <<>> /\ ~stopped
    /\ stopped => call \in {"stopping", "over"}
    /\ call = "stopping" => stopped
    /\ \A i \in 1..Len(digits) : digits[i] = NoKey => call = "over" /\ stopped /\ i = Len(digits)

\* A dialogue whose call is over has been stopped and has the sentinel, or began
\* after the table was looked at, and then its first prompt raises.
OverInv ==
    call = "over" /\ Running =>
        \/ stopped /\ digits # <<>> /\ Last(digits) = NoKey
        \/ ~stopped /\ digits = <<>> /\ at = "ask"

IInv == Shapes /\ RoadsInv /\ AttemptInv /\ StopInv /\ OverInv

\* The dialogue and the end of the call leave the keypad and its roads alone.
LEMMA RoadsKept ==
    ASSUME RoadsInv, UNCHANGED <<keypad, roads>>
    PROVE  RoadsInv'
  BY DEF RoadsInv, keypad, roads

LEMMA InitInv == Init => IInv
<1> SUFFICES ASSUME Init PROVE IInv
  OBVIOUS
<1> USE DialInAssumption
<1>1. Shapes
  <2>1. digits \in Seq(Keys \cup {NoKey}) /\ typed \in Seq(Keys) /\ heard \in Seq(Keys \cup {Silence})
    BY DEF Init
  <2>2. ivr \in [set : BOOLEAN, from : Nat]
    BY DEF Init
  <2>3. stopped \in BOOLEAN /\ at \in Places /\ call \in {"up", "closed", "stopping", "over"}
    BY DEF Init, Places
  <2>4. QED
    BY <2>1, <2>2, <2>3 DEF Shapes
<1>2. RoadsInv
  BY DEF Init, RoadsInv, NoTone, Gaps, Blocks
<1>3. AttemptInv /\ StopInv /\ OverInv
  BY DEF Init, AttemptInv, StopInv, OverInv, Running
<1>4. QED
  BY <1>1, <1>2, <1>3 DEF IInv
-----------------------------------------------------------------------------
(* The keypad and the roads. *)

\* The lengths are numbers, and the tones have their shape.
LEMMA Lengths ==
    /\ {Window, MaxGap, Lead, Lag} \subseteq Nat /\ MinBlocks \in Nat /\ MinBlocks >= 2
    /\ Lead >= MaxGap /\ NoKey \notin Keys /\ Silence \notin Keys
<1>1. Window \in Nat /\ MaxGap \in Nat /\ Lead \in Nat /\ Lag \in Nat
  BY DialInAssumption
<1>2. MinBlocks \in Nat /\ MinBlocks # 0 /\ MinBlocks # 1
  BY DialInAssumption
<1>3. MinBlocks >= 2
  BY <1>2
<1>4. Lead >= MaxGap
  BY DialInAssumption
<1>5. NoKey \notin Keys /\ Silence \notin Keys
  BY DialInAssumption
<1>6. QED
  BY <1>1, <1>2, <1>3, <1>4, <1>5

LEMMA TonesInShape ==
    RoadsInv => tones \in [candidate : Keys \cup {NoKey}, blocks : 0..MinBlocks, gap : 0..MaxGap,
                           reported : Keys \cup {NoKey}]
  BY DEF RoadsInv

\* What a block may read as, and what the detector makes of it.
LEMMA ListensInShape ==
    ASSUME RoadsInv, NEW read \in Keys \cup {NoKey}
    PROVE  /\ Listens(tones, read) \in [candidate : Keys \cup {NoKey}, blocks : 0..MinBlocks,
                                        gap : 0..MaxGap, reported : Keys \cup {NoKey}]
           /\ Detects(tones, read) \in Keys \cup {NoKey}
<1> USE Lengths, TonesInShape
<1>1. CASE read = NoKey
  BY <1>1 DEF Listens, Detects, GapEnds, NoTone
<1>2. CASE read # NoKey
  <2>1. Detects(tones, read) \in Keys \cup {NoKey}
    BY DEF Detects
  <2>2. QED
    BY <1>2, <2>1 DEF Listens, AtMost
<1>3. QED
  BY <1>1, <1>2

\* A digit that is reported while the call is up leaves the dialogue in step: it is
\* no sentinel, and only a dialogue that runs gets it.
LEMMA ReportKeepsInv ==
    ASSUME IInv, NEW k \in Keys \cup {NoKey}, NEW age \in 0..Window, Reports(k, age),
           call = "up", UNCHANGED <<call, ivr, stopped, dialogue>>
    PROVE  /\ Shapes' /\ AttemptInv' /\ StopInv' /\ OverInv'
           /\ guard' \in [digit : Keys \cup {NoKey}, age : 0..Window]
<1> USE DEF IInv
<1>1. \/ k \in Keys /\ guard' = [digit |-> k, age |-> 0] /\ heard' = Append(heard, k)
         /\ digits' = IF ivr.set THEN Append(digits, k) ELSE digits
      \/ guard' = [guard EXCEPT !.age = age] /\ heard' = heard /\ digits' = digits
  BY DEF Reports
<1>2. /\ digits' \in Seq(Keys \cup {NoKey})
      /\ heard' \in Seq(Keys \cup {Silence})
      /\ guard' \in [digit : Keys \cup {NoKey}, age : 0..Window]
  <2>1. /\ digits \in Seq(Keys \cup {NoKey})
        /\ heard \in Seq(Keys \cup {Silence})
        /\ guard \in [digit : Keys \cup {NoKey}, age : 0..Window]
    BY DEF Shapes, RoadsInv
  <2>2. digits' \in Seq(Keys \cup {NoKey}) /\ heard' \in Seq(Keys \cup {Silence})
    <3>1. k \in Keys =>
             /\ Append(digits, k) \in Seq(Keys \cup {NoKey})
             /\ Append(heard, k) \in Seq(Keys \cup {Silence})
      BY <2>1
    <3>2. QED
      BY <1>1, <2>1, <3>1
  <2>3. 0 \in 0..Window
    BY DialInAssumption
  <2>4. guard' \in [digit : Keys \cup {NoKey}, age : 0..Window]
    BY <1>1, <2>1, <2>3
  <2>5. QED
    BY <2>2, <2>4
<1>3. Shapes'
  BY <1>2 DEF Shapes, dialogue
<1>4. AttemptInv' /\ OverInv'
  BY DEF AttemptInv, OverInv, dialogue
<1>5. \A i \in 1..Len(digits') : digits'[i] # NoKey
  <2>1. \A i \in 1..Len(digits) : digits[i] # NoKey
    BY DEF StopInv
  <2>2. CASE digits' = digits
    BY <2>1, <2>2
  <2>3. CASE k \in Keys /\ digits' = Append(digits, k)
    <3>1. digits \in Seq(Keys \cup {NoKey}) /\ k # NoKey
      BY <2>3, DialInAssumption DEF Shapes
    <3>2. QED
      BY <2>1, <2>3, <3>1
  <2>4. QED
    BY <1>1, <2>2, <2>3
<1>6. at = "off" => digits' = digits
  BY DEF Reports, StopInv, Running
<1>7. StopInv'
  BY <1>5, <1>6 DEF StopInv, Running, dialogue
<1>8. QED
  BY <1>2, <1>3, <1>4, <1>7

LEMMA PressKeepsInv ==
    ASSUME IInv, NEW k \in Keys, Press(k) PROVE IInv'
<1>1. 0 \in Gaps /\ 0 \in Blocks /\ 0 \in 0..Lag
  BY DialInAssumption DEF Gaps, Blocks
<1>2. /\ pressed' \in Seq(Keys) /\ owed' \in Seq(0..Lag) /\ Len(owed') <= Len(pressed')
  <2>1. pressed \in Seq(Keys) /\ owed \in Seq(0..Lag) /\ Len(owed) <= Len(pressed)
    BY DEF IInv, RoadsInv
  <2>2. /\ Append(pressed, k) \in Seq(Keys) /\ Len(Append(pressed, k)) = Len(pressed) + 1
        /\ Append(owed, 0) \in Seq(0..Lag) /\ Len(Append(owed, 0)) = Len(owed) + 1
    BY <1>1, <2>1
  <2>3. pressed' = Append(pressed, k) /\ (owed' = owed \/ owed' = Append(owed, 0))
    BY DEF Press
  <2>4. pressed' \in Seq(Keys) /\ Len(pressed') = Len(pressed) + 1
    BY <2>2, <2>3
  <2>5. owed' \in Seq(0..Lag) /\ (Len(owed') = Len(owed) \/ Len(owed') = Len(owed) + 1)
    BY <2>1, <2>2, <2>3
  <2>6. Len(pressed) \in Nat /\ Len(owed) \in Nat
    BY <2>1
  <2>7. QED
    BY ONLY <2>1, <2>4, <2>5, <2>6
<1>3. /\ caller' \in [down : Keys \cup {NoKey}, onset : BOOLEAN, loud : Blocks, quiet : Gaps]
      /\ UNCHANGED <<sends, tones, guard>>
  BY <1>1 DEF Press
<1>4. RoadsInv'
  BY <1>2, <1>3 DEF IInv, RoadsInv
<1>5. QED
  BY <1>4 DEF IInv, Press, Shapes, AttemptInv, StopInv, OverInv, Running, dialogue

LEMMA LiftKeepsInv == ASSUME IInv, LiftsFinger PROVE IInv'
<1>1. caller' \in [down : Keys \cup {NoKey}, onset : BOOLEAN, loud : Blocks, quiet : Gaps]
  <2>1. caller \in [down : Keys \cup {NoKey}, onset : BOOLEAN, loud : Blocks, quiet : Gaps]
    BY DEF IInv, RoadsInv
  <2>2. caller' = [caller EXCEPT !.down = NoKey, !.quiet = 0]
    BY DEF LiftsFinger
  <2>3. 0 \in Gaps
    BY DialInAssumption DEF Gaps
  <2>4. QED
    BY <2>1, <2>2, <2>3
<1>2. RoadsInv'
  BY <1>1 DEF IInv, LiftsFinger, RoadsInv, roads
<1>3. QED
  BY <1>2 DEF IInv, LiftsFinger, Shapes, AttemptInv, StopInv, OverInv, Running, dialogue

\* The press an event belongs to.
LEMMA NextOwed ==
    ASSUME RoadsInv, owed # <<>>
    PROVE  /\ Len(pressed) - Len(owed) + 1 \in 1..Len(pressed)
           /\ pressed[Len(pressed) - Len(owed) + 1] \in Keys
           /\ Tail(owed) \in Seq(0..Lag) /\ Len(Tail(owed)) = Len(owed) - 1
<1>1. pressed \in Seq(Keys) /\ owed \in Seq(0..Lag) /\ Len(owed) <= Len(pressed)
  BY DEF RoadsInv
<1>2. Len(pressed) \in Nat /\ Len(owed) \in Nat \ {0}
  BY <1>1
<1>3. Len(pressed) - Len(owed) + 1 \in 1..Len(pressed)
  BY <1>1, <1>2
<1>4. QED
  BY <1>1, <1>2, <1>3

LEMMA EventKeepsInv == ASSUME IInv, EventPacket PROVE IInv'
<1>1. PICK k \in Keys : Reports(k, guard.age)
  BY NextOwed DEF EventPacket, IInv
<1>2. /\ Shapes' /\ AttemptInv' /\ StopInv' /\ OverInv'
      /\ guard' \in [digit : Keys \cup {NoKey}, age : 0..Window]
  <2>1. guard.age \in 0..Window
    BY DEF IInv, RoadsInv
  <2>2. QED
    BY <1>1, <2>1, ReportKeepsInv DEF EventPacket
<1>3. owed' \in Seq(0..Lag) /\ Len(owed') <= Len(pressed)
  BY NextOwed DEF EventPacket, IInv, RoadsInv
<1>4. RoadsInv'
  BY <1>2, <1>3 DEF IInv, RoadsInv, EventPacket, keypad
<1>5. QED
  BY <1>2, <1>4 DEF IInv

\* The events under way grow a block older.
LEMMA OwedAges ==
    ASSUME RoadsInv, Block
    PROVE  /\ owed' \in Seq(0..Lag) /\ Len(owed') = Len(owed)
           /\ \A i \in 1..Len(owed) : owed'[i] = owed[i] + 1 /\ owed[i] < Lag /\ owed[i] \in Nat
<1>1. owed \in Seq(0..Lag) /\ Lag \in Nat
  BY DialInAssumption DEF RoadsInv
<1>2. PICK n \in Nat : n = Len(owed)
  BY <1>1
<1>3. \A i \in 1..n : owed[i] < Lag
  BY <1>2 DEF Block
<1>4. owed' = [i \in 1..n |-> owed[i] + 1]
  BY <1>2 DEF Block
<1>5. \A i \in 1..n : owed[i] \in Nat /\ owed[i] + 1 \in 0..Lag
  BY <1>1, <1>2, <1>3
<1>6. owed' \in Seq(0..Lag) /\ Len(owed') = n
  BY <1>4, <1>5
<1>7. QED
  BY <1>2, <1>3, <1>4, <1>5, <1>6

LEMMA BlockKeepsInv == ASSUME IInv, Block PROVE IInv'
<1> USE Lengths
<1>0. RoadsInv /\ call = "up" /\ UNCHANGED <<sends, call, ivr, stopped, dialogue>>
  BY DEF IInv, Block
<1>1. PICK read \in Reads :
        /\ Passes(read)
        /\ \/ /\ tones' = Listens(tones, read)
              /\ Reports(Detects(tones, read), AtMost(guard.age + 1, Window))
           \/ Reports(NoKey, AtMost(guard.age + 1, Window)) /\ tones' = tones
  BY DEF Block
<1>2. read \in Keys \cup {NoKey}
  BY <1>0 DEF Reads, RoadsInv
<1>3. AtMost(guard.age + 1, Window) \in 0..Window
  BY <1>0 DEF RoadsInv, AtMost
<1>4. PICK k \in Keys \cup {NoKey} : Reports(k, AtMost(guard.age + 1, Window))
  BY <1>0, <1>1, <1>2, ListensInShape
<1>5. /\ Shapes' /\ AttemptInv' /\ StopInv' /\ OverInv'
      /\ guard' \in [digit : Keys \cup {NoKey}, age : 0..Window]
  BY <1>0, <1>3, <1>4, ReportKeepsInv
<1>6. tones' \in [candidate : Keys \cup {NoKey}, blocks : 0..MinBlocks, gap : 0..MaxGap,
                  reported : Keys \cup {NoKey}]
  BY <1>0, <1>1, <1>2, ListensInShape, TonesInShape
<1>7. caller' \in [down : Keys \cup {NoKey}, onset : BOOLEAN, loud : Blocks, quiet : Gaps]
  <2>1. caller \in [down : Keys \cup {NoKey}, onset : BOOLEAN, loud : Blocks, quiet : Gaps]
    BY <1>0 DEF RoadsInv
  <2> DEFINE loud == caller.down # NoKey /\ read = caller.down
             o == caller.onset /\ read = NoKey
             l == IF loud THEN AtMost(caller.loud + 1, MinBlocks) ELSE caller.loud
             q == IF loud THEN 0 ELSE AtMost(caller.quiet + 1, Lead + 1)
  <2>2. caller.loud \in Blocks /\ caller.quiet \in Gaps
    BY <2>1
  <2>3. o \in BOOLEAN /\ l \in Blocks /\ q \in Gaps
    BY <2>2 DEF AtMost, Gaps, Blocks
  <2>4. caller' = [caller EXCEPT !.onset = o, !.loud = l, !.quiet = q]
    BY <1>1 DEF Passes
  <2> HIDE DEF o, l, q
  <2>5. QED
    BY <2>1, <2>3, <2>4
<1>10. pressed' = pressed /\ owed' \in Seq(0..Lag) /\ Len(owed') <= Len(pressed)
  BY <1>0, OwedAges DEF RoadsInv, Block
<1>8. RoadsInv'
  BY <1>0, <1>5, <1>6, <1>7, <1>10 DEF RoadsInv
<1>9. QED
  BY <1>5, <1>8 DEF IInv
-----------------------------------------------------------------------------
(* The end of the call. *)

LEMMA HangsUpKeepsInv == ASSUME IInv, HangsUp PROVE IInv'
<1>1. RoadsInv'
  BY RoadsKept DEF IInv, HangsUp
<1>2. QED
  BY <1>1 DEF IInv, HangsUp, Shapes, AttemptInv, StopInv, OverInv, Running, dialogue

LEMMA EndedKeepsInv == ASSUME IInv, OnCallEnded PROVE IInv'
<1>1. RoadsInv'
  BY RoadsKept DEF IInv, OnCallEnded
<1>2. Shapes' /\ AttemptInv' /\ OverInv'
  BY DEF IInv, OnCallEnded, Shapes, AttemptInv, StopInv, OverInv, Running, dialogue
<1>3. StopInv'
  BY DEF IInv, OnCallEnded, Shapes, StopInv, Running, dialogue
<1>4. QED
  BY <1>1, <1>2, <1>3 DEF IInv

LEMMA SentinelKeepsInv == ASSUME IInv, Sentinel PROVE IInv'
<1>1. RoadsInv'
  BY RoadsKept DEF IInv, Sentinel
<1>2. /\ digits' \in Seq(Keys \cup {NoKey}) /\ Len(digits') = Len(digits) + 1
      /\ digits'[Len(digits')] = NoKey /\ digits' # <<>>
      /\ \A i \in 1..Len(digits) : digits'[i] = digits[i]
  BY DEF IInv, Sentinel, Shapes
<1>3. Shapes' /\ AttemptInv'
  BY <1>2 DEF IInv, Sentinel, Shapes, AttemptInv, dialogue
<1>4. stopped' /\ OverInv'
  BY <1>2 DEF IInv, Sentinel, StopInv, OverInv, Last, Running, dialogue
<1>5. StopInv'
  <2>1. \A i \in 1..Len(digits) : digits[i] # NoKey
    BY DEF IInv, Sentinel, StopInv
  <2>2. \A i \in 1..Len(digits') : digits'[i] = NoKey => i = Len(digits')
    BY <1>2, <2>1 DEF IInv, Shapes
  <2>3. QED
    BY <1>4, <2>2 DEF IInv, Sentinel, StopInv, Running, dialogue
<1>6. QED
  BY <1>1, <1>3, <1>4, <1>5 DEF IInv
-----------------------------------------------------------------------------
(* The dialogue. *)

LEMMA StartsKeepsInv == ASSUME IInv, Starts PROVE IInv'
<1>1. RoadsInv'
  BY RoadsKept DEF IInv, Starts, others
<1>2. Shapes' /\ AttemptInv'
  BY DEF IInv, Starts, Shapes, AttemptInv, Places, others
<1>3. StopInv' /\ OverInv'
  BY DEF IInv, Starts, StopInv, OverInv, Running, others
<1>4. QED
  BY <1>1, <1>2, <1>3 DEF IInv

\* A step that asks, answers or waits, and takes no key.
LEMMA SpeaksKeepsInv ==
    ASSUME IInv, Asks \/ Welcomes \/ TurnsAway \/ Rejects \/ Looks \/ Resolves
    PROVE  IInv'
<1> USE Lengths
<1>1. UNCHANGED <<others, heard, digits, typed>>
  BY DEF Asks, Welcomes, TurnsAway, Rejects, Looks, Resolves
<1>2. RoadsInv'
  BY <1>1, RoadsKept DEF IInv, others
<1>3. /\ at' \in Places \ {"off"} /\ at \notin {"off", "done"}
      /\ \/ at' = "done" /\ ivr' = [ivr EXCEPT !.set = FALSE]
         \/ at' # "done" /\ ivr' = ivr
  BY DEF Asks, Welcomes, TurnsAway, Rejects, Looks, Resolves, Goes, Ends, Places
<1>4. Shapes'
  BY <1>1, <1>3 DEF IInv, Shapes, others
<1>5. AttemptInv'
  <2>1. Attempts \in Nat /\ attempt \in 0..Attempts /\ attempt < Attempts /\ typed' = typed
    BY <1>1, <1>3, DialInAssumption DEF IInv, AttemptInv
  <2>2. attempt' = attempt \/ (attempt' = attempt + 1 /\ (at' = "done" \/ attempt' < Attempts))
    BY <1>3 DEF Asks, Welcomes, TurnsAway, Rejects, Looks, Resolves, Goes, Ends
  <2>3. QED
    BY <2>1, <2>2 DEF IInv, AttemptInv
<1>6. StopInv'
  BY <1>1, <1>3 DEF IInv, Shapes, StopInv, Running, others
<1>7. ~stopped /\ digits = <<>> /\ at = "ask" /\ call = "over" => at' = "done"
  BY DEF Asks, Welcomes, TurnsAway, Rejects, Looks, Resolves, Sounds, Ends
<1>8. OverInv'
  BY <1>1, <1>3, <1>7 DEF IInv, OverInv, Running, others
<1>9. QED
  BY <1>2, <1>4, <1>5, <1>6, <1>8 DEF IInv

LEMMA ReturnsKeeps ==
    ASSUME IInv, Running, NEW number, Returns(number)
    PROVE  /\ typed' = <<>> /\ at' \in Places \ {"off"} /\ (stopped => at' = "done")
           /\ \/ at' = "done" /\ ivr' = [ivr EXCEPT !.set = FALSE]
              \/ at' # "done" /\ ivr' = ivr
  BY DEF Returns, Goes, Ends, Places

LEMMA GetsKeepsInv == ASSUME IInv, Gets PROVE IInv'
<1>0. /\ at = "get" /\ digits # <<>> /\ digits' = Tail(digits)
      /\ UNCHANGED <<others, heard, pin, attempt>>
  BY DEF Gets
<1>1. RoadsInv'
  BY <1>0, RoadsKept DEF IInv, others
<1> DEFINE key == Head(digits)
           now == Types(key)
<1>2. /\ key \in Keys \cup {NoKey} /\ digits' \in Seq(Keys \cup {NoKey})
      /\ Len(digits') = Len(digits) - 1 /\ key = digits[1]
      /\ \A i \in 1..Len(digits') : digits'[i] = digits[i + 1]
  BY <1>0 DEF IInv, Shapes
<1>3. now \in Seq(Keys)
  BY <1>2 DEF IInv, Shapes, Types, Keys
<1>4. \/ Returns(<<>>) \/ Returns(now)
      \/ /\ key # NoKey /\ Len(now) < MaxDigits
         /\ typed' = now /\ at' = "look" /\ ivr' = ivr
  <2>1. Len(now) \in Nat /\ MaxDigits \in Nat
    BY <1>3, DialInAssumption
  <2> HIDE DEF now
  <2>2. QED
    BY <2>1 DEF Gets, Goes, now
<1>5. /\ typed' \in Seq(Keys) /\ Len(typed') < MaxDigits
      /\ at' \in Places \ {"off"}
      /\ \/ at' = "done" /\ ivr' = [ivr EXCEPT !.set = FALSE]
         \/ at' # "done" /\ ivr' = ivr
      /\ stopped /\ at' # "done" => key # NoKey
  <2>0. Running
    BY <1>0 DEF Running
  <2>1. CASE Returns(<<>>) \/ Returns(now)
    <3>1. /\ typed' = <<>> /\ at' \in Places \ {"off"} /\ (stopped => at' = "done")
          /\ \/ at' = "done" /\ ivr' = [ivr EXCEPT !.set = FALSE]
             \/ at' # "done" /\ ivr' = ivr
      BY <2>0, <2>1, ReturnsKeeps
    <3>2. <<>> \in Seq(Keys) /\ Len(<<>>) < MaxDigits
      BY DialInAssumption
    <3>3. QED
      BY <3>1, <3>2
  <2>2. CASE key # NoKey /\ Len(now) < MaxDigits /\ typed' = now /\ at' = "look" /\ ivr' = ivr
    BY <1>3, <2>2 DEF Places
  <2>3. QED
    BY <1>4, <2>1, <2>2
<1>6. Shapes' /\ AttemptInv'
  BY <1>0, <1>2, <1>5 DEF IInv, Shapes, AttemptInv, others
<1>7. StopInv'
  <2>1. \A i \in 1..Len(digits') :
           digits'[i] = NoKey => call = "over" /\ stopped /\ i = Len(digits')
    <3>1. \A i \in 1..Len(digits) :
             digits[i] = NoKey => call = "over" /\ stopped /\ i = Len(digits)
      BY DEF IInv, StopInv
    <3>2. Len(digits) \in Nat
      BY DEF IInv, Shapes
    <3>3. QED
      BY <1>2, <3>1, <3>2
  <2>2. QED
    BY <1>0, <1>5, <2>1 DEF IInv, Shapes, StopInv, Running, others
<1>8. OverInv'
  <2> SUFFICES ASSUME call = "over", at' # "done"
               PROVE  stopped /\ digits' # <<>> /\ Last(digits') = NoKey
    BY <1>0 DEF OverInv, Running, others
  <2>1. stopped /\ Last(digits) = NoKey
    BY <1>0 DEF IInv, OverInv, Running
  <2>2. key # NoKey
    BY <1>5, <2>1
  <2>3. Len(digits) > 1
    BY <1>0, <1>2, <2>1, <2>2 DEF IInv, Shapes, Last
  <2>4. Last(digits') = NoKey /\ Len(digits') > 0
    <3>1. Len(digits) \in Nat
      BY DEF IInv, Shapes
    <3>2. QED
      BY <1>2, <2>1, <2>3, <3>1 DEF Last
  <2>5. QED
    BY <1>2, <2>1, <2>4
<1>9. QED
  BY <1>1, <1>6, <1>7, <1>8 DEF IInv

LEMMA GivesUpKeepsInv == ASSUME IInv, GivesUpWaiting PROVE IInv'
<1>0. /\ at = "get" /\ digits = <<>> /\ Returns(typed)
      /\ heard' = (IF stopped THEN heard ELSE Append(heard, Silence))
      /\ UNCHANGED <<others, digits, pin, attempt>>
  BY DEF GivesUpWaiting
<1>1. RoadsInv'
  BY <1>0, RoadsKept DEF IInv, others
<1>2. /\ typed' = <<>> /\ at' \in Places \ {"off"}
      /\ \/ at' = "done" /\ ivr' = [ivr EXCEPT !.set = FALSE]
         \/ at' # "done" /\ ivr' = ivr
  BY <1>0, ReturnsKeeps DEF Running
<1>3. call # "over"
  BY <1>0 DEF IInv, OverInv, Running
<1>4. heard' \in Seq(Keys \cup {Silence})
  BY <1>0 DEF IInv, Shapes
<1>5. Shapes'
  <2>1. ivr' \in [set : BOOLEAN, from : Nat]
    BY <1>2 DEF IInv, Shapes
  <2>2. QED
    BY <1>0, <1>2, <1>4, <2>1 DEF IInv, Shapes, others
<1>6. AttemptInv'
  BY <1>0, <1>2, DialInAssumption DEF IInv, AttemptInv, others
<1>7. StopInv' /\ OverInv'
  BY <1>0, <1>2, <1>3 DEF IInv, Shapes, StopInv, OverInv, Running, others
<1>8. QED
  BY <1>1, <1>5, <1>6, <1>7 DEF IInv
-----------------------------------------------------------------------------
LEMMA StutterKeepsInv == ASSUME IInv, UNCHANGED vars PROVE IInv'
  BY DEF IInv, vars, keypad, roads, dialogue, Shapes, RoadsInv, AttemptInv, StopInv, OverInv,
         Running

\* The inductive invariant of the dial-in, in every reachable state.
THEOREM DialInInvariance == Spec => []IInv
<1>1. Init => IInv
  BY InitInv
<1>2. IInv /\ [Next]_vars => IInv'
  <2> SUFFICES ASSUME IInv, [Next]_vars PROVE IInv'
    OBVIOUS
  <2>1. CASE \E k \in Keys : Press(k)
    BY <2>1, PressKeepsInv
  <2>2. CASE LiftsFinger \/ EventPacket \/ Block
    BY <2>2, LiftKeepsInv, EventKeepsInv, BlockKeepsInv
  <2>3. CASE HangsUp \/ OnCallEnded \/ Sentinel
    BY <2>3, HangsUpKeepsInv, EndedKeepsInv, SentinelKeepsInv
  <2>4. CASE Starts
    BY <2>4, StartsKeepsInv
  <2>5. CASE Asks \/ Welcomes \/ TurnsAway \/ Rejects \/ Looks \/ Resolves
    BY <2>5, SpeaksKeepsInv
  <2>6. CASE Gets \/ GivesUpWaiting
    BY <2>6, GetsKeepsInv, GivesUpKeepsInv
  <2>7. CASE UNCHANGED vars
    BY <2>7, StutterKeepsInv
  <2>8. QED
    BY <2>1, <2>2, <2>3, <2>4, <2>5, <2>6, <2>7 DEF Next, Dials
<1>3. QED
  BY <1>1, <1>2, PTL DEF Spec

\* Every variable of the dial-in keeps its type; the sentinel that stop() queues is
\* the last thing in the queue of keys, and the table names the dialogue exactly
\* while it runs.
THEOREM DialInTypes == Spec => []TypeOK
<1>1. IInv => TypeOK
  BY DEF IInv, RoadsInv, AttemptInv, StopInv, Running, TypeOK, Gaps, Blocks
<1>2. QED
  BY <1>1, DialInInvariance, PTL

\* Whenever and wherever the dialogue is when the caller hangs up, it does not wait
\* for a key that cannot come (stop, play, on_call_ended).
THEOREM NobodyWaitsForAGoneCaller == Spec => []HangupIsNoticed
<1>1. IInv => HangupIsNoticed
  BY DEF IInv, OverInv, Running, HangupIsNoticed
<1>2. QED
  BY <1>1, DialInInvariance, PTL
-----------------------------------------------------------------------------
(* What is made of keys, one by one. *)

Signs == Keys \cup {Silence}
Understanding == [typed : Seq(Keys), answers : Seq(Seq(Keys))]
Understands == [p \in Understanding \X Signs |-> KeysIn(p[1], p[2])]
Collects == [p \in Seq(Keys) \X Signs |-> IF p[2] = Silence THEN p[1] ELSE Append(p[1], p[2])]

\* What a key does to what was understood, case by case.
LEMMA KeysInCases ==
    ASSUME NEW s \in Understanding, NEW key \in Signs
    PROVE  /\ key = Silence \/ (key = Hash /\ s.typed # <<>>) =>
                 KeysIn(s, key) = [typed |-> <<>>, answers |-> Append(s.answers, s.typed)]
           /\ key = Hash /\ s.typed = <<>> => KeysIn(s, key) = s
           /\ key = Star => KeysIn(s, key) = [s EXCEPT !.typed = <<>>]
           /\ key \in Digits =>
                 KeysIn(s, key) = IF Len(s.typed) + 1 < MaxDigits
                                  THEN [s EXCEPT !.typed = Append(@, key)]
                                  ELSE [typed |-> <<>>, answers |-> Append(s.answers, Append(s.typed, key))]
<1>1. /\ Silence \notin Keys /\ Hash \in Keys /\ Star \in Keys /\ Hash # Star
      /\ Hash \notin Digits /\ Star \notin Digits /\ Digits \subseteq Keys
  BY DialInAssumption DEF Keys
<1>2. QED
  BY <1>1 DEF KeysIn

LEMMA KeysInShape ==
    ASSUME NEW s \in Understanding, NEW key \in Signs
    PROVE  KeysIn(s, key) \in Understanding
<1>1. s.typed \in Seq(Keys) /\ s.answers \in Seq(Seq(Keys)) /\ <<>> \in Seq(Keys)
  BY DEF Understanding
<1>2. Append(s.answers, s.typed) \in Seq(Seq(Keys))
  BY <1>1
<1>3. key \in Digits => Append(s.typed, key) \in Seq(Keys) /\ Append(s.answers, Append(s.typed, key)) \in Seq(Seq(Keys))
  BY <1>1 DEF Keys
<1>4. key = Silence \/ key = Hash \/ key = Star \/ key \in Digits
  BY DEF Signs, Keys
<1>5. CASE key = Silence \/ (key = Hash /\ s.typed # <<>>)
  <2>1. KeysIn(s, key) = [typed |-> <<>>, answers |-> Append(s.answers, s.typed)]
    BY <1>5, KeysInCases
  <2>2. QED
    BY <1>1, <1>2, <2>1 DEF Understanding
<1>6. CASE key = Hash /\ s.typed = <<>>
  BY <1>6, KeysInCases
<1>7. CASE key = Star
  BY <1>1, <1>7, KeysInCases DEF Understanding
<1>8. CASE key \in Digits
  <2>1. \/ KeysIn(s, key) = [s EXCEPT !.typed = Append(@, key)]
        \/ KeysIn(s, key) = [typed |-> <<>>, answers |-> Append(s.answers, Append(s.typed, key))]
    BY <1>8, KeysInCases
  <2>2. [s EXCEPT !.typed = Append(@, key)] \in Understanding
    BY <1>1, <1>3, <1>8 DEF Understanding
  <2>3. [typed |-> <<>>, answers |-> Append(s.answers, Append(s.typed, key))] \in Understanding
    BY <1>1, <1>3, <1>8 DEF Understanding
  <2>4. QED
    BY <2>1, <2>2, <2>3
<1>9. QED
  BY <1>4, <1>5, <1>6, <1>7, <1>8

LEMMA UnderstandsStep ==
    /\ Understands \in [Understanding \X Signs -> Understanding]
    /\ \A s \in Understanding, key \in Signs : Understands[<<s, key>>] = KeysIn(s, key)
  BY KeysInShape DEF Understands

LEMMA UnderstoodFolds ==
    ASSUME NEW before \in Understanding, NEW keys \in Seq(Signs)
    PROVE  Understood(before, keys) = Folded(Understands, before, keys)
<1> DEFINE IsOne(f) == f = [i \in 0..Len(keys) |-> IF i = 0 THEN before ELSE KeysIn(f[i - 1], keys[i])]
<1>1. \E f : IsOne(f)
  <2>1. PICK r : IsRun(r, Understands, before, keys)
    BY RunExists
  <2>2. \A i \in 0..Len(keys) : r[i] \in Understanding
    BY <2>1, UnderstandsStep, FoldedInShape
  <2>3. ASSUME NEW i \in 0..Len(keys), i # 0
        PROVE  Understands[<<r[i - 1], keys[i]>>] = KeysIn(r[i - 1], keys[i])
    <3>1. i - 1 \in 0..Len(keys) /\ keys[i] \in Signs
      BY <2>3
    <3>2. QED
      BY <2>2, <3>1, UnderstandsStep
  <2>4. IsOne(r)
    BY <2>1, <2>3 DEF IsRun
  <2>5. QED
    BY <2>4
<1>2. ASSUME NEW u, IsOne(u) PROVE u[Len(keys)] = Folded(Understands, before, keys)
  <2>1. u[0] = before
    BY <1>2
  <2>2. ASSUME NEW i \in 1..Len(keys), u[i - 1] \in Understanding
        PROVE  u[i] = Understands[<<u[i - 1], keys[i]>>] /\ u[i] \in Understanding
    <3>1. i \in 0..Len(keys) /\ i # 0 /\ keys[i] \in Signs
      OBVIOUS
    <3>2. u[i] = KeysIn(u[i - 1], keys[i])
      BY <1>2, <3>1
    <3>3. QED
      BY <2>2, <3>1, <3>2, UnderstandsStep, KeysInShape
  <2>3. \A i \in 0..Len(keys) : u[i] \in Understanding
    <3>1. Len(keys) \in Nat
      OBVIOUS
    <3> HIDE DEF IsOne
    <3>2. QED
      BY <2>1, <2>2, <3>1, StaysInShape
  <2>4. IsRun(u, Understands, before, keys)
    <3>1. ASSUME NEW i \in 0..Len(keys), i # 0
          PROVE  Understands[<<u[i - 1], keys[i]>>] = KeysIn(u[i - 1], keys[i])
      <4>1. i - 1 \in 0..Len(keys) /\ keys[i] \in Signs
        BY <3>1
      <4>2. QED
        BY <2>3, <4>1, UnderstandsStep
    <3>2. QED
      BY <1>2, <3>1 DEF IsRun
  <2>5. QED
    BY <2>4, FoldedIsRun
<1>3. QED
  BY <1>1, <1>2 DEF Understood

\* The same of the keys that were reported, without the silences.
LEMMA CollectsStep ==
    /\ Collects \in [Seq(Keys) \X Signs -> Seq(Keys)]
    /\ \A s \in Seq(Keys), sign \in Signs :
         Collects[<<s, sign>>] = IF sign = Silence THEN s ELSE Append(s, sign)
<1>1. \A s \in Seq(Keys), sign \in Signs :
         (IF sign = Silence THEN s ELSE Append(s, sign)) \in Seq(Keys)
  BY DEF Signs
<1>2. QED
  BY <1>1 DEF Collects

LEMMA KeysOfFolds ==
    ASSUME NEW said \in Seq(Signs)
    PROVE  KeysOf(said) = Folded(Collects, <<>>, said)
<1> DEFINE IsOne(f) == f = [i \in 0..Len(said) |->
                              IF i = 0 THEN <<>>
                              ELSE IF said[i] = Silence THEN f[i - 1] ELSE Append(f[i - 1], said[i])]
<1>0. <<>> \in Seq(Keys)
  OBVIOUS
<1>1. \E f : IsOne(f)
  <2>1. PICK r : IsRun(r, Collects, <<>>, said)
    BY RunExists
  <2>2. \A i \in 0..Len(said) : r[i] \in Seq(Keys)
    BY <1>0, <2>1, CollectsStep, FoldedInShape
  <2>3. ASSUME NEW i \in 0..Len(said), i # 0
        PROVE  Collects[<<r[i - 1], said[i]>>]
               = IF said[i] = Silence THEN r[i - 1] ELSE Append(r[i - 1], said[i])
    <3>1. i - 1 \in 0..Len(said) /\ said[i] \in Signs
      BY <2>3
    <3>2. QED
      BY <2>2, <3>1, CollectsStep
  <2>4. IsOne(r)
    BY <2>1, <2>3 DEF IsRun
  <2>5. QED
    BY <2>4
<1>2. ASSUME NEW u, IsOne(u) PROVE u[Len(said)] = Folded(Collects, <<>>, said)
  <2>1. u[0] = <<>>
    BY <1>2
  <2>2. ASSUME NEW i \in 1..Len(said), u[i - 1] \in Seq(Keys)
        PROVE  u[i] \in Seq(Keys)
    <3>1. i \in 0..Len(said) /\ i # 0 /\ said[i] \in Signs
      OBVIOUS
    <3>2. u[i] = IF said[i] = Silence THEN u[i - 1] ELSE Append(u[i - 1], said[i])
      BY <1>2, <3>1
    <3>3. QED
      BY <2>2, <3>1, <3>2 DEF Signs
  <2>3. \A i \in 0..Len(said) : u[i] \in Seq(Keys)
    <3>1. Len(said) \in Nat
      OBVIOUS
    <3> HIDE DEF IsOne
    <3>2. QED
      BY <1>0, <2>1, <2>2, <3>1, StaysInShape
  <2>4. IsRun(u, Collects, <<>>, said)
    <3>1. ASSUME NEW i \in 0..Len(said), i # 0
          PROVE  Collects[<<u[i - 1], said[i]>>]
                 = IF said[i] = Silence THEN u[i - 1] ELSE Append(u[i - 1], said[i])
      <4>1. i - 1 \in 0..Len(said) /\ said[i] \in Signs
        BY <3>1
      <4>2. QED
        BY <2>3, <4>1, CollectsStep
    <3>2. QED
      BY <1>2, <3>1 DEF IsRun
  <2>5. QED
    BY <2>4, FoldedIsRun
<1>3. QED
  BY <1>1, <1>2 DEF KeysOf

\* So a key more is one more step, and a key less at the front is one already taken.
LEMMA UnderstoodNone ==
    ASSUME NEW s \in Understanding PROVE Understood(s, <<>>) = s
<1>1. <<>> \in Seq(Signs)
  OBVIOUS
<1>2. QED
  BY <1>1, UnderstoodFolds, FoldedEmpty

LEMMA UnderstoodShape ==
    ASSUME NEW s \in Understanding, NEW keys \in Seq(Signs)
    PROVE  Understood(s, keys) \in Understanding
<1>1. PICK r : IsRun(r, Understands, s, keys)
  BY RunExists
<1>2. r[Len(keys)] \in Understanding
  <2>1. \A i \in 0..Len(keys) : r[i] \in Understanding
    BY <1>1, UnderstandsStep, FoldedInShape
  <2>2. Len(keys) \in 0..Len(keys)
    OBVIOUS
  <2>3. QED
    BY <2>1, <2>2
<1>3. QED
  BY <1>1, <1>2, UnderstoodFolds, FoldedIsRun

LEMMA UnderstoodAppend ==
    ASSUME NEW s \in Understanding, NEW keys \in Seq(Signs), NEW key \in Signs
    PROVE  Understood(s, Append(keys, key)) = KeysIn(Understood(s, keys), key)
<1>1. Append(keys, key) \in Seq(Signs)
  OBVIOUS
<1>2. Folded(Understands, s, Append(keys, key)) = Understands[<<Folded(Understands, s, keys), key>>]
  BY FoldedAppend
<1>3. Understood(s, Append(keys, key)) = Understands[<<Understood(s, keys), key>>]
  BY <1>1, <1>2, UnderstoodFolds
<1>4. QED
  BY <1>3, UnderstoodShape, UnderstandsStep

LEMMA UnderstoodTail ==
    ASSUME NEW s \in Understanding, NEW keys \in Seq(Signs), keys # <<>>
    PROVE  Understood(s, keys) = Understood(KeysIn(s, Head(keys)), Tail(keys))
<1>1. Head(keys) \in Signs /\ Tail(keys) \in Seq(Signs)
  OBVIOUS
<1>2. Folded(Understands, s, keys) = Folded(Understands, Understands[<<s, Head(keys)>>], Tail(keys))
  BY FoldedTail
<1>3. Understands[<<s, Head(keys)>>] = KeysIn(s, Head(keys)) /\ KeysIn(s, Head(keys)) \in Understanding
  BY <1>1, UnderstandsStep, KeysInShape
<1>4. QED
  BY <1>1, <1>2, <1>3, UnderstoodFolds

LEMMA KeysOfAppend ==
    ASSUME NEW said \in Seq(Signs), NEW sign \in Signs
    PROVE  /\ KeysOf(said) \in Seq(Keys)
           /\ KeysOf(Append(said, sign))
              = IF sign = Silence THEN KeysOf(said) ELSE Append(KeysOf(said), sign)
<1>1. Append(said, sign) \in Seq(Signs) /\ <<>> \in Seq(Keys)
  OBVIOUS
<1>2. KeysOf(said) \in Seq(Keys)
  <2>1. PICK r : IsRun(r, Collects, <<>>, said)
    BY RunExists
  <2>2. \A i \in 0..Len(said) : r[i] \in Seq(Keys)
    BY <1>1, <2>1, CollectsStep, FoldedInShape
  <2>3. Len(said) \in 0..Len(said)
    OBVIOUS
  <2>4. QED
    BY <2>1, <2>2, <2>3, KeysOfFolds, FoldedIsRun
<1>3. Folded(Collects, <<>>, Append(said, sign)) = Collects[<<Folded(Collects, <<>>, said), sign>>]
  BY FoldedAppend
<1>4. KeysOf(Append(said, sign)) = Collects[<<KeysOf(said), sign>>]
  BY <1>1, <1>3, KeysOfFolds
<1>5. QED
  BY <1>2, <1>4, CollectsStep

LEMMA KeysOfNone == KeysOf(<<>>) = <<>>
<1>1. <<>> \in Seq(Signs)
  OBVIOUS
<1>2. QED
  BY <1>1, KeysOfFolds, FoldedEmpty
-----------------------------------------------------------------------------
(* What was collected and what still waits is what was keyed. *)

Taken == [typed |-> typed, answers |-> answers]
Begun == [typed |-> <<>>, answers |-> <<>>]
Since == SubSeq(heard, ivr.from + 1, Len(heard))

\* NothingKeyedIsLost, with what was heard before the dialogue set apart.
KeyedInv ==
    /\ answers \in Seq(Seq(Keys)) /\ ivr.from <= Len(heard)
    /\ at = "off" => typed = <<>> /\ answers = <<>>
    /\ NothingKeyedIsLost

LEMMA KeyedShapes ==
    ASSUME IInv, KeyedInv
    PROVE  /\ Taken \in Understanding /\ Begun \in Understanding
           /\ Taken.typed = typed /\ Taken.answers = answers
           /\ Since \in Seq(Signs) /\ heard \in Seq(Signs) /\ ivr.from \in Nat
           /\ ~stopped => digits \in Seq(Signs) /\ \A i \in 1..Len(digits) : digits[i] \in Keys
           /\ ivr.set /\ ~stopped => Understood(Taken, digits) = Understood(Begun, Since)
<1>1. typed \in Seq(Keys) /\ answers \in Seq(Seq(Keys)) /\ heard \in Seq(Signs) /\ ivr.from \in Nat
  BY DEF IInv, Shapes, KeyedInv, Signs
<1>2. Taken \in Understanding /\ Begun \in Understanding
  BY <1>1 DEF Taken, Begun, Understanding
<1>3. Since \in Seq(Signs)
  BY <1>1 DEF KeyedInv, Since
<1>4. ASSUME ~stopped
      PROVE  digits \in Seq(Signs) /\ \A i \in 1..Len(digits) : digits[i] \in Keys
  <2>1. digits \in Seq(Keys \cup {NoKey}) /\ \A i \in 1..Len(digits) : digits[i] # NoKey
    BY <1>4 DEF IInv, Shapes, StopInv
  <2>2. \A i \in 1..Len(digits) : digits[i] \in Keys /\ digits[i] \in Signs
    BY <2>1 DEF Signs
  <2>3. digits \in Seq(Signs)
    BY <2>1, <2>2
  <2>4. QED
    BY <2>2, <2>3
<1>5. ivr.set /\ ~stopped => Understood(Taken, digits) = Understood(Begun, Since)
  BY DEF KeyedInv, NothingKeyedIsLost, Taken, Begun, Since
<1>6. QED
  BY <1>1, <1>2, <1>3, <1>4, <1>5 DEF Taken

\* A step that reports, takes and collects nothing.
LEMMA QuietKeepsKeyed ==
    ASSUME KeyedInv, UNCHANGED <<heard, typed, answers>>, ivr'.from = ivr.from,
           at' = "off" => at = "off",
           ivr'.set /\ ~stopped' => ivr.set /\ ~stopped /\ digits' = digits
    PROVE  KeyedInv'
  BY DEF KeyedInv, NothingKeyedIsLost

\* What is appended to what was heard is appended to what was heard since.
LEMMA SinceAppends ==
    ASSUME NEW s \in Seq(Signs), NEW x \in Signs, NEW from \in Nat, from <= Len(s)
    PROVE  /\ Len(Append(s, x)) >= from
           /\ SubSeq(Append(s, x), from + 1, Len(Append(s, x)))
              = Append(SubSeq(s, from + 1, Len(s)), x)
<1> DEFINE a == SubSeq(Append(s, x), from + 1, Len(Append(s, x)))
           b == Append(SubSeq(s, from + 1, Len(s)), x)
<1>1. a \in Seq(Signs) /\ Len(a) = Len(s) + 1 - from
  OBVIOUS
<1>2. b \in Seq(Signs) /\ Len(b) = Len(s) + 1 - from
  OBVIOUS
<1>3. \A i \in 1..Len(a) : a[i] = b[i]
  OBVIOUS
<1>4. a = b
  <2> HIDE DEF a, b
  <2> QED
    BY <1>1, <1>2, <1>3
<1>5. Len(Append(s, x)) >= from
  OBVIOUS
<1>6. QED
  BY <1>4, <1>5

LEMMA ReportKeepsKeyed ==
    ASSUME IInv, KeyedInv, NEW k \in Keys \cup {NoKey}, NEW age, Reports(k, age),
           UNCHANGED <<call, ivr, stopped, dialogue>>
    PROVE  KeyedInv'
<1>1. CASE UNCHANGED <<heard, digits>>
  BY <1>1, QuietKeepsKeyed DEF dialogue
<1>2. CASE /\ k \in Keys /\ heard' = Append(heard, k)
           /\ digits' = (IF ivr.set THEN Append(digits, k) ELSE digits)
  <2>1. /\ Since' = Append(Since, k) /\ Len(heard') >= ivr.from /\ Taken' = Taken
    <3>1. k \in Signs
      BY <1>2 DEF Signs
    <3>2. heard \in Seq(Signs) /\ ivr.from \in Nat /\ ivr.from <= Len(heard)
      BY KeyedShapes DEF KeyedInv
    <3>3. QED
      BY <1>2, <3>1, <3>2, SinceAppends DEF Since, Taken, dialogue
  <2>2. ASSUME ivr.set, ~stopped PROVE Understood(Taken, digits') = Understood(Begun, Since')
    <3>1. k \in Signs /\ digits' = Append(digits, k)
      BY <1>2, <2>2 DEF Signs
    <3>2. Understood(Taken, digits') = KeysIn(Understood(Taken, digits), k)
      BY <2>2, <3>1, KeyedShapes, UnderstoodAppend
    <3>3. Understood(Begun, Since') = KeysIn(Understood(Begun, Since), k)
      BY <2>1, <3>1, KeyedShapes, UnderstoodAppend
    <3>4. QED
      BY <2>2, <3>2, <3>3, KeyedShapes
  <2>3. NothingKeyedIsLost'
    BY <2>1, <2>2 DEF NothingKeyedIsLost, Taken, Begun, Since, dialogue
  <2>4. QED
    BY <2>1, <2>3 DEF KeyedInv, dialogue
<1>3. QED
  BY <1>1, <1>2 DEF Reports

LEMMA StartsKeepsKeyed == ASSUME IInv, KeyedInv, Starts PROVE KeyedInv'
<1>1. /\ digits = <<>> /\ typed = <<>> /\ answers = <<>> /\ at' = "ask"
      /\ UNCHANGED <<heard, digits, typed, answers>> /\ ivr'.from = Len(heard)
  BY DEF IInv, StopInv, KeyedInv, Starts
<1>2. heard \in Seq(Signs) /\ SubSeq(heard, Len(heard) + 1, Len(heard)) = <<>>
  BY KeyedShapes
<1>3. Understood(Taken', digits') = Understood(Begun, Since')
  BY <1>1, <1>2 DEF Taken, Begun, Since
<1>4. QED
  BY <1>1, <1>2, <1>3 DEF KeyedInv, NothingKeyedIsLost, Taken, Begun, Since

\* collect() does with a key what KeysIn says.
LEMMA GetsKeepsKeyed == ASSUME IInv, KeyedInv, Gets PROVE KeyedInv'
<1> DEFINE key == Head(digits)
           now == Types(key)
<1>0. /\ at = "get" /\ digits # <<>> /\ digits' = Tail(digits)
      /\ UNCHANGED <<others, heard>>
  BY DEF Gets
<1>1. /\ at' # "off" /\ ivr'.from = ivr.from /\ (ivr'.set => ivr.set)
      /\ (typed' = <<>> /\ answers' = answers) \/ (typed' = now /\ answers' = answers)
         \/ (typed' = <<>> /\ answers' = Append(answers, <<>>))
         \/ (typed' = <<>> /\ answers' = Append(answers, now))
  <2>1. ivr \in [set : BOOLEAN, from : Nat] /\ ivr.set
    BY <1>0 DEF IInv, Shapes, StopInv, Running
  <2> HIDE DEF now
  <2>2. QED
    BY <2>1 DEF Gets, Returns, Goes, Ends, now
<1>2. answers' \in Seq(Seq(Keys))
  <2>1. digits \in Seq(Keys \cup {NoKey}) /\ typed \in Seq(Keys) /\ answers \in Seq(Seq(Keys))
    BY DEF IInv, Shapes, KeyedInv
  <2>2. now \in Seq(Keys) /\ <<>> \in Seq(Keys)
    BY <1>0, <2>1 DEF Types, Keys
  <2>3. Append(answers, now) \in Seq(Seq(Keys)) /\ Append(answers, <<>>) \in Seq(Seq(Keys))
    BY <2>1, <2>2
  <2>4. QED
    BY <1>1, <2>1, <2>3
<1>3. ASSUME ~stopped PROVE Taken' = KeysIn(Taken, key)
  <2>1. key \in Keys /\ typed \in Seq(Keys) /\ Taken \in Understanding
    <3>1. digits \in Seq(Signs) /\ \A i \in 1..Len(digits) : digits[i] \in Keys
      BY <1>3, KeyedShapes
    <3>2. QED
      BY <1>0, <3>1, KeyedShapes DEF IInv, Shapes
  <2>2. /\ key # NoKey /\ Silence \notin Keys /\ Hash # Star
        /\ Hash \notin Digits /\ Star \notin Digits /\ MaxDigits \in Nat \ {0}
        /\ Digits \subseteq Keys
    BY <2>1, DialInAssumption DEF Keys
  <2>3. IF (key = Hash /\ now # <<>>) \/ Len(now) >= MaxDigits
        THEN typed' = <<>> /\ answers' = Append(answers, now)
        ELSE typed' = now /\ answers' = answers
    <3> HIDE DEF now
    <3> QED
      BY <1>3, <2>2 DEF Gets, Returns, now
  <2>4. CASE key = Hash
    <3>1. now = typed /\ Len(now) < MaxDigits
      BY <2>2, <2>4 DEF Types, IInv, AttemptInv
    <3>2. CASE typed = <<>>
      BY <2>1, <2>2, <2>3, <2>4, <3>1, <3>2, KeysInCases, KeyedShapes DEF Taken, Signs
    <3>3. CASE typed # <<>>
      <4>1. KeysIn(Taken, key) = [typed |-> <<>>, answers |-> Append(answers, typed)]
        BY <2>1, <2>4, <3>3, KeysInCases, KeyedShapes DEF Signs
      <4>2. typed' = <<>> /\ answers' = Append(answers, typed)
        BY <2>3, <2>4, <3>1, <3>3
      <4>3. QED
        BY <4>1, <4>2 DEF Taken
    <3>4. QED
      BY <3>2, <3>3
  <2>5. CASE key = Star
    <3>1. now = <<>> /\ Len(now) < MaxDigits
      BY <2>2, <2>5 DEF Types
    <3>2. QED
      BY <2>1, <2>2, <2>3, <2>5, <3>1, KeysInCases DEF Taken, Signs
  <2>6. CASE key \in Digits
    <3>1. now = Append(typed, key) /\ Len(now) = Len(typed) + 1 /\ Len(now) \in Nat
      BY <2>1, <2>6 DEF Types
    <3>2. key # Hash /\ (Len(now) >= MaxDigits <=> ~(Len(typed) + 1 < MaxDigits))
      BY <2>1, <2>2, <2>6, <3>1
    <3>3. KeysIn(Taken, key) = IF Len(typed) + 1 < MaxDigits
                               THEN [Taken EXCEPT !.typed = Append(typed, key)]
                               ELSE [typed |-> <<>>, answers |-> Append(answers, Append(typed, key))]
      <4>1. KeysIn(Taken, key) = IF Len(Taken.typed) + 1 < MaxDigits
                                 THEN [Taken EXCEPT !.typed = Append(@, key)]
                                 ELSE [typed |-> <<>>, answers |-> Append(Taken.answers, Append(Taken.typed, key))]
        BY <2>1, <2>6, KeysInCases DEF Signs
      <4>2. Taken.typed = typed /\ Taken.answers = answers
        BY KeyedShapes
      <4>3. QED
        BY <4>1, <4>2
    <3>4. CASE Len(typed) + 1 < MaxDigits
      BY <2>3, <3>1, <3>2, <3>4, <3>3 DEF Taken
    <3>5. CASE ~(Len(typed) + 1 < MaxDigits)
      BY <2>3, <3>1, <3>2, <3>5, <3>3 DEF Taken
    <3>6. QED
      BY <3>4, <3>5
  <2>7. QED
    BY <2>1, <2>4, <2>5, <2>6 DEF Keys
<1>4. ASSUME ivr'.set, ~stopped' PROVE Understood(Taken', digits') = Understood(Begun, Since')
  <2>1. ivr.set /\ ~stopped /\ Since' = Since
    BY <1>0, <1>1, <1>4 DEF others, Since
  <2>2. Understood(Taken, digits) = Understood(KeysIn(Taken, key), Tail(digits))
    BY <1>0, <2>1, KeyedShapes, UnderstoodTail
  <2>3. QED
    BY <1>0, <1>3, <2>1, <2>2, KeyedShapes
<1>5. NothingKeyedIsLost'
  BY <1>4 DEF NothingKeyedIsLost, Taken, Begun, Since
<1>6. QED
  BY <1>0, <1>1, <1>2, <1>5 DEF KeyedInv

\* A silence ends a number as a hash does.
LEMMA GivesUpKeepsKeyed == ASSUME IInv, KeyedInv, GivesUpWaiting PROVE KeyedInv'
<1>0. /\ at = "get" /\ digits = <<>> /\ digits' = <<>> /\ Returns(typed)
      /\ heard' = (IF stopped THEN heard ELSE Append(heard, Silence))
      /\ UNCHANGED others
  BY DEF GivesUpWaiting
<1>1. /\ typed' = <<>> /\ answers' = (IF stopped THEN answers ELSE Append(answers, typed))
      /\ at' # "off" /\ ivr'.from = ivr.from /\ (ivr'.set => ivr.set)
  <2>1. ivr \in [set : BOOLEAN, from : Nat] /\ ivr.set
    BY <1>0 DEF IInv, Shapes, StopInv, Running
  <2>2. QED
    BY <1>0, <2>1 DEF Returns, Goes, Ends
<1>2. typed \in Seq(Keys) /\ answers' \in Seq(Seq(Keys))
  BY <1>1 DEF IInv, Shapes, KeyedInv
<1>3. Len(heard') >= ivr.from /\ (~stopped => Since' = Append(Since, Silence))
  <2>1. heard \in Seq(Signs) /\ ivr.from \in Nat /\ ivr.from <= Len(heard) /\ Silence \in Signs
    BY KeyedShapes DEF KeyedInv, Signs
  <2>2. QED
    BY <1>0, <1>1, <2>1, SinceAppends DEF Since
<1>4. ASSUME ivr'.set, ~stopped' PROVE Understood(Taken', digits') = Understood(Begun, Since')
  <2>1. ivr.set /\ ~stopped /\ Silence \in Signs
    BY <1>0, <1>1, <1>4 DEF others, Signs
  <2>2. Taken' = KeysIn(Taken, Silence)
    <3>1. KeysIn(Taken, Silence) = [typed |-> <<>>, answers |-> Append(answers, typed)]
      BY <2>1, KeyedShapes, KeysInCases
    <3>2. QED
      BY <1>1, <2>1, <3>1 DEF Taken
  <2>3. Taken = Understood(Begun, Since)
    BY <1>0, <2>1, KeyedShapes, UnderstoodNone
  <2>4. Understood(Begun, Since') = KeysIn(Taken, Silence)
    BY <1>3, <2>1, <2>3, KeyedShapes, UnderstoodAppend
  <2>5. Understood(Taken', <<>>) = Taken'
    BY <2>1, <2>2, KeyedShapes, KeysInShape, UnderstoodNone
  <2>6. QED
    BY <1>0, <2>2, <2>4, <2>5
<1>5. NothingKeyedIsLost'
  BY <1>4 DEF NothingKeyedIsLost, Taken, Begun, Since
<1>6. QED
  BY <1>1, <1>2, <1>3, <1>5 DEF KeyedInv

\* Through every prompt, attempt and PIN question, what the dialogue has collected and
\* what still waits is what was keyed since it began (collect, announce).
THEOREM KeyedIsKept == Spec => []NothingKeyedIsLost
<1>1. Init => KeyedInv
  <2> SUFFICES ASSUME Init PROVE KeyedInv
    OBVIOUS
  <2>1. answers \in Seq(Seq(Keys)) /\ ivr.from <= Len(heard)
    BY DEF Init
  <2>2. QED
    BY <2>1 DEF Init, KeyedInv, NothingKeyedIsLost
<1>2. IInv /\ KeyedInv /\ [Next]_vars => KeyedInv'
  <2> SUFFICES ASSUME IInv, KeyedInv, [Next]_vars PROVE KeyedInv'
    OBVIOUS
  <2>1. CASE EventPacket \/ Block
    <3>1. \E k \in Keys \cup {NoKey}, age \in Nat : Reports(k, age)
      <4>1. CASE EventPacket
        BY <4>1, NextOwed DEF EventPacket, IInv, RoadsInv
      <4>2. CASE Block
        <5>1. PICK read \in Reads :
                \/ Reports(Detects(tones, read), AtMost(guard.age + 1, Window))
                \/ Reports(NoKey, AtMost(guard.age + 1, Window))
          BY <4>2 DEF Block
        <5>2. read \in Keys \cup {NoKey} /\ Detects(tones, read) \in Keys \cup {NoKey}
          BY <5>1, ListensInShape DEF Reads, IInv, RoadsInv
        <5>3. AtMost(guard.age + 1, Window) \in Nat
          BY DialInAssumption DEF IInv, RoadsInv, AtMost
        <5>4. QED
          BY <5>1, <5>2, <5>3
      <4>3. QED
        BY <2>1, <4>1, <4>2
    <3>2. UNCHANGED <<call, ivr, stopped, dialogue>>
      BY <2>1 DEF EventPacket, Block
    <3>3. QED
      BY <3>1, <3>2, ReportKeepsKeyed
  <2>2. CASE (\E k \in Keys : Press(k)) \/ LiftsFinger \/ HangsUp
    BY <2>2, QuietKeepsKeyed DEF Press, LiftsFinger, HangsUp, dialogue
  <2>3. CASE OnCallEnded \/ Sentinel
    BY <2>3, QuietKeepsKeyed DEF IInv, Shapes, StopInv, OnCallEnded, Sentinel, dialogue
  <2>4. CASE Starts
    BY <2>4, StartsKeepsKeyed
  <2>5. CASE Asks \/ Welcomes \/ TurnsAway \/ Rejects \/ Looks \/ Resolves
    <3>1. /\ UNCHANGED <<others, heard, digits, typed, answers>> /\ at' # "off"
          /\ ivr'.from = ivr.from /\ (ivr'.set => ivr.set)
      BY <2>5 DEF IInv, Shapes, Asks, Welcomes, TurnsAway, Rejects, Looks, Resolves, Goes, Ends
    <3>2. QED
      BY <3>1, QuietKeepsKeyed DEF others
  <2>6. CASE Gets \/ GivesUpWaiting
    BY <2>6, GetsKeepsKeyed, GivesUpKeepsKeyed
  <2>7. CASE UNCHANGED vars
    BY <2>7, QuietKeepsKeyed DEF vars, dialogue
  <2>8. QED
    BY <2>1, <2>2, <2>3, <2>4, <2>5, <2>6, <2>7 DEF Next, Dials
<1>3. KeyedInv => NothingKeyedIsLost
  BY DEF KeyedInv
<1>4. QED
  BY <1>1, <1>2, <1>3, DialInInvariance, PTL DEF Spec
-----------------------------------------------------------------------------
(* Every press is one. *)

\* How many presses were reported, how many there were, and how many events are owed.
Spoken == Len(KeysOf(heard))
Made == Len(pressed)
Owed == Len(owed)
Tones == "tone" \in sends
Silent == tones.candidate = NoKey /\ tones.reported = NoKey

\* How long ago, in blocks, a press whose tone is not recognised yet can have been
\* reported: the tone begins up to Lead blocks late, its onset is one more, and each
\* readable block has at most MaxGap unreadable ones before it.
Drift(loud, quiet) ==
    IF loud = 0 THEN quiet ELSE Lead + 2 + (loud - 1) * (MaxGap + 1) + quiet

\* What was reported is what was pressed, up to some press; the guard knows that one,
\* and lets the next one through.
OrderInv ==
    /\ Spoken <= Made /\ \A i \in 1..Spoken : KeysOf(heard)[i] = pressed[i]
    /\ guard.digit = IF Spoken = 0 THEN NoKey ELSE pressed[Spoken]
    /\ Spoken < Made => pressed[Spoken + 1] # guard.digit \/ guard.age = Window

\* Two events at most are under way: the one before the last is so old that the last
\* key was not held long enough to be recognised.
OwedInv ==
    /\ Owed \in 0..2 /\ ("event" \notin sends => Owed = 0)
    /\ Owed = 2 => /\ pressed[Made] # pressed[Made - 1] /\ caller.down # NoKey
                   /\ owed[1] >= owed[2] + MinBlocks + 1
    /\ Owed > 0 =>
         IF caller.down = NoKey
         THEN /\ owed[1] >= MinBlocks /\ (caller.quiet > 0 => owed[1] >= MinBlocks + 1)
         ELSE owed[Owed] >= caller.loud

\* Without tones an event is all there is of a press.  With them a press is reported by
\* the time it is long enough, and until then its event is under way or was the report;
\* whichever road comes second finds the guard still closed.
SpokenInv ==
    IF ~Tones THEN Spoken = Made - Owed
    ELSE /\ Spoken = Made \/ Spoken = Made - 1
         /\ caller.down = NoKey => Spoken = Made
         /\ Spoken < Made => caller.loud < MinBlocks /\ ("event" \in sends => Owed > 0)
         /\ Spoken = Made /\ Owed > 0 =>
              Owed = 1 /\ (caller.down # NoKey => caller.loud = MinBlocks)
         /\ Owed = 2 \/ (Spoken = Made /\ Owed > 0) => guard.age <= owed[1]
         /\ Spoken = Made /\ caller.down # NoKey /\ caller.loud < MinBlocks =>
              guard.age <= Drift(caller.loud, caller.quiet)

\* What the detector makes of the last key: while it is up it may remember it, until it
\* has heard more than a gap; while it is down it has counted its blocks.
LiftedTone ==
    \/ Silent
    \/ /\ Made > 0 /\ caller.quiet <= tones.gap
       /\ tones.candidate = pressed[Made] /\ tones.reported = pressed[Made]
HeldTone ==
    /\ Made > 0 /\ caller.down = pressed[Made]
    /\ caller.onset => caller.loud = 0 /\ caller.quiet <= Lead
    /\ caller.loud > 0 => caller.quiet <= MaxGap
    /\ Tones =>
         IF caller.loud = 0
         THEN tones.candidate # caller.down /\ (caller.onset => tones.candidate = tones.reported)
         ELSE /\ tones.candidate = caller.down /\ tones.blocks = caller.loud
              /\ tones.gap = caller.quiet
              /\ tones.reported = IF caller.loud = MinBlocks THEN caller.down ELSE NoKey
ToneInv ==
    /\ ~Tones => Silent
    /\ Made = 0 => Silent /\ caller.down = NoKey
    /\ IF caller.down = NoKey THEN LiftedTone ELSE HeldTone

PressInv == call = "up" => OrderInv /\ OwedInv /\ SpokenInv /\ ToneInv

\* What is needed of types and constants, as numbers.
LEMMA Clocks ==
    ASSUME IInv
    PROVE  /\ caller.down \in Keys \cup {NoKey} /\ caller.onset \in BOOLEAN
           /\ caller.loud \in Nat /\ caller.loud <= MinBlocks /\ caller.quiet \in Nat
           /\ guard.digit \in Keys \cup {NoKey} /\ guard.age \in Nat /\ guard.age <= Window
<1>1. /\ caller \in [down : Keys \cup {NoKey}, onset : BOOLEAN, loud : Blocks, quiet : Gaps]
      /\ guard \in [digit : Keys \cup {NoKey}, age : 0..Window]
  BY DEF IInv, RoadsInv
<1>2. QED
  BY <1>1, Lengths DEF Gaps, Blocks

\* The elements of a sequence are of its set.
LEMMA Elements ==
    ASSUME NEW S, NEW s \in Seq(S)
    PROVE  \A i \in 1..Len(s) : s[i] \in S
  OBVIOUS

\* A sequence is its elements.
LEMMA SequenceIs ==
    ASSUME NEW S, NEW s \in Seq(S), NEW n \in Nat, n = Len(s)
    PROVE  s = [i \in 1..n |-> s[i]]
  OBVIOUS

LEMMA Counts ==
    ASSUME IInv
    PROVE  /\ pressed \in Seq(Keys) /\ KeysOf(heard) \in Seq(Keys) /\ heard \in Seq(Signs)
           /\ owed \in Seq(0..Lag)
           /\ Made \in Nat /\ Spoken \in Nat /\ Owed \in Nat /\ Owed <= Made
           /\ (pressed = <<>> <=> Made = 0) /\ (owed = <<>> <=> Owed = 0)
           /\ \A i \in 1..Owed : owed[i] \in Nat /\ owed[i] <= Lag
           /\ ~Tones => "event" \in sends
<1>1. pressed \in Seq(Keys) /\ owed \in Seq(0..Lag) /\ Len(owed) <= Len(pressed) /\ heard \in Seq(Signs)
  BY DEF IInv, RoadsInv, Shapes, Signs
<1>2. KeysOf(heard) \in Seq(Keys)
  <2>1. PICK sign : sign \in Signs
    BY DEF Signs
  <2>2. QED
    BY <1>1, <2>1, KeysOfAppend
<1>3. (pressed = <<>> <=> Len(pressed) = 0) /\ (owed = <<>> <=> Len(owed) = 0)
  BY <1>1
<1>4. \A i \in 1..Len(owed) : owed[i] \in 0..Lag
  BY <1>1, Elements
<1>5. Lag \in Nat /\ (~Tones => "event" \in sends)
  <2>1. sends \in Gateways
    BY DEF IInv, RoadsInv
  <2>2. sends \subseteq {"event", "tone"} /\ sends # {}
    BY <2>1, DialInAssumption
  <2>3. QED
    BY <2>2, Lengths DEF Tones
<1>6. Made \in Nat /\ Spoken \in Nat /\ Owed \in Nat /\ Owed <= Made
  BY <1>1, <1>2 DEF Made, Spoken, Owed
<1>7. QED
  BY <1>1, <1>2, <1>3, <1>4, <1>5, <1>6 DEF Made, Owed

LEMMA Appending ==
    ASSUME NEW S, NEW s \in Seq(S), NEW x \in S
    PROVE  /\ Append(s, x) \in Seq(S) /\ Len(Append(s, x)) = Len(s) + 1 /\ Len(s) \in Nat
           /\ Append(s, x)[Len(s) + 1] = x /\ \A i \in 1..Len(s) : Append(s, x)[i] = s[i]
  OBVIOUS

\* Within its bounds the drift is shorter than the guard.
LEMMA DriftIsCovered ==
    ASSUME NEW loud \in Nat, NEW quiet \in Nat
    PROVE  /\ Drift(loud, quiet) \in Nat
           /\ Drift(loud, quiet) + 1 = Drift(loud, quiet + 1)
           /\ quiet <= (IF loud = 0 THEN Lead + 1 ELSE MaxGap) =>
                Drift(loud, quiet) + 1 <= Drift(loud + 1, 0)
           /\ loud > 0 /\ loud + 1 = MinBlocks /\ quiet <= MaxGap => Drift(loud, quiet) < Window
<1>1. /\ MaxGap \in Nat /\ Window \in Nat /\ MinBlocks \in Nat /\ Lead \in Nat
      /\ Window > Lead + 1 + (MinBlocks - 1) * (MaxGap + 1)
  BY DialInAssumption
<1>2. CASE loud = 0
  <2>1. Drift(loud, quiet) = quiet /\ Drift(loud, quiet + 1) = quiet + 1
    BY <1>2 DEF Drift
  <2>2. Drift(1, 0) = Lead + 2
    BY <1>1 DEF Drift
  <2>3. loud + 1 = 1
    BY <1>2
  <2>4. QED
    BY <1>1, <1>2, <2>1, <2>2, <2>3
<1>3. CASE loud > 0
  <2>1. PICK m \in Nat : loud = m + 1
    <3>1. loud - 1 \in Nat /\ loud = (loud - 1) + 1
      BY <1>3
    <3>2. QED
      BY <3>1
  <2>2. PICK p \in Nat : p = m * (MaxGap + 1)
    BY <1>1
  <2>3. (m + 1) * (MaxGap + 1) = p + MaxGap + 1
    BY <1>1, <2>2
  <2>4. loud - 1 = m /\ (loud + 1) - 1 = m + 1 /\ ~(loud = 0) /\ ~(loud + 1 = 0)
    BY <2>1
  <2>5. Drift(loud, quiet) = Lead + 2 + p + quiet /\ Drift(loud, quiet + 1) = Lead + 2 + p + (quiet + 1)
    BY <2>2, <2>4 DEF Drift
  <2>6. Drift(loud + 1, 0) = Lead + 2 + (p + MaxGap + 1) + 0
    BY <2>3, <2>4 DEF Drift
  <2>7. loud + 1 = MinBlocks => (MinBlocks - 1) * (MaxGap + 1) = p + MaxGap + 1
    <3>1. loud + 1 = MinBlocks => MinBlocks - 1 = m + 1
      BY <2>1
    <3>2. QED
      BY <2>3, <3>1
  <2>8. QED
    BY <1>1, <1>3, <2>5, <2>6, <2>7
<1>4. QED
  BY <1>2, <1>3

\* What is reported is one key more, if the guard lets it through.
LEMMA ReportSays ==
    ASSUME IInv, NEW k \in Keys \cup {NoKey}, NEW age \in Nat, Reports(k, age)
    PROVE  /\ k # NoKey /\ Accepts(k) =>
                /\ KeysOf(heard') = Append(KeysOf(heard), k)
                /\ guard'.digit = k /\ guard'.age = 0
           /\ ~(k # NoKey /\ Accepts(k)) =>
                heard' = heard /\ guard'.digit = guard.digit /\ guard'.age = age
<1>1. heard \in Seq(Signs) /\ NoKey \notin Keys /\ Silence \notin Keys
      /\ guard \in [digit : Keys \cup {NoKey}, age : 0..Window]
  BY Counts, Lengths DEF IInv, RoadsInv
<1>2. ASSUME k # NoKey, Accepts(k) PROVE KeysOf(heard') = Append(KeysOf(heard), k)
  <2>1. k \in Signs /\ k # Silence /\ heard' = Append(heard, k)
    BY <1>1, <1>2 DEF Signs, Reports
  <2>2. QED
    BY <1>1, <2>1, KeysOfAppend
<1>3. QED
  BY <1>1, <1>2 DEF Reports

\* The next press, when it is reported, is let through, and the one after it will be.
LEMMA NextIsReported ==
    ASSUME IInv, OrderInv, NEW k \in Keys, NEW age \in Nat, Reports(k, age),
           Spoken < Made, k = pressed[Spoken + 1], pressed' = pressed,
           Spoken + 1 < Made => pressed[Spoken + 2] # pressed[Spoken + 1]
    PROVE  OrderInv' /\ Spoken' = Spoken + 1 /\ guard'.age = 0
<1>1. Accepts(k) /\ k # NoKey
  <2>1. k # guard.digit \/ guard.age = Window
    BY DEF OrderInv
  <2>2. Window \in Nat /\ NoKey \notin Keys
    BY Lengths
  <2>3. QED
    BY ONLY <2>1, <2>2, k \in Keys DEF Accepts
<1>2. KeysOf(heard') = Append(KeysOf(heard), k) /\ guard'.digit = k /\ guard'.age = 0
  BY <1>1, ReportSays
<1>3. PICK keys \in Seq(Keys) : keys = KeysOf(heard)
  BY Counts
<1>4. /\ Len(Append(keys, k)) = Len(keys) + 1 /\ Append(keys, k)[Len(keys) + 1] = k
      /\ \A i \in 1..Len(keys) : Append(keys, k)[i] = keys[i]
  BY Appending
<1>5. Spoken = Len(keys) /\ Spoken' = Len(keys) + 1 /\ Len(keys) \in Nat /\ Made \in Nat /\ Made' = Made
  BY <1>2, <1>3, <1>4, Counts DEF Spoken, Made
<1>6. \A i \in 1..Len(keys) + 1 : Append(keys, k)[i] = pressed[i]
  <2>1. \A i \in 1..Len(keys) + 1 : i \in 1..Len(keys) \/ i = Len(keys) + 1
    BY <1>5
  <2>2. \A i \in 1..Len(keys) : keys[i] = pressed[i]
    BY <1>3, <1>5 DEF OrderInv
  <2>3. QED
    BY <1>4, <1>5, <2>1, <2>2
<1>7. (Len(keys) + 1) + 1 = Len(keys) + 2 /\ (Spoken < Made => Len(keys) + 1 <= Made)
  BY <1>5
<1>8. OrderInv'
  BY <1>2, <1>3, <1>5, <1>6, <1>7 DEF OrderInv
<1>9. QED
  BY <1>2, <1>5, <1>8

\* A repeat of what was reported last, or nothing, is not reported.
LEMMA RepeatIsDropped ==
    ASSUME IInv, OrderInv, NEW k \in Keys \cup {NoKey}, NEW age \in Nat, Reports(k, age),
           k = NoKey \/ (k = guard.digit /\ guard.age < Window),
           age = guard.age \/ age = AtMost(guard.age + 1, Window), pressed' = pressed
    PROVE  OrderInv' /\ Spoken' = Spoken /\ guard'.age = age /\ heard' = heard
<1>1. ~(k # NoKey /\ Accepts(k))
  <2>1. guard.age \in Nat /\ Window \in Nat
    BY Clocks, Lengths
  <2>2. QED
    BY <2>1 DEF Accepts
<1>2. heard' = heard /\ guard'.digit = guard.digit /\ guard'.age = age
  BY <1>1, ReportSays
<1>3. Spoken' = Spoken /\ Made' = Made
  BY <1>2 DEF Spoken, Made
<1>4. guard.age = Window => age = Window
  BY Clocks, Lengths DEF AtMost
<1>5. OrderInv'
  BY <1>2, <1>3, <1>4 DEF OrderInv
<1>6. QED
  BY <1>2, <1>3, <1>5

LEMMA PressKeepsPress == ASSUME IInv, PressInv, NEW k \in Keys, Press(k) PROVE PressInv'
<1>1. /\ call = "up" /\ caller.down = NoKey /\ caller.quiet > 0 /\ pressed' = Append(pressed, k)
      /\ caller'.down = k /\ caller'.onset = TRUE /\ caller'.loud = 0 /\ caller'.quiet = 0
      /\ pressed # <<>> /\ k = Last(pressed) =>
           caller.quiet > MaxGap /\ guard.age = Window /\ owed = <<>>
      /\ owed' = IF "event" \in sends THEN Append(owed, 0) ELSE owed
      /\ UNCHANGED <<sends, tones, guard, heard, call>>
  BY DEF Press
<1>2. OrderInv /\ OwedInv /\ SpokenInv /\ ToneInv /\ LiftedTone
  BY <1>1 DEF PressInv, ToneInv
<1>a. Made \in Nat /\ Spoken \in Nat /\ k # NoKey
  BY Counts, Lengths
<1>3. /\ Made' = Made + 1 /\ pressed'[Made + 1] = k /\ Spoken' = Spoken
      /\ \A i \in 1..Made : pressed'[i] = pressed[i]
  <2>1. pressed \in Seq(Keys)
    BY Counts
  <2>2. Made' = Made + 1 /\ pressed'[Made + 1] = k /\ \A i \in 1..Made : pressed'[i] = pressed[i]
    BY <1>1, <2>1, Appending DEF Made
  <2>3. QED
    BY <1>1, <2>2 DEF Spoken
<1>4. Made > 0 /\ k = pressed[Made] => caller.quiet > MaxGap /\ guard.age = Window /\ Owed = 0
  BY <1>1, Counts DEF Made, Last
<1>5. Owed \in {0, 1}
  BY <1>1, <1>2 DEF OwedInv
<1>6. /\ "event" \notin sends => Owed' = 0
      /\ "event" \in sends => Owed' = Owed + 1 /\ owed'[Owed + 1] = 0
                              /\ (Owed = 1 => owed'[1] = owed[1])
  <2>1. CASE "event" \notin sends
    <3>1. Owed = 0 /\ owed' = owed
      BY <1>1, <1>2, <2>1 DEF OwedInv
    <3>2. QED
      BY <2>1, <3>1 DEF Owed
  <2>2. CASE "event" \in sends
    <3>1. owed' = Append(owed, 0) /\ owed \in Seq(0..Lag) /\ 0 \in 0..Lag
      BY <1>1, <2>2, Counts, Lengths
    <3>2. Owed' = Owed + 1 /\ owed'[Owed + 1] = 0 /\ \A i \in 1..Owed : owed'[i] = owed[i]
      BY <3>1, Appending DEF Owed
    <3>3. QED
      BY <2>2, <3>2
  <2>3. QED
    BY <2>1, <2>2
<1>7. OrderInv'
  <2>1. /\ Spoken <= Made /\ \A i \in 1..Spoken : KeysOf(heard)[i] = pressed[i]
        /\ guard.digit = IF Spoken = 0 THEN NoKey ELSE pressed[Spoken]
        /\ Spoken < Made => pressed[Spoken + 1] # guard.digit \/ guard.age = Window
    BY <1>2 DEF OrderInv
  <2>2. Spoken <= Made' /\ \A i \in 1..Spoken : KeysOf(heard)[i] = pressed'[i]
    BY ONLY <1>a, <1>3, <2>1
  <2>3. guard.digit = IF Spoken = 0 THEN NoKey ELSE pressed'[Spoken]
    BY ONLY <1>a, <1>3, <2>1
  <2>4. pressed'[Spoken + 1] # guard.digit \/ guard.age = Window
    <3>1. CASE Spoken < Made
      <4>1. Spoken + 1 \in 1..Made
        BY ONLY <1>a, <3>1
      <4>2. QED
        BY ONLY <1>3, <2>1, <3>1, <4>1
    <3>2. CASE Spoken = Made
      BY ONLY <1>a, <1>3, <1>4, <2>1, <3>2
    <3>3. QED
      BY ONLY <1>a, <2>1, <3>1, <3>2
  <2>5. QED
    BY <1>1, <1>3, <2>2, <2>3, <2>4 DEF OrderInv
<1>8. OwedInv'
  <2>1. ASSUME Owed' = 2
        PROVE  /\ pressed'[Made'] # pressed'[Made' - 1] /\ owed'[1] >= owed'[2] + MinBlocks + 1
    <3>1. Owed = 1 /\ owed'[1] = owed[1] /\ owed'[2] = 0
      BY ONLY <1>5, <1>6, <2>1
    <3>2. owed[1] >= MinBlocks + 1 /\ owed[1] \in Nat /\ Made > 0 /\ MinBlocks \in Nat
      BY <1>1, <1>2, <3>1, Counts, Lengths DEF OwedInv
    <3>3. k # pressed[Made]
      BY ONLY <1>4, <3>1, <3>2
    <3>4. Made' - 1 = Made /\ Made \in 1..Made
      BY ONLY <1>a, <1>3, <3>2
    <3>5. QED
      BY ONLY <1>3, <3>1, <3>2, <3>3, <3>4
  <2>2. Owed' > 0 => owed'[Owed'] = 0
    BY ONLY <1>5, <1>6
  <2>3. Owed' \in 0..2 /\ ("event" \notin sends' => Owed' = 0)
    BY <1>1, <1>5, <1>6
  <2>4. caller'.down = k /\ k # NoKey /\ caller'.loud = 0
    BY <1>1, <1>a
  <2>5. QED
    BY ONLY <2>1, <2>2, <2>3, <2>4 DEF OwedInv
<1>9. SpokenInv'
  <2>1. CASE ~Tones
    <3>1. Owed' = Owed + 1 /\ Spoken = Made - Owed /\ ~Tones'
      BY <1>1, <1>2, <1>6, <2>1, Counts DEF SpokenInv, Tones
    <3>2. Spoken' = Made' - Owed'
      BY ONLY <1>a, <1>3, <1>5, <3>1
    <3>3. QED
      BY <3>1, <3>2 DEF SpokenInv
  <2>2. CASE Tones
    <3>1. Spoken = Made /\ (Owed > 0 => guard.age <= owed[1])
      BY <1>1, <1>2, <2>2 DEF SpokenInv
    <3>2. "event" \in sends' => Owed' > 0
      BY <1>1, <1>5, <1>6
    <3>3. Owed' = 2 => guard'.age <= owed'[1]
      BY <1>1, <1>5, <1>6, <3>1
    <3>4. Spoken' < Made' /\ Spoken' = Made' - 1 /\ Spoken' # Made' /\ 0 < MinBlocks
      BY <1>a, <1>3, <3>1, Lengths
    <3>5. QED
      BY <1>1, <1>a, <2>2, <3>2, <3>3, <3>4 DEF SpokenInv, Tones
  <2>3. QED
    BY <2>1, <2>2
<1>10. ToneInv'
  <2>1. tones.candidate # k /\ tones.candidate = tones.reported
    <3>1. CASE Silent
      BY <1>a, <3>1 DEF Silent
    <3>2. CASE ~Silent
      <4>1. /\ Made > 0 /\ caller.quiet <= tones.gap
            /\ tones.candidate = pressed[Made] /\ tones.reported = pressed[Made]
        BY <1>2, <3>2 DEF LiftedTone
      <4>2. tones.gap <= MaxGap /\ tones.gap \in Nat /\ caller.quiet \in Nat /\ MaxGap \in Nat
        BY Clocks, Lengths DEF IInv, RoadsInv
      <4>3. k # pressed[Made]
        BY ONLY <1>4, <4>1, <4>2
      <4>4. QED
        BY ONLY <4>1, <4>3
    <3>3. QED
      BY <3>1, <3>2
  <2>2. HeldTone'
    BY <1>1, <1>a, <1>3, <2>1, Lengths DEF HeldTone
  <2>3. ~Tones' => Silent'
    BY <1>1, <1>2 DEF ToneInv, Silent, Tones
  <2>4. QED
    BY <1>1, <1>a, <1>3, <2>2, <2>3 DEF ToneInv
<1>11. QED
  BY <1>7, <1>8, <1>9, <1>10 DEF PressInv

LEMMA LiftKeepsPress == ASSUME EventsKeepUp, IInv, PressInv, LiftsFinger PROVE PressInv'
<1>1. /\ caller.down # NoKey /\ caller.loud = MinBlocks
      /\ caller'.down = NoKey /\ caller'.quiet = 0 /\ caller'.loud = caller.loud
      /\ UNCHANGED <<sends, pressed, owed, tones, guard, heard, call>>
  <2>1. caller \in [down : Keys \cup {NoKey}, onset : BOOLEAN, loud : Blocks, quiet : Gaps]
    BY DEF IInv, RoadsInv
  <2>2. caller.down # NoKey /\ caller.loud >= MinBlocks
        /\ caller' = [caller EXCEPT !.down = NoKey, !.quiet = 0]
        /\ UNCHANGED <<sends, pressed, owed, tones, guard, heard, call>>
    BY DEF LiftsFinger, roads
  <2>3. QED
    BY <2>1, <2>2, Clocks, Lengths
<1> SUFFICES ASSUME call = "up" PROVE PressInv'
  BY <1>1 DEF PressInv
<1>3. OrderInv /\ OwedInv /\ SpokenInv /\ ToneInv /\ HeldTone
  BY <1>1 DEF PressInv, ToneInv
<1>4. Made' = Made /\ Spoken' = Spoken /\ Owed' = Owed /\ OrderInv'
  BY <1>1, <1>3 DEF OrderInv, Made, Spoken, Owed
<1>5. Owed > 0 => owed[Owed] >= MinBlocks
  BY <1>1, <1>3 DEF OwedInv
\* Were the event before it under way as well, it would be too late by now.
<1>6. Owed # 2
  <2> SUFFICES ASSUME Owed = 2 PROVE FALSE
    OBVIOUS
  <2>1. owed[1] >= owed[2] + MinBlocks + 1 /\ owed[2] >= MinBlocks
    BY <1>3, <1>5 DEF OwedInv
  <2>2. owed[1] \in Nat /\ owed[1] <= Lag /\ owed[2] \in Nat /\ MinBlocks \in Nat /\ Lag \in Nat
    BY Counts, Lengths
  <2>3. Lag <= 2 * MinBlocks
    BY DEF EventsKeepUp
  <2>4. QED
    BY ONLY <2>1, <2>2, <2>3
<1>7. Owed \in {0, 1}
  BY <1>3, <1>6 DEF OwedInv
<1>8. OwedInv'
  BY <1>1, <1>3, <1>4, <1>5, <1>6, <1>7 DEF OwedInv
<1>9. SpokenInv'
  <2>1. CASE ~Tones
    BY <1>1, <1>3, <1>4, <2>1 DEF SpokenInv, Tones
  <2>2. CASE Tones
    <3>1. /\ Spoken = Made \/ Spoken = Made - 1
          /\ Spoken < Made => caller.loud < MinBlocks
          /\ Spoken = Made /\ Owed > 0 => guard.age <= owed[1]
      BY <1>3, <2>2 DEF SpokenInv
    <3>2. Spoken \in Nat /\ Made \in Nat /\ MinBlocks \in Nat
      BY Counts, Lengths
    <3>3. Spoken = Made /\ (Owed > 0 => guard.age <= owed[1])
      BY ONLY <1>1, <3>1, <3>2
    <3>4. QED
      BY ONLY <1>1, <1>4, <1>7, <2>2, <3>2, <3>3 DEF SpokenInv, Tones
  <2>3. QED
    BY <2>1, <2>2
<1>10. ToneInv'
  <2>1. Made > 0 /\ (Silent \/ (tones.candidate = pressed[Made] /\ tones.reported = pressed[Made]))
    BY <1>1, <1>3, Lengths DEF ToneInv, HeldTone
  <2>2. 0 <= tones.gap
    BY Lengths DEF IInv, RoadsInv
  <2>3. LiftedTone'
    BY <1>1, <1>4, <2>1, <2>2 DEF LiftedTone, Silent
  <2>4. QED
    BY <1>1, <1>3, <1>4, <2>1, <2>3, Clocks DEF ToneInv, Tones, Silent
<1>11. QED
  BY <1>4, <1>8, <1>9, <1>10 DEF PressInv

\* An event is the first report of its press, or finds the guard closed.
LEMMA EventKeepsPress == ASSUME EventsKeepUp, IInv, PressInv, EventPacket PROVE PressInv'
<1> DEFINE key == pressed[Made - Owed + 1]
<1>1. /\ call = "up" /\ owed # <<>> /\ owed' = Tail(owed) /\ Reports(key, guard.age)
      /\ UNCHANGED <<sends, caller, pressed, tones, call>>
  BY DEF EventPacket, keypad, Made, Owed
<1>2. OrderInv /\ OwedInv /\ SpokenInv /\ ToneInv
  BY <1>1 DEF PressInv
<1>3. /\ Made \in Nat /\ Spoken \in Nat /\ Owed \in {1, 2} /\ Owed <= Made
      /\ guard.age \in Nat /\ caller.loud \in Nat /\ caller.quiet \in Nat
  <2>1. Owed \in 0..2 /\ Owed # 0
    BY <1>1, <1>2, Counts DEF OwedInv
  <2>2. QED
    BY <2>1, Counts, Clocks
<1>4. Made' = Made /\ Owed' = Owed - 1 /\ (Owed = 2 => owed'[1] = owed[2]) /\ key \in Keys
  <2>1. owed \in Seq(0..Lag) /\ Len(owed) \in {1, 2} /\ Len(Tail(owed)) = Len(owed) - 1 /\ key \in Keys
    BY <1>1, <1>3, NextOwed, Counts DEF Owed, Made, IInv
  <2>2. Len(owed) = 2 => Tail(owed)[1] = owed[2]
    BY ONLY <2>1
  <2>3. QED
    BY <1>1, <2>1, <2>2 DEF Owed, Made
<1>5. OwedInv'
  <2>1. /\ Owed' \in 0..2 /\ Owed' # 2 /\ ("event" \notin sends' => Owed' = 0)
    BY ONLY <1>1, <1>2, <1>3, <1>4 DEF OwedInv
  <2>2. ASSUME Owed' > 0 PROVE caller'.down # NoKey /\ owed'[Owed'] >= caller'.loud
    <3>1. Owed = 2 /\ Owed' = 1 /\ owed'[1] = owed[2]
      BY ONLY <1>3, <1>4, <2>2
    <3>2. caller.down # NoKey /\ owed[2] >= caller.loud
      BY ONLY <1>2, <3>1 DEF OwedInv
    <3>3. QED
      BY ONLY <1>1, <3>1, <3>2
  <2>3. QED
    BY ONLY <2>1, <2>2 DEF OwedInv
<1>6. ToneInv'
  BY <1>1, <1>2, <1>4 DEF ToneInv, LiftedTone, HeldTone, Silent, Tones
<1>7. Drift(caller.loud, caller.quiet) \in Nat
  BY <1>3, DriftIsCovered
\* The event of the first press that was not reported yet.
<1>8. CASE Spoken = Made - Owed
  <2>1. Spoken < Made /\ key = pressed[Spoken + 1]
    BY ONLY <1>3, <1>8
  <2>2. Spoken + 1 < Made => pressed[Spoken + 2] # pressed[Spoken + 1]
    <3> SUFFICES ASSUME Spoken + 1 < Made PROVE pressed[Spoken + 2] # pressed[Spoken + 1]
      OBVIOUS
    <3>1. Owed = 2 /\ Spoken + 2 = Made /\ Spoken + 1 = Made - 1
      BY ONLY <1>3, <1>8, Spoken + 1 < Made
    <3>2. pressed[Made] # pressed[Made - 1]
      BY ONLY <1>2, <3>1 DEF OwedInv
    <3>3. QED
      BY ONLY <3>1, <3>2
  <2>3. OrderInv' /\ Spoken' = Spoken + 1 /\ guard'.age = 0
    <3> HIDE DEF key
    <3>1. QED
      BY <1>1, <1>2, <1>3, <1>4, <2>1, <2>2, NextIsReported
  <2>4. SpokenInv'
    <3>1. Spoken' = Made' - Owed'
      BY ONLY <1>3, <1>4, <1>8, <2>3
    <3>2. ASSUME Tones PROVE Spoken' = Made' /\ Owed' = 0
      BY ONLY <1>2, <1>3, <1>4, <1>8, <3>1, <3>2 DEF SpokenInv
    <3>3. guard'.age <= Drift(caller'.loud, caller'.quiet)
      BY ONLY <1>1, <1>7, <2>3
    <3>4. Made' \in Nat /\ (Tones' <=> Tones)
      BY <1>1, <1>3, <1>4 DEF Tones
    <3>5. QED
      BY ONLY <3>1, <3>2, <3>3, <3>4 DEF SpokenInv
  <2>5. QED
    BY <1>5, <1>6, <2>3, <2>4 DEF PressInv
\* The event of a press its tone reported, or that was reported before the last one began.
<1>9. CASE Spoken # Made - Owed
  <2>1. /\ Tones /\ Spoken = Made - Owed + 1 /\ (Owed = 2 \/ (Spoken = Made /\ Owed > 0))
        /\ Spoken # 0
    BY ONLY <1>2, <1>3, <1>9 DEF SpokenInv
  <2>2. key = guard.digit /\ guard.age < Window
    <3>1. guard.digit = pressed[Spoken]
      BY ONLY <1>2, <2>1 DEF OrderInv
    <3>2. guard.age <= owed[1]
      BY ONLY <1>2, <2>1 DEF SpokenInv
    <3>3. owed[1] \in Nat /\ owed[1] <= Lag /\ Lag \in Nat /\ Window \in Nat
      BY <1>3, Counts, Lengths
    <3>4. QED
      BY ONLY <1>3, <2>1, <3>1, <3>2, <3>3, EventsKeepUp DEF EventsKeepUp
  <2>3. OrderInv' /\ Spoken' = Spoken /\ guard'.age = guard.age
    <3> HIDE DEF key
    <3>1. QED
      BY <1>1, <1>2, <1>3, <1>4, <2>2, RepeatIsDropped
  <2>4. SpokenInv'
    <3>1. Tones' /\ sends' = sends /\ caller' = caller
      BY <1>1, <2>1 DEF Tones
    <3>2. CASE Owed = 2
      <4>1. Spoken' = Made' - 1 /\ Owed' = 1 /\ Spoken' < Made'
        BY ONLY <1>3, <1>4, <2>1, <2>3, <3>2
      <4>2. caller.loud < MinBlocks /\ caller.down # NoKey
        BY ONLY <1>2, <1>3, <1>4, <2>1, <2>3, <3>2, <4>1 DEF SpokenInv, OwedInv
      <4>3. QED
        BY ONLY <1>3, <1>4, <3>1, <4>1, <4>2 DEF SpokenInv
    <3>3. CASE Owed = 1
      <4>1. Spoken' = Made' /\ Owed' = 0 /\ Spoken = Made
        BY ONLY <1>3, <1>4, <2>1, <2>3, <3>3
      <4>2. caller.down # NoKey /\ caller.loud < MinBlocks =>
              guard.age <= Drift(caller.loud, caller.quiet)
        BY ONLY <1>2, <2>1, <4>1 DEF SpokenInv
      <4>3. QED
        BY ONLY <1>3, <1>4, <2>3, <3>1, <4>1, <4>2 DEF SpokenInv
    <3>4. QED
      BY <1>3, <3>2, <3>3
  <2>5. QED
    BY <1>5, <1>6, <2>3, <2>4 DEF PressInv
<1>10. QED
  BY <1>8, <1>9

\* The key held down, after a block.
LEMMA PassesClocks ==
    ASSUME IInv, NEW read, Passes(read)
    PROVE  /\ caller'.down = caller.down
           /\ caller'.onset = (caller.onset /\ read = NoKey)
           /\ IF caller.down # NoKey /\ read = caller.down
              THEN /\ caller'.quiet = 0
                   /\ caller'.loud = IF caller.loud < MinBlocks THEN caller.loud + 1 ELSE MinBlocks
              ELSE /\ caller'.loud = caller.loud
                   /\ caller'.quiet = IF caller.quiet <= Lead THEN caller.quiet + 1 ELSE Lead + 1
<1> DEFINE loud == caller.down # NoKey /\ read = caller.down
           o == caller.onset /\ read = NoKey
           l == IF loud THEN AtMost(caller.loud + 1, MinBlocks) ELSE caller.loud
           q == IF loud THEN 0 ELSE AtMost(caller.quiet + 1, Lead + 1)
<1>1. caller \in [down : Keys \cup {NoKey}, onset : BOOLEAN, loud : Blocks, quiet : Gaps]
  BY DEF IInv, RoadsInv
<1>2. caller' = [caller EXCEPT !.onset = o, !.loud = l, !.quiet = q]
  BY DEF Passes
<1>3. caller'.down = caller.down /\ caller'.onset = o /\ caller'.loud = l /\ caller'.quiet = q
  <2> HIDE DEF o, l, q
  <2> QED
    BY <1>1, <1>2
<1>4. l = IF loud THEN (IF caller.loud < MinBlocks THEN caller.loud + 1 ELSE MinBlocks) ELSE caller.loud
  BY Clocks, Lengths DEF AtMost
<1>5. q = IF loud THEN 0 ELSE IF caller.quiet <= Lead THEN caller.quiet + 1 ELSE Lead + 1
  BY Clocks, Lengths DEF AtMost
<1>6. QED
  BY <1>3, <1>4, <1>5

\* The detector counts the blocks of the key, and reports it in the one that makes it long
\* enough; what a gap or the onset reads as is never reported.
LEMMA ToneKept ==
    ASSUME IInv, HeldTone, caller.down # NoKey, NEW read \in Reads, Passes(read),
           Tones => tones' = Listens(tones, read), UNCHANGED <<sends, pressed>>
    PROVE  /\ HeldTone'
           /\ Tones => Detects(tones, read) = IF read = caller.down /\ caller.loud + 1 = MinBlocks
                                              THEN caller.down ELSE NoKey
<1>1. /\ caller.loud \in Nat /\ caller.loud <= MinBlocks /\ caller.quiet \in Nat
      /\ MinBlocks \in Nat /\ MinBlocks >= 2 /\ MaxGap \in Nat /\ Lead \in Nat /\ Lead >= MaxGap
      /\ caller.onset \in BOOLEAN
  BY Clocks, Lengths
<1>2. /\ caller'.down = caller.down /\ caller'.onset = (caller.onset /\ read = NoKey)
      /\ IF read = caller.down
         THEN caller'.quiet = 0
              /\ caller'.loud = IF caller.loud < MinBlocks THEN caller.loud + 1 ELSE MinBlocks
         ELSE caller'.loud = caller.loud
              /\ caller'.quiet = IF caller.quiet <= Lead THEN caller.quiet + 1 ELSE Lead + 1
  BY PassesClocks
<1>3. /\ read = NoKey => caller.quiet < IF caller.loud = 0 THEN Lead ELSE MaxGap
      /\ read # NoKey /\ read # caller.down => caller.onset
  <2>1. \/ read = caller.down
        \/ read = NoKey /\ caller.quiet < IF caller.loud = 0 THEN Lead ELSE MaxGap
        \/ caller.onset /\ read \in Keys
    BY DEF Reads
  <2>2. read # NoKey \/ read \notin Keys
    BY Lengths
  <2>3. QED
    BY ONLY <2>1, <2>2, caller.down # NoKey
<1>4. /\ Made > 0 /\ caller.down = pressed[Made] /\ Made' = Made /\ pressed' = pressed
      /\ caller.onset => caller.loud = 0 /\ caller.quiet <= Lead
      /\ caller.loud > 0 => caller.quiet <= MaxGap
      /\ Tones' <=> Tones
  BY DEF HeldTone, Made, Tones
<1>5. /\ Made' > 0 /\ caller'.down = pressed'[Made']
      /\ caller'.onset => caller'.loud = 0 /\ caller'.quiet <= Lead
      /\ caller'.loud > 0 => caller'.quiet <= MaxGap
  <2>1. CASE read = NoKey
    BY ONLY <1>1, <1>2, <1>3, <1>4, <2>1, caller.down # NoKey
  <2>2. CASE read # NoKey
    <3>1. ~caller'.onset
      BY <1>2, <2>2
    <3>2. read # caller.down => caller.loud = 0
      BY <1>3, <1>4, <2>2
    <3>3. caller'.loud > 0 => caller'.quiet <= MaxGap
      BY ONLY <1>1, <1>2, <3>2
    <3>4. QED
      BY ONLY <1>2, <1>4, <3>1, <3>3
  <2>3. QED
    BY <2>1, <2>2
<1> DEFINE Counted(t, c) ==
      IF c.loud = 0
      THEN t.candidate # c.down /\ (c.onset => t.candidate = t.reported)
      ELSE /\ t.candidate = c.down /\ t.blocks = c.loud /\ t.gap = c.quiet
           /\ t.reported = IF c.loud = MinBlocks THEN c.down ELSE NoKey
<1>6. ASSUME Tones
      PROVE  /\ Counted(tones', caller')
             /\ Detects(tones, read) = IF read = caller.down /\ caller.loud + 1 = MinBlocks
                                       THEN caller.down ELSE NoKey
  <2>1. Counted(tones, caller) /\ tones' = Listens(tones, read)
    BY <1>6 DEF HeldTone
  <2>2. tones \in [candidate : Keys \cup {NoKey}, blocks : 0..MinBlocks, gap : 0..MaxGap,
                   reported : Keys \cup {NoKey}]
    BY TonesInShape DEF IInv
  <2>3. CASE read = NoKey
    <3>1. Detects(tones, read) = NoKey /\ read # caller.down
      BY <2>3 DEF Detects
    <3>2. \/ tones' = NoTone /\ tones.gap + 1 > MaxGap
          \/ /\ tones'.gap = tones.gap + 1 /\ tones'.candidate = tones.candidate
             /\ tones'.blocks = tones.blocks /\ tones'.reported = tones.reported
      BY <2>1, <2>2, <2>3 DEF Listens, GapEnds
    <3>3. Counted(tones', caller')
      BY ONLY <1>1, <1>2, <1>3, <2>1, <2>2, <2>3, <3>1, <3>2, caller.down # NoKey DEF NoTone
    <3>4. QED
      BY <3>1, <3>3
  <2>4. CASE read # NoKey
    <3> DEFINE new == read # tones.candidate
               blocks == AtMost((IF new THEN 0 ELSE tones.blocks) + 1, MinBlocks)
               reported == IF blocks >= MinBlocks THEN read
                           ELSE IF new THEN NoKey ELSE tones.reported
    <3>1. /\ tones'.candidate = read /\ tones'.blocks = blocks /\ tones'.gap = 0
          /\ tones'.reported = reported
      BY <2>1, <2>4 DEF Listens
    <3>2. Detects(tones, read) = IF reported = read /\ (tones.candidate # read \/ tones.reported # read)
                                THEN read ELSE NoKey
      BY <2>1, <2>4, <3>1 DEF Detects
    <3>3. /\ new => blocks = 1
          /\ ~new => blocks = IF tones.blocks < MinBlocks THEN tones.blocks + 1 ELSE MinBlocks
          /\ tones.blocks \in Nat
      BY <1>1, <2>2 DEF AtMost
    <3>4. reported = IF blocks >= MinBlocks THEN read ELSE IF new THEN NoKey ELSE tones.reported
      OBVIOUS
    <3>5. new <=> read # tones.candidate
      OBVIOUS
    <3> HIDE DEF new, blocks, reported
    <3>6. CASE read = caller.down
      <4>1. CASE caller.loud = 0
        <5>1. new /\ blocks = 1 /\ reported = NoKey /\ caller'.loud = 1 /\ caller'.quiet = 0
          BY ONLY <1>1, <1>2, <2>1, <3>3, <3>4, <3>5, <3>6, <4>1
        <5>2. QED
          BY ONLY <1>1, <1>2, <2>4, <3>1, <3>2, <3>6, <4>1, <5>1
      <4>2. CASE caller.loud > 0
        <5>1. ~new /\ blocks = caller'.loud /\ caller'.quiet = 0 /\ tones.candidate = caller.down
          BY ONLY <1>1, <1>2, <2>1, <3>3, <3>5, <3>6, <4>2
        <5>2. /\ reported = IF caller'.loud = MinBlocks THEN caller.down ELSE NoKey
              /\ tones.reported = IF caller.loud = MinBlocks THEN caller.down ELSE NoKey
          BY ONLY <1>1, <1>2, <2>1, <3>4, <3>6, <4>2, <5>1
        <5>3. QED
          BY ONLY <1>1, <1>2, <2>4, <3>1, <3>2, <3>6, <4>2, <5>1, <5>2
      <4>3. QED
        BY <1>1, <4>1, <4>2
    <3>7. CASE read # caller.down
      <4>1. caller.onset /\ caller.loud = 0 /\ tones.candidate = tones.reported
        BY ONLY <1>3, <1>4, <2>1, <2>4, <3>7
      <4>2. caller'.loud = 0 /\ ~caller'.onset
        BY ONLY <1>2, <2>4, <3>7, <4>1
      <4>3. Detects(tones, read) = NoKey
        BY ONLY <1>1, <2>4, <3>2, <3>3, <3>4, <3>5, <4>1
      <4>4. QED
        BY ONLY <1>2, <3>1, <3>7, <4>2, <4>3
    <3>8. QED
      BY <3>6, <3>7
  <2>5. QED
    BY <2>3, <2>4
<1>7. QED
  BY ONLY <1>4, <1>5, <1>6 DEF HeldTone

\* What a block does to the events under way and to the age of the guard.
LEMMA BlockAges ==
    ASSUME IInv, Block
    PROVE  /\ Owed' = Owed /\ Made' = Made /\ call = "up" /\ UNCHANGED <<sends, pressed, call>>
           /\ \A i \in 1..Owed : owed'[i] = owed[i] + 1 /\ owed[i] < Lag /\ owed[i] \in Nat
           /\ AtMost(guard.age + 1, Window) \in Nat
           /\ AtMost(guard.age + 1, Window) <= guard.age + 1
<1>1. AtMost(guard.age + 1, Window) \in Nat /\ AtMost(guard.age + 1, Window) <= guard.age + 1
  BY Clocks, Lengths DEF AtMost
<1>2. QED
  BY <1>1, OwedAges DEF Block, IInv, Owed, Made

\* A block while the finger is up is heard as nothing.
LEMMA QuietBlockKeepsPress ==
    ASSUME IInv, PressInv, Block, caller.down = NoKey PROVE PressInv'
<1> DEFINE age == AtMost(guard.age + 1, Window)
<1>1. /\ Passes(NoKey) /\ Reports(NoKey, age)
      /\ IF Tones THEN tones' = Listens(tones, NoKey) ELSE tones' = tones
  <2>1. Detects(tones, NoKey) = NoKey
    BY DEF Detects
  <2>2. Reads = {NoKey}
    BY DEF Reads
  <2>3. QED
    BY <2>1, <2>2 DEF Block, Tones
<1>2. /\ Owed' = Owed /\ Made' = Made /\ call = "up" /\ UNCHANGED <<sends, pressed, call>>
      /\ \A i \in 1..Owed : owed'[i] = owed[i] + 1 /\ owed[i] < Lag /\ owed[i] \in Nat
      /\ age \in Nat /\ age <= guard.age + 1
  BY BlockAges
<1>3. OrderInv /\ OwedInv /\ SpokenInv /\ ToneInv /\ LiftedTone
  BY <1>2 DEF PressInv, ToneInv
<1>4. /\ Made \in Nat /\ Spoken \in Nat /\ MinBlocks \in Nat /\ Lead \in Nat
      /\ guard.age \in Nat /\ caller.quiet \in Nat /\ tones.gap \in Nat
  <2>1. tones.gap \in Nat
    BY Lengths DEF IInv, RoadsInv
  <2>2. QED
    BY <2>1, Counts, Clocks, Lengths
<1>5. caller'.down = NoKey /\ caller'.quiet <= caller.quiet + 1 /\ caller'.quiet \in Nat
  <2>1. /\ caller'.down = NoKey
        /\ caller'.quiet = IF caller.quiet <= Lead THEN caller.quiet + 1 ELSE Lead + 1
    BY <1>1, PassesClocks
  <2>2. QED
    BY ONLY <1>4, <2>1
<1>6. OrderInv' /\ Spoken' = Spoken /\ guard'.age = age
  BY <1>1, <1>2, <1>3, RepeatIsDropped
<1> HIDE DEF age
<1>7. Owed \in {0, 1}
  BY ONLY <1>3, caller.down = NoKey DEF OwedInv
<1>8. OwedInv'
  <2>1. Owed = 1 => owed[1] >= MinBlocks /\ owed'[1] = owed[1] + 1 /\ owed[1] \in Nat
    BY ONLY <1>2, <1>3, caller.down = NoKey DEF OwedInv
  <2>2. "event" \notin sends' => Owed' = 0
    BY ONLY <1>2, <1>3 DEF OwedInv
  <2>3. QED
    BY ONLY <1>2, <1>4, <1>5, <1>7, <2>1, <2>2 DEF OwedInv
<1>9. SpokenInv'
  <2>1. CASE ~Tones
    BY ONLY <1>2, <1>3, <1>6, <2>1 DEF SpokenInv, Tones
  <2>2. CASE Tones
    <3>1. Spoken = Made /\ (Owed = 1 => guard.age <= owed[1])
      BY ONLY <1>3, <1>7, <2>2, caller.down = NoKey DEF SpokenInv
    <3>2. Owed = 1 => owed'[1] = owed[1] + 1 /\ owed[1] \in Nat
      BY ONLY <1>2
    <3>3. QED
      BY ONLY <1>2, <1>4, <1>5, <1>6, <1>7, <2>2, <3>1, <3>2 DEF SpokenInv, Tones
  <2>3. QED
    BY <2>1, <2>2
<1>10. ToneInv'
  <2>1. tones \in [candidate : Keys \cup {NoKey}, blocks : 0..MinBlocks, gap : 0..MaxGap,
                   reported : Keys \cup {NoKey}]
    BY TonesInShape DEF IInv
  <2>2. \/ tones' = NoTone
        \/ tones' = tones /\ ~Tones
        \/ /\ tones'.gap = tones.gap + 1
           /\ tones'.candidate = tones.candidate /\ tones'.reported = tones.reported
    BY <1>1, <2>1 DEF Listens, GapEnds
  <2>3. Silent => Silent'
    BY ONLY <2>2 DEF Silent, NoTone
  <2>4. LiftedTone'
    <3>1. CASE Silent
      BY ONLY <2>3, <3>1 DEF LiftedTone
    <3>2. CASE ~Silent
      BY ONLY <1>2, <1>3, <1>4, <1>5, <2>2, <3>2 DEF LiftedTone, ToneInv, Silent, NoTone
    <3>3. QED
      BY <3>1, <3>2
  <2>5. QED
    BY ONLY <1>2, <1>3, <1>5, <2>3, <2>4 DEF ToneInv, Tones
<1>11. QED
  BY <1>6, <1>8, <1>9, <1>10 DEF PressInv

\* A block while the key is down: the detector reports the key in the block that makes it
\* long enough, and the guard lets that through if the event has not come before.
LEMMA LoudBlockKeepsPress ==
    ASSUME EventsKeepUp, IInv, PressInv, Block, caller.down # NoKey PROVE PressInv'
<1> DEFINE age == AtMost(guard.age + 1, Window)
<1>1. PICK read \in Reads :
        /\ Passes(read)
        /\ IF Tones THEN tones' = Listens(tones, read) /\ Reports(Detects(tones, read), age)
           ELSE Reports(NoKey, age) /\ tones' = tones
  BY DEF Block, Tones
<1>2. /\ Owed' = Owed /\ Made' = Made /\ call = "up" /\ UNCHANGED <<sends, pressed, call>>
      /\ \A i \in 1..Owed : owed'[i] = owed[i] + 1 /\ owed[i] < Lag /\ owed[i] \in Nat
      /\ age \in Nat /\ age <= guard.age + 1
  BY BlockAges
<1>3. OrderInv /\ OwedInv /\ SpokenInv /\ ToneInv /\ HeldTone
  BY <1>2 DEF PressInv, ToneInv
<1>4. /\ Made \in Nat /\ Spoken \in Nat /\ MinBlocks \in Nat /\ MinBlocks >= 2
      /\ Lead \in Nat /\ MaxGap \in Nat /\ Lag \in Nat /\ Window \in Nat
      /\ guard.age \in Nat /\ caller.quiet \in Nat /\ caller.quiet <= Lead + 1
      /\ caller.loud \in Nat /\ caller.loud <= MinBlocks
  <2>1. caller.quiet <= Lead + 1
    BY Lengths DEF IInv, RoadsInv, Gaps
  <2>2. QED
    BY <2>1, Counts, Clocks, Lengths
<1>5. /\ caller'.down = caller.down
      /\ IF read = caller.down
         THEN caller'.quiet = 0
              /\ caller'.loud = IF caller.loud < MinBlocks THEN caller.loud + 1 ELSE MinBlocks
         ELSE caller'.loud = caller.loud
              /\ caller'.quiet = IF caller.quiet <= Lead THEN caller.quiet + 1 ELSE Lead + 1
  BY <1>1, PassesClocks
<1> DEFINE completes == Tones /\ read = caller.down /\ caller.loud + 1 = MinBlocks
           k == IF completes THEN caller.down ELSE NoKey
<1>6. HeldTone' /\ Reports(k, age)
  BY <1>1, <1>2, <1>3, ToneKept
<1>7. k \in Keys \cup {NoKey} /\ (completes => k \in Keys) /\ (Tones' <=> Tones)
  BY <1>2, Clocks DEF Tones
<1>8. completes <=> Tones /\ read = caller.down /\ caller.loud + 1 = MinBlocks
  OBVIOUS
<1>9. k = IF completes THEN caller.down ELSE NoKey
  OBVIOUS
<1> HIDE DEF age, completes, k
<1>10. /\ completes => caller.loud < MinBlocks /\ caller'.loud = MinBlocks
       /\ Tones /\ ~completes /\ caller.loud < MinBlocks => caller'.loud < MinBlocks
       /\ caller.loud = MinBlocks => caller'.loud = MinBlocks
       /\ caller'.loud <= caller.loud + 1 /\ caller'.loud \in Nat
  BY ONLY <1>4, <1>5, <1>8
<1>11. ToneInv'
  <2>1. ~Tones' => Silent'
    BY <1>1, <1>2, <1>3, <1>7 DEF ToneInv, Silent
  <2>2. QED
    BY ONLY <1>2, <1>3, <1>5, <1>6, <2>1, caller.down # NoKey DEF ToneInv, HeldTone
<1>12. OwedInv'
  <2>1. Owed \in 0..2 /\ ("event" \notin sends' => Owed = 0)
    BY ONLY <1>2, <1>3 DEF OwedInv
  <2>2. Owed > 0 => owed'[Owed] >= caller'.loud
    <3>1. Owed > 0 => owed[Owed] >= caller.loud /\ owed'[Owed] = owed[Owed] + 1 /\ owed[Owed] \in Nat
      BY ONLY <1>2, <1>3, <2>1, caller.down # NoKey DEF OwedInv
    <3>2. QED
      BY ONLY <1>4, <1>10, <3>1
  <2>3. Owed = 2 => pressed'[Made'] # pressed'[Made' - 1] /\ owed'[1] >= owed'[2] + MinBlocks + 1
    <3>1. Owed = 2 => /\ pressed[Made] # pressed[Made - 1] /\ owed[1] >= owed[2] + MinBlocks + 1
                      /\ owed'[1] = owed[1] + 1 /\ owed'[2] = owed[2] + 1
                      /\ owed[1] \in Nat /\ owed[2] \in Nat
      BY ONLY <1>2, <1>3 DEF OwedInv
    <3>2. QED
      BY ONLY <1>2, <1>4, <3>1
  <2>4. QED
    BY ONLY <1>2, <1>5, <2>1, <2>2, <2>3, caller.down # NoKey DEF OwedInv
<1>13. Owed \in 0..2 /\ (Owed > 0 => owed'[1] = owed[1] + 1 /\ owed[1] \in Nat)
  BY ONLY <1>2, <1>3 DEF OwedInv
\* How long ago the press was reported, when its tone is not recognised yet.
<1>14. ASSUME Tones, ~completes, Spoken = Made, caller.loud < MinBlocks
       PROVE  age <= Drift(caller'.loud, caller'.quiet)
  <2>1. guard.age <= Drift(caller.loud, caller.quiet)
    BY ONLY <1>3, <1>14, caller.down # NoKey DEF SpokenInv
  <2>2. /\ Drift(caller.loud, caller.quiet) \in Nat
        /\ Drift(caller.loud, caller.quiet) + 1 = Drift(caller.loud, caller.quiet + 1)
        /\ caller.quiet <= (IF caller.loud = 0 THEN Lead + 1 ELSE MaxGap) =>
             Drift(caller.loud, caller.quiet) + 1 <= Drift(caller.loud + 1, 0)
    BY ONLY <1>4, DriftIsCovered
  <2>3. CASE read = caller.down
    <3>1. caller'.loud = caller.loud + 1 /\ caller'.quiet = 0
      BY ONLY <1>4, <1>5, <1>14, <2>3
    <3>2. caller.quiet <= (IF caller.loud = 0 THEN Lead + 1 ELSE MaxGap)
      BY ONLY <1>3, <1>4 DEF HeldTone
    <3>3. Drift(caller.loud + 1, 0) \in Nat
      <4>1. caller.loud + 1 \in Nat /\ 0 \in Nat
        BY ONLY <1>4
      <4>2. QED
        BY ONLY <4>1, DriftIsCovered
    <3>4. QED
      BY ONLY <1>2, <1>4, <2>1, <2>2, <3>1, <3>2, <3>3
  <2>4. CASE read # caller.down
    <3>1. caller.quiet <= Lead
      <4>1. \/ read = NoKey /\ caller.quiet < IF caller.loud = 0 THEN Lead ELSE MaxGap
            \/ caller.onset
        BY ONLY read \in Reads, <2>4, caller.down # NoKey DEF Reads
      <4>2. Lead >= MaxGap /\ (caller.onset => caller.quiet <= Lead)
        BY <1>3, Lengths DEF HeldTone
      <4>3. QED
        BY ONLY <1>4, <4>1, <4>2
    <3>2. caller'.loud = caller.loud /\ caller'.quiet = caller.quiet + 1
      BY ONLY <1>5, <2>4, <3>1
    <3>3. QED
      BY ONLY <1>2, <1>4, <2>1, <2>2, <3>2
  <2>5. QED
    BY <2>3, <2>4
<1>15. CASE completes /\ Spoken < Made
  <2>1. Tones /\ Spoken + 1 = Made
    BY ONLY <1>3, <1>4, <1>8, <1>15 DEF SpokenInv
  <2>2. k \in Keys /\ k = pressed[Spoken + 1]
    BY ONLY <1>3, <1>7, <1>9, <1>15, <2>1 DEF HeldTone
  <2>3. OrderInv' /\ Spoken' = Spoken + 1 /\ guard'.age = 0
    BY <1>2, <1>3, <1>4, <1>6, <1>15, <2>1, <2>2, NextIsReported
  \* Were the event before it under way as well, it would be too late by now.
  <2>4. Owed # 2
    <3> SUFFICES ASSUME Owed = 2 PROVE FALSE
      OBVIOUS
    <3>1. owed[1] >= owed[2] + MinBlocks + 1 /\ owed[2] >= caller.loud
      BY ONLY <1>3, Owed = 2, caller.down # NoKey DEF OwedInv
    <3>2. owed[1] \in Nat /\ owed[1] < Lag /\ owed[2] \in Nat
      BY ONLY <1>2, Owed = 2
    <3>3. Lag <= 2 * MinBlocks
      BY DEF EventsKeepUp
    <3>4. QED
      BY ONLY <1>4, <1>8, <1>15, <3>1, <3>2, <3>3
  <2>5. SpokenInv'
    BY ONLY <1>2, <1>4, <1>5, <1>7, <1>10, <1>13, <1>15, <2>1, <2>3, <2>4 DEF SpokenInv
  <2>6. QED
    BY <1>11, <1>12, <2>3, <2>5 DEF PressInv
<1>16. CASE ~(completes /\ Spoken < Made)
  <2>1. k = NoKey \/ (k = guard.digit /\ guard.age < Window)
    <3>1. CASE ~completes
      BY <1>9, <3>1
    <3>2. CASE completes
      <4>1. Spoken = Made
        BY ONLY <1>4, <1>16, <3>2, <1>3 DEF OrderInv
      <4>2. guard.digit = caller.down
        BY ONLY <1>3, <4>1 DEF OrderInv, HeldTone
      <4>3. guard.age <= Drift(caller.loud, caller.quiet)
        BY ONLY <1>3, <1>8, <1>10, <3>2, <4>1, caller.down # NoKey DEF SpokenInv
      <4>4. caller.loud > 0 /\ caller.loud + 1 = MinBlocks /\ caller.quiet <= MaxGap
        BY ONLY <1>3, <1>4, <1>8, <3>2 DEF HeldTone
      <4>5. Drift(caller.loud, caller.quiet) < Window /\ Drift(caller.loud, caller.quiet) \in Nat
        BY ONLY <1>4, <4>4, DriftIsCovered
      <4>6. QED
        BY ONLY <1>4, <1>9, <3>2, <4>2, <4>3, <4>5
    <3>3. QED
      BY <3>1, <3>2
  <2>2. OrderInv' /\ Spoken' = Spoken /\ guard'.age = age
    BY <1>2, <1>3, <1>6, <1>7, <2>1, RepeatIsDropped DEF age
  <2>3. SpokenInv'
    <3>1. CASE ~Tones
      BY ONLY <1>2, <1>3, <1>7, <2>2, <3>1 DEF SpokenInv
    <3>2. CASE Tones
      <4>1. /\ Spoken = Made \/ Spoken = Made - 1
            /\ Spoken < Made => caller.loud < MinBlocks /\ ("event" \in sends => Owed > 0)
            /\ Spoken = Made /\ Owed > 0 => Owed = 1 /\ caller.loud = MinBlocks
            /\ Owed = 2 \/ (Spoken = Made /\ Owed > 0) => guard.age <= owed[1]
        BY ONLY <1>3, <3>2, caller.down # NoKey DEF SpokenInv
      <4>2. Spoken < Made => caller'.loud < MinBlocks
        BY ONLY <1>10, <1>16, <3>2, <4>1
      <4>3. Owed = 2 \/ (Spoken = Made /\ Owed > 0) => age <= owed'[1]
        BY ONLY <1>2, <1>4, <1>13, <4>1
      <4>4. Spoken = Made /\ caller'.loud < MinBlocks => age <= Drift(caller'.loud, caller'.quiet)
        BY ONLY <1>4, <1>10, <1>14, <3>2
      <4>5. QED
        BY ONLY <1>2, <1>4, <1>5, <1>7, <1>10, <1>13, <2>2, <3>2, <4>1, <4>2, <4>3, <4>4,
                caller.down # NoKey DEF SpokenInv
    <3>3. QED
      BY <3>1, <3>2
  <2>4. QED
    BY <1>11, <1>12, <2>2, <2>3 DEF PressInv
<1>17. QED
  BY <1>15, <1>16

\* A step that leaves the keypad and its roads alone; the call does not come back.
LEMMA OthersKeepPress ==
    ASSUME PressInv, UNCHANGED <<keypad, roads>>, KeysOf(heard') = KeysOf(heard),
           call' = "up" => call = "up"
    PROVE  PressInv'
<1>1. /\ UNCHANGED <<sends, caller, pressed, owed, tones, guard>>
      /\ Spoken' = Spoken /\ Made' = Made /\ Owed' = Owed /\ (Tones' <=> Tones)
  BY DEF keypad, roads, Spoken, Made, Owed, Tones
<1> SUFFICES ASSUME call' = "up" PROVE PressInv'
  BY DEF PressInv
<1>2. OrderInv /\ OwedInv /\ SpokenInv /\ ToneInv
  BY DEF PressInv
<1>3. OrderInv' /\ OwedInv'
  BY <1>1, <1>2 DEF OrderInv, OwedInv
<1>4. SpokenInv'
  BY <1>1, <1>2 DEF SpokenInv
<1>5. ToneInv'
  BY <1>1, <1>2 DEF ToneInv, LiftedTone, HeldTone, Silent
<1>6. QED
  BY <1>3, <1>4, <1>5 DEF PressInv

\* A silence of the dialogue's is no key.
LEMMA GivesUpKeepsPress == ASSUME IInv, PressInv, GivesUpWaiting PROVE PressInv'
<1>1. UNCHANGED <<keypad, roads, call>> /\ (heard' = heard \/ heard' = Append(heard, Silence))
  BY DEF GivesUpWaiting, others
<1>2. KeysOf(heard') = KeysOf(heard)
  <2>1. heard \in Seq(Signs) /\ Silence \in Signs
    BY Counts DEF Signs
  <2>2. QED
    BY <1>1, <2>1, KeysOfAppend
<1>3. QED
  BY <1>1, <1>2, OthersKeepPress

\* However a gateway sends a press, and whichever road is first, it is reported once, in
\* order, and by the time the key is up: tones as late and gaps as long as the guard
\* covers, and events that keep up (report_digit, DigitGuard, InbandDtmf).
THEOREM PressesAreOne == ASSUME EventsKeepUp PROVE Spec => []EveryPressIsOne
<1>1. Init => PressInv
  <2> SUFFICES ASSUME Init PROVE PressInv
    OBVIOUS
  <2>1. /\ pressed = <<>> /\ owed = <<>> /\ heard = <<>> /\ guard.digit = NoKey
        /\ caller.down = NoKey /\ Silent
    BY DEF Init, Silent, NoTone
  <2>2. Made = 0 /\ Spoken = 0 /\ Owed = 0
    BY <2>1, KeysOfNone DEF Made, Spoken, Owed
  <2>3. OrderInv /\ OwedInv
    BY ONLY <2>1, <2>2 DEF OrderInv, OwedInv
  <2>4. SpokenInv
    BY ONLY <2>1, <2>2 DEF SpokenInv
  <2>5. ToneInv
    BY ONLY <2>1, <2>2 DEF ToneInv, LiftedTone
  <2>6. QED
    BY <2>3, <2>4, <2>5 DEF PressInv
<1>2. IInv /\ PressInv /\ [Next]_vars => PressInv'
  <2> SUFFICES ASSUME IInv, PressInv, [Next]_vars PROVE PressInv'
    OBVIOUS
  <2>1. CASE \E k \in Keys : Press(k)
    BY <2>1, PressKeepsPress
  <2>2. CASE LiftsFinger \/ EventPacket \/ Block
    BY <2>2, LiftKeepsPress, EventKeepsPress, QuietBlockKeepsPress, LoudBlockKeepsPress
  <2>3. CASE HangsUp \/ OnCallEnded \/ Sentinel
    BY <2>3, OthersKeepPress DEF HangsUp, OnCallEnded, Sentinel
  <2>4. CASE Starts \/ Asks \/ Welcomes \/ TurnsAway \/ Rejects \/ Looks \/ Resolves \/ Gets
    BY <2>4, OthersKeepPress
       DEF Starts, Asks, Welcomes, TurnsAway, Rejects, Looks, Resolves, Gets, others, keypad, roads
  <2>5. CASE GivesUpWaiting
    BY <2>5, GivesUpKeepsPress
  <2>6. CASE UNCHANGED vars
    BY <2>6, OthersKeepPress DEF vars
  <2>7. QED
    BY <2>1, <2>2, <2>3, <2>4, <2>5, <2>6 DEF Next, Dials
\* What was reported is a beginning of what was pressed, and all of it by then.
<1>3. IInv /\ PressInv => EveryPressIsOne
  <2> SUFFICES ASSUME IInv, PressInv, call = "up"
               PROVE  /\ IsPrefix(KeysOf(heard), pressed)
                      /\ caller.down = NoKey /\ (Tones \/ owed = <<>>) => KeysOf(heard) = pressed
    BY DEF EveryPressIsOne, Tones
  <2>1. PICK keys \in Seq(Keys), presses \in Seq(Keys) : keys = KeysOf(heard) /\ presses = pressed
    BY Counts
  <2>2. OrderInv /\ SpokenInv /\ Made \in Nat /\ Spoken = Len(keys) /\ Made = Len(presses)
    BY <2>1, Counts DEF PressInv, Spoken, Made
  <2>3. Len(keys) <= Len(presses) /\ \A i \in 1..Len(keys) : keys[i] = presses[i]
    BY ONLY <2>1, <2>2 DEF OrderInv
  <2>4. IsPrefix(keys, presses)
    <3>1. PICK n \in Nat : n = Len(keys) /\ n <= Len(presses)
      BY <2>1, <2>3
    <3>2. keys = SubSeq(presses, 1, n)
      <4>1. keys = [i \in 1..n |-> keys[i]]
        BY <2>1, <3>1
      <4>2. SubSeq(presses, 1, n) = [i \in 1..n |-> presses[i]]
        BY <2>1, <3>1
      <4>3. \A i \in 1..n : keys[i] = presses[i]
        BY <2>3, <3>1
      <4>4. QED
        BY ONLY <4>1, <4>2, <4>3
    <3>3. QED
      BY <3>1, <3>2 DEF IsPrefix
  <2>5. caller.down = NoKey /\ (Tones \/ owed = <<>>) => keys = presses
    <3> SUFFICES ASSUME caller.down = NoKey, Tones \/ owed = <<>> PROVE keys = presses
      OBVIOUS
    <3>1. Owed = 0 \/ Tones
      BY Counts
    <3>2. Spoken = Made
      BY ONLY <2>2, <3>1, caller.down = NoKey DEF SpokenInv
    <3>3. PICK n \in Nat : n = Len(keys) /\ n = Len(presses)
      BY <2>1, <2>2, <3>2
    <3>4. keys = [i \in 1..n |-> keys[i]] /\ presses = [i \in 1..n |-> presses[i]]
      BY <3>3, SequenceIs
    <3>5. \A i \in 1..n : keys[i] = presses[i]
      BY <2>3, <3>3
    <3>6. QED
      BY ONLY <3>4, <3>5
  <2>6. QED
    BY <2>1, <2>4, <2>5
<1>4. QED
  BY <1>1, <1>2, <1>3, DialInInvariance, PTL DEF Spec
=============================================================================
