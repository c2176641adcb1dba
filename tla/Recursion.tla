------------------------------ MODULE Recursion ------------------------------
(***************************************************************************)
(* Facts about recursion that the proofs of several modules need: a set of *)
(* naturals has a least element, induction as a fact about sets (the       *)
(* provers cannot instantiate one about predicates), and what a function   *)
(* computes that goes through a sequence step by step.                     *)
(***************************************************************************)
EXTENDS Integers, Sequences, WellFoundedInduction, TLAPS

LEMMA LeastNatural ==
    ASSUME NEW S \in SUBSET Nat, S # {}
    PROVE  \E m \in S : \A n \in S : m <= n
<1> DEFINE R == {p \in Nat \X Nat : p[1] < p[2]}
<1>1. IsWellFoundedOn(R, Nat)
  <2>1. R = OpToRel(<, Nat)
    BY DEF OpToRel
  <2>2. QED
    BY <2>1, NatLessThanWellFounded
<1>2. PICK m \in S : \A n \in S : ~(<<n, m>> \in R)
  <2> HIDE DEF R
  <2> QED
    BY <1>1, WFMin
<1>3. ASSUME NEW n \in S PROVE m <= n
  <2>1. m \in Nat /\ n \in Nat
    OBVIOUS
  <2>2. ~(n < m)
    BY <1>2, <2>1
  <2>3. QED
    BY <2>1, <2>2
<1>4. QED
  BY <1>3

LEMMA Induct ==
    ASSUME NEW S \in SUBSET Nat, 0 \in S, \A n \in S : n + 1 \in S
    PROVE  S = Nat
<1> SUFFICES ASSUME Nat \ S # {} PROVE FALSE
  OBVIOUS
<1>1. PICK m \in Nat \ S : \A n \in Nat \ S : m <= n
  BY LeastNatural
<1>2. m # 0 /\ m - 1 \in Nat /\ m - 1 \in S
  BY <1>1
<1>3. QED
  BY <1>2
-----------------------------------------------------------------------------
(* Going through a sequence. *)

\* r[i] is what is made of the first i elements of s, from base on.
IsRun(r, step, base, s) ==
    r = [i \in 0..Len(s) |-> IF i = 0 THEN base ELSE step[<<r[i - 1], s[i]>>]]

LEMMA RunExists ==
    ASSUME NEW step, NEW base, NEW T, NEW s \in Seq(T)
    PROVE  \E r : IsRun(r, step, base, s)
<1> DEFINE To(n, r) == r = [i \in 0..n |-> IF i = 0 THEN base ELSE step[<<r[i - 1], s[i]>>]]
           S == {n \in Nat : \E r : To(n, r)}
<1>1. 0 \in S
  <2> DEFINE r == [i \in 0..0 |-> base]
  <2>1. To(0, r)
    OBVIOUS
  <2>2. QED
    BY <2>1
<1>2. ASSUME NEW n \in S PROVE n + 1 \in S
  <2>1. PICK r : To(n, r)
    OBVIOUS
  <2> DEFINE q == [i \in 0..n + 1 |-> IF i = 0 THEN base
                                     ELSE IF i = n + 1 THEN step[<<r[n], s[i]>>] ELSE r[i]]
  <2>2. n \in Nat /\ r[0] = base /\ q[0] = base
    BY <2>1
  <2>3. \A i \in 0..n : q[i] = r[i]
    BY <2>2
  <2>4. \A i \in 1..n + 1 : q[i] = step[<<q[i - 1], s[i]>>]
    <3> SUFFICES ASSUME NEW i \in 1..n + 1 PROVE q[i] = step[<<q[i - 1], s[i]>>]
      OBVIOUS
    <3>1. i - 1 \in 0..n /\ q[i - 1] = r[i - 1]
      BY <2>2, <2>3
    <3>2. CASE i = n + 1
      BY <2>2, <3>1, <3>2
    <3>3. CASE i # n + 1
      <4>1. i \in 0..n /\ i # 0
        BY <2>2, <3>3
      <4>2. r[i] = step[<<r[i - 1], s[i]>>]
        BY <2>1, <4>1
      <4>3. QED
        BY <2>3, <3>1, <4>1, <4>2
    <3>4. QED
      BY <3>2, <3>3
  <2>5. To(n + 1, q)
    <3> DEFINE p == [i \in 0..n + 1 |-> IF i = 0 THEN base ELSE step[<<q[i - 1], s[i]>>]]
    <3>1. \A i \in 0..n + 1 : q[i] = p[i]
      <4> SUFFICES ASSUME NEW i \in 0..n + 1 PROVE q[i] = p[i]
        OBVIOUS
      <4>1. i = 0 \/ i \in 1..n + 1
        BY <2>2
      <4> HIDE DEF q
      <4>2. QED
        BY <2>2, <2>4, <4>1
    <3>2. DOMAIN q = 0..n + 1 /\ DOMAIN p = 0..n + 1
      OBVIOUS
    <3>3. q = [i \in 0..n + 1 |-> q[i]] /\ p = [i \in 0..n + 1 |-> p[i]]
      OBVIOUS
    <3>4. q = p
      <4> HIDE DEF q, p
      <4> QED
        BY <3>1, <3>2, <3>3
    <3>5. QED
      BY <3>4
  <2>6. QED
    <3> HIDE DEF To, q
    <3> QED
      BY <2>2, <2>5
<1>3. S = Nat
  <2> HIDE DEF S
  <2>1. S \in SUBSET Nat
    BY DEF S
  <2>2. QED
    BY <1>1, <1>2, <2>1, Induct
<1>4. Len(s) \in S
  <2>1. Len(s) \in Nat
    OBVIOUS
  <2> HIDE DEF S
  <2>2. QED
    BY <1>3, <2>1
<1>5. QED
  BY <1>4 DEF IsRun

\* Two runs are the same one.
LEMMA RunsAgree ==
    ASSUME NEW step, NEW base, NEW T, NEW s \in Seq(T), NEW t \in Seq(T),
           NEW r, NEW q, IsRun(r, step, base, s), IsRun(q, step, base, t),
           NEW n \in Nat, n <= Len(s), n <= Len(t), \A i \in 1..n : s[i] = t[i]
    PROVE  r[n] = q[n]
<1> DEFINE S == {i \in Nat : i <= n => r[i] = q[i]}
<1>1. 0 \in S
  BY DEF IsRun
<1>2. ASSUME NEW i \in S PROVE i + 1 \in S
  <2> SUFFICES ASSUME i + 1 <= n PROVE r[i + 1] = q[i + 1]
    OBVIOUS
  <2>1. r[i] = q[i] /\ s[i + 1] = t[i + 1] /\ (i + 1) - 1 = i /\ i + 1 # 0
    OBVIOUS
  <2>2. r[i + 1] = step[<<r[i], s[i + 1]>>] /\ q[i + 1] = step[<<q[i], t[i + 1]>>]
    <3>1. i + 1 \in 0..Len(s) /\ i + 1 \in 0..Len(t)
      OBVIOUS
    <3>2. QED
      BY <2>1, <3>1 DEF IsRun
  <2>3. QED
    BY <2>1, <2>2
<1>3. S = Nat
  <2> HIDE DEF S
  <2>1. S \in SUBSET Nat
    BY DEF S
  <2>2. QED
    BY <1>1, <1>2, <2>1, Induct
<1>4. QED
  BY <1>3

\* What a run makes of the whole sequence.
Folded(step, base, s) == LET r == CHOOSE r : IsRun(r, step, base, s) IN r[Len(s)]

LEMMA FoldedIsRun ==
    ASSUME NEW step, NEW base, NEW T, NEW s \in Seq(T), NEW r, IsRun(r, step, base, s)
    PROVE  Folded(step, base, s) = r[Len(s)]
<1> DEFINE q == CHOOSE q : IsRun(q, step, base, s)
<1>1. IsRun(q, step, base, s)
  OBVIOUS
<1>2. q[Len(s)] = r[Len(s)]
  <2> HIDE DEF q
  <2> QED
    BY <1>1, RunsAgree
<1>3. QED
  BY <1>2 DEF Folded

LEMMA FoldedEmpty ==
    ASSUME NEW step, NEW base
    PROVE  Folded(step, base, <<>>) = base
<1>1. <<>> \in Seq({}) /\ Len(<<>>) = 0
  OBVIOUS
<1>2. PICK r : IsRun(r, step, base, <<>>)
  BY <1>1, RunExists
<1>3. r[0] = base
  BY <1>1, <1>2 DEF IsRun
<1>4. QED
  BY <1>1, <1>2, <1>3, FoldedIsRun

LEMMA FoldedAppend ==
    ASSUME NEW step, NEW base, NEW T, NEW s \in Seq(T), NEW x \in T
    PROVE  Folded(step, base, Append(s, x)) = step[<<Folded(step, base, s), x>>]
<1> DEFINE t == Append(s, x)
<1>1. /\ t \in Seq(T) /\ Len(t) = Len(s) + 1 /\ t[Len(t)] = x /\ Len(s) \in Nat
      /\ \A i \in 1..Len(s) : s[i] = t[i]
  OBVIOUS
<1> HIDE DEF t
<1>2. PICK r : IsRun(r, step, base, t)
  BY <1>1, RunExists
<1>3. PICK q : IsRun(q, step, base, s)
  BY RunExists
<1>4. r[Len(s)] = q[Len(s)]
  BY <1>1, <1>2, <1>3, RunsAgree
<1>5. r[Len(t)] = step[<<r[Len(s)], x>>]
  <2>1. Len(t) \in 0..Len(t) /\ Len(t) # 0 /\ Len(t) - 1 = Len(s)
    BY <1>1
  <2>2. QED
    BY <1>1, <1>2, <2>1 DEF IsRun
<1>6. Folded(step, base, t) = r[Len(t)] /\ Folded(step, base, s) = q[Len(s)]
  BY <1>1, <1>2, <1>3, FoldedIsRun
<1>7. QED
  BY <1>4, <1>5, <1>6 DEF t

LEMMA FoldedTail ==
    ASSUME NEW step, NEW base, NEW T, NEW s \in Seq(T), s # <<>>
    PROVE  Folded(step, base, s) = Folded(step, step[<<base, Head(s)>>], Tail(s))
<1> DEFINE t == Tail(s)
           start == step[<<base, Head(s)>>]
<1>1. /\ t \in Seq(T) /\ Len(t) \in Nat /\ Len(s) = Len(t) + 1 /\ Head(s) = s[1]
      /\ \A i \in 1..Len(t) : t[i] = s[i + 1]
  OBVIOUS
<1> HIDE DEF t
<1>2. PICK r : IsRun(r, step, base, s)
  BY RunExists
<1>3. PICK q : IsRun(q, step, start, t)
  BY <1>1, RunExists
<1> DEFINE S == {i \in Nat : i <= Len(t) => q[i] = r[i + 1]}
<1>4. 0 \in S
  <2>1. r[0] = base /\ r[1] = step[<<r[0], s[1]>>]
    <3>1. 0 \in 0..Len(s) /\ 1 \in 0..Len(s) /\ 1 - 1 = 0 /\ 1 # 0
      BY <1>1
    <3>2. r = [i \in 0..Len(s) |-> IF i = 0 THEN base ELSE step[<<r[i - 1], s[i]>>]]
      BY <1>2 DEF IsRun
    <3>3. r[0] = base
      BY <3>1, <3>2
    <3>4. r[1] = IF 1 = 0 THEN base ELSE step[<<r[1 - 1], s[1]>>]
      BY <3>1, <3>2
    <3>5. QED
      BY <3>1, <3>3, <3>4
  <2>2. q[0] = start
    BY <1>1, <1>3 DEF IsRun
  <2>3. QED
    BY <1>1, <2>1, <2>2
<1>5. ASSUME NEW i \in S PROVE i + 1 \in S
  <2> SUFFICES ASSUME i + 1 <= Len(t) PROVE q[i + 1] = r[(i + 1) + 1]
    OBVIOUS
  <2>1. q[i + 1] = step[<<q[i], t[i + 1]>>]
    <3>1. i + 1 \in 0..Len(t) /\ i + 1 # 0 /\ (i + 1) - 1 = i
      BY <1>1
    <3>2. QED
      BY <1>3, <3>1 DEF IsRun
  <2>2. r[(i + 1) + 1] = step[<<r[i + 1], s[(i + 1) + 1]>>]
    <3>1. (i + 1) + 1 \in 0..Len(s) /\ (i + 1) + 1 # 0 /\ ((i + 1) + 1) - 1 = i + 1
      BY <1>1
    <3>2. QED
      BY <1>2, <3>1 DEF IsRun
  <2>3. q[i] = r[i + 1] /\ t[i + 1] = s[(i + 1) + 1]
    <3>1. i + 1 \in 1..Len(t) /\ i <= Len(t)
      BY <1>1
    <3>2. QED
      BY <1>1, <3>1
  <2>4. QED
    BY <2>1, <2>2, <2>3
<1>6. S = Nat
  <2> HIDE DEF S
  <2>1. S \in SUBSET Nat
    BY DEF S
  <2>2. QED
    BY <1>4, <1>5, <2>1, Induct
<1>7. q[Len(t)] = r[Len(s)]
  BY <1>1, <1>6
<1>8. Folded(step, base, s) = r[Len(s)] /\ Folded(step, start, t) = q[Len(t)]
  <2> HIDE DEF start
  <2> QED
    BY <1>1, <1>2, <1>3, FoldedIsRun
<1>9. QED
  BY <1>7, <1>8 DEF t

\* What is made of a sequence is what a step makes.
LEMMA FoldedInShape ==
    ASSUME NEW X, NEW T, NEW step \in [X \X T -> X], NEW base \in X, NEW s \in Seq(T),
           NEW r, IsRun(r, step, base, s)
    PROVE  \A i \in 0..Len(s) : r[i] \in X
<1> DEFINE S == {i \in Nat : i <= Len(s) => r[i] \in X}
<1>1. 0 \in S
  BY DEF IsRun
<1>2. ASSUME NEW i \in S PROVE i + 1 \in S
  <2> SUFFICES ASSUME i + 1 <= Len(s) PROVE r[i + 1] \in X
    OBVIOUS
  <2>1. i + 1 \in 0..Len(s) /\ i + 1 # 0 /\ (i + 1) - 1 = i /\ r[i] \in X /\ s[i + 1] \in T
    OBVIOUS
  <2>2. r[i + 1] = step[<<r[i], s[i + 1]>>]
    BY <2>1 DEF IsRun
  <2>3. QED
    BY <2>1, <2>2
<1>3. S = Nat
  <2> HIDE DEF S
  <2>1. S \in SUBSET Nat
    BY DEF S
  <2>2. QED
    BY <1>1, <1>2, <2>1, Induct
<1>4. QED
  BY <1>3

\* What keeps its shape in each of n steps has it throughout.
LEMMA StaysInShape ==
    ASSUME NEW X, NEW n \in Nat, NEW u, u[0] \in X, \A i \in 1..n : u[i - 1] \in X => u[i] \in X
    PROVE  \A i \in 0..n : u[i] \in X
<1> DEFINE S == {i \in Nat : i <= n => u[i] \in X}
<1>1. 0 \in S
  OBVIOUS
<1>2. ASSUME NEW i \in S PROVE i + 1 \in S
  <2> SUFFICES ASSUME i + 1 <= n PROVE u[i + 1] \in X
    OBVIOUS
  <2>1. i + 1 \in 1..n /\ (i + 1) - 1 = i /\ u[i] \in X
    OBVIOUS
  <2>2. QED
    BY <2>1
<1>3. S = Nat
  <2> HIDE DEF S
  <2>1. S \in SUBSET Nat
    BY DEF S
  <2>2. QED
    BY <1>1, <1>2, <2>1, Induct
<1>4. QED
  BY <1>3
-----------------------------------------------------------------------------
(* Going from what is large to what is smaller. *)

\* What holds wherever it holds of all that is smaller holds everywhere.
LEMMA InductOnSize ==
    ASSUME NEW X, NEW size \in [X -> Nat], NEW P \in SUBSET X,
           \A x \in X : (\A y \in X : size[y] < size[x] => y \in P) => x \in P
    PROVE  P = X
<1> SUFFICES ASSUME X \ P # {} PROVE FALSE
  OBVIOUS
<1> DEFINE S == {size[x] : x \in X \ P}
<1>1. PICK m \in S : \A n \in S : m <= n
  <2>1. S \in SUBSET Nat /\ S # {}
    OBVIOUS
  <2> HIDE DEF S
  <2>2. QED
    BY <2>1, LeastNatural
<1>2. PICK x \in X \ P : m = size[x]
  BY <1>1
<1>3. ASSUME NEW y \in X, size[y] < size[x] PROVE y \in P
  <2> SUFFICES ASSUME y \notin P PROVE FALSE
    OBVIOUS
  <2>1. size[y] \in S
    OBVIOUS
  <2>2. size[x] <= size[y]
    BY <1>1, <1>2, <2>1
  <2>3. size[x] \in Nat /\ size[y] \in Nat
    OBVIOUS
  <2>4. QED
    BY ONLY <1>3, <2>2, <2>3
<1>4. QED
  BY <1>2, <1>3

\* A recursion that stops in stop, and otherwise goes on with something smaller.
Falls(X, Y, size, stop, next, base, step) ==
    /\ size \in [X -> Nat] /\ stop \in SUBSET X
    /\ next \in [X \ stop -> X] /\ \A x \in X \ stop : size[next[x]] < size[x]
    /\ base \in [stop -> Y] /\ step \in [(X \ stop) \X Y -> Y]
FallAt(f, x, stop, next, base, step) ==
    f[x] = IF x \in stop THEN base[x] ELSE step[<<x, f[next[x]]>>]
FallTo(f, n, X, size, stop, next, base, step) ==
    \A x \in X : size[x] <= n => FallAt(f, x, stop, next, base, step)

LEMMA FallsAgree ==
    ASSUME NEW X, NEW Y, NEW size, NEW stop, NEW next, NEW base, NEW step,
           Falls(X, Y, size, stop, next, base, step), NEW f, NEW g, NEW m \in Nat, NEW n \in Nat,
           FallTo(f, m, X, size, stop, next, base, step),
           FallTo(g, n, X, size, stop, next, base, step)
    PROVE  \A x \in X : size[x] <= m /\ size[x] <= n => f[x] = g[x]
<1> DEFINE P == {x \in X : size[x] <= m /\ size[x] <= n => f[x] = g[x]}
<1>1. size \in [X -> Nat]
  BY DEF Falls
<1>2. ASSUME NEW x \in X, \A y \in X : size[y] < size[x] => y \in P
      PROVE  x \in P
  <2> SUFFICES ASSUME size[x] <= m, size[x] <= n PROVE f[x] = g[x]
    OBVIOUS
  <2>1. FallAt(f, x, stop, next, base, step) /\ FallAt(g, x, stop, next, base, step)
    BY DEF FallTo
  <2>2. CASE x \in stop
    BY <2>1, <2>2 DEF FallAt
  <2>3. CASE x \notin stop
    <3>1. next[x] \in X /\ size[next[x]] < size[x]
      BY <2>3 DEF Falls
    <3>2. size[x] \in Nat /\ size[next[x]] \in Nat
      BY <1>1, <3>1
    <3>3. f[next[x]] = g[next[x]]
      BY <1>2, <3>1, <3>2
    <3>4. QED
      BY <2>1, <2>3, <3>3 DEF FallAt
  <2>4. QED
    BY <2>2, <2>3
<1>3. P = X
  <2>1. P \in SUBSET X
    OBVIOUS
  <2> HIDE DEF P
  <2>2. QED
    BY <1>1, <1>2, <2>1, InductOnSize
<1>4. QED
  BY <1>3

LEMMA FallsFar ==
    ASSUME NEW X, NEW Y, NEW size, NEW stop, NEW next, NEW base, NEW step,
           Falls(X, Y, size, stop, next, base, step), NEW some \in Y, NEW n \in Nat
    PROVE  \E f \in [X -> Y] : FallTo(f, n, X, size, stop, next, base, step)
<1> DEFINE S == {i \in Nat : \E f \in [X -> Y] : FallTo(f, i, X, size, stop, next, base, step)}
           After(f) == [x \in X |-> IF x \in stop THEN base[x] ELSE step[<<x, f[next[x]]>>]]
<1>0. ASSUME NEW f \in [X -> Y] PROVE After(f) \in [X -> Y]
  <2>1. ASSUME NEW x \in X, x \notin stop PROVE step[<<x, f[next[x]]>>] \in Y
    <3>1. next[x] \in X
      BY <2>1 DEF Falls
    <3>2. <<x, f[next[x]]>> \in (X \ stop) \X Y
      BY <2>1, <3>1
    <3>3. QED
      BY <3>2 DEF Falls
  <2>2. \A x \in stop : base[x] \in Y
    BY DEF Falls
  <2>3. QED
    BY <2>1, <2>2
<1>1. 0 \in S
  <2> DEFINE f == [x \in X |-> some]
  <2>1. After(f) \in [X -> Y]
    BY <1>0
  <2>2. ASSUME NEW x \in X, size[x] <= 0 PROVE FallAt(After(f), x, stop, next, base, step)
    <3>1. x \in stop
      <4> SUFFICES ASSUME x \notin stop PROVE FALSE
        OBVIOUS
      <4>1. size[next[x]] \in Nat /\ size[next[x]] < size[x] /\ size[x] \in Nat
        BY DEF Falls
      <4>2. QED
        BY <2>2, <4>1
    <3>2. QED
      BY <3>1 DEF FallAt
  <2>3. FallTo(After(f), 0, X, size, stop, next, base, step)
    BY <2>2 DEF FallTo
  <2> HIDE DEF f, After
  <2>4. QED
    BY <2>1, <2>3
<1>2. ASSUME NEW i \in S PROVE i + 1 \in S
  <2>1. PICK f \in [X -> Y] : FallTo(f, i, X, size, stop, next, base, step)
    OBVIOUS
  <2>2. PICK g \in [X -> Y] : g = After(f)
    BY <1>0
  <2>3. ASSUME NEW x \in X, size[x] <= i + 1 PROVE FallAt(g, x, stop, next, base, step)
    <3>1. CASE x \in stop
      BY <2>2, <3>1 DEF FallAt
    <3>2. CASE x \notin stop
      <4>1. /\ next[x] \in X /\ size[next[x]] < size[x]
            /\ size[x] \in Nat /\ size[next[x]] \in Nat
        BY <3>2 DEF Falls
      <4>2. size[next[x]] <= i
        BY <2>3, <4>1
      <4>3. f[next[x]] = g[next[x]]
        BY <2>1, <2>2, <4>1, <4>2 DEF FallTo, FallAt
      <4>4. g[x] = step[<<x, f[next[x]]>>]
        BY <2>2, <3>2
      <4>5. QED
        BY <3>2, <4>3, <4>4 DEF FallAt
    <3>3. QED
      BY <3>1, <3>2
  <2>4. FallTo(g, i + 1, X, size, stop, next, base, step)
    BY <2>3 DEF FallTo
  <2>5. QED
    BY <2>4
<1>3. S = Nat
  <2> HIDE DEF S
  <2>1. S \in SUBSET Nat
    BY DEF S
  <2>2. QED
    BY <1>1, <1>2, <2>1, Induct
<1>4. QED
  BY <1>3

LEMMA FallExists ==
    ASSUME NEW X, NEW Y, NEW size, NEW stop, NEW next, NEW base, NEW step,
           Falls(X, Y, size, stop, next, base, step), NEW some \in Y
    PROVE  \E f \in [X -> Y] : \A x \in X : FallAt(f, x, stop, next, base, step)
<1> DEFINE Good(f, n) == f \in [X -> Y] /\ FallTo(f, n, X, size, stop, next, base, step)
           F(n) == CHOOSE f : Good(f, n)
           f == [x \in X |-> F(size[x])[x]]
<1>0. size \in [X -> Nat]
  BY DEF Falls
<1>1. ASSUME NEW n \in Nat PROVE Good(F(n), n)
  <2>1. \E g : Good(g, n)
    BY FallsFar
  <2> HIDE DEF Good
  <2>2. QED
    BY <2>1
<1>2. \A x \in X : F(size[x])[x] \in Y
  BY <1>0, <1>1
<1>3. f \in [X -> Y]
  BY <1>2
<1>4. ASSUME NEW x \in X PROVE FallAt(f, x, stop, next, base, step)
  <2> DEFINE g == F(size[x])
  <2>1. size[x] \in Nat /\ Good(g, size[x])
    BY <1>0, <1>1
  <2>2. FallAt(g, x, stop, next, base, step)
    BY <2>1 DEF FallTo
  <2>3. f[x] = g[x]
    OBVIOUS
  <2>4. CASE x \in stop
    BY <2>2, <2>3, <2>4 DEF FallAt
  <2>5. CASE x \notin stop
    <3> DEFINE y == next[x]
               h == F(size[y])
    <3>1. y \in X /\ size[y] < size[x] /\ size[y] \in Nat
      BY <2>5 DEF Falls
    <3>2. Good(h, size[y])
      BY <1>1, <3>1
    <3>3. f[y] = h[y]
      BY <3>1
    <3> HIDE DEF f, g, h, F
    <3>4. g[y] = h[y]
      BY <2>1, <3>1, <3>2, FallsAgree
    <3>5. QED
      BY <2>2, <2>3, <2>5, <3>3, <3>4 DEF FallAt
  <2>6. QED
    BY <2>4, <2>5
<1>5. QED
  BY <1>3, <1>4
=============================================================================
