------------------------------ MODULE FoldProofs -----------------------------
(***************************************************************************)
(* Lemmas about the folds that the parsers' modules are built from.  A     *)
(* parser is a loop over lines, FoldLeft(Step, base, s): Trace gives its   *)
(* states one by one, and NatInd turns a loop invariant into a statement   *)
(* about its end.  The library's rule of induction takes an operator as a  *)
(* parameter; NatInd takes a set, and follows from well-foundedness alone. *)
(***************************************************************************)
EXTENDS Folds, WellFoundedInduction, TLAPS

\* The body of a loop: what it makes of the state and of the next line.
CONSTANT Step(_, _)

-----------------------------------------------------------------------------
(* Induction.                                                              *)

\* A set of numbers that holds 0 and the successor of each of its members holds them all.
\* The library has this as a rule with an operator parameter; the form with a set follows from
\* the order of the numbers being well-founded.
LEMMA NatInd ==
  ASSUME NEW S, 0 \in S, \A n \in Nat : n \in S => n + 1 \in S
  PROVE  Nat \subseteq S
<1>. DEFINE R == {p \in Nat \X Nat : p[1] < p[2]}
            T == Nat \ S
<1>1. IsWellFoundedOn(R, Nat)
  BY NatLessThanWellFounded DEF OpToRel
<1>2. ASSUME T # {} PROVE FALSE
  <2>1. T \subseteq Nat
    OBVIOUS
  <2>h. HIDE DEF R, T
  <2>2. PICK x \in T : \A y \in T : ~(<<y, x>> \in R)
    BY <1>1, <1>2, <2>1, WFMin
  <2>. USE DEF R, T
  <2>3. x \in Nat /\ x # 0 /\ x \notin S
    BY <2>2
  <2>4. x - 1 \in Nat
    BY <2>3
  <2>5. x - 1 \in S
    <3>1. ~(<<x - 1, x>> \in R) \/ x - 1 \notin T
      BY <2>2
    <3>2. <<x - 1, x>> \in R
      BY <2>3, <2>4
    <3>. QED
      BY <2>4, <3>1, <3>2
  <2>. QED
    <3>1. (x - 1) + 1 \in S
      BY <2>4, <2>5
    <3>2. (x - 1) + 1 = x BY <2>3
    <3> QED BY <2>3, <3>1, <3>2
<1>. QED BY <1>2

-----------------------------------------------------------------------------
(* Folds over sequences.                                                   *)

Greatest(S) == CHOOSE x \in S : \A y \in S : x >= y

\* g is the fold of s over each set of places in D.
Recursion(g, base, s, D) ==
  g = [T \in D |-> IF T = {} THEN base ELSE Step(g[T \ {Greatest(T)}], s[Greatest(T)])]

\* A loop over s: FoldLeft(Step, base, s), with the definition of FoldLeft expanded so that an
\* instance of this module does not carry all that SequencesExt extends.
Folded(base, s) == MapThenFoldSet(LAMBDA x, y : Step(y, x), base,
                                  LAMBDA i : s[i], LAMBDA S : Greatest(S), DOMAIN s)

\* The greatest of some numbers up to k is k if k is among them.
LEMMA MaxOfTop ==
  ASSUME NEW k \in Int, NEW T \in SUBSET (1 .. k), k \in T
  PROVE  Greatest(T) = k
<1>1. \A y \in T : k >= y
  OBVIOUS
<1>2. Greatest(T) \in T /\ \A y \in T : Greatest(T) >= y
  BY <1>1 DEF Greatest
<1>3. Greatest(T) \in 1 .. k
  BY <1>2
<1>4. Greatest(T) >= k
  BY <1>2
<1>. QED
  BY <1>3, <1>4

\* The recursive function behind a fold exists: CHOOSE finds one that obeys the recursion.
LEMMA RecursionExists ==
  ASSUME NEW base, NEW s, NEW n \in Nat
  PROVE  \E g : Recursion(g, base, s, SUBSET (1 .. n))
<1>. DEFINE S == {k \in Nat : \E g : Recursion(g, base, s, SUBSET (1 .. k))}
<1>1. 0 \in S
  <2>1. SUBSET (1 .. 0) = {{}}
    OBVIOUS
  <2>2. Recursion([T \in {{}} |-> base], base, s, {{}})
    BY DEF Recursion
  <2>. QED
    BY <2>1, <2>2
<1>2. ASSUME NEW k \in Nat, k \in S PROVE k + 1 \in S
  <2>1. PICK g : Recursion(g, base, s, SUBSET (1 .. k))
    BY <1>2
  <2>. DEFINE h == [T \in SUBSET (1 .. k + 1) |->
                      IF k + 1 \in T THEN Step(g[T \ {k + 1}], s[k + 1]) ELSE g[T]]
  <2>2. ASSUME NEW T \in SUBSET (1 .. k + 1)
        PROVE  h[T] = IF T = {} THEN base ELSE Step(h[T \ {Greatest(T)}], s[Greatest(T)])
    <3>1. CASE k + 1 \in T
      <4>1. Greatest(T) = k + 1
        BY <3>1, MaxOfTop
      <4>2. T \ {k + 1} \in SUBSET (1 .. k + 1) /\ k + 1 \notin T \ {k + 1}
        OBVIOUS
      <4>3. h[T \ {k + 1}] = g[T \ {k + 1}]
        BY <4>2
      <4>. QED
        BY <3>1, <4>1, <4>3
    <3>2. CASE k + 1 \notin T
      <4>1. T \in SUBSET (1 .. k)
        BY <3>2
      <4>2. h[T] = g[T]
        BY <3>2
      <4>3. CASE T = {}
        BY <2>1, <4>1, <4>2, <4>3 DEF Recursion
      <4>4. CASE T # {}
        <5>1. h[T \ {Greatest(T)}] = g[T \ {Greatest(T)}]
          BY <3>2
        <5>2. g[T] = Step(g[T \ {Greatest(T)}], s[Greatest(T)])
          BY <2>1, <4>1, <4>4 DEF Recursion
        <5>. QED
          BY <4>2, <4>4, <5>1, <5>2
      <4>. QED
        BY <4>3, <4>4
    <3>. QED
      BY <3>1, <3>2
  <2>3. Recursion(h, base, s, SUBSET (1 .. k + 1))
    <3>1. h = [T \in SUBSET (1 .. k + 1) |-> h[T]]
      OBVIOUS
    <3>. HIDE DEF h
    <3>. QED
      BY <2>2, <3>1 DEF Recursion
  <2>. QED
    BY <2>3
<1>3. Nat \subseteq S
  <2>. HIDE DEF S
  <2>. QED
    BY <1>1, <1>2, NatInd
<1>. QED
  BY <1>3

\* A fold over a sequence has a trace: it starts from the base, takes one Step for each
\* element, in order, and ends in the result.  Invariants of the parsers' loops are shown along it.
THEOREM Trace ==
  ASSUME NEW base, NEW s, NEW n \in Nat, DOMAIN s = 1 .. n
  PROVE  \E g : /\ g = [i \in 0 .. n |-> g[i]]
                /\ g[0] = base
                /\ \A i \in 1 .. n : g[i] = Step(g[i - 1], s[i])
                /\ Folded(base, s) = g[n]
<1>. DEFINE it == CHOOSE g : Recursion(g, base, s, SUBSET (1 .. n))
<1>1. Folded(base, s) = it[1 .. n]
  BY DEF Folded, MapThenFoldSet, Recursion
<1>2. Recursion(it, base, s, SUBSET (1 .. n))
  BY RecursionExists
<1>. HIDE DEF it
<1>. DEFINE g == [i \in 0 .. n |-> it[1 .. i]]
<1>3. g[0] = base
  <2>1. 1 .. 0 = {} /\ {} \in SUBSET (1 .. n)
    OBVIOUS
  <2>. QED
    BY <1>2, <2>1 DEF Recursion
<1>4. ASSUME NEW i \in 1 .. n PROVE g[i] = Step(g[i - 1], s[i])
  <2>1. 1 .. i \in SUBSET (1 .. n) /\ 1 .. i # {} /\ i - 1 \in Nat /\ (i - 1) + 1 = i
    OBVIOUS
  <2>2. Greatest(1 .. i) = i
    <3>1. i \in Int /\ 1 .. i \in SUBSET (1 .. i) /\ i \in 1 .. i
      OBVIOUS
    <3>. QED
      BY <3>1, MaxOfTop
  <2>3. (1 .. i) \ {i} = 1 .. (i - 1)
    OBVIOUS
  <2>4. it[1 .. i] = Step(it[1 .. (i - 1)], s[i])
    BY <1>2, <2>1, <2>2, <2>3 DEF Recursion
  <2>5. i - 1 \in 0 .. n /\ i \in 0 .. n
    OBVIOUS
  <2>. QED
    BY <2>4, <2>5
<1>5. g[n] = it[1 .. n]
  OBVIOUS
<1>. QED
  BY <1>1, <1>3, <1>4, <1>5

\* g holds what the loop has made of the lines of s so far.
Runs(g, base, s, n) == /\ g[0] = base
                       /\ \A i \in 1 .. n : g[i] = Step(g[i - 1], s[i])
                       /\ Folded(base, s) = g[n]

\* Trace, in one word.
LEMMA OneRun ==
  ASSUME NEW base, NEW s, NEW n \in Nat, DOMAIN s = 1 .. n
  PROVE  \E g : Runs(g, base, s, n)
BY Trace DEF Runs

\* A loop over no lines.
THEOREM Nothing ==
  ASSUME NEW base, NEW s, DOMAIN s = {}
  PROVE  Folded(base, s) = base
<1>1. 0 \in Nat /\ DOMAIN s = 1 .. 0
  OBVIOUS
<1>2. PICK g : Runs(g, base, s, 0)
  BY <1>1, OneRun
<1>. QED
  BY <1>2 DEF Runs

\* u is s followed by t.
Joins(u, s, m, t, n) ==
  /\ DOMAIN s = 1 .. m /\ DOMAIN t = 1 .. n /\ DOMAIN u = 1 .. m + n
  /\ \A i \in 1 .. m : u[i] = s[i]
  /\ \A j \in 1 .. n : u[m + j] = t[j]

\* A loop can be cut in two.
THEOREM InTwo ==
  ASSUME NEW base, NEW s, NEW m \in Nat, NEW t, NEW n \in Nat, NEW u, Joins(u, s, m, t, n)
  PROVE  Folded(base, u) = Folded(Folded(base, s), t)
<1>0. m + n \in Nat /\ DOMAIN s = 1 .. m /\ DOMAIN t = 1 .. n /\ DOMAIN u = 1 .. m + n
  BY DEF Joins
<1>1. PICK g : Runs(g, base, u, m + n)
  BY <1>0, OneRun
<1>2. PICK h : Runs(h, base, s, m)
  BY <1>0, OneRun
<1>b. PICK b : b = Folded(base, s)
  OBVIOUS
<1>3. PICK k : Runs(k, b, t, n)
  BY <1>0, OneRun
<1>. USE DEF Runs
<1>. DEFINE S == {i \in Nat : i <= m => g[i] = h[i]}
            T == {i \in Nat : i <= n => g[m + i] = k[i]}
<1>4. Nat \subseteq S
  <2>1. 0 \in S
    BY <1>1, <1>2
  <2>2. ASSUME NEW i \in Nat, i \in S PROVE i + 1 \in S
    <3> SUFFICES ASSUME i + 1 <= m PROVE g[i + 1] = h[i + 1]
      OBVIOUS
    <3>1. i + 1 \in 1 .. m /\ i + 1 \in 1 .. m + n /\ (i + 1) - 1 = i /\ g[i] = h[i]
      BY <2>2
    <3>. QED
      <4>1. u[i + 1] = s[i + 1]
        BY <3>1 DEF Joins
      <4>2. g[i + 1] = Step(g[i], u[i + 1])
        BY <1>1, <3>1
      <4>3. h[i + 1] = Step(h[i], s[i + 1])
        BY <1>2, <3>1
      <4>. QED
        BY <3>1, <4>1, <4>2, <4>3
  <2>. HIDE DEF S
  <2>. QED
    BY <2>1, <2>2, NatInd
<1>5. Nat \subseteq T
  <2>1. 0 \in T
    <3>1. g[m] = h[m]
      BY <1>4
    <3>. QED
      BY <1>2, <1>3, <1>b, <3>1
  <2>2. ASSUME NEW i \in Nat, i \in T PROVE i + 1 \in T
    <3> SUFFICES ASSUME i + 1 <= n PROVE g[m + (i + 1)] = k[i + 1]
      OBVIOUS
    <3>1. i + 1 \in 1 .. n /\ (i + 1) - 1 = i /\ g[m + i] = k[i]
      BY <2>2
    <3>2. PICK j : j = m + (i + 1)
      OBVIOUS
    <3>3. j \in 1 .. m + n /\ j - 1 = m + i
      BY <3>1, <3>2
    <3>4. u[j] = t[i + 1]
      BY <3>1, <3>2 DEF Joins
    <3>5. g[j] = Step(g[j - 1], u[j])
      BY <1>1, <3>3
    <3>6. k[i + 1] = Step(k[i], t[i + 1])
      BY <1>3, <3>1
    <3>. QED
      BY <3>1, <3>2, <3>3, <3>4, <3>5, <3>6
  <2>. HIDE DEF T
  <2>. QED
    BY <2>1, <2>2, NatInd
<1>6. g[m + n] = k[n]
  BY <1>5
<1>. QED
  BY <1>1, <1>3, <1>b, <1>6

\* A loop over one line.
THEOREM Single ==
  ASSUME NEW base, NEW s, DOMAIN s = {1}
  PROVE  Folded(base, s) = Step(base, s[1])
<1>1. PICK n \in Nat : n = 1 /\ DOMAIN s = 1 .. n
  OBVIOUS
<1>2. PICK g : Runs(g, base, s, n)
  BY <1>1, OneRun
<1>3. n \in 1 .. n /\ n - 1 = 0
  BY <1>1
<1>. QED
  BY <1>1, <1>2, <1>3 DEF Runs

\* A loop over lines that change nothing.
THEOREM Idle ==
  ASSUME NEW base, NEW s, NEW n \in Nat, DOMAIN s = 1 .. n
  PROVE  (\A i \in 1 .. n : Step(base, s[i]) = base) => Folded(base, s) = base
<1>1. PICK g : Runs(g, base, s, n)
  BY OneRun
<1>. USE DEF Runs
<1>. HAVE \A i \in 1 .. n : Step(base, s[i]) = base
<1>. DEFINE S == {i \in Nat : i <= n => g[i] = base}
<1>2. 0 \in S
  BY <1>1
<1>3. ASSUME NEW i \in Nat, i \in S PROVE i + 1 \in S
  <2> SUFFICES ASSUME i + 1 <= n PROVE g[i + 1] = base
    OBVIOUS
  <2>1. i + 1 \in 1 .. n /\ (i + 1) - 1 = i /\ g[i] = base
    BY <1>3
  <2>. QED
    BY <1>1, <2>1
<1>4. Nat \subseteq S
  <2>. HIDE DEF S
  <2>. QED
    BY <1>2, <1>3, NatInd
<1>. QED
  BY <1>1, <1>4
=============================================================================
