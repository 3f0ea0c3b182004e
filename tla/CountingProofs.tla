---------------------------- MODULE CountingProofs --------------------------
(***************************************************************************)
(* Proofs about the collectors that count.  What four of them make of      *)
(* squeue's listings (JobQueue), for any jobs, shapes and partitions: what *)
(* they say of one job agrees and counts it once, however the listing      *)
(* breaks it into lines.  What one makes of sdiag's (Scheduler), for any   *)
(* operations, users and figures: every gauge is its figure, and the two   *)
(* tables of RPCs are two views of the same calls.                         *)
(*                                                                         *)
(* Listings are added up with SumFunctionOnSet, which rests on the         *)
(* recursion of the community modules over CHOOSE: from the function that  *)
(* obeys the recursion (SumTableExists) come the laws by which sums are    *)
(* split, regrouped and exchanged.  The same is done for FlattenSeq        *)
(* (JoinExists).  The loops of the parsers are reasoned about with         *)
(* FoldProofs.  The first half, about sums and sequences, is about neither *)
(* component and serves ParserProofs as well.                              *)
(***************************************************************************)
EXTENDS JobQueue, Scheduler, FiniteSetTheorems, FoldProofs

-----------------------------------------------------------------------------
(* Sums over finite sets.                                                  *)

\* A property (a set U of sets) of the empty set that survives the addition of one more member
\* holds of a finite set.
LEMMA FinInd ==
  ASSUME NEW S, IsFiniteSet(S), NEW U, {} \in U,
         \A T \in SUBSET S : T \in U => \A x \in S \ T : T \cup {x} \in U
  PROVE  S \in U
<1>. DEFINE R == StrictSubsetOrdering(S)
            B == (SUBSET S) \ U
<1>1. IsWellFoundedOn(R, SUBSET S)
  BY FS_StrictSubsetOrderingWellFounded, FS_FiniteSubsetsOfFinite
<1>2. ASSUME B # {} PROVE FALSE
  <2>1. B \subseteq SUBSET S
    OBVIOUS
  <2>h. HIDE DEF R, B
  <2>2. PICK T \in B : \A y \in B : ~(<<y, T>> \in R)
    BY <1>1, <1>2, <2>1, WFMin
  <2>. USE DEF R, B
  <2>3. T \in SUBSET S /\ T \notin U /\ T # {}
    BY <2>2
  <2>4. PICK x : x \in T
    BY <2>3
  <2>5. T \ {x} \in SUBSET S /\ <<T \ {x}, T>> \in R
    BY <2>3, <2>4 DEF StrictSubsetOrdering
  <2>6. T \ {x} \in U
    BY <2>2, <2>5
  <2>7. (T \ {x}) \cup {x} \in U
    BY <2>3, <2>4, <2>5, <2>6
  <2>8. (T \ {x}) \cup {x} = T
    BY <2>4
  <2>. QED
    BY <2>3, <2>7, <2>8
<1>. QED BY <1>2

\* A property of a finite set that each set has if its proper subsets have it.
LEMMA StrongInd ==
  ASSUME NEW S, IsFiniteSet(S), NEW U,
         \A T \in SUBSET S : (\A R \in SUBSET T : R # T => R \in U) => T \in U
  PROVE  S \in U
<1>. DEFINE B == (SUBSET S) \ U
            O == StrictSubsetOrdering(S)
<1>1. IsWellFoundedOn(O, SUBSET S)
  BY FS_StrictSubsetOrderingWellFounded, FS_FiniteSubsetsOfFinite
<1>2. ASSUME B # {} PROVE FALSE
  <2>1. B \subseteq SUBSET S
    OBVIOUS
  <2>h. HIDE DEF O, B
  <2>2. PICK T \in B : \A y \in B : ~(<<y, T>> \in O)
    BY <1>1, <1>2, <2>1, WFMin
  <2>. USE DEF O, B
  <2>3. \A R \in SUBSET T : R # T => R \in U
    BY <2>2 DEF StrictSubsetOrdering
  <2>. QED
    BY <2>2, <2>3
<1>. QED
  BY <1>2

-----------------------------------------------------------------------------
(* Sums.                                                                   *)

\* The member that the sum over T takes first.
Some(T) == CHOOSE x \in T : TRUE

\* g is the sum of f over each set in D.
SumTable(f, D, g) == g = [T \in D |-> IF T = {} THEN 0 ELSE f[Some(T)] + g[T \ {Some(T)}]]

SumsIn(f, S, g) == SumTable(f, SUBSET S, g)

\* The recursive function behind a sum exists too.
LEMMA SumTableExists ==
  ASSUME NEW f, NEW S, IsFiniteSet(S)
  PROVE  \E g : SumsIn(f, S, g)
<1>. DEFINE Upto(k) == {T \in SUBSET S : Cardinality(T) <= k}
            N == {k \in Nat : \E g : SumTable(f, Upto(k), g)}
<1>0. \A T \in SUBSET S : /\ IsFiniteSet(T) /\ Cardinality(T) \in Nat
                          /\ T # {} => /\ Some(T) \in T
                                       /\ Cardinality(T \ {Some(T)}) = Cardinality(T) - 1
                          /\ T = {} => Cardinality(T) = 0
  BY FS_Subset, FS_CardinalityType, FS_RemoveElement, FS_EmptySet DEF Some
<1>1. 0 \in N
  <2>1. \A T \in Upto(0) : T = {}
    <3> SUFFICES ASSUME NEW T \in SUBSET S, Cardinality(T) <= 0 PROVE T = {}
      OBVIOUS
    <3>1. Cardinality(T) \in Nat /\ IsFiniteSet(T)
      BY <1>0
    <3>2. Cardinality(T) = 0
      BY <3>1
    <3>. QED
      BY <3>1, <3>2, FS_EmptySet
  <2>2. SumTable(f, Upto(0), [T \in Upto(0) |-> 0])
    BY <2>1 DEF SumTable
  <2>. QED
    BY <2>2
<1>2. ASSUME NEW k \in Nat, k \in N PROVE k + 1 \in N
  <2>1. PICK g : SumTable(f, Upto(k), g)
    BY <1>2
  <2>. DEFINE h == [T \in Upto(k + 1) |->
                      IF T = {} THEN 0 ELSE f[Some(T)] + g[T \ {Some(T)}]]
  <2>2. ASSUME NEW T \in Upto(k) PROVE T \in Upto(k + 1) /\ h[T] = g[T]
    <3>1. Cardinality(T) \in Nat
      BY <1>0
    <3>2. T \in Upto(k + 1)
      BY <3>1
    <3>3. g[T] = IF T = {} THEN 0 ELSE f[Some(T)] + g[T \ {Some(T)}]
      BY <2>1 DEF SumTable
    <3>. QED
      BY <3>2, <3>3
  <2>3. \A T \in Upto(k + 1) : T # {} => T \ {Some(T)} \in Upto(k)
    BY <1>0
  <2>4. h = [T \in Upto(k + 1) |-> IF T = {} THEN 0 ELSE f[Some(T)] + h[T \ {Some(T)}]]
    BY <2>2, <2>3
  <2>5. SumTable(f, Upto(k + 1), h)
    <3>. HIDE DEF h
    <3>. QED
      BY <2>4 DEF SumTable
  <2>. HIDE DEF h
  <2>. QED
    BY <2>5
<1>3. Cardinality(S) \in N
  <2>1. Nat \subseteq N
    <3>. HIDE DEF N
    <3>. QED
      BY <1>1, <1>2, NatInd
  <2>. QED
    BY <2>1, FS_CardinalityType
<1>4. Upto(Cardinality(S)) = SUBSET S
  BY FS_Subset
<1>. QED
  BY <1>3, <1>4 DEF SumsIn

\* What it says of a set does not depend on the set that it was made for.
LEMMA SumTablesAgree ==
  ASSUME NEW f, NEW S, NEW T, IsFiniteSet(T), T \subseteq S,
         NEW g, SumsIn(f, S, g), NEW h, SumsIn(f, T, h)
  PROVE  g[T] = h[T]
<1>. DEFINE U == {R \in SUBSET T : g[R] = h[R]}
<1>1. ASSUME NEW R \in SUBSET T, \A Q \in SUBSET R : Q # R => Q \in U
      PROVE  R \in U
  <2>1. CASE R = {}
    BY <2>1 DEF SumTable, SumsIn
  <2>2. CASE R # {}
    <3>1. Some(R) \in R
      BY <2>2 DEF Some
    <3>2. R \ {Some(R)} \in U
      BY <1>1, <3>1
    <3>. QED
      BY <2>2, <3>1, <3>2 DEF SumTable, SumsIn
  <2>. QED
    BY <2>1, <2>2
<1>2. T \in U
  <2>. HIDE DEF U
  <2>. QED
    BY <1>1, StrongInd
<1>. QED
  BY <1>2

\* Hence a sum is that of nothing, or a member's term and the sum of the rest.
LEMMA SumUnfold ==
  ASSUME NEW f, NEW S, IsFiniteSet(S)
  PROVE  /\ SumFunctionOnSet(f, {}) = 0
         /\ S # {} => SumFunctionOnSet(f, S) = f[Some(S)] + SumFunctionOnSet(f, S \ {Some(S)})
<1>. DEFINE table(T) == CHOOSE g : SumsIn(f, T, g)
<1>1. ASSUME NEW T \in SUBSET S
      PROVE  /\ SumFunctionOnSet(f, T) = table(T)[T]
             /\ SumsIn(f, T, table(T))
  <2>1. IsFiniteSet(T)
    BY FS_Subset
  <2>2. SumFunctionOnSet(f, T) = table(T)[T]
    BY DEF SumFunctionOnSet, FoldFunctionOnSet, MapThenFoldSet, SumTable, SumsIn, Some
  <2>. QED
    BY <2>1, <2>2, SumTableExists
<1>. HIDE DEF table
<1>2. SumFunctionOnSet(f, {}) = 0
  BY <1>1 DEF SumTable, SumsIn
<1>3. ASSUME S # {}
      PROVE  SumFunctionOnSet(f, S) = f[Some(S)] + SumFunctionOnSet(f, S \ {Some(S)})
  <2>0. PICK T : T = S \ {Some(S)}
    OBVIOUS
  <2>1. T \in SUBSET S /\ S \in SUBSET S /\ IsFiniteSet(T)
    BY <2>0, FS_Subset
  <2>2. table(S)[S] = f[Some(S)] + table(S)[T]
    BY <1>1, <1>3, <2>0, <2>1 DEF SumTable, SumsIn
  <2>3. table(S)[T] = table(T)[T]
    <3>1. SumsIn(f, S, table(S)) /\ SumsIn(f, T, table(T))
      BY <1>1, <2>1
    <3>2. T \subseteq S
      BY <2>1
    <3>3. ASSUME NEW g, SumsIn(f, S, g), NEW h, SumsIn(f, T, h)
          PROVE  g[T] = h[T]
      BY <2>1, <3>2, <3>3, SumTablesAgree
    <3>. QED
      BY <3>1, <3>3
  <2>. QED
    BY <1>1, <2>0, <2>1, <2>2, <2>3
<1>. QED
  BY <1>2, <1>3

\* The sum of nothing.
LEMMA SumEmpty ==
  ASSUME NEW f
  PROVE  SumFunctionOnSet(f, {}) = 0
BY SumUnfold, FS_EmptySet

\* A sum of integers is an integer.
LEMMA SumInt ==
  ASSUME NEW f, NEW S, IsFiniteSet(S), \A x \in S : f[x] \in Int
  PROVE  SumFunctionOnSet(f, S) \in Int
<1>. DEFINE U == {T \in SUBSET S : SumFunctionOnSet(f, T) \in Int}
<1>1. ASSUME NEW T \in SUBSET S, \A R \in SUBSET T : R # T => R \in U
      PROVE  T \in U
  <2>1. IsFiniteSet(T)
    BY FS_Subset
  <2>2. CASE T = {}
    <3>1. SumFunctionOnSet(f, T) = 0
      BY <2>1, <2>2, SumUnfold
    <3>. QED
      BY <3>1
  <2>3. CASE T # {}
    <3>1. Some(T) \in T /\ T \ {Some(T)} \in U
      BY <1>1, <2>3 DEF Some
    <3>. QED
      BY <2>1, <2>3, <3>1, SumUnfold
  <2>. QED
    BY <2>2, <2>3
<1>2. S \in U
  <2>. HIDE DEF U
  <2>. QED
    BY <1>1, StrongInd
<1>. QED
  BY <1>2

\* It does not matter which member is taken first.
LEMMA SumRemove ==
  ASSUME NEW f, NEW S, IsFiniteSet(S), \A x \in S : f[x] \in Int, NEW y \in S
  PROVE  SumFunctionOnSet(f, S) = f[y] + SumFunctionOnSet(f, S \ {y})
<1>. DEFINE U == {T \in SUBSET S : \A x \in T :
                    SumFunctionOnSet(f, T) = f[x] + SumFunctionOnSet(f, T \ {x})}
<1>1. ASSUME NEW T \in SUBSET S, \A R \in SUBSET T : R # T => R \in U
      PROVE  T \in U
  <2> SUFFICES ASSUME NEW x \in T
               PROVE  SumFunctionOnSet(f, T) = f[x] + SumFunctionOnSet(f, T \ {x})
    OBVIOUS
  <2>. DEFINE z == Some(T)
  <2>1. IsFiniteSet(T) /\ z \in T
    BY FS_Subset DEF Some
  <2>2. SumFunctionOnSet(f, T) = f[z] + SumFunctionOnSet(f, T \ {z})
    BY <2>1, SumUnfold
  <2>. HIDE DEF z
  <2>3. CASE x = z
    BY <2>2, <2>3
  <2>4. CASE x # z
    <3>1. T \ {z} \in U /\ x \in T \ {z} /\ T \ {x} \in U /\ z \in T \ {x}
      BY <1>1, <2>1, <2>4
    <3>2. SumFunctionOnSet(f, T \ {z}) = f[x] + SumFunctionOnSet(f, (T \ {z}) \ {x})
      BY <3>1
    <3>3. SumFunctionOnSet(f, T \ {x}) = f[z] + SumFunctionOnSet(f, (T \ {x}) \ {z})
      BY <3>1
    <3>4. (T \ {z}) \ {x} = (T \ {x}) \ {z}
      OBVIOUS
    <3>5. SumFunctionOnSet(f, (T \ {z}) \ {x}) \in Int
      <4>1. IsFiniteSet((T \ {z}) \ {x})
        BY <2>1, FS_Subset
      <4>. QED
        BY <4>1, SumInt
    <3>6. f[x] \in Int /\ f[z] \in Int
      BY <2>1
    <3>. DEFINE p == SumFunctionOnSet(f, (T \ {z}) \ {x})
    <3>7. /\ SumFunctionOnSet(f, T) = f[z] + (f[x] + p)
          /\ SumFunctionOnSet(f, T \ {x}) = f[z] + p
      BY <2>2, <3>2, <3>3, <3>4
    <3>. HIDE DEF p
    <3>8. f[z] + (f[x] + p) = f[x] + (f[z] + p)
      BY <3>5, <3>6 DEF p
    <3>. QED
      BY <3>7, <3>8
  <2>. QED
    BY <2>3, <2>4
<1>2. S \in U
  <2>. HIDE DEF U
  <2>. QED
    BY <1>1, StrongInd
<1>. QED
  BY <1>2

\* The sum with one more member.
LEMMA SumAdd ==
  ASSUME NEW f, NEW S, IsFiniteSet(S), \A x \in S : f[x] \in Int,
         NEW T \in SUBSET S, NEW y \in S \ T
  PROVE  SumFunctionOnSet(f, T \cup {y}) = f[y] + SumFunctionOnSet(f, T)
<1>1. IsFiniteSet(T \cup {y}) /\ (T \cup {y}) \ {y} = T
  BY FS_Subset
<1>. QED
  BY <1>1, SumRemove

\* Terms that are equal have equal sums.
LEMMA SumSame ==
  ASSUME NEW f, NEW g, NEW S, IsFiniteSet(S), \A x \in S : f[x] \in Int,
         \A x \in S : f[x] = g[x]
  PROVE  SumFunctionOnSet(f, S) = SumFunctionOnSet(g, S)
<1>. DEFINE U == {T \in SUBSET S : SumFunctionOnSet(f, T) = SumFunctionOnSet(g, T)}
<1>1. {} \in U
  <2>1. SumFunctionOnSet(f, {}) = 0 /\ SumFunctionOnSet(g, {}) = 0
    BY SumEmpty
  <2>. QED
    BY <2>1
<1>2. ASSUME NEW T \in SUBSET S, T \in U, NEW y \in S \ T PROVE T \cup {y} \in U
  <2>1. SumFunctionOnSet(f, T \cup {y}) = f[y] + SumFunctionOnSet(f, T)
    BY SumAdd
  <2>2. SumFunctionOnSet(g, T \cup {y}) = g[y] + SumFunctionOnSet(g, T)
    BY SumAdd
  <2>. QED
    BY <1>2, <2>1, <2>2
<1>3. S \in U
  <2>. HIDE DEF U
  <2>. QED
    BY <1>1, <1>2, FinInd
<1>. QED
  BY <1>3

\* The sum over two sets that have nothing in common.
LEMMA SumUnion ==
  ASSUME NEW f, NEW S, IsFiniteSet(S), NEW R, IsFiniteSet(R), S \cap R = {},
         \A x \in S : f[x] \in Int, \A x \in R : f[x] \in Int
  PROVE  SumFunctionOnSet(f, S \cup R) = SumFunctionOnSet(f, S) + SumFunctionOnSet(f, R)
<1>. DEFINE U == {T \in SUBSET S :
                    SumFunctionOnSet(f, T \cup R)
                      = SumFunctionOnSet(f, T) + SumFunctionOnSet(f, R)}
<1>0. /\ IsFiniteSet(S \cup R)
      /\ SumFunctionOnSet(f, R) \in Int
      /\ \A T \in SUBSET S : SumFunctionOnSet(f, T) \in Int
  <2>1. IsFiniteSet(S \cup R)
    BY FS_Union
  <2>2. \A T \in SUBSET S : IsFiniteSet(T)
    BY FS_Subset
  <2>. QED
    BY <2>1, <2>2, SumInt
<1>1. {} \in U
  <2>1. {} \cup R = R
    OBVIOUS
  <2>2. SumFunctionOnSet(f, {}) = 0
    BY SumUnfold, FS_EmptySet
  <2>. QED
    BY <1>0, <2>1, <2>2
<1>2. ASSUME NEW T \in SUBSET S, T \in U, NEW y \in S \ T PROVE T \cup {y} \in U
  <2>1. SumFunctionOnSet(f, T \cup {y}) = f[y] + SumFunctionOnSet(f, T)
    BY SumAdd
  <2>2. SumFunctionOnSet(f, (T \cup R) \cup {y}) = f[y] + SumFunctionOnSet(f, T \cup R)
    <3>1. T \cup R \in SUBSET (S \cup R) /\ y \in (S \cup R) \ (T \cup R)
      OBVIOUS
    <3>2. \A x \in S \cup R : f[x] \in Int
      OBVIOUS
    <3>3. PICK V, W : V = S \cup R /\ W = T \cup R
      OBVIOUS
    <3>4. SumFunctionOnSet(f, W \cup {y}) = f[y] + SumFunctionOnSet(f, W)
      BY <1>0, <3>1, <3>2, <3>3, SumAdd
    <3>. QED
      BY <3>3, <3>4
  <2>3. (T \cup R) \cup {y} = (T \cup {y}) \cup R
    OBVIOUS
  <2>4. \A a, b, c \in Int : a + (b + c) = (a + b) + c
    OBVIOUS
  <2>5. f[y] \in Int /\ SumFunctionOnSet(f, T) \in Int
    BY <1>0
  <2>. QED
    BY <1>0, <1>2, <2>1, <2>2, <2>3, <2>4, <2>5
<1>3. S \in U
  <2>. HIDE DEF U
  <2>. QED
    BY <1>1, <1>2, FinInd
<1>. QED
  BY <1>3

\* The sum of term-wise sums.
LEMMA SumPlus ==
  ASSUME NEW f, NEW g, NEW h, NEW S, IsFiniteSet(S),
         \A x \in S : f[x] \in Int, \A x \in S : g[x] \in Int,
         \A x \in S : h[x] = f[x] + g[x]
  PROVE  SumFunctionOnSet(h, S) = SumFunctionOnSet(f, S) + SumFunctionOnSet(g, S)
<1>. DEFINE U == {T \in SUBSET S :
                    SumFunctionOnSet(h, T)
                      = SumFunctionOnSet(f, T) + SumFunctionOnSet(g, T)}
<1>0. \A T \in SUBSET S : SumFunctionOnSet(f, T) \in Int /\ SumFunctionOnSet(g, T) \in Int
  <2>1. \A T \in SUBSET S : IsFiniteSet(T)
    BY FS_Subset
  <2>. QED
    BY <2>1, SumInt
<1>1. {} \in U
  <2>1. /\ SumFunctionOnSet(f, {}) = 0
        /\ SumFunctionOnSet(g, {}) = 0
        /\ SumFunctionOnSet(h, {}) = 0
    BY SumEmpty
  <2>. QED
    BY <2>1
<1>2. ASSUME NEW T \in SUBSET S, T \in U, NEW y \in S \ T PROVE T \cup {y} \in U
  <2>1. /\ SumFunctionOnSet(f, T \cup {y}) = f[y] + SumFunctionOnSet(f, T)
        /\ SumFunctionOnSet(g, T \cup {y}) = g[y] + SumFunctionOnSet(g, T)
    BY SumAdd
  <2>2. SumFunctionOnSet(h, T \cup {y}) = (f[y] + g[y]) + SumFunctionOnSet(h, T)
    BY SumAdd
  <2>3. \A a, b, c, d \in Int : (a + b) + (c + d) = (a + c) + (b + d)
    OBVIOUS
  <2>4. f[y] \in Int /\ g[y] \in Int
    OBVIOUS
  <2>. QED
    BY <1>0, <1>2, <2>1, <2>2, <2>3, <2>4
<1>3. S \in U
  <2>. HIDE DEF U
  <2>. QED
    BY <1>1, <1>2, FinInd
<1>. QED
  BY <1>3

\* Sums keep the order of their terms.
LEMMA SumLeq ==
  ASSUME NEW f, NEW g, NEW S, IsFiniteSet(S),
         \A x \in S : f[x] \in Int, \A x \in S : g[x] \in Int,
         \A x \in S : f[x] <= g[x]
  PROVE  SumFunctionOnSet(f, S) <= SumFunctionOnSet(g, S)
<1>. DEFINE U == {T \in SUBSET S : SumFunctionOnSet(f, T) <= SumFunctionOnSet(g, T)}
<1>0. \A T \in SUBSET S : SumFunctionOnSet(f, T) \in Int /\ SumFunctionOnSet(g, T) \in Int
  <2>1. \A T \in SUBSET S : IsFiniteSet(T)
    BY FS_Subset
  <2>. QED
    BY <2>1, SumInt
<1>1. {} \in U
  <2>1. SumFunctionOnSet(f, {}) = 0 /\ SumFunctionOnSet(g, {}) = 0
    BY SumEmpty
  <2>. QED
    BY <2>1
<1>2. ASSUME NEW T \in SUBSET S, T \in U, NEW y \in S \ T PROVE T \cup {y} \in U
  <2>1. /\ SumFunctionOnSet(f, T \cup {y}) = f[y] + SumFunctionOnSet(f, T)
        /\ SumFunctionOnSet(g, T \cup {y}) = g[y] + SumFunctionOnSet(g, T)
    BY SumAdd
  <2>3. \A a, b, c, d \in Int : a <= b /\ c <= d => a + c <= b + d
    OBVIOUS
  <2>4. f[y] \in Int /\ g[y] \in Int /\ f[y] <= g[y]
    OBVIOUS
  <2>. QED
    BY <1>0, <1>2, <2>1, <2>3, <2>4
<1>3. S \in U
  <2>. HIDE DEF U
  <2>. QED
    BY <1>1, <1>2, FinInd
<1>. QED
  BY <1>3

\* The sum of a constant.
LEMMA SumConst ==
  ASSUME NEW f, NEW S, IsFiniteSet(S), NEW c \in Int, \A x \in S : f[x] = c
  PROVE  SumFunctionOnSet(f, S) = c * Cardinality(S)
<1>. DEFINE U == {T \in SUBSET S : SumFunctionOnSet(f, T) = c * Cardinality(T)}
<1>1. {} \in U
  <2>1. SumFunctionOnSet(f, {}) = 0
    BY SumEmpty
  <2>2. Cardinality({}) = 0
    BY FS_EmptySet
  <2>. QED
    BY <2>1, <2>2
<1>2. ASSUME NEW T \in SUBSET S, T \in U, NEW y \in S \ T PROVE T \cup {y} \in U
  <2>1. SumFunctionOnSet(f, T \cup {y}) = f[y] + SumFunctionOnSet(f, T)
    BY SumAdd
  <2>2. IsFiniteSet(T)
    BY FS_Subset
  <2>3. Cardinality(T \cup {y}) = Cardinality(T) + 1 /\ Cardinality(T) \in Nat
    BY <2>2, FS_AddElement, FS_CardinalityType
  <2>4. \A n \in Nat : c + c * n = c * (n + 1)
    OBVIOUS
  <2>. QED
    BY <1>2, <2>1, <2>3, <2>4
<1>3. S \in U
  <2>. HIDE DEF U
  <2>. QED
    BY <1>1, <1>2, FinInd
<1>. QED
  BY <1>3

\* Counting is summing ones.
LEMMA SumOnes ==
  ASSUME NEW f, NEW S, IsFiniteSet(S), \A x \in S : f[x] = 1
  PROVE  SumFunctionOnSet(f, S) = Cardinality(S)
<1>1. PICK n \in Nat : n = Cardinality(S)
  BY FS_CardinalityType
<1>2. PICK c \in Int : c = 1
  OBVIOUS
<1>3. SumFunctionOnSet(f, S) = c * Cardinality(S)
  BY <1>2, SumConst
<1>4. c * n = n
  BY <1>2
<1>. QED
  BY <1>1, <1>3, <1>4

\* A sum of natural numbers is one.
LEMMA SumNat ==
  ASSUME NEW f, NEW S, IsFiniteSet(S), \A x \in S : f[x] \in Nat
  PROVE  SumFunctionOnSet(f, S) \in Nat
<1>1. PICK z : z = [x \in S |-> 0]
  OBVIOUS
<1>2. SumFunctionOnSet(z, S) = 0 * Cardinality(S)
  <2>1. \A x \in S : z[x] = 0
    BY <1>1
  <2>. QED
    BY <2>1, SumConst
<1>3. SumFunctionOnSet(z, S) = 0
  BY <1>2, FS_CardinalityType
<1>4. SumFunctionOnSet(z, S) <= SumFunctionOnSet(f, S)
  <2>1. \A x \in S : z[x] \in Int /\ z[x] <= f[x]
    BY <1>1
  <2>. QED
    BY <2>1, SumLeq
<1>5. SumFunctionOnSet(f, S) \in Int
  BY SumInt
<1>. QED
  BY <1>3, <1>4, <1>5

\* A sum is that over a part and that over the rest.
LEMMA SumSplit ==
  ASSUME NEW f, NEW S, IsFiniteSet(S), \A x \in S : f[x] \in Int, NEW T \in SUBSET S
  PROVE  SumFunctionOnSet(f, S) = SumFunctionOnSet(f, T) + SumFunctionOnSet(f, S \ T)
<1>1. PICK R : R = S \ T
  OBVIOUS
<1>2. IsFiniteSet(T) /\ IsFiniteSet(R)
  BY <1>1, FS_Subset
<1>3. T \cup R = S /\ T \cap R = {}
  BY <1>1
<1>4. SumFunctionOnSet(f, T \cup R) = SumFunctionOnSet(f, T) + SumFunctionOnSet(f, R)
  BY <1>1, <1>2, <1>3, SumUnion
<1>. QED
  BY <1>1, <1>3, <1>4

\* A part adds up to no more than the whole.
LEMMA SumSubset ==
  ASSUME NEW f, NEW S, IsFiniteSet(S), \A x \in S : f[x] \in Nat, NEW T \in SUBSET S
  PROVE  SumFunctionOnSet(f, T) <= SumFunctionOnSet(f, S)
<1>1. SumFunctionOnSet(f, S) = SumFunctionOnSet(f, T) + SumFunctionOnSet(f, S \ T)
  BY SumSplit
<1>2. SumFunctionOnSet(f, T) \in Nat
  <2>1. IsFiniteSet(T)
    BY FS_Subset
  <2>. QED
    BY <2>1, SumNat
<1>3. SumFunctionOnSet(f, S \ T) \in Nat
  <2>1. PICK R : R = S \ T
    OBVIOUS
  <2>2. IsFiniteSet(R)
    BY <2>1, FS_Subset
  <2>. QED
    BY <2>1, <2>2, SumNat
<1>. QED
  BY <1>1, <1>2, <1>3

\* Terms that are zero can be left out.
LEMMA SumFilter ==
  ASSUME NEW f, NEW g, NEW S, IsFiniteSet(S), NEW T \in SUBSET S,
         \A x \in T : f[x] \in Int /\ g[x] = f[x],
         \A x \in S \ T : g[x] = 0
  PROVE  SumFunctionOnSet(g, S) = SumFunctionOnSet(f, T)
<1>1. IsFiniteSet(T)
  BY FS_Subset
<1>2. SumFunctionOnSet(g, T) = SumFunctionOnSet(f, T) /\ SumFunctionOnSet(f, T) \in Int
  BY <1>1, SumSame, SumInt
<1>3. SumFunctionOnSet(g, S \ T) = 0
  <2>1. PICK R : R = S \ T
    OBVIOUS
  <2>2. IsFiniteSet(R)
    BY <2>1, FS_Subset
  <2>3. SumFunctionOnSet(g, R) = 0 * Cardinality(R)
    BY <2>1, <2>2, SumConst
  <2>. QED
    BY <2>1, <2>2, <2>3, FS_CardinalityType
<1>4. SumFunctionOnSet(g, S) = SumFunctionOnSet(g, T) + SumFunctionOnSet(g, S \ T)
  BY SumSplit
<1>. QED
  BY <1>2, <1>3, <1>4

\* h takes S to R one to one.
OneToOne(h, S, R) ==
  /\ \A x \in S : h[x] \in R
  /\ \A x, y \in S : h[x] = h[y] => x = y
  /\ \A y \in R : \E x \in S : y = h[x]

\* A sum does not depend on the names of its terms.
LEMMA SumReindex ==
  ASSUME NEW S, IsFiniteSet(S), NEW R, NEW h, OneToOne(h, S, R),
         NEW f, \A y \in R : f[y] \in Int,
         NEW g, \A x \in S : g[x] = f[h[x]]
  PROVE  IsFiniteSet(R) /\ SumFunctionOnSet(g, S) = SumFunctionOnSet(f, R)
<1>. USE DEF OneToOne
<1>. DEFINE Im(T) == {h[x] : x \in T}
            U == {T \in SUBSET S : /\ IsFiniteSet(Im(T))
                                   /\ SumFunctionOnSet(g, T) = SumFunctionOnSet(f, Im(T))}
<1>1. {} \in U
  <2>1. Im({}) = {} /\ IsFiniteSet({})
    BY FS_EmptySet
  <2>2. SumFunctionOnSet(f, {}) = 0 /\ SumFunctionOnSet(g, {}) = 0
    BY SumEmpty
  <2>. QED
    BY <2>1, <2>2
<1>2. ASSUME NEW T \in SUBSET S, T \in U, NEW y \in S \ T PROVE T \cup {y} \in U
  <2>1. PICK V : V = Im(T)
    OBVIOUS
  <2>2. Im(T \cup {y}) = V \cup {h[y]} /\ h[y] \notin V /\ V \in SUBSET R
    BY <2>1
  <2>3. IsFiniteSet(V) /\ IsFiniteSet(V \cup {h[y]})
    BY <1>2, <2>1, FS_AddElement
  <2>4. SumFunctionOnSet(g, T \cup {y}) = g[y] + SumFunctionOnSet(g, T)
    BY SumAdd
  <2>5. PICK W : W = V \cup {h[y]}
    OBVIOUS
  <2>6. SumFunctionOnSet(f, V \cup {h[y]}) = f[h[y]] + SumFunctionOnSet(f, V)
    <3>1. \A x \in W : f[x] \in Int
      BY <2>2, <2>5
    <3>2. V \in SUBSET W /\ h[y] \in W \ V
      BY <2>2, <2>5
    <3>. QED
      BY <2>3, <2>5, <3>1, <3>2, SumAdd
  <2>. QED
    BY <1>2, <2>1, <2>2, <2>3, <2>4, <2>6
<1>3. S \in U
  <2>. HIDE DEF U
  <2>. QED
    BY <1>1, <1>2, FinInd
<1>4. Im(S) = R
  OBVIOUS
<1>. QED
  BY <1>3, <1>4

\* A sum can be made group by group.
LEMMA SumGroup ==
  ASSUME NEW S, IsFiniteSet(S), NEW K, IsFiniteSet(K),
         NEW key, \A x \in S : key[x] \in K,
         NEW f, \A x \in S : f[x] \in Int,
         NEW of, \A k \in K : of[k] = {x \in S : key[x] = k},
         NEW g, \A k \in K : g[k] = SumFunctionOnSet(f, of[k])
  PROVE  SumFunctionOnSet(g, K) = SumFunctionOnSet(f, S)
<1>. DEFINE Of(L) == {x \in S : key[x] \in L}
            U == {L \in SUBSET K : SumFunctionOnSet(g, L) = SumFunctionOnSet(f, Of(L))}
<1>1. {} \in U
  <2>1. Of({}) = {}
    OBVIOUS
  <2>2. SumFunctionOnSet(f, {}) = 0 /\ SumFunctionOnSet(g, {}) = 0
    BY SumEmpty
  <2>. QED
    BY <2>1, <2>2
<1>2. ASSUME NEW L \in SUBSET K, L \in U, NEW k \in K \ L PROVE L \cup {k} \in U
  <2>1. PICK V, W : V = Of(L) /\ W = {x \in S : key[x] = k}
    OBVIOUS
  <2>2. IsFiniteSet(V) /\ IsFiniteSet(W) /\ V \cap W = {} /\ Of(L \cup {k}) = V \cup W
    BY <2>1, FS_Subset
  <2>3. SumFunctionOnSet(f, V \cup W) = SumFunctionOnSet(f, V) + SumFunctionOnSet(f, W)
    BY <2>1, <2>2, SumUnion
  <2>4. SumFunctionOnSet(f, V) \in Int /\ SumFunctionOnSet(f, W) \in Int
    BY <2>1, <2>2, SumInt
  <2>5. SumFunctionOnSet(g, L \cup {k}) = g[k] + SumFunctionOnSet(g, L)
    <3>1. \A j \in K : g[j] \in Int
      <4> SUFFICES ASSUME NEW j \in K PROVE g[j] \in Int
        OBVIOUS
      <4>1. PICK X : X = of[j] /\ X = {x \in S : key[x] = j}
        OBVIOUS
      <4>2. IsFiniteSet(X) /\ \A x \in X : f[x] \in Int
        BY <4>1, FS_Subset
      <4>3. SumFunctionOnSet(f, X) \in Int
        BY <4>2, SumInt
      <4>. QED
        BY <4>1, <4>3
    <3>. QED
      BY <3>1, SumAdd
  <2>6. g[k] = SumFunctionOnSet(f, W)
    <3>1. W = of[k]
      BY <2>1
    <3>. QED
      BY <3>1
  <2>7. SumFunctionOnSet(g, L) = SumFunctionOnSet(f, V)
    BY <1>2, <2>1
  <2>8. \A a, b \in Int : a + b = b + a
    OBVIOUS
  <2>9. SumFunctionOnSet(g, L \cup {k}) = SumFunctionOnSet(f, V \cup W)
    BY <2>3, <2>4, <2>5, <2>6, <2>7, <2>8
  <2>. QED
    BY <2>2, <2>9
<1>3. K \in U
  <2>. HIDE DEF U
  <2>. QED
    BY <1>1, <1>2, FinInd
<1>4. Of(K) = S
  OBVIOUS
<1>. QED
  BY <1>3, <1>4

\* A table has the rows a and the columns b.
Table(a, b, S, R) ==
  /\ \A x \in S : \A y \in R : a[x][y] \in Int
  /\ \A y \in R : \A x \in S : b[y][x] = a[x][y]

\* f is what each row adds up to.
RowSums(a, S, R, f) == \A x \in S : f[x] = SumFunctionOnSet(a[x], R)

\* The rows of a table add up to what its columns add up to.
LEMMA SumSwap ==
  ASSUME NEW S, IsFiniteSet(S), NEW R, IsFiniteSet(R), NEW a, NEW b, Table(a, b, S, R),
         NEW f, RowSums(a, S, R, f), NEW g, RowSums(b, R, S, g)
  PROVE  SumFunctionOnSet(f, S) = SumFunctionOnSet(g, R)
<1>. USE DEF Table, RowSums
<1>. DEFINE G(T) == [y \in R |-> SumFunctionOnSet(b[y], T)]
            U == {T \in SUBSET S : SumFunctionOnSet(f, T) = SumFunctionOnSet(G(T), R)}
<1>1. {} \in U
  <2>1. PICK z : z = G({})
    OBVIOUS
  <2>2. \A y \in R : z[y] = 0
    BY <2>1, SumEmpty
  <2>3. SumFunctionOnSet(z, R) = 0 * Cardinality(R)
    BY <2>2, SumConst
  <2>4. SumFunctionOnSet(f, {}) = 0 /\ Cardinality(R) \in Nat
    BY SumEmpty, FS_CardinalityType
  <2>. QED
    BY <2>1, <2>3, <2>4
<1>2. ASSUME NEW T \in SUBSET S, T \in U, NEW x \in S \ T PROVE T \cup {x} \in U
  <2>1. PICK u, v : u = G(T) /\ v = G(T \cup {x})
    OBVIOUS
  <2>0. PICK w : w = a[x]
    OBVIOUS
  <2>2. IsFiniteSet(T)
    BY FS_Subset
  <2>3. ASSUME NEW y \in R PROVE u[y] \in Int /\ v[y] = w[y] + u[y] /\ w[y] \in Int
    <3>1. PICK c : c = b[y]
      OBVIOUS
    <3>2. \A t \in S : c[t] \in Int
      BY <3>1
    <3>3. SumFunctionOnSet(c, T \cup {x}) = c[x] + SumFunctionOnSet(c, T)
      BY <3>2, SumAdd
    <3>4. SumFunctionOnSet(c, T) \in Int
      BY <2>2, <3>2, SumInt
    <3>. QED
      BY <2>0, <2>1, <3>1, <3>3, <3>4
  <2>4. SumFunctionOnSet(v, R) = SumFunctionOnSet(w, R) + SumFunctionOnSet(u, R)
    BY <2>3, SumPlus
  <2>5. SumFunctionOnSet(f, T \cup {x}) = f[x] + SumFunctionOnSet(f, T)
    <3>1. ASSUME NEW s \in S PROVE f[s] \in Int
      <4>1. PICK d : d = a[s]
        OBVIOUS
      <4>2. SumFunctionOnSet(d, R) \in Int
        BY <4>1, SumInt
      <4>. QED
        BY <4>1, <4>2
    <3>. QED
      BY <3>1, SumAdd
  <2>6. f[x] = SumFunctionOnSet(w, R)
    BY <2>0
  <2>7. SumFunctionOnSet(f, T) = SumFunctionOnSet(u, R)
    BY <1>2, <2>1
  <2>8. SumFunctionOnSet(f, T \cup {x}) = SumFunctionOnSet(v, R)
    BY <2>4, <2>5, <2>6, <2>7
  <2>. QED
    BY <2>1, <2>8
<1>3. S \in U
  <2>. HIDE DEF U
  <2>. QED
    BY <1>1, <1>2, FinInd
<1>4. SumFunctionOnSet(G(S), R) = SumFunctionOnSet(g, R)
  <2>1. PICK z : z = G(S)
    OBVIOUS
  <2>2. ASSUME NEW y \in R PROVE z[y] \in Int /\ z[y] = g[y]
    <3>1. PICK c : c = b[y]
      OBVIOUS
    <3>2. SumFunctionOnSet(c, S) \in Int
      BY <3>1, SumInt
    <3>. QED
      BY <2>1, <3>1, <3>2
  <2>3. SumFunctionOnSet(z, R) = SumFunctionOnSet(g, R)
    BY <2>2, SumSame
  <2>. QED
    BY <2>1, <2>3
<1>. QED
  BY <1>3, <1>4

-----------------------------------------------------------------------------
(* Finite sets and sequences.                                              *)

\* What is made of the members of a finite set is finite, and no more.
LEMMA FiniteImage ==
  ASSUME NEW S, IsFiniteSet(S), NEW R, NEW h, \A y \in R : \E x \in S : y = h[x]
  PROVE  IsFiniteSet(R) /\ Cardinality(R) <= Cardinality(S)
<1>1. PICK I : I = {h[x] : x \in S}
  OBVIOUS
<1>2. [x \in S |-> h[x]] \in Surjection(S, I)
  BY <1>1 DEF Surjection
<1>3. IsFiniteSet(I) /\ Cardinality(I) <= Cardinality(S)
  BY <1>2, FS_Surjection
<1>4. IsFiniteSet(R) /\ Cardinality(R) <= Cardinality(I)
  <2>1. R \subseteq I
    BY <1>1
  <2>. QED
    BY <1>3, <2>1, FS_Subset
<1>5. Cardinality(R) \in Nat /\ Cardinality(I) \in Nat /\ Cardinality(S) \in Nat
  BY <1>3, <1>4, FS_CardinalityType
<1>. QED
  BY <1>3, <1>4, <1>5

\* Sets in one-to-one correspondence have the same number of members.
LEMMA SameSize ==
  ASSUME NEW S, IsFiniteSet(S), NEW R, NEW h, OneToOne(h, S, R)
  PROVE  IsFiniteSet(R) /\ Cardinality(R) = Cardinality(S)
<1>1. PICK f, g : f = [y \in R |-> 1] /\ g = [x \in S |-> 1]
  OBVIOUS
<1>2. (\A y \in R : f[y] \in Int /\ f[y] = 1) /\ (\A x \in S : g[x] = f[h[x]] /\ g[x] = 1)
  BY <1>1 DEF OneToOne
<1>3. IsFiniteSet(R) /\ SumFunctionOnSet(g, S) = SumFunctionOnSet(f, R)
  BY <1>2, SumReindex
<1>4. SumFunctionOnSet(g, S) = Cardinality(S) /\ SumFunctionOnSet(f, R) = Cardinality(R)
  BY <1>2, <1>3, SumOnes
<1>. QED
  BY <1>3, <1>4

\* A finite set put into some order: each member stands in it once.
LEMMA Listed ==
  ASSUME NEW S, IsFiniteSet(S)
  PROVE  /\ SetToSeq(S) \in Seq(S)
         /\ Len(SetToSeq(S)) = Cardinality(S)
         /\ DOMAIN SetToSeq(S) = 1 .. Cardinality(S)
         /\ \A i, j \in DOMAIN SetToSeq(S) : SetToSeq(S)[i] = SetToSeq(S)[j] => i = j
         /\ \A x \in S : \E i \in DOMAIN SetToSeq(S) : SetToSeq(S)[i] = x
<1>1. PICK n \in Nat : n = Cardinality(S)
  BY FS_CardinalityType
<1>2. PICK f \in [1 .. n -> S] : IsInjective(f)
  <2>1. ExistsBijection(1 .. n, S)
    BY <1>1, FS_CountingElements, FS_NatBijection
  <2>. QED
    BY <2>1 DEF ExistsBijection, Bijection, Injection
<1>3. SetToSeq(S) \in Injection(1 .. n, S)
  BY <1>1, <1>2 DEF SetToSeq, Injection
<1>4. PICK g : g = SetToSeq(S)
  OBVIOUS
<1>5. g \in Surjection(1 .. n, S)
  <2>1. Cardinality(1 .. n) = n
    BY FS_Interval
  <2>. QED
    BY <1>1, <1>3, <1>4, <2>1, FS_Injection
<1>. QED
  BY <1>1, <1>3, <1>4, <1>5 DEF Injection, Surjection, IsInjective

\* The sum over one element.
LEMMA SumOne ==
  ASSUME NEW f, NEW x, f[x] \in Int
  PROVE  SumFunctionOnSet(f, {x}) = f[x]
<1>1. IsFiniteSet({x})
  BY FS_Singleton
<1>2. PICK S : S = {x}
  OBVIOUS
<1>3. PICK T : T = S \ {x}
  OBVIOUS
<1>4. T = {}
  BY <1>2, <1>3
<1>5. SumFunctionOnSet(f, S) = f[x] + SumFunctionOnSet(f, S \ {x})
  BY <1>1, <1>2, SumRemove
<1>6. SumFunctionOnSet(f, S \ {x}) = 0
  BY <1>3, <1>4, SumEmpty
<1>. QED
  BY <1>2, <1>5, <1>6

-----------------------------------------------------------------------------
(* Sequences of sequences.                                                 *)

\* g[i] is the first i of seqs, one after the other.
Joined(g, seqs, n) == g = [i \in 1 .. n |-> IF i = 1 THEN seqs[i] ELSE g[i - 1] \o seqs[i]]

\* The recursive function behind FlattenSeq exists.
LEMMA JoinExists ==
  ASSUME NEW seqs, NEW n \in Nat
  PROVE  \E g : Joined(g, seqs, n)
<1>. DEFINE S == {k \in Nat : \E g : Joined(g, seqs, k)}
<1>1. 0 \in S
  <2>1. Joined([i \in 1 .. 0 |-> seqs[i]], seqs, 0)
    BY DEF Joined
  <2>. QED
    BY <2>1
<1>2. ASSUME NEW k \in Nat, k \in S PROVE k + 1 \in S
  <2>1. PICK g : Joined(g, seqs, k)
    BY <1>2
  <2>. DEFINE h == [i \in 1 .. k + 1 |-> IF i <= k THEN g[i]
                                        ELSE IF i = 1 THEN seqs[i] ELSE g[i - 1] \o seqs[i]]
  <2>2. ASSUME NEW i \in 1 .. k + 1
        PROVE  h[i] = IF i = 1 THEN seqs[i] ELSE h[i - 1] \o seqs[i]
    <3>1. CASE i <= k
      <4>1. h[i] = g[i] /\ i \in 1 .. k
        BY <3>1
      <4>2. g[i] = IF i = 1 THEN seqs[i] ELSE g[i - 1] \o seqs[i]
        BY <2>1, <4>1 DEF Joined
      <4>3. i # 1 => h[i - 1] = g[i - 1]
        BY <3>1
      <4>. QED
        BY <4>1, <4>2, <4>3
    <3>2. CASE i = k + 1
      <4>1. i # 1 => h[i - 1] = g[i - 1]
        BY <3>2
      <4>. QED
        BY <3>2, <4>1
    <3>. QED
      BY <3>1, <3>2
  <2>3. h = [i \in 1 .. k + 1 |-> h[i]]
    OBVIOUS
  <2>4. Joined(h, seqs, k + 1)
    <3>. HIDE DEF h
    <3>. QED
      BY <2>2, <2>3 DEF Joined
  <2>. QED
    BY <2>4
<1>3. Nat \subseteq S
  <2>. HIDE DEF S
  <2>. QED
    BY <1>1, <1>2, NatInd
<1>. QED
  BY <1>3

\* FlattenSeq appends one sequence after the other.
LEMMA FlattenTrace ==
  ASSUME NEW S, NEW seqs \in Seq(Seq(S)), NEW n \in Nat \ {0}, n = Len(seqs)
  PROVE  \E g : /\ g[1] = seqs[1]
                /\ \A i \in 2 .. n : g[i] = g[i - 1] \o seqs[i]
                /\ FlattenSeq(seqs) = g[n]
<1>. DEFINE g == CHOOSE g : Joined(g, seqs, n)
<1>1. Joined(g, seqs, n)
  BY JoinExists
<1>2. FlattenSeq(seqs) = g[n]
  BY DEF FlattenSeq, Joined
<1>. HIDE DEF g
<1>3. \A i \in 1 .. n : g[i] = IF i = 1 THEN seqs[i] ELSE g[i - 1] \o seqs[i]
  BY <1>1 DEF Joined
<1>4. g[1] = seqs[1]
  BY <1>3
<1>5. ASSUME NEW i \in 2 .. n PROVE g[i] = g[i - 1] \o seqs[i]
  <2>1. i \in 1 .. n /\ i # 1
    OBVIOUS
  <2>. QED
    BY <1>3, <2>1
<1>. QED
  BY <1>2, <1>4, <1>5

\* x is an element of s.
Occurs(x, s) == \E i \in DOMAIN s : s[i] = x

\* The elements of two sequences.
LEMMA ConcatHas ==
  ASSUME NEW S, NEW s \in Seq(S), NEW t \in Seq(S)
  PROVE  /\ s \o t \in Seq(S)
         /\ \A x : Occurs(x, s \o t) <=> Occurs(x, s) \/ Occurs(x, t)
<1>1. /\ s \o t \in Seq(S)
      /\ DOMAIN (s \o t) = 1 .. Len(s) + Len(t)
      /\ DOMAIN s = 1 .. Len(s) /\ DOMAIN t = 1 .. Len(t)
      /\ \A i \in 1 .. Len(s) : (s \o t)[i] = s[i]
      /\ \A i \in 1 .. Len(t) : (s \o t)[Len(s) + i] = t[i]
      /\ \A i \in (1 .. Len(s) + Len(t)) \ (1 .. Len(s)) : (s \o t)[i] = t[i - Len(s)]
  OBVIOUS
<1>2. Len(s) \in Nat /\ Len(t) \in Nat
  OBVIOUS
<1>3. PICK st, a, b : st = s \o t /\ a = Len(s) /\ b = Len(t)
  OBVIOUS
<1>4. ASSUME NEW x PROVE Occurs(x, st) <=> Occurs(x, s) \/ Occurs(x, t)
  <2>1. ASSUME NEW i \in DOMAIN st, st[i] = x PROVE Occurs(x, s) \/ Occurs(x, t)
    <3>1. CASE i <= a
      BY <1>1, <1>2, <1>3, <2>1, <3>1 DEF Occurs
    <3>2. CASE i > a
      <4>1. i - a \in DOMAIN t /\ t[i - a] = x
        BY <1>1, <1>2, <1>3, <2>1, <3>2
      <4>. QED
        BY <4>1 DEF Occurs
    <3>. QED
      BY <1>1, <1>2, <1>3, <3>1, <3>2
  <2>2. ASSUME NEW i \in DOMAIN s, s[i] = x PROVE Occurs(x, st)
    <3>1. i \in DOMAIN st /\ st[i] = x
      BY <1>1, <1>2, <1>3, <2>2
    <3>. QED
      BY <3>1 DEF Occurs
  <2>3. ASSUME NEW i \in DOMAIN t, t[i] = x PROVE Occurs(x, st)
    <3>1. a + i \in DOMAIN st /\ st[a + i] = x
      BY <1>1, <1>2, <1>3, <2>3
    <3>. QED
      BY <3>1 DEF Occurs
  <2>. QED
    BY <2>1, <2>2, <2>3 DEF Occurs
<1>. QED
  BY <1>1, <1>3, <1>4

\* The elements of a sequence of sequences.
LEMMA FlattenHas ==
  ASSUME NEW S, NEW seqs \in Seq(Seq(S))
  PROVE  /\ FlattenSeq(seqs) \in Seq(S)
         /\ \A x : Occurs(x, FlattenSeq(seqs)) <=> \E i \in DOMAIN seqs : Occurs(x, seqs[i])
<1>1. PICK n \in Nat : n = Len(seqs) /\ DOMAIN seqs = 1 .. n
  OBVIOUS
<1>2. CASE n = 0
  <2>1. FlattenSeq(seqs) = seqs /\ seqs \in Seq(S)
    BY <1>1, <1>2 DEF FlattenSeq
  <2>. QED
    BY <1>1, <1>2, <2>1 DEF Occurs
<1>3. CASE n # 0
  <2>1. PICK g : /\ g[1] = seqs[1]
                 /\ \A i \in 2 .. n : g[i] = g[i - 1] \o seqs[i]
                 /\ FlattenSeq(seqs) = g[n]
    <3>1. n \in Nat \ {0} /\ n = Len(seqs)
      BY <1>1, <1>3
    <3>. QED
      BY <3>1, FlattenTrace
  <2>. DEFINE Good(k) == /\ g[k] \in Seq(S)
                         /\ \A x : Occurs(x, g[k]) <=> \E i \in 1 .. k : Occurs(x, seqs[i])
              U == {k \in Nat : k + 1 <= n => Good(k + 1)}
  <2>2. 0 \in U
    BY <1>1, <1>3, <2>1
  <2>3. ASSUME NEW k \in Nat, k \in U PROVE k + 1 \in U
    <3>1. CASE k + 2 <= n
      <4>1. Good(k + 1) /\ g[k + 2] = g[k + 1] \o seqs[k + 2] /\ seqs[k + 2] \in Seq(S)
        <5>1. k + 1 <= n /\ k + 2 \in 2 .. n /\ k + 2 \in DOMAIN seqs /\ (k + 2) - 1 = k + 1
          BY <1>1, <3>1
        <5>2. seqs[k + 2] \in Seq(S)
          BY <5>1
        <5>3. g[k + 2] = g[k + 1] \o seqs[k + 2]
          BY <2>1, <5>1
        <5>. HIDE DEF Good
        <5>. QED
          BY <2>3, <5>1, <5>2, <5>3
      <4>2. /\ g[k + 2] \in Seq(S)
            /\ \A x : Occurs(x, g[k + 2]) <=> Occurs(x, g[k + 1]) \/ Occurs(x, seqs[k + 2])
        BY <4>1, ConcatHas
      <4>3. 1 .. k + 2 = (1 .. k + 1) \cup {k + 2}
        OBVIOUS
      <4>4. Good(k + 2)
        BY <4>1, <4>2, <4>3
      <4>. HIDE DEF Good
      <4>. QED
        BY <4>4
    <3>2. CASE ~(k + 2 <= n)
      BY <3>2
    <3>. QED
      BY <3>1, <3>2
  <2>4. Nat \subseteq U
    <3>. HIDE DEF U
    <3>. QED
      BY <2>2, <2>3, NatInd
  <2>5. n - 1 \in Nat /\ (n - 1) + 1 = n
    BY <1>3
  <2>6. Good(n)
    <3>1. n - 1 \in U
      BY <2>4, <2>5
    <3>. HIDE DEF Good
    <3>. QED
      BY <2>5, <3>1
  <2>. QED
    BY <1>1, <2>1, <2>6
<1>. QED
  BY <1>2, <1>3

-----------------------------------------------------------------------------
(* Sums over sequences.                                                    *)

\* The sum of v over the elements of s.
SeqSum(v, s) == SumFunction([i \in DOMAIN s |-> v[s[i]]])

\* Term by term.
LEMMA SumUpTo ==
  ASSUME NEW k \in Nat, NEW w, \A i \in 1 .. k + 1 : w[i] \in Int
  PROVE  SumFunctionOnSet(w, 1 .. k + 1) = w[k + 1] + SumFunctionOnSet(w, 1 .. k)
<1>1. PICK D, T : D = 1 .. k + 1 /\ T = 1 .. k
  OBVIOUS
<1>2. IsFiniteSet(D)
  BY <1>1, FS_Interval
<1>3. k + 1 \in D \ T /\ T \in SUBSET D /\ T \cup {k + 1} = D
  BY <1>1
<1>4. \A i \in D : w[i] \in Int
  BY <1>1
<1>5. SumFunctionOnSet(w, T \cup {k + 1}) = w[k + 1] + SumFunctionOnSet(w, T)
  BY <1>2, <1>3, <1>4, SumAdd
<1>. QED
  BY <1>1, <1>3, <1>5

\* v gives each member of S a number.
Valued(v, S) == \A x \in S : v[x] \in Int

\* The sum over two sequences.
LEMMA SeqSumConcat ==
  ASSUME NEW S, NEW v, Valued(v, S), NEW s \in Seq(S), NEW t \in Seq(S)
  PROVE  /\ SeqSum(v, s \o t) \in Int /\ SeqSum(v, s) \in Int /\ SeqSum(v, t) \in Int
         /\ SeqSum(v, s \o t) = SeqSum(v, s) + SeqSum(v, t)
<1>1. PICK st, a, b : st = s \o t /\ a = Len(s) /\ b = Len(t)
  OBVIOUS
<1>2. /\ a \in Nat /\ b \in Nat
      /\ st \in Seq(S)
      /\ DOMAIN st = 1 .. a + b
      /\ DOMAIN s = 1 .. a /\ DOMAIN t = 1 .. b
      /\ \A i \in 1 .. a : st[i] = s[i]
      /\ \A i \in 1 .. b : st[a + i] = t[i]
  BY <1>1
<1>3. PICK D, E, F, R : D = 1 .. a + b /\ E = 1 .. a /\ F = 1 .. b /\ R = D \ E
  OBVIOUS
<1>4. IsFiniteSet(D) /\ IsFiniteSet(E) /\ IsFiniteSet(F) /\ IsFiniteSet(R)
  <2>1. IsFiniteSet(1 .. a + b) /\ IsFiniteSet(1 .. a) /\ IsFiniteSet(1 .. b)
    BY <1>2, FS_Interval
  <2>. QED
    BY <1>3, <2>1, FS_Difference
<1>5. PICK fs, ft, f : /\ fs = [i \in E |-> v[s[i]]]
                       /\ ft = [i \in F |-> v[t[i]]]
                       /\ f = [i \in D |-> v[st[i]]]
  OBVIOUS
<1>6. /\ \A i \in E : fs[i] \in Int /\ f[i] = fs[i]
      /\ \A i \in F : ft[i] \in Int
      /\ \A i \in D : f[i] \in Int
  <2>1. \A i \in E : s[i] \in S
    BY <1>2, <1>3
  <2>2. \A i \in F : t[i] \in S
    BY <1>2, <1>3
  <2>3. \A i \in D : st[i] \in S
    BY <1>2, <1>3
  <2>4. \A i \in E : i \in D
    BY <1>2, <1>3
  <2>. QED
    BY <1>2, <1>3, <1>5, <2>1, <2>2, <2>3, <2>4 DEF Valued
<1>7. SumFunctionOnSet(f, D) = SumFunctionOnSet(f, E) + SumFunctionOnSet(f, R)
  <2>1. E \in SUBSET D
    BY <1>2, <1>3
  <2>2. \A i \in D : f[i] \in Int
    BY <1>6
  <2>3. SumFunctionOnSet(f, D) = SumFunctionOnSet(f, E) + SumFunctionOnSet(f, D \ E)
    BY <1>4, <2>1, <2>2, SumSplit
  <2>. QED
    BY <1>3, <2>3
<1>8. SumFunctionOnSet(fs, E) = SumFunctionOnSet(f, E)
  <2>1. \A i \in E : fs[i] \in Int
    BY <1>6
  <2>2. \A i \in E : fs[i] = f[i]
    BY <1>6
  <2>. QED
    BY <1>4, <2>1, <2>2, SumSame
<1>9. SumFunctionOnSet(ft, F) = SumFunctionOnSet(f, R)
  <2>1. PICK h : h = [i \in F |-> a + i]
    OBVIOUS
  <2>2. OneToOne(h, F, R)
    <3>1. \A y \in R : y - a \in F /\ y = h[y - a]
      BY <1>2, <1>3, <2>1
    <3>2. \A x \in F : h[x] \in R
      BY <1>2, <1>3, <2>1
    <3>3. \A x, y \in F : h[x] = h[y] => x = y
      BY <1>2, <1>3, <2>1
    <3>. QED
      BY <3>1, <3>2, <3>3 DEF OneToOne
  <2>3. \A y \in R : f[y] \in Int
    BY <1>3, <1>6
  <2>4. \A i \in F : ft[i] = f[h[i]]
    <3>1. \A i \in F : a + i \in D /\ st[a + i] = t[i]
      BY <1>2, <1>3
    <3>. QED
      BY <1>5, <2>1, <3>1
  <2>5. IsFiniteSet(F)
    BY <1>4
  <2>. QED
    BY <2>2, <2>3, <2>4, <2>5, SumReindex
<1>10. /\ SeqSum(v, s) = SumFunctionOnSet(fs, E)
       /\ SeqSum(v, t) = SumFunctionOnSet(ft, F)
       /\ SeqSum(v, st) = SumFunctionOnSet(f, D)
  <2>1. DOMAIN fs = E /\ DOMAIN ft = F /\ DOMAIN f = D
    BY <1>5
  <2>. QED
    BY <1>2, <1>3, <1>5, <2>1 DEF SeqSum, SumFunction
<1>11. SumFunctionOnSet(fs, E) \in Int /\ SumFunctionOnSet(ft, F) \in Int /\ SumFunctionOnSet(f, D) \in Int
  <2>1. \A i \in E : fs[i] \in Int
    BY <1>6
  <2>2. \A i \in F : ft[i] \in Int
    BY <1>6
  <2>3. \A i \in D : f[i] \in Int
    BY <1>6
  <2>. QED
    BY <1>4, <2>1, <2>2, <2>3, SumInt
<1>. QED
  BY <1>1, <1>7, <1>8, <1>9, <1>10, <1>11

\* The sum over a sequence of sequences.
LEMMA FlattenSum ==
  ASSUME NEW S, NEW v, Valued(v, S), NEW seqs \in Seq(Seq(S)),
         NEW w, \A i \in DOMAIN seqs : w[i] = SeqSum(v, seqs[i])
  PROVE  SeqSum(v, FlattenSeq(seqs)) = SumFunctionOnSet(w, DOMAIN seqs)
<1>1. PICK n \in Nat : n = Len(seqs) /\ DOMAIN seqs = 1 .. n
  OBVIOUS
<1>2. CASE n = 0
  <2>1. FlattenSeq(seqs) = seqs
    BY <1>1, <1>2 DEF FlattenSeq
  <2>2. PICK f : f = [i \in DOMAIN seqs |-> v[seqs[i]]]
    OBVIOUS
  <2>3. SeqSum(v, seqs) = SumFunctionOnSet(f, {}) /\ DOMAIN seqs = {}
    BY <1>1, <1>2, <2>2 DEF SeqSum, SumFunction
  <2>4. SumFunctionOnSet(f, {}) = 0 /\ SumFunctionOnSet(w, {}) = 0
    BY SumEmpty
  <2>. QED
    BY <2>1, <2>3, <2>4
<1>3. CASE n # 0
  <2>0. n \in Nat \ {0} /\ n = Len(seqs)
    BY <1>1, <1>3
  <2>1. PICK g : /\ g[1] = seqs[1]
                 /\ \A i \in 2 .. n : g[i] = g[i - 1] \o seqs[i]
                 /\ FlattenSeq(seqs) = g[n]
    BY <2>0, FlattenTrace
  <2>2. \A i \in 1 .. n : seqs[i] \in Seq(S) /\ w[i] \in Int
    <3>1. ASSUME NEW i \in 1 .. n PROVE seqs[i] \in Seq(S) /\ SeqSum(v, seqs[i]) \in Int
      <4>1. seqs[i] \in Seq(S)
        BY <1>1
      <4>. QED
        BY <4>1, SeqSumConcat
    <3>. QED
      BY <1>1, <3>1
  <2>. DEFINE Good(k) == g[k] \in Seq(S) /\ SeqSum(v, g[k]) = SumFunctionOnSet(w, 1 .. k)
              U == {k \in Nat : k + 1 <= n => Good(k + 1)}
  <2>3. 0 \in U
    <3>1. seqs[1] \in Seq(S) /\ w[1] \in Int /\ w[1] = SeqSum(v, seqs[1])
      BY <1>1, <1>3, <2>2
    <3>2. SumFunctionOnSet(w, {1}) = w[1]
      BY <3>1, SumOne
    <3>3. 1 .. 1 = {1}
      OBVIOUS
    <3>4. Good(1)
      BY <2>1, <3>1, <3>2, <3>3
    <3>. HIDE DEF Good
    <3>. QED
      BY <3>4
  <2>4. ASSUME NEW k \in Nat, k \in U PROVE k + 1 \in U
    <3>1. CASE k + 2 <= n
      <4>1. k + 1 <= n /\ k + 2 \in 2 .. n /\ k + 2 \in 1 .. n /\ (k + 2) - 1 = k + 1
        BY <1>1, <3>1
      <4>2. seqs[k + 2] \in Seq(S) /\ w[k + 2] = SeqSum(v, seqs[k + 2])
        BY <1>1, <2>2, <4>1
      <4>3. g[k + 2] = g[k + 1] \o seqs[k + 2]
        BY <2>1, <4>1
      <4>4. Good(k + 1)
        <5>. HIDE DEF Good
        <5>. QED
          BY <2>4, <4>1
      <4>5. /\ g[k + 1] \o seqs[k + 2] \in Seq(S)
            /\ SeqSum(v, g[k + 1] \o seqs[k + 2]) = SeqSum(v, g[k + 1]) + SeqSum(v, seqs[k + 2])
        <5>1. PICK s \in Seq(S), r \in Seq(S) : s = g[k + 1] /\ r = seqs[k + 2]
          BY <4>2, <4>4
        <5>2. s \o r \in Seq(S)
          OBVIOUS
        <5>3. SeqSum(v, s \o r) = SeqSum(v, s) + SeqSum(v, r)
          BY SeqSumConcat
        <5>. QED
          BY <5>1, <5>2, <5>3
      <4>6. SumFunctionOnSet(w, 1 .. k + 2) = w[k + 2] + SumFunctionOnSet(w, 1 .. k + 1)
        <5>1. k + 1 \in Nat /\ (k + 1) + 1 = k + 2
          OBVIOUS
        <5>2. \A i \in 1 .. (k + 1) + 1 : w[i] \in Int
          BY <2>2, <3>1
        <5>3. SumFunctionOnSet(w, 1 .. (k + 1) + 1) = w[(k + 1) + 1] + SumFunctionOnSet(w, 1 .. k + 1)
          BY <5>1, <5>2, SumUpTo
        <5>. QED
          BY <5>1, <5>3
      <4>7. SeqSum(v, g[k + 1]) \in Int /\ SeqSum(v, seqs[k + 2]) \in Int
        BY <4>2, <4>4, SeqSumConcat
      <4>8. Good(k + 2)
        BY <4>2, <4>3, <4>4, <4>5, <4>6, <4>7
      <4>. HIDE DEF Good
      <4>. QED
        BY <4>8
    <3>2. CASE ~(k + 2 <= n)
      BY <3>2
    <3>. QED
      BY <3>1, <3>2
  <2>5. Nat \subseteq U
    <3>. HIDE DEF U
    <3>. QED
      BY <2>3, <2>4, NatInd
  <2>6. n - 1 \in Nat /\ (n - 1) + 1 = n
    BY <1>3
  <2>7. Good(n)
    <3>1. n - 1 \in U
      BY <2>5, <2>6
    <3>. HIDE DEF Good
    <3>. QED
      BY <2>6, <3>1
  <2>. QED
    BY <1>1, <2>1, <2>7
<1>. QED
  BY <1>2, <1>3

-----------------------------------------------------------------------------
(* The job table of JobQueue.                                              *)

ValidJob(job) ==
  /\ job \in SomeJob
  /\ job.parts # << >> /\ IsInjective(job.parts)
  /\ job.state # "PENDING" => job.tasks = 1
  /\ job.state \in Live \ {"PENDING"} => Len(job.parts) = 1

JobTable == /\ jobs = [j \in JobIds |-> jobs[j]]
            /\ \A j \in JobIds : jobs[j] = None \/ ValidJob(jobs[j])
            /\ {marked, withTerminalStates} \subseteq BOOLEAN

\* A free entry is not taken for a job.
LEMMA NoJob ==
  /\ None.state = "NONE" /\ "NONE" \notin Live \cup Ends /\ "NONE" \notin DefaultStates
  /\ \A job \in SomeJob : job.state \in Live \cup Ends /\ job.state # "NONE" /\ job # None
<1>1. None.state = "NONE"
  BY DEF None
<1>2. "NONE" \notin Live \cup Ends /\ "NONE" \notin DefaultStates
  BY JobQueueAssumption DEF Live
<1>3. \A job \in SomeJob : job.state \in Live \cup Ends
  BY DEF SomeJob
<1>. QED
  BY <1>1, <1>2, <1>3

\* The fields of a job that leaves the queue, whatever their types.
LEMMA FieldsChanged ==
  ASSUME NEW Us, NEW As, NEW Ps, NEW Ts, NEW Ss, NEW Rs,
         NEW job \in [user : Us, account : As, parts : Ps, cpus : Nat, gpus : Nat,
                      tasks : Ts, state : Ss, reason : Rs],
         NEW st \in Ss, NEW r \in Rs, NEW ps \in Ps, NEW one \in Ts,
         NEW new, new = [job EXCEPT !.state = st, !.parts = ps, !.reason = r, !.tasks = one]
  PROVE  /\ new \in [user : Us, account : As, parts : Ps, cpus : Nat, gpus : Nat,
                     tasks : Ts, state : Ss, reason : Rs]
         /\ new.parts = ps /\ new.state = st /\ new.tasks = one
OBVIOUS

\* What becomes of a pending job, or a task of it.
Became(new, job, st, ps, r) ==
  /\ job \in SomeJob /\ st \in Live \cup Ends /\ ps \in Seq(Partitions)
  /\ r \in PendingReasons \cup {NotPending}
  /\ new = [job EXCEPT !.state = st, !.parts = ps, !.reason = r, !.tasks = 1]

\* A job that leaves the queue.
LEMMA Changed ==
  ASSUME NEW new, NEW job, NEW st, NEW ps, NEW r, Became(new, job, st, ps, r)
  PROVE  new \in SomeJob /\ new.parts = ps /\ new.state = st /\ new.tasks = 1
<1>1. PICK Us, As, Rs, Ss, Ps, Ts : /\ Us = {s.user : s \in Shapes} /\ As = {s.account : s \in Shapes}
                                    /\ Rs = PendingReasons \cup {NotPending} /\ Ss = Live \cup Ends
                                    /\ Ps = Seq(Partitions) /\ Ts = Nat \ {0}
  OBVIOUS
<1>2. SomeJob = [user : Us, account : As, parts : Ps, cpus : Nat, gpus : Nat,
                 tasks : Ts, state : Ss, reason : Rs]
  BY <1>1 DEF SomeJob
<1>3. PICK one \in Ts : one = 1
  BY <1>1
<1>4. st \in Ss /\ ps \in Ps /\ r \in Rs
  BY <1>1 DEF Became
<1>5. job \in [user : Us, account : As, parts : Ps, cpus : Nat, gpus : Nat,
               tasks : Ts, state : Ss, reason : Rs]
  BY <1>2 DEF Became
<1>6. new = [job EXCEPT !.state = st, !.parts = ps, !.reason = r, !.tasks = one]
  BY <1>3 DEF Became
<1>7. /\ new \in [user : Us, account : As, parts : Ps, cpus : Nat, gpus : Nat,
                     tasks : Ts, state : Ss, reason : Rs]
      /\ new.parts = ps /\ new.state = st /\ new.tasks = one
  BY <1>4, <1>5, <1>6, FieldsChanged
<1>. QED
  BY <1>2, <1>3, <1>7

\* The jobs that come and go keep the table well formed.
THEOREM JobTableCorrect == QueueSpec => []JobTable
<1>1. QueueInit => JobTable
  BY DEF QueueInit, JobTable
<1>2. ASSUME JobTable, [QueueNext]_queueVars PROVE JobTable'
  <2>. USE DEF JobTable
  <2>1. ASSUME NEW j, NEW job, Becomes(j, job), job = None \/ ValidJob(job) PROVE JobTable'
    BY <1>2, <2>1 DEF Becomes
  <2>2. ASSUME NEW j \in JobIds, NEW job, Task(j, job), ValidJob(job), jobs[j].state = "PENDING"
        PROVE  JobTable'
    <3>1. CASE Becomes(j, job)
      BY <2>1, <2>2, <3>1
    <3>2. CASE /\ jobs[j].tasks > 1
               /\ jobs' = [jobs EXCEPT ![j].tasks = @ - 1, ![NextId] = job]
               /\ UNCHANGED <<marked, withTerminalStates>>
      <4>1. ValidJob(jobs[j])
        BY <1>2, <2>2, NoJob
      <4>2. PICK rest : rest = [jobs[j] EXCEPT !.tasks = @ - 1]
        OBVIOUS
      <4>3. ValidJob(rest)
        <5>1. jobs[j] \in SomeJob /\ jobs[j].tasks - 1 \in Nat \ {0}
          BY <3>2, <4>1 DEF ValidJob, SomeJob
        <5>2. /\ rest \in SomeJob
              /\ rest.parts = jobs[j].parts /\ rest.state = jobs[j].state
          BY <4>2, <5>1 DEF SomeJob
        <5>. QED
          BY <2>2, <4>1, <5>2 DEF ValidJob
      <4>4. \A i \in JobIds : jobs'[i] \in {job, rest, jobs[i]}
        BY <1>2, <3>2, <4>2
      <4>5. jobs' = [i \in JobIds |-> jobs'[i]]
        BY <1>2, <3>2
      <4>. QED
        BY <1>2, <2>2, <3>2, <4>3, <4>4, <4>5
    <3>. QED
      BY <2>2, <3>1, <3>2 DEF Task
  <2>3. CASE UNCHANGED queueVars
    BY <1>2, <2>3 DEF queueVars, JobIds, ValidJob, SomeJob
  <2>4. ASSUME Submit PROVE JobTable'
    <3>1. PICK s \in Shapes, r \in PendingReasons :
             Becomes(NextId, [user |-> s.user, account |-> s.account, parts |-> s.parts,
                       cpus |-> s.cpus, gpus |-> s.gpus, tasks |-> s.tasks,
                       state |-> "PENDING", reason |-> r])
      BY <2>4 DEF Submit
    <3>2. PICK job : job = [user |-> s.user, account |-> s.account, parts |-> s.parts,
                       cpus |-> s.cpus, gpus |-> s.gpus, tasks |-> s.tasks,
                       state |-> "PENDING", reason |-> r]
      OBVIOUS
    <3>3. /\ s.parts \in Seq(Partitions) /\ s.parts # << >> /\ IsInjective(s.parts)
          /\ s.cpus \in Nat /\ s.gpus \in Nat /\ s.tasks \in Nat \ {0}
      BY JobQueueAssumption
    <3>4. job \in SomeJob
      BY <3>2, <3>3 DEF SomeJob, Live
    <3>5. ValidJob(job)
      BY <3>2, <3>3, <3>4 DEF ValidJob
    <3>. QED
      BY <2>1, <3>1, <3>2, <3>5
  <2>5. ASSUME NEW j \in JobIds, jobs[j].state \in Live \cup Ends PROVE ValidJob(jobs[j])
    BY <1>2, <2>5, NoJob
  <2>6. ASSUME NEW j \in JobIds, Reconsider(j) PROVE JobTable'
    <3>1. PICK r \in PendingReasons : Becomes(j, [jobs[j] EXCEPT !.reason = r])
      BY <2>6 DEF Reconsider
    <3>2. PICK job : job = [jobs[j] EXCEPT !.reason = r]
      OBVIOUS
    <3>3. ValidJob(jobs[j])
      BY <2>5, <2>6 DEF Reconsider, Live
    <3>4. ValidJob(job)
      BY <3>2, <3>3 DEF ValidJob, SomeJob
    <3>. QED
      BY <2>1, <3>1, <3>2, <3>4
  <2>7. ASSUME NEW j \in JobIds, Start(j) PROVE JobTable'
    <3>1. PICK p \in Partitions :
             Task(j, [jobs[j] EXCEPT !.state = "RUNNING", !.parts = <<p>>,
                                     !.reason = NotPending, !.tasks = 1])
      BY <2>7 DEF Start
    <3>2. PICK job, one : /\ one = <<p>>
                          /\ job = [jobs[j] EXCEPT !.state = "RUNNING", !.parts = one,
                                                   !.reason = NotPending, !.tasks = 1]
      OBVIOUS
    <3>3. jobs[j].state = "PENDING" /\ ValidJob(jobs[j])
      BY <2>5, <2>7 DEF Start, Live
    <3>4. /\ one \in Seq(Partitions) /\ Len(one) = 1 /\ one # << >> /\ IsInjective(one)
      BY <3>2 DEF IsInjective
    <3>5. ValidJob(job)
      <4>1. jobs[j] \in SomeJob
        BY <3>3 DEF ValidJob
      <4>2. /\ job \in SomeJob
            /\ job.parts = one /\ job.state = "RUNNING" /\ job.tasks = 1
        <5>1. PICK old, st, r : old = jobs[j] /\ st = "RUNNING" /\ r = NotPending
          OBVIOUS
        <5>2. st \in Live \cup Ends /\ r \in PendingReasons \cup {NotPending}
          BY <5>1 DEF Live
        <5>3. Became(job, old, st, one, r)
          BY <3>2, <3>4, <4>1, <5>1, <5>2 DEF Became
        <5>4. job \in SomeJob /\ job.parts = one /\ job.state = st /\ job.tasks = 1
          BY <5>3, Changed
        <5>. QED
          BY <5>1, <5>4
      <4>. QED
        BY <3>4, <4>2 DEF ValidJob
    <3>. QED
      BY <2>2, <3>1, <3>2, <3>3, <3>5
  <2>8. ASSUME NEW j \in JobIds, Cancel(j) PROVE JobTable'
    <3>1. /\ Task(j, [jobs[j] EXCEPT !.state = "CANCELLED", !.reason = NotPending, !.tasks = 1])
          /\ "CANCELLED" \in Ends
      BY <2>8 DEF Cancel
    <3>2. PICK job : job = [jobs[j] EXCEPT !.state = "CANCELLED", !.reason = NotPending, !.tasks = 1]
      OBVIOUS
    <3>3. jobs[j].state = "PENDING" /\ ValidJob(jobs[j])
      BY <2>5, <2>8 DEF Cancel, Live
    <3>4. ValidJob(job)
      <4>1. jobs[j] \in SomeJob
        BY <3>3 DEF ValidJob
      <4>2. /\ job \in SomeJob
            /\ job.parts = jobs[j].parts /\ job.state = "CANCELLED" /\ job.tasks = 1
        <5>1. PICK old, st, r, ps : /\ old = jobs[j] /\ st = "CANCELLED" /\ r = NotPending
                                    /\ ps = old.parts
          OBVIOUS
        <5>2. /\ st \in Live \cup Ends /\ r \in PendingReasons \cup {NotPending}
              /\ ps \in Seq(Partitions)
          BY <3>1, <4>1, <5>1 DEF SomeJob
        <5>3. [old EXCEPT !.parts = old.parts] = old
          BY <4>1, <5>1 DEF SomeJob
        <5>4. Became(job, old, st, ps, r)
          BY <3>2, <4>1, <5>1, <5>2, <5>3 DEF Became
        <5>5. job \in SomeJob /\ job.parts = ps /\ job.state = st /\ job.tasks = 1
          BY <5>4, Changed
        <5>. QED
          BY <5>1, <5>5
      <4>3. "CANCELLED" \notin Live
        BY DEF Live
      <4>. QED
        BY <3>3, <4>2, <4>3 DEF ValidJob
    <3>. QED
      BY <2>2, <3>1, <3>2, <3>3, <3>4
  <2>9. ASSUME NEW j \in JobIds, NEW from \in Live \ {"PENDING"}, NEW to \in (Live \ {"PENDING"}) \cup (Ends \ Live),
               Moves(j, from, to)
        PROVE  JobTable'
    <3>1. PICK job : job = [jobs[j] EXCEPT !.state = to]
      OBVIOUS
    <3>2. ValidJob(jobs[j]) /\ jobs[j].state = from /\ Becomes(j, job)
      BY <2>5, <2>9, <3>1 DEF Moves
    <3>3. ValidJob(job)
      BY <2>9, <3>1, <3>2 DEF ValidJob, SomeJob
    <3>. QED
      BY <2>1, <3>2, <3>3
  <2>10. ASSUME NEW j \in JobIds, Suspend(j) \/ Resume(j) \/ Complete(j) \/ End(j) PROVE JobTable'
    <3>1. Live \cap Ends = {}
      BY JobQueueAssumption DEF Live
    <3>2. /\ "RUNNING" \in Live \ {"PENDING"} /\ "SUSPENDED" \in Live \ {"PENDING"}
          /\ "COMPLETING" \in Live \ {"PENDING"}
      BY DEF Live
    <3>3. \A e \in Ends : e \in Ends \ Live
      BY <3>1
    <3>4. CASE Suspend(j)
      BY <2>9, <3>2, <3>4 DEF Suspend
    <3>5. CASE Resume(j)
      BY <2>9, <3>2, <3>5 DEF Resume
    <3>6. CASE Complete(j)
      BY <2>9, <3>2, <3>6 DEF Complete
    <3>7. CASE End(j)
      BY <2>9, <3>2, <3>3, <3>7 DEF End
    <3>. QED
      BY <2>10, <3>4, <3>5, <3>6, <3>7
  <2>11. ASSUME NEW j \in JobIds, Forget(j) PROVE JobTable'
    BY <2>1, <2>11 DEF Forget
  <2>. HIDE DEF JobTable
  <2>. QED
    BY <1>2, <2>3, <2>4, <2>6, <2>7, <2>8, <2>10, <2>11 DEF QueueNext
<1>. QED
  BY <1>1, <1>2, PTL DEF QueueSpec

\* The table has jobs that there are and no others.
THEOREM QueueTypeCorrect == QueueSpec => []QueueTypeOK
<1>1. JobTable => QueueTypeOK
  <2> SUFFICES ASSUME JobTable PROVE QueueTypeOK
    OBVIOUS
  <2>1. jobs \in [JobIds -> {None} \cup SomeJob]
    BY DEF JobTable, ValidJob
  <2>2. \A j \in JobIds \ FreeIds : ValidJob(jobs[j])
    BY DEF JobTable, FreeIds
  <2>. QED
    BY <2>1, <2>2 DEF JobTable, QueueTypeOK, ValidJob
<1>. QED
  BY <1>1, JobTableCorrect, PTL

-----------------------------------------------------------------------------
(* squeue's listings of the jobs.                                          *)

\* The lines that there can be.
QueueLines == {JobLine(j) : j \in JobIds \ FreeIds}

\* A listing with cnt[j] lines of job j.
ListingOf(lines, cnt) ==
  /\ cnt = [j \in JobIds |-> cnt[j]]
  /\ \A j \in JobIds : cnt[j] \in Nat /\ (cnt[j] # 0 => jobs[j] # None)
  /\ lines = FlattenSeq([j \in JobIds |-> [i \in 1 .. cnt[j] |-> JobLine(j)]])

\* The parts of a listing.
LEMMA ListingParts ==
  ASSUME NEW cnt, \A j \in JobIds : cnt[j] \in Nat /\ (cnt[j] # 0 => jobs[j] # None),
         NEW seqs, seqs = [j \in JobIds |-> [i \in 1 .. cnt[j] |-> JobLine(j)]]
  PROVE  seqs \in Seq(Seq(QueueLines)) /\ DOMAIN seqs = JobIds
<1>1. MaxJobs \in Nat /\ JobIds = 1 .. MaxJobs
  BY JobQueueAssumption DEF JobIds
<1>2. ASSUME NEW j \in JobIds PROVE seqs[j] \in Seq(QueueLines)
  <2>1. \A i \in 1 .. cnt[j] : JobLine(j) \in QueueLines
    BY DEF QueueLines, FreeIds
  <2>2. seqs[j] = [i \in 1 .. cnt[j] |-> JobLine(j)] /\ cnt[j] \in Nat
    OBVIOUS
  <2>. QED
    BY <2>1, <2>2
<1>. QED
  BY <1>1, <1>2

\* The lines of a listing that count are those of the jobs that count.
LEMMA ListingSum ==
  ASSUME NEW lines, NEW cnt, ListingOf(lines, cnt),
         NEW v, \A x \in QueueLines : v[x] \in {0, 1},
         NEW w, \A j \in JobIds : w[j] = IF cnt[j] # 0 /\ v[JobLine(j)] = 1 THEN cnt[j] ELSE 0
  PROVE  lines \in Seq(QueueLines) /\ SeqSum(v, lines) = SumFunctionOnSet(w, JobIds)
<1>1. PICK seqs : seqs = [j \in JobIds |-> [i \in 1 .. cnt[j] |-> JobLine(j)]]
  OBVIOUS
<1>2. \A j \in JobIds : cnt[j] \in Nat /\ (cnt[j] # 0 => jobs[j] # None)
  BY DEF ListingOf
<1>3. lines = FlattenSeq(seqs)
  BY <1>1 DEF ListingOf
<1>4. seqs \in Seq(Seq(QueueLines)) /\ DOMAIN seqs = JobIds
  BY <1>1, <1>2, ListingParts
<1>5. lines \in Seq(QueueLines)
  BY <1>3, <1>4, FlattenHas
<1>6. Valued(v, QueueLines)
  BY DEF Valued
<1>7. ASSUME NEW j \in JobIds PROVE w[j] = SeqSum(v, seqs[j])
  <2>1. PICK c, l, s : c = cnt[j] /\ l = JobLine(j) /\ s = seqs[j]
    OBVIOUS
  <2>2. c \in Nat /\ s = [i \in 1 .. c |-> l]
    BY <1>1, <1>2, <2>1
  <2>3. PICK f, I : I = 1 .. c /\ f = [i \in I |-> v[l]]
    OBVIOUS
  <2>4. SeqSum(v, s) = SumFunctionOnSet(f, I)
    <3>1. [i \in DOMAIN s |-> v[s[i]]] = f
      BY <2>2, <2>3
    <3>2. DOMAIN f = I
      BY <2>3
    <3>. QED
      BY <3>1, <3>2 DEF SeqSum, SumFunction
  <2>5. IsFiniteSet(I) /\ Cardinality(I) = c
    BY <2>2, <2>3, FS_Interval
  <2>6. CASE c = 0
    <3>1. I = {}
      BY <2>3, <2>6
    <3>. QED
      BY <2>1, <2>4, <2>6, <3>1, SumEmpty
  <2>7. CASE c # 0 /\ v[l] = 1
    <3>1. \A i \in I : f[i] = 1
      BY <2>3, <2>7
    <3>2. SumFunctionOnSet(f, I) = Cardinality(I)
      BY <2>5, <3>1, SumOnes
    <3>. QED
      BY <2>1, <2>4, <2>5, <2>7, <3>2
  <2>8. CASE c # 0 /\ v[l] = 0
    <3>1. \A i \in I : f[i] = 0
      BY <2>3, <2>8
    <3>2. SumFunctionOnSet(f, I) = 0 * Cardinality(I)
      BY <2>5, <3>1, SumConst
    <3>3. SumFunctionOnSet(f, I) = 0
      BY <2>2, <2>5, <3>2
    <3>. QED
      BY <2>1, <2>4, <2>8, <3>3
  <2>9. c # 0 => l \in QueueLines
    BY <1>2, <2>1 DEF QueueLines, FreeIds
  <2>. QED
    BY <2>6, <2>7, <2>8, <2>9
<1>8. \A j \in DOMAIN seqs : w[j] = SeqSum(v, seqs[j])
  BY <1>4, <1>7
<1>. QED
  BY <1>3, <1>4, <1>5, <1>6, <1>8, FlattenSum

\* What squeue_jobs.go reads: a line for each task.
TaskCount == [j \in JobIds |-> IF jobs[j].state \in DefaultStates THEN jobs[j].tasks ELSE 0]

\* What queue.go reads: a line for each job or array.
QueueStatesAsked == IF withTerminalStates THEN Live \cup Ends ELSE DefaultStates
QueueCount == [j \in JobIds |->
                 IF jobs[j].state \in QueueStatesAsked /\ ~(ToSet(jobs[j].parts) \subseteq Hidden) THEN 1 ELSE 0]

\* The listing that accounts, users and partitions share has a line for each task.
LEMMA SqueueJobsListing ==
  ASSUME JobTable
  PROVE  ListingOf(SqueueJobsData, TaskCount)
<1>1. ASSUME NEW j \in JobIds
      PROVE  /\ TaskCount[j] \in Nat /\ (TaskCount[j] # 0 => jobs[j] # None)
             /\ JobLines(j, DefaultStates, jobs[j].tasks) = [i \in 1 .. TaskCount[j] |-> JobLine(j)]
  <2>1. jobs[j].state \in DefaultStates => jobs[j] # None /\ jobs[j].tasks \in Nat
    BY NoJob DEF JobTable, ValidJob, SomeJob
  <2>2. TaskCount[j] = IF jobs[j].state \in DefaultStates THEN jobs[j].tasks ELSE 0
    BY DEF TaskCount
  <2>3. PICK L : L = JobLine(j)
    OBVIOUS
  <2>4. [i \in 1 .. 0 |-> L] = << >>
    OBVIOUS
  <2>. QED
    BY <2>1, <2>2, <2>3, <2>4 DEF JobLines
<1>2. [j \in JobIds |-> JobLines(j, DefaultStates, jobs[j].tasks)]
        = [j \in JobIds |-> [i \in 1 .. TaskCount[j] |-> JobLine(j)]]
  BY <1>1
<1>. QED
  BY <1>1, <1>2 DEF ListingOf, SqueueJobsData, TaskCount

\* The listing of the queue collector has a line for each job or array that is not hidden.
LEMMA QueueListing ==
  ASSUME JobTable
  PROVE  ListingOf(QueueData, QueueCount)
<1>1. ASSUME NEW j \in JobIds, NEW n, n = IF ToSet(jobs[j].parts) \subseteq Hidden THEN 0 ELSE 1
      PROVE  /\ QueueCount[j] \in Nat /\ (QueueCount[j] # 0 => jobs[j] # None)
             /\ JobLines(j, QueueStatesAsked, n) = [i \in 1 .. QueueCount[j] |-> JobLine(j)]
  <2>1. jobs[j].state \in QueueStatesAsked => jobs[j] # None
    BY NoJob DEF JobTable, ValidJob, QueueStatesAsked
  <2>2. QueueCount[j] = IF jobs[j].state \in QueueStatesAsked THEN n ELSE 0
    BY <1>1 DEF QueueCount
  <2>3. PICK L : L = JobLine(j)
    OBVIOUS
  <2>4. [i \in 1 .. 0 |-> L] = << >>
    OBVIOUS
  <2>. QED
    BY <1>1, <2>1, <2>2, <2>3, <2>4 DEF JobLines
<1>2. [j \in JobIds |-> JobLines(j, QueueStatesAsked, IF ToSet(jobs[j].parts) \subseteq Hidden THEN 0 ELSE 1)]
        = [j \in JobIds |-> [i \in 1 .. QueueCount[j] |-> JobLine(j)]]
  BY <1>1
<1>. QED
  BY <1>1, <1>2 DEF ListingOf, QueueData, QueueCount, QueueStatesAsked

-----------------------------------------------------------------------------
(* The counters of the queue collector.                                    *)

\* Counts of finitely many things.
Counts(f) == IsFiniteSet(DOMAIN f) /\ \A x \in DOMAIN f : f[x] \in Int

\* g[i] has the counters that inc[1] to inc[i] were added to.
Accrues(g, inc, n) ==
  /\ DOMAIN g[0] = {}
  /\ \A i \in 1 .. n : /\ Counts(inc[i])
                       /\ \/ g[i] = Incr(g[i - 1], inc[i])
                          \/ g[i] = g[i - 1] /\ DOMAIN inc[i] = {}

\* What one addition does to the set of counters.
LEMMA IncrDomain ==
  ASSUME NEW m, NEW inc
  PROVE  DOMAIN Incr(m, inc) = DOMAIN m \cup DOMAIN inc
BY DEF Incr

\* What one addition does to a counter.
LEMMA IncrAt ==
  ASSUME NEW m, NEW inc, NEW x, At(m, x) \in Int, At(inc, x) \in Int
  PROVE  At(Incr(m, inc), x) = At(m, x) + At(inc, x)
<1>1. CASE x \in DOMAIN m \cup DOMAIN inc
  BY <1>1, IncrDomain DEF Incr, At
<1>2. CASE x \notin DOMAIN m \cup DOMAIN inc
  <2>1. At(m, x) = 0 /\ At(inc, x) = 0
    BY <1>2 DEF At
  <2>2. At(Incr(m, inc), x) = 0
    BY <1>2, IncrDomain DEF At
  <2>. QED
    BY <2>1, <2>2
<1>. QED
  BY <1>1, <1>2

\* c[i] is what inc[i] adds to the counter x.
AddedTo(x, c, inc, n) == \A i \in 1 .. n : c[i] = At(inc[i], x)

\* A counter ends as the sum of what was added to it.
LEMMA Accrual ==
  ASSUME NEW n \in Nat, NEW g, NEW inc, Accrues(g, inc, n), NEW x, NEW c, AddedTo(x, c, inc, n)
  PROVE  /\ At(g[n], x) = SumFunctionOnSet(c, 1 .. n)
         /\ x \in DOMAIN g[n] <=> \E i \in 1 .. n : x \in DOMAIN inc[i]
<1>. USE DEF AddedTo
<1>. DEFINE Good(k) == /\ At(g[k], x) = SumFunctionOnSet(c, 1 .. k)
                       /\ At(g[k], x) \in Int
                       /\ x \in DOMAIN g[k] <=> \E i \in 1 .. k : x \in DOMAIN inc[i]
            U == {k \in Nat : k <= n => Good(k)}
<1>1. 0 \in U
  <2>1. 1 .. 0 = {}
    OBVIOUS
  <2>2. SumFunctionOnSet(c, 1 .. 0) = 0
    BY <2>1, SumEmpty
  <2>3. x \notin DOMAIN g[0]
    BY DEF Accrues
  <2>4. Good(0)
    BY <2>1, <2>2, <2>3 DEF At
  <2>. HIDE DEF Good
  <2>. QED
    BY <2>4
<1>2. \A i \in 1 .. n : c[i] \in Int
  BY DEF Accrues, Counts, At
<1>3. ASSUME NEW k \in Nat, k \in U PROVE k + 1 \in U
  <2>1. CASE k + 1 <= n
    <3>1. PICK m, d, e : m = g[k] /\ d = inc[k + 1] /\ e = g[k + 1]
      OBVIOUS
    <3>2. k + 1 \in 1 .. n /\ (k + 1) - 1 = k /\ k <= n
      BY <2>1
    <3>3. Good(k)
      <4>. HIDE DEF Good
      <4>. QED
        BY <1>3, <3>2
    <3>4. e = Incr(m, d) \/ (e = m /\ DOMAIN d = {})
      BY <3>1, <3>2 DEF Accrues
    <3>5. c[k + 1] = At(d, x) /\ c[k + 1] \in Int
      BY <1>2, <3>1, <3>2
    <3>6. At(m, x) \in Int
      BY <3>1, <3>3
    <3>7. /\ At(e, x) = At(m, x) + At(d, x)
          /\ DOMAIN e = DOMAIN m \cup DOMAIN d
      <4>3. At(d, x) \in Int
        BY <3>5
      <4>1. CASE e = Incr(m, d)
        <5>1. DOMAIN e = DOMAIN m \cup DOMAIN d
          BY <4>1, IncrDomain
        <5>2. At(Incr(m, d), x) = At(m, x) + At(d, x)
          BY <3>6, <4>3, IncrAt
        <5>. QED
          BY <4>1, <5>1, <5>2
      <4>2. CASE e = m /\ DOMAIN d = {}
        BY <3>6, <4>2 DEF At
      <4>. QED
        BY <3>4, <4>1, <4>2
    <3>8. \A i \in 1 .. k + 1 : c[i] \in Int
      BY <1>2, <3>2
    <3>9. SumFunctionOnSet(c, 1 .. k + 1) = c[k + 1] + SumFunctionOnSet(c, 1 .. k)
      BY <3>8, SumUpTo
    <3>10. At(e, x) = SumFunctionOnSet(c, 1 .. k + 1) /\ At(e, x) \in Int
      BY <3>1, <3>3, <3>5, <3>6, <3>7, <3>9
    <3>11. 1 .. k + 1 = (1 .. k) \cup {k + 1}
      OBVIOUS
    <3>12. x \in DOMAIN e <=> \E i \in 1 .. k + 1 : x \in DOMAIN inc[i]
      BY <3>1, <3>3, <3>7, <3>11
    <3>13. Good(k + 1)
      BY <3>1, <3>10, <3>12
    <3>. HIDE DEF Good
    <3>. QED
      BY <3>13
  <2>2. CASE ~(k + 1 <= n)
    BY <2>2
  <2>. QED
    BY <2>1, <2>2
<1>4. Nat \subseteq U
  <2>. HIDE DEF U
  <2>. QED
    BY <1>1, <1>3, NatInd
<1>5. Good(n)
  <2>1. n \in U
    BY <1>4
  <2>. HIDE DEF Good
  <2>. QED
    BY <2>1
<1>. QED
  BY <1>5

\* There are finitely many counters.
LEMMA AccrualFinite ==
  ASSUME NEW n \in Nat, NEW g, NEW inc, Accrues(g, inc, n)
  PROVE  IsFiniteSet(DOMAIN g[n])
<1>. DEFINE U == {k \in Nat : k <= n => IsFiniteSet(DOMAIN g[k])}
<1>1. 0 \in U
  BY FS_EmptySet DEF Accrues
<1>2. ASSUME NEW k \in Nat, k \in U PROVE k + 1 \in U
  <2>1. CASE k + 1 <= n
    <3>1. PICK m, d, e : m = g[k] /\ d = inc[k + 1] /\ e = g[k + 1]
      OBVIOUS
    <3>2. k + 1 \in 1 .. n /\ (k + 1) - 1 = k /\ k <= n
      BY <2>1
    <3>3. IsFiniteSet(DOMAIN m)
      BY <1>2, <3>1, <3>2
    <3>4. Counts(d) /\ (e = Incr(m, d) \/ (e = m /\ DOMAIN d = {}))
      BY <3>1, <3>2 DEF Accrues
    <3>5. DOMAIN e = DOMAIN m \cup DOMAIN d
      BY <3>4, IncrDomain
    <3>6. IsFiniteSet(DOMAIN m \cup DOMAIN d)
      BY <3>3, <3>4, FS_Union DEF Counts
    <3>. QED
      BY <3>1, <3>5, <3>6
  <2>2. CASE ~(k + 1 <= n)
    BY <2>2
  <2>. QED
    BY <2>1, <2>2
<1>3. Nat \subseteq U
  <2>. HIDE DEF U
  <2>. QED
    BY <1>1, <1>2, NatInd
<1>. QED
  BY <1>3

\* What a line says of its job.
LEMMA LineOfJob ==
  ASSUME JobTable, NEW j \in JobIds \ FreeIds, NEW l, l = JobLine(j)
  PROVE  /\ l \in QueueLines
         /\ l.user = jobs[j].user /\ l.account = jobs[j].account
         /\ l.state = jobs[j].state /\ l.reason = jobs[j].reason
         /\ l.cores = jobs[j].cpus /\ l.gpus = jobs[j].gpus
         /\ squeuePartitions(l.part) = jobs[j].parts /\ DOMAIN l.part = DOMAIN jobs[j].parts
<1>1. ValidJob(jobs[j])
  BY DEF JobTable, FreeIds
<1>2. PICK parts : parts = jobs[j].parts
  OBVIOUS
<1>3. parts \in Seq(Partitions)
  BY <1>1, <1>2 DEF ValidJob, SomeJob
<1>4. PICK column : column = Column(parts)
  OBVIOUS
<1>5. DOMAIN column = DOMAIN parts /\ \A i \in DOMAIN parts : column[i].name = parts[i]
  BY <1>4 DEF Column
<1>6. squeuePartitions(column) = [i \in DOMAIN parts |-> parts[i]]
  BY <1>5 DEF squeuePartitions
<1>7. squeuePartitions(column) = parts
  BY <1>3, <1>6
<1>8. /\ l.user = jobs[j].user /\ l.account = jobs[j].account
      /\ l.state = jobs[j].state /\ l.reason = jobs[j].reason
      /\ l.cores = jobs[j].cpus /\ l.gpus = jobs[j].gpus
      /\ l.part = column
  BY <1>2, <1>4 DEF JobLine
<1>9. l \in QueueLines
  BY DEF QueueLines
<1>. QED
  BY <1>2, <1>5, <1>7, <1>8, <1>9

\* The keys that a line is counted under.
LineKeys(l) == IF l.state \in QueueStates
               THEN {SeriesKey(l, p) : p \in ToSet(squeuePartitions(l.part))} ELSE {}

\* The keys of partitions are different.
LEMMA KeyParts ==
  ASSUME NEW l, NEW p
  PROVE  SeriesKey(l, p).part = p /\ SeriesKey(l, p).state = l.state /\ SeriesKey(l, p).user = l.user
BY DEF SeriesKey

\* A line adds one to each of its partitions.
LEMMA OnceInEach ==
  ASSUME JobTable, NEW l \in QueueLines
  PROVE  /\ Counts(InEach(l, 1))
         /\ DOMAIN InEach(l, 1) = {SeriesKey(l, p) : p \in ToSet(squeuePartitions(l.part))}
         /\ \A k \in DOMAIN InEach(l, 1) : InEach(l, 1)[k] = 1
         /\ l.cores \in Nat
<1>1. PICK j \in JobIds \ FreeIds : l = JobLine(j)
  BY DEF QueueLines
<1>2. PICK names : names = jobs[j].parts
  OBVIOUS
<1>3. ValidJob(jobs[j])
  BY DEF JobTable, FreeIds
<1>4. names \in Seq(Partitions) /\ IsInjective(names) /\ jobs[j].cpus \in Nat
  BY <1>2, <1>3 DEF ValidJob, SomeJob
<1>5. PICK n \in Nat : DOMAIN names = 1 .. n
  BY <1>4
<1>6. squeuePartitions(l.part) = names /\ DOMAIN l.part = DOMAIN names /\ l.cores = jobs[j].cpus
  BY <1>1, <1>2, LineOfJob
<1>7. PICK keys : keys = [i \in 1 .. n |-> SeriesKey(l, names[i])]
  OBVIOUS
<1>8. InEach(l, 1) = [k \in ToSet(keys) |-> 1 * Times(k, keys)]
  BY <1>5, <1>6, <1>7 DEF InEach
<1>9. \A i1, i2 \in 1 .. n : keys[i1] = keys[i2] => i1 = i2
  BY <1>4, <1>5, <1>7, KeyParts DEF IsInjective
<1>10. ToSet(keys) = {keys[i] : i \in 1 .. n}
  BY <1>7 DEF ToSet
<1>11. ASSUME NEW k \in ToSet(keys) PROVE Times(k, keys) = 1
  <2>1. PICK i \in 1 .. n : k = keys[i]
    BY <1>10
  <2>2. {i1 \in DOMAIN keys : keys[i1] = k} = {i}
    BY <1>7, <1>9, <2>1
  <2>3. Cardinality({i}) = 1
    BY FS_Singleton
  <2>. QED
    BY <2>2, <2>3 DEF Times
<1>12. \A k \in ToSet(keys) : InEach(l, 1)[k] = 1
  BY <1>8, <1>11
<1>13. ToSet(keys) = {SeriesKey(l, p) : p \in ToSet(names)}
  BY <1>5, <1>7, <1>10 DEF ToSet
<1>14. IsFiniteSet(ToSet(keys))
  <2>1. IsFiniteSet(1 .. n)
    BY FS_Interval
  <2>2. \A k \in ToSet(keys) : \E i \in 1 .. n : k = keys[i]
    BY <1>10
  <2>. QED
    BY <2>1, <2>2, FiniteImage
<1>. QED
  BY <1>4, <1>6, <1>8, <1>12, <1>13, <1>14 DEF Counts

QueueRead == INSTANCE FoldProofs WITH Step <- AddLine

NoCounters == [jobs |-> Empty, cores |-> Empty, jobTotals |-> Empty, coreTotals |-> Empty]

\* g is what the loop over squeue's lines has counted after each of them.
CountedAlong(g, s, n) == /\ g[0] = NoCounters
                         /\ \A i \in 1 .. n : g[i] = AddLine(g[i - 1], s[i])
                         /\ ParseQueueMetrics(s) = g[n]

\* Such a trace there is.
LEMMA QueueTrace ==
  ASSUME NEW s, NEW n \in Nat, DOMAIN s = 1 .. n
  PROVE  \E g : CountedAlong(g, s, n)
<1>1. PICK none : none = NoCounters
  OBVIOUS
<1>2. ParseQueueMetrics(s) = QueueRead!Folded(none, s)
  BY <1>1 DEF NoCounters, ParseQueueMetrics, QueueRead!Folded, FoldLeft, MapThenFoldSet,
     QueueRead!MapThenFoldSet, Max, QueueRead!Greatest
<1>3. \E g : /\ g[0] = none
             /\ \A i \in 1 .. n : g[i] = AddLine(g[i - 1], s[i])
             /\ QueueRead!Folded(none, s) = g[n]
  BY QueueRead!Trace
<1>. QED
  BY <1>1, <1>2, <1>3 DEF CountedAlong

\* What a line adds to the totals.
AddsJobs(l, d) == IF l.state \in QueueStates THEN d = InEach(l, 1) ELSE DOMAIN d = {}
AddsTotal(l, n, d) == IF l.state \in QueueStates THEN d = [s \in {l.state} |-> n] ELSE DOMAIN d = {}

\* What each line adds to the jobs, and to the totals of jobs and cores.
Additions(lines, n, jb, tt, ct) ==
  \A i \in 1 .. n : /\ AddsJobs(lines[i], jb[i])
                    /\ AddsTotal(lines[i], 1, tt[i])
                    /\ AddsTotal(lines[i], lines[i].cores, ct[i])

\* The counters are what the lines add.
LEMMA QueueAccrues ==
  ASSUME JobTable, NEW lines \in Seq(QueueLines), NEW n \in Nat, DOMAIN lines = 1 .. n,
         NEW q, q = ParseQueueMetrics(lines),
         NEW jb, NEW tt, NEW ct, Additions(lines, n, jb, tt, ct)
  PROVE  \E gj, gt, gc : /\ Accrues(gj, jb, n) /\ gj[n] = q.jobs
                         /\ Accrues(gt, tt, n) /\ gt[n] = q.jobTotals
                         /\ Accrues(gc, ct, n) /\ gc[n] = q.coreTotals
<1>1. PICK g : CountedAlong(g, lines, n)
  BY QueueTrace
<1>2. /\ g[0] = NoCounters
      /\ \A i \in 1 .. n : g[i] = AddLine(g[i - 1], lines[i])
      /\ ParseQueueMetrics(lines) = g[n]
  BY <1>1 DEF CountedAlong
<1>4. PICK gj, gt, gc : /\ gj = [i \in 0 .. n |-> g[i].jobs]
                        /\ gt = [i \in 0 .. n |-> g[i].jobTotals]
                        /\ gc = [i \in 0 .. n |-> g[i].coreTotals]
  OBVIOUS
<1>5. DOMAIN gj[0] = {} /\ DOMAIN gt[0] = {} /\ DOMAIN gc[0] = {}
  BY <1>2, <1>4 DEF NoCounters, Empty
<1>6. ASSUME NEW i \in 1 .. n
      PROVE  /\ Counts(jb[i]) /\ Counts(tt[i]) /\ Counts(ct[i])
             /\ gj[i] = Incr(gj[i - 1], jb[i]) \/ (gj[i] = gj[i - 1] /\ DOMAIN jb[i] = {})
             /\ gt[i] = Incr(gt[i - 1], tt[i]) \/ (gt[i] = gt[i - 1] /\ DOMAIN tt[i] = {})
             /\ gc[i] = Incr(gc[i - 1], ct[i]) \/ (gc[i] = gc[i - 1] /\ DOMAIN ct[i] = {})
  <2>1. PICK l, m, e, d1, d2, d3 : /\ l = lines[i] /\ m = g[i - 1] /\ e = g[i]
                                   /\ d1 = jb[i] /\ d2 = tt[i] /\ d3 = ct[i]
    OBVIOUS
  <2>2. l \in QueueLines /\ i \in 0 .. n /\ i - 1 \in 0 .. n
    BY <2>1
  <2>3. e = AddLine(m, l)
    BY <1>2, <2>1
  <2>4. /\ gj[i] = e.jobs /\ gt[i] = e.jobTotals /\ gc[i] = e.coreTotals
        /\ gj[i - 1] = m.jobs /\ gt[i - 1] = m.jobTotals /\ gc[i - 1] = m.coreTotals
    BY <1>4, <2>1, <2>2
  <2>5. AddsJobs(l, d1) /\ AddsTotal(l, 1, d2) /\ AddsTotal(l, l.cores, d3)
    BY <2>1 DEF Additions
  <2>6. CASE l.state \notin QueueStates
    <3>1. e = m
      BY <2>3, <2>6 DEF AddLine
    <3>2. DOMAIN d1 = {} /\ DOMAIN d2 = {} /\ DOMAIN d3 = {}
      BY <2>5, <2>6 DEF AddsJobs, AddsTotal
    <3>3. Counts(d1) /\ Counts(d2) /\ Counts(d3)
      BY <3>2, FS_EmptySet DEF Counts
    <3>. QED
      BY <2>1, <2>4, <3>1, <3>2, <3>3
  <2>7. CASE l.state \in QueueStates
    <3>1. PICK t2, t3 : t2 = [s \in {l.state} |-> 1] /\ t3 = [s \in {l.state} |-> l.cores]
      OBVIOUS
    <3>2. d1 = InEach(l, 1) /\ d2 = t2 /\ d3 = t3
      BY <2>5, <2>7, <3>1 DEF AddsJobs, AddsTotal
    <3>3. /\ e.jobs = Incr(m.jobs, InEach(l, 1))
          /\ e.jobTotals = Incr(m.jobTotals, t2)
          /\ e.coreTotals = Incr(m.coreTotals, t3)
      BY <2>3, <2>7, <3>1 DEF AddLine
    <3>4. Counts(InEach(l, 1)) /\ l.cores \in Nat
      BY <2>2, OnceInEach
    <3>5. IsFiniteSet({l.state})
      BY FS_Singleton
    <3>6. Counts(d1) /\ Counts(d2) /\ Counts(d3)
      BY <3>1, <3>2, <3>4, <3>5 DEF Counts
    <3>. QED
      BY <2>1, <2>4, <3>2, <3>3, <3>6
  <2>. QED
    BY <2>6, <2>7
<1>7. Accrues(gj, jb, n) /\ Accrues(gt, tt, n) /\ Accrues(gc, ct, n)
  BY <1>5, <1>6 DEF Accrues
<1>8. gj[n] = q.jobs /\ gt[n] = q.jobTotals /\ gc[n] = q.coreTotals
  <2>1. n \in 0 .. n
    OBVIOUS
  <2>. QED
    BY <1>2, <1>4, <2>1
<1>. QED
  BY <1>7, <1>8

\* Such additions there are.
LEMMA AdditionsExist ==
  ASSUME NEW lines, NEW n
  PROVE  \E jb, tt, ct : Additions(lines, n, jb, tt, ct)
<1>1. PICK jb, tt, ct :
        /\ jb = [i \in 1 .. n |-> IF lines[i].state \in QueueStates THEN InEach(lines[i], 1) ELSE Empty]
        /\ tt = [i \in 1 .. n |-> IF lines[i].state \in QueueStates THEN [s \in {lines[i].state} |-> 1] ELSE Empty]
        /\ ct = [i \in 1 .. n |-> IF lines[i].state \in QueueStates THEN [s \in {lines[i].state} |-> lines[i].cores] ELSE Empty]
  OBVIOUS
<1>2. ASSUME NEW i \in 1 .. n
      PROVE AddsJobs(lines[i], jb[i]) /\ AddsTotal(lines[i], 1, tt[i]) /\ AddsTotal(lines[i], lines[i].cores, ct[i])
  <2>1. PICK l : l = lines[i]
    OBVIOUS
  <2>2. DOMAIN Empty = {}
    BY DEF Empty
  <2>. QED
    BY <1>1, <2>1, <2>2 DEF AddsJobs, AddsTotal
<1>. QED
  BY <1>2 DEF Additions

\* c says which lines have the key k.
WithKey(c, k, lines, n) == \A i \in 1 .. n : c[i] = IF k \in LineKeys(lines[i]) THEN 1 ELSE 0

\* The queue collector has a counter for each key of each line, and it counts the lines that
\* have the key.
LEMMA QueueCounts ==
  ASSUME JobTable, NEW lines \in Seq(QueueLines), NEW n \in Nat, DOMAIN lines = 1 .. n,
         NEW q, q = ParseQueueMetrics(lines)
  PROVE  /\ IsFiniteSet(DOMAIN q.jobs)
         /\ \A k : k \in DOMAIN q.jobs <=> \E i \in 1 .. n : k \in LineKeys(lines[i])
         /\ \A k, c : WithKey(c, k, lines, n) => At(q.jobs, k) = SumFunctionOnSet(c, 1 .. n)
<1>1. PICK jb, tt, ct : Additions(lines, n, jb, tt, ct)
  BY AdditionsExist
<1>2. PICK gj : Accrues(gj, jb, n) /\ gj[n] = q.jobs
  BY <1>1, QueueAccrues
<1>3. ASSUME NEW i \in 1 .. n
      PROVE  /\ DOMAIN jb[i] = LineKeys(lines[i])
             /\ \A k \in DOMAIN jb[i] : jb[i][k] = 1
  <2>1. PICK l, d : l = lines[i] /\ d = jb[i]
    OBVIOUS
  <2>2. AddsJobs(l, d) /\ l \in QueueLines
    BY <1>1, <2>1 DEF Additions
  <2>3. CASE l.state \in QueueStates
    <3>1. d = InEach(l, 1)
      BY <2>2, <2>3 DEF AddsJobs
    <3>2. /\ DOMAIN d = {SeriesKey(l, p) : p \in ToSet(squeuePartitions(l.part))}
          /\ \A k \in DOMAIN d : d[k] = 1
      BY <2>2, <3>1, OnceInEach
    <3>. QED
      BY <2>1, <2>3, <3>2 DEF LineKeys
  <2>4. CASE l.state \notin QueueStates
    BY <2>1, <2>2, <2>4 DEF LineKeys, AddsJobs
  <2>. QED
    BY <2>3, <2>4
<1>4. IsFiniteSet(DOMAIN q.jobs)
  BY <1>2, AccrualFinite
<1>5. ASSUME NEW k PROVE k \in DOMAIN q.jobs <=> \E i \in 1 .. n : k \in LineKeys(lines[i])
  <2>1. PICK c : c = [i \in 1 .. n |-> At(jb[i], k)]
    OBVIOUS
  <2>2. AddedTo(k, c, jb, n)
    BY <2>1 DEF AddedTo
  <2>3. k \in DOMAIN gj[n] <=> \E i \in 1 .. n : k \in DOMAIN jb[i]
    BY <1>2, <2>2, Accrual
  <2>. QED
    BY <1>2, <1>3, <2>3
<1>6. ASSUME NEW k, NEW c, WithKey(c, k, lines, n)
      PROVE  At(q.jobs, k) = SumFunctionOnSet(c, 1 .. n)
  <2>1. AddedTo(k, c, jb, n)
    BY <1>3, <1>6 DEF At, AddedTo, WithKey
  <2>2. At(gj[n], k) = SumFunctionOnSet(c, 1 .. n)
    BY <1>2, <2>1, Accrual
  <2>. QED
    BY <1>2, <2>2
<1>. QED
  BY <1>4, <1>5, <1>6

\* c counts the lines that have one of the keys.
HasKey(c, K, lines, n) == \A i \in 1 .. n : c[i] = IF LineKeys(lines[i]) \cap K = {} THEN 0 ELSE 1

\* No line has two of the keys.
AtMostOne(K, lines, n) == \A i \in 1 .. n : \A k1, k2 \in LineKeys(lines[i]) \cap K : k1 = k2

\* The counters of keys of which no line has two add up to the number of lines that have one.
LEMMA QueueSum ==
  ASSUME JobTable, NEW lines \in Seq(QueueLines), NEW n \in Nat, DOMAIN lines = 1 .. n,
         NEW q, q = ParseQueueMetrics(lines),
         NEW K \in SUBSET DOMAIN q.jobs, AtMostOne(K, lines, n),
         NEW c, HasKey(c, K, lines, n)
  PROVE  SumFunctionOnSet(q.jobs, K) = SumFunctionOnSet(c, 1 .. n)
<1>1. PICK I : I = 1 .. n
  OBVIOUS
<1>2. IsFiniteSet(I)
  BY <1>1, FS_Interval
<1>3. IsFiniteSet(DOMAIN q.jobs)
  BY QueueCounts
<1>4. IsFiniteSet(K)
  BY <1>3, FS_Subset
<1>5. PICK a, b : /\ a = [i \in I |-> [k \in K |-> IF k \in LineKeys(lines[i]) THEN 1 ELSE 0]]
                  /\ b = [k \in K |-> [i \in I |-> IF k \in LineKeys(lines[i]) THEN 1 ELSE 0]]
  OBVIOUS
<1>6. Table(a, b, I, K)
  BY <1>5 DEF Table
<1>7. RowSums(a, I, K, c)
  <2>1. ASSUME NEW i \in I PROVE c[i] = SumFunctionOnSet(a[i], K)
    <3>1. PICK r, L : r = a[i] /\ L = LineKeys(lines[i])
      OBVIOUS
    <3>2. \A k \in K : r[k] = IF k \in L THEN 1 ELSE 0
      BY <1>5, <3>1
    <3>3. c[i] = IF L \cap K = {} THEN 0 ELSE 1
      BY <1>1, <3>1 DEF HasKey
    <3>4. CASE L \cap K = {}
      <4>1. \A k \in {} : r[k] \in Int /\ r[k] = r[k]
        OBVIOUS
      <4>2. \A k \in K \ {} : r[k] = 0
        BY <3>2, <3>4
      <4>3. SumFunctionOnSet(r, K) = SumFunctionOnSet(r, {})
        BY <1>4, <4>1, <4>2, SumFilter
      <4>4. SumFunctionOnSet(r, {}) = 0
        BY SumEmpty
      <4>. QED
        BY <3>1, <3>3, <3>4, <4>3, <4>4
    <3>5. CASE L \cap K # {}
      <4>1. PICK k \in K : k \in L
        BY <3>5
      <4>2. r[k] = 1
        BY <3>2, <4>1
      <4>3. \A k1 \in K \ {k} : r[k1] = 0
        <5>1. \A k1 \in K : k1 \in L => k1 = k
          BY <1>1, <3>1, <4>1 DEF AtMostOne
        <5>. QED
          BY <3>2, <5>1
      <4>4. \A k1 \in {k} : r[k1] \in Int /\ r[k1] = r[k1]
        BY <4>2
      <4>5. SumFunctionOnSet(r, K) = SumFunctionOnSet(r, {k})
        BY <1>4, <4>1, <4>3, <4>4, SumFilter
      <4>7. r[k] \in Int
        BY <4>2
      <4>6. SumFunctionOnSet(r, {k}) = r[k]
        BY <4>7, SumOne
      <4>. QED
        BY <3>1, <3>3, <3>5, <4>2, <4>5, <4>6
    <3>. QED
      BY <3>4, <3>5
  <2>. QED
    BY <2>1 DEF RowSums
<1>8. RowSums(b, K, I, q.jobs)
  <2>1. ASSUME NEW k \in K PROVE q.jobs[k] = SumFunctionOnSet(b[k], I)
    <3>1. PICK r : r = b[k]
      OBVIOUS
    <3>2. WithKey(r, k, lines, n)
      BY <1>1, <1>5, <3>1 DEF WithKey
    <3>3. At(q.jobs, k) = SumFunctionOnSet(r, 1 .. n)
      BY <3>2, QueueCounts
    <3>. QED
      BY <1>1, <3>1, <3>3 DEF At
  <2>. QED
    BY <2>1 DEF RowSums
<1>9. SumFunctionOnSet(c, I) = SumFunctionOnSet(q.jobs, K)
  BY <1>2, <1>4, <1>6, <1>7, <1>8, SumSwap
<1>. QED
  BY <1>1, <1>9

\* Whatever is said of squeue's listing for the queue collector holds of a sequence of lines.
LEMMA QueueDataLines ==
  ASSUME JobTable
  PROVE  QueueData \in Seq(QueueLines)
<1>1. PICK v, w : /\ v = [x \in QueueLines |-> 0]
                  /\ w = [j \in JobIds |-> 0]
  OBVIOUS
<1>2. ListingOf(QueueData, QueueCount)
  BY QueueListing
<1>3. \A x \in QueueLines : v[x] \in {0, 1}
  BY <1>1
<1>4. \A j \in JobIds : w[j] = IF QueueCount[j] # 0 /\ v[JobLine(j)] = 1 THEN QueueCount[j] ELSE 0
  <2>1. ASSUME NEW j \in JobIds, QueueCount[j] # 0 PROVE v[JobLine(j)] = 0
    <3>1. jobs[j] # None
      BY <1>2, <2>1 DEF ListingOf
    <3>2. JobLine(j) \in QueueLines
      BY <3>1 DEF QueueLines, FreeIds
    <3>. QED
      BY <1>1, <3>2
  <2>. QED
    BY <1>1, <2>1
<1>. QED
  BY <1>2, <1>3, <1>4, ListingSum

\* The lines in a state.
OfState(lines, s) == {i \in DOMAIN lines : lines[i].state = s}

\* The totals count each line once, whatever its partitions.
LEMMA TotalsCount ==
  ASSUME JobTable, NEW lines \in Seq(QueueLines), NEW q, q = ParseQueueMetrics(lines),
         NEW s \in QueueStates, NEW of, of = OfState(lines, s),
         NEW cores, DOMAIN cores = of, \A i \in of : cores[i] = lines[i].cores
  PROVE  At(q.jobTotals, s) = Cardinality(of) /\ At(q.coreTotals, s) = SumFunction(cores)
<1>0. of = {i \in DOMAIN lines : lines[i].state = s}
  BY DEF OfState
<1>1. PICK n \in Nat : DOMAIN lines = 1 .. n
  OBVIOUS
<1>2. PICK jb, tt, ct : Additions(lines, n, jb, tt, ct)
  BY AdditionsExist
<1>3. PICK gt, gc : /\ Accrues(gt, tt, n) /\ gt[n] = q.jobTotals
                    /\ Accrues(gc, ct, n) /\ gc[n] = q.coreTotals
  BY <1>1, <1>2, QueueAccrues
<1>4. PICK I, c, d : /\ I = 1 .. n
                     /\ c = [i \in I |-> At(tt[i], s)]
                     /\ d = [i \in I |-> At(ct[i], s)]
  OBVIOUS
<1>5. AddedTo(s, c, tt, n) /\ AddedTo(s, d, ct, n)
  BY <1>4 DEF AddedTo
<1>6. At(gt[n], s) = SumFunctionOnSet(c, 1 .. n)
  BY <1>3, <1>5, Accrual
<1>7. At(gc[n], s) = SumFunctionOnSet(d, 1 .. n)
  BY <1>3, <1>5, Accrual
<1>8. IsFiniteSet(I) /\ of \in SUBSET I
  BY <1>0, <1>1, <1>4, FS_Interval
<1>9. IsFiniteSet(of)
  BY <1>8, FS_Subset
<1>10. ASSUME NEW i \in I
       PROVE  /\ i \in of => c[i] = 1 /\ d[i] = lines[i].cores /\ d[i] \in Int
              /\ i \notin of => c[i] = 0 /\ d[i] = 0
  <2>1. PICK l, t, u : l = lines[i] /\ t = tt[i] /\ u = ct[i]
    OBVIOUS
  <2>2. l \in QueueLines /\ AddsTotal(l, 1, t) /\ AddsTotal(l, l.cores, u)
    BY <1>1, <1>2, <1>4, <2>1 DEF Additions
  <2>3. i \in of <=> l.state = s
    BY <1>0, <1>1, <1>4, <2>1
  <2>4. c[i] = At(t, s) /\ d[i] = At(u, s)
    BY <1>4, <2>1
  <2>5. CASE l.state \in QueueStates
    <3>1. t = [x \in {l.state} |-> 1] /\ u = [x \in {l.state} |-> l.cores]
      BY <2>2, <2>5 DEF AddsTotal
    <3>2. l.cores \in Nat
      BY <2>2, OnceInEach
    <3>3. DOMAIN t = {l.state} /\ DOMAIN u = {l.state} /\ t[l.state] = 1 /\ u[l.state] = l.cores
      BY <3>1
    <3>. QED
      BY <2>1, <2>3, <2>4, <3>2, <3>3 DEF At
  <2>6. CASE l.state \notin QueueStates
    BY <2>2, <2>3, <2>4, <2>6 DEF AddsTotal, At
  <2>. QED
    BY <2>5, <2>6
<1>11. SumFunctionOnSet(c, I) = SumFunctionOnSet(c, of)
  BY <1>8, <1>10, SumFilter
<1>12. SumFunctionOnSet(c, of) = Cardinality(of)
  BY <1>8, <1>9, <1>10, SumOnes
<1>13. SumFunctionOnSet(d, I) = SumFunctionOnSet(cores, of)
  <2>1. \A i \in of : d[i] \in Int /\ d[i] = cores[i]
    BY <1>8, <1>10
  <2>2. SumFunctionOnSet(d, I) = SumFunctionOnSet(d, of)
    BY <1>8, <1>10, SumFilter
  <2>3. SumFunctionOnSet(d, of) = SumFunctionOnSet(cores, of)
    BY <1>9, <2>1, SumSame
  <2>. QED
    BY <2>2, <2>3
<1>14. SumFunction(cores) = SumFunctionOnSet(cores, of)
  BY DEF SumFunction
<1>. QED
  BY <1>3, <1>4, <1>6, <1>7, <1>11, <1>12, <1>13, <1>14

\* The cluster's totals count every job once.
THEOREM TotalsCorrect == QueueSpec => []TotalsCountJobs
<1>1. ASSUME JobTable PROVE TotalsCountJobs
  <2>1. PICK lines : lines = QueueData
    OBVIOUS
  <2>2. PICK q : q = ParseQueueMetrics(lines)
    OBVIOUS
  <2>3. lines \in Seq(QueueLines)
    BY <1>1, <2>1, QueueDataLines
  <2>4. ASSUME NEW s \in QueueStates, NEW of, of = {i \in DOMAIN lines : lines[i].state = s}
        PROVE  /\ emitGlobalTotals(q.jobTotals)[s] = Cardinality(of)
               /\ emitGlobalTotals(q.coreTotals)[s] = SumFunction([i \in of |-> lines[i].cores])
    <3>1. PICK cores : cores = [i \in of |-> lines[i].cores]
      OBVIOUS
    <3>2. At(q.jobTotals, s) = Cardinality(of) /\ At(q.coreTotals, s) = SumFunction(cores)
      <4>1. DOMAIN cores = of /\ \A i \in of : cores[i] = lines[i].cores
        BY <3>1
      <4>. QED
        <5>1. of = OfState(lines, s)
          BY <2>4 DEF OfState
        <5>. QED
          BY <1>1, <2>2, <2>3, <4>1, <5>1, TotalsCount
    <3>3. emitGlobalTotals(q.jobTotals)[s] = At(q.jobTotals, s) /\ emitGlobalTotals(q.coreTotals)[s] = At(q.coreTotals, s)
      BY DEF emitGlobalTotals
    <3>. QED
      BY <3>1, <3>2, <3>3
  <2>. QED
    BY <2>1, <2>2, <2>4 DEF TotalsCountJobs
<1>. QED
  BY <1>1, JobTableCorrect, PTL

\* Labels keep all of a key but the user.
LEMMA LabelsSay ==
  ASSUME NEW l, NEW p
  PROVE  /\ Labels(SeriesKey(l, p)).part = p
         /\ Labels(SeriesKey(l, p)).state = l.state
BY DEF Labels, SeriesKey

\* Partitions of a line are partitions.
LEMMA LineParts ==
  ASSUME JobTable, NEW l \in QueueLines
  PROVE  ToSet(squeuePartitions(l.part)) \subseteq Partitions
<1>1. PICK j \in JobIds \ FreeIds : l = JobLine(j)
  BY DEF QueueLines
<1>2. squeuePartitions(l.part) = jobs[j].parts
  BY <1>1, LineOfJob
<1>3. jobs[j].parts \in Seq(Partitions)
  BY DEF JobTable, FreeIds, ValidJob, SomeJob
<1>. QED
  BY <1>2, <1>3 DEF ToSet

\* Each series is as large as the number of lines that are counted in it.
CountsLabels(counts, lines) ==
  \A ls \in DOMAIN counts : counts[ls] = Cardinality({i \in DOMAIN lines : ls \in LineLabels(lines[i])})

\* Each series counts the lines that are counted in it.
LEMMA AggregateCounts ==
  ASSUME JobTable, NEW lines \in Seq(QueueLines), NEW q, q = ParseQueueMetrics(lines),
         NEW counts, counts = pushAggregated(q.jobs)
  PROVE  /\ \A ls \in DOMAIN counts : ls.part \in Partitions /\ ls.state \in QueueStates
         /\ \A ls : ls \in DOMAIN counts <=>
               \E i \in DOMAIN lines : lines[i].state \in QueueStates /\ ls \in LineLabels(lines[i])
         /\ CountsLabels(counts, lines)
<1>1. PICK n \in Nat : DOMAIN lines = 1 .. n
  OBVIOUS
<1>2. PICK m : m = q.jobs
  OBVIOUS
<1>3. \A k : k \in DOMAIN m <=> \E i \in 1 .. n : k \in LineKeys(lines[i])
  BY <1>1, <1>2, QueueCounts
<1>4. /\ DOMAIN counts = {Labels(k) : k \in DOMAIN m}
      /\ \A ls \in DOMAIN counts : counts[ls] = SumFunctionOnSet(m, {k \in DOMAIN m : Labels(k) = ls})
  BY <1>2 DEF pushAggregated
<1>5. ASSUME NEW k \in DOMAIN m
      PROVE  \E i \in 1 .. n : \E p \in ToSet(squeuePartitions(lines[i].part)) :
                lines[i].state \in QueueStates /\ k = SeriesKey(lines[i], p)
  BY <1>3 DEF LineKeys
<1>6. ASSUME NEW i \in 1 .. n, NEW p \in ToSet(squeuePartitions(lines[i].part)), lines[i].state \in QueueStates
      PROVE  SeriesKey(lines[i], p) \in LineKeys(lines[i]) /\ SeriesKey(lines[i], p) \in DOMAIN m
  BY <1>3, <1>6 DEF LineKeys
<1>7. ASSUME NEW ls \in DOMAIN counts PROVE ls.part \in Partitions /\ ls.state \in QueueStates
  <2>1. PICK k \in DOMAIN m : ls = Labels(k)
    BY <1>4
  <2>2. PICK i \in 1 .. n : \E p \in ToSet(squeuePartitions(lines[i].part)) :
                lines[i].state \in QueueStates /\ k = SeriesKey(lines[i], p)
    BY <1>5
  <2>3. PICK p \in ToSet(squeuePartitions(lines[i].part)) :
                lines[i].state \in QueueStates /\ k = SeriesKey(lines[i], p)
    BY <2>2
  <2>4. lines[i] \in QueueLines
    BY <1>1
  <2>5. p \in Partitions
    BY <2>4, LineParts
  <2>. QED
    BY <2>1, <2>3, <2>5, LabelsSay
<1>8. ASSUME NEW ls
      PROVE  ls \in DOMAIN counts <=>
               \E i \in DOMAIN lines : lines[i].state \in QueueStates /\ ls \in LineLabels(lines[i])
  <2>1. ASSUME ls \in DOMAIN counts
        PROVE  \E i \in DOMAIN lines : lines[i].state \in QueueStates /\ ls \in LineLabels(lines[i])
    <3>1. PICK k \in DOMAIN m : ls = Labels(k)
      BY <1>4, <2>1
    <3>. QED
      BY <1>1, <1>5, <3>1 DEF LineLabels
  <2>2. ASSUME NEW i \in DOMAIN lines, lines[i].state \in QueueStates, ls \in LineLabels(lines[i])
        PROVE  ls \in DOMAIN counts
    <3>1. PICK p \in ToSet(squeuePartitions(lines[i].part)) : ls = Labels(SeriesKey(lines[i], p))
      BY <2>2 DEF LineLabels
    <3>2. SeriesKey(lines[i], p) \in DOMAIN m
      BY <1>1, <1>6, <2>2
    <3>. QED
      BY <1>4, <3>1, <3>2
  <2>. QED
    BY <2>1, <2>2
<1>9. ASSUME NEW ls \in DOMAIN counts
      PROVE  counts[ls] = Cardinality({i \in DOMAIN lines : ls \in LineLabels(lines[i])})
  <2>1. PICK I, K, T, c : /\ I = 1 .. n
                          /\ K = {k \in DOMAIN m : Labels(k) = ls}
                          /\ T = {i \in I : ls \in LineLabels(lines[i])}
                          /\ c = [i \in I |-> IF LineKeys(lines[i]) \cap K = {} THEN 0 ELSE 1]
    OBVIOUS
  <2>2. HasKey(c, K, lines, n)
    BY <2>1 DEF HasKey
  <2>3. AtMostOne(K, lines, n)
    <3>1. ASSUME NEW i \in 1 .. n, NEW k1 \in LineKeys(lines[i]) \cap K, NEW k2 \in LineKeys(lines[i]) \cap K
          PROVE  k1 = k2
      <4>1. PICK p1, p2 : k1 = SeriesKey(lines[i], p1) /\ k2 = SeriesKey(lines[i], p2)
        BY DEF LineKeys
      <4>2. Labels(k1).part = p1 /\ Labels(k2).part = p2
        BY <4>1, LabelsSay
      <4>3. Labels(k1) = Labels(k2)
        BY <2>1
      <4>. QED
        BY <4>1, <4>2, <4>3
    <3>. QED
      BY <3>1 DEF AtMostOne
  <2>4. K \in SUBSET DOMAIN q.jobs
    BY <1>2, <2>1
  <2>5. SumFunctionOnSet(q.jobs, K) = SumFunctionOnSet(c, 1 .. n)
    BY <1>1, <2>2, <2>3, <2>4, QueueSum
  <2>6. IsFiniteSet(I) /\ T \in SUBSET I
    BY <2>1, FS_Interval
  <2>7. IsFiniteSet(T)
    BY <2>6, FS_Subset
  <2>8. ASSUME NEW i \in I PROVE (i \in T => c[i] = 1) /\ (i \notin T => c[i] = 0)
    <3>1. i \in 1 .. n /\ c[i] = IF LineKeys(lines[i]) \cap K = {} THEN 0 ELSE 1
      BY <2>1
    <3>2. ASSUME i \in T PROVE LineKeys(lines[i]) \cap K # {}
      <4>1. PICK p \in ToSet(squeuePartitions(lines[i].part)) : ls = Labels(SeriesKey(lines[i], p))
        BY <2>1, <3>2 DEF LineLabels
      <4>2. lines[i].state \in QueueStates
        BY <1>7, <4>1, LabelsSay
      <4>3. SeriesKey(lines[i], p) \in LineKeys(lines[i]) /\ SeriesKey(lines[i], p) \in DOMAIN m
        BY <1>6, <3>1, <4>2
      <4>. QED
        BY <2>1, <4>1, <4>3
    <3>3. ASSUME LineKeys(lines[i]) \cap K # {} PROVE i \in T
      <4>1. PICK k : k \in LineKeys(lines[i]) /\ k \in K
        BY <3>3
      <4>2. PICK p \in ToSet(squeuePartitions(lines[i].part)) : k = SeriesKey(lines[i], p)
        BY <4>1 DEF LineKeys
      <4>3. ls = Labels(k)
        BY <2>1, <4>1
      <4>. QED
        BY <2>1, <4>2, <4>3 DEF LineLabels
    <3>. QED
      BY <3>1, <3>2, <3>3
  <2>9. SumFunctionOnSet(c, I) = SumFunctionOnSet(c, T)
    BY <2>6, <2>8, SumFilter
  <2>10. SumFunctionOnSet(c, T) = Cardinality(T)
    BY <2>6, <2>7, <2>8, SumOnes
  <2>11. counts[ls] = SumFunctionOnSet(m, K)
    BY <1>4, <2>1
  <2>12. T = {i \in DOMAIN lines : ls \in LineLabels(lines[i])}
    BY <1>1, <2>1
  <2>. QED
    BY <1>2, <2>1, <2>5, <2>9, <2>10, <2>11, <2>12
<1>10. CountsLabels(counts, lines)
  BY <1>9 DEF CountsLabels
<1>. QED
  BY <1>7, <1>8, <1>10

\* Without the user label, each series counts the jobs of all users.
THEOREM AggregateCorrect == QueueSpec => []AggregateCountsAll
<1>1. ASSUME JobTable PROVE AggregateCountsAll
  <2>1. PICK lines : lines = QueueData
    OBVIOUS
  <2>2. PICK q : q = ParseQueueMetrics(lines)
    OBVIOUS
  <2>3. PICK counts : counts = pushAggregated(q.jobs)
    OBVIOUS
  <2>4. lines \in Seq(QueueLines)
    BY <1>1, <2>1, QueueDataLines
  <2>5. \A ls \in DOMAIN counts : ls.part \in Partitions
    BY <1>1, <2>2, <2>3, <2>4, AggregateCounts
  <2>6. \A ls : ls \in DOMAIN counts <=>
               \E i \in DOMAIN lines : lines[i].state \in QueueStates /\ ls \in LineLabels(lines[i])
    BY <1>1, <2>2, <2>3, <2>4, AggregateCounts
  <2>7. CountsLabels(counts, lines)
    BY <1>1, <2>2, <2>3, <2>4, AggregateCounts
  <2>8. DOMAIN counts = UNION {LineLabels(lines[i]) : i \in {i \in DOMAIN lines : lines[i].state \in QueueStates}}
    BY <2>6
  <2>. QED
    BY <2>1, <2>2, <2>3, <2>5, <2>7, <2>8 DEF AggregateCountsAll, CountsLabels
<1>. QED
  BY <1>1, JobTableCorrect, PTL

\* v says which lines are in the state and the partition.
InPart(v, state, p) ==
  \A l \in QueueLines : v[l] = IF l.state = state /\ p \in ToSet(squeuePartitions(l.part)) THEN 1 ELSE 0

\* w counts n[j] for each job in the state and the partition.
JobsIn(w, state, p, n) ==
  \A j \in JobIds : w[j] = IF jobs[j].state = state /\ p \in ToSet(jobs[j].parts) THEN n[j] ELSE 0

\* One for each job.
Once == [j \in JobIds |-> 1]

\* One for each task of a job.
Tasks == [j \in JobIds |-> jobs[j].tasks]

\* What is known of a job in one of the two states that partitions.go asks for.
LEMMA JobIn ==
  ASSUME JobTable, NEW j \in JobIds, jobs[j].state \in {"PENDING", "RUNNING"}
  PROVE  /\ j \in JobIds \ FreeIds /\ ValidJob(jobs[j])
         /\ jobs[j].state \in DefaultStates /\ jobs[j].state \in QueueStatesAsked
         /\ jobs[j].state \in QueueStates
         /\ jobs[j].tasks \in Nat \ {0}
         /\ jobs[j].state = "RUNNING" => jobs[j].tasks = 1 /\ Len(jobs[j].parts) = 1
<1>1. jobs[j] # None
  BY NoJob
<1>2. ValidJob(jobs[j]) /\ j \in JobIds \ FreeIds
  BY <1>1 DEF JobTable, FreeIds
<1>3. jobs[j].state \in DefaultStates /\ jobs[j].state \in QueueStatesAsked /\ jobs[j].state \in QueueStates
  BY JobQueueAssumption DEF QueueStatesAsked, QueueStates, Live
<1>4. jobs[j].tasks \in Nat \ {0}
  BY <1>2 DEF ValidJob, SomeJob
<1>5. jobs[j].state = "RUNNING" => jobs[j].tasks = 1 /\ Len(jobs[j].parts) = 1
  BY <1>2 DEF ValidJob, Live
<1>. QED
  BY <1>2, <1>3, <1>4, <1>5

\* The queue collector counts the jobs in a visible partition, each once.
LEMMA QueuedIs ==
  ASSUME JobTable, NEW state \in {"PENDING", "RUNNING"}, NEW p \in Partitions \ Hidden,
         NEW q, q = queue, NEW w, JobsIn(w, state, p, Once)
  PROVE  Queued(q, state, p) = SumFunctionOnSet(w, JobIds)
<1>1. PICK lines : lines = QueueData
  OBVIOUS
<1>2. lines \in Seq(QueueLines) /\ ListingOf(lines, QueueCount)
  BY <1>1, QueueDataLines, QueueListing
<1>3. PICK n \in Nat : DOMAIN lines = 1 .. n
  BY <1>2
<1>4. q = ParseQueueMetrics(lines)
  BY <1>1 DEF queue
<1>5. PICK v : v = [l \in QueueLines |-> IF l.state = state /\ p \in ToSet(squeuePartitions(l.part)) THEN 1 ELSE 0]
  OBVIOUS
<1>6. InPart(v, state, p)
  BY <1>5 DEF InPart
<1>7. PICK I, K, c : /\ I = 1 .. n
                     /\ K = {k \in DOMAIN q.jobs : k.state = state /\ k.part = p}
                     /\ c = [i \in I |-> v[lines[i]]]
  OBVIOUS
<1>8. ASSUME NEW i \in 1 .. n
      PROVE  /\ c[i] = IF LineKeys(lines[i]) \cap K = {} THEN 0 ELSE 1
             /\ \A k1, k2 \in LineKeys(lines[i]) \cap K : k1 = k2
  <2>1. PICK l : l = lines[i]
    OBVIOUS
  <2>2. l \in QueueLines
    BY <1>2, <1>3, <2>1
  <2>3. c[i] = v[l]
    BY <1>7, <2>1
  <2>4. \A k : k \in LineKeys(l) => k \in DOMAIN q.jobs
    BY <1>2, <1>3, <1>4, <2>1, QueueCounts
  <2>5. \A k \in LineKeys(l) : k = SeriesKey(l, k.part) /\ k.state = l.state /\ k.part \in ToSet(squeuePartitions(l.part))
    BY KeyParts DEF LineKeys
  <2>6. state \in QueueStates
    BY DEF QueueStates
  <2>7. CASE l.state = state /\ p \in ToSet(squeuePartitions(l.part))
    <3>1. v[l] = 1
      BY <1>6, <2>2, <2>7 DEF InPart
    <3>2. PICK k : k = SeriesKey(l, p)
      OBVIOUS
    <3>3. k \in LineKeys(l)
      BY <2>6, <2>7, <3>2 DEF LineKeys
    <3>4. k.state = state /\ k.part = p
      BY <2>7, <3>2, KeyParts
    <3>5. k \in K
      BY <1>7, <2>4, <3>3, <3>4
    <3>6. \A k1 \in LineKeys(l) \cap K : k1 = k
      BY <1>7, <2>5, <3>2
    <3>. QED
      BY <2>1, <2>3, <3>1, <3>3, <3>5, <3>6
  <2>8. CASE ~(l.state = state /\ p \in ToSet(squeuePartitions(l.part)))
    <3>1. v[l] = 0
      BY <1>6, <2>2, <2>8 DEF InPart
    <3>2. LineKeys(l) \cap K = {}
      BY <1>7, <2>5, <2>8
    <3>. QED
      BY <2>1, <2>3, <3>1, <3>2
  <2>. QED
    BY <2>7, <2>8
<1>9. HasKey(c, K, lines, n) /\ AtMostOne(K, lines, n) /\ K \in SUBSET DOMAIN q.jobs
  BY <1>7, <1>8 DEF HasKey, AtMostOne
<1>10. SumFunctionOnSet(q.jobs, K) = SumFunctionOnSet(c, 1 .. n)
  BY <1>2, <1>3, <1>4, <1>9, QueueSum
<1>11. SeqSum(v, lines) = SumFunctionOnSet(c, 1 .. n)
  <2>1. [i \in DOMAIN lines |-> v[lines[i]]] = c /\ DOMAIN c = 1 .. n
    BY <1>3, <1>7
  <2>. QED
    BY <2>1 DEF SeqSum, SumFunction
<1>12. ASSUME NEW j \in JobIds
       PROVE  w[j] = IF QueueCount[j] # 0 /\ v[JobLine(j)] = 1 THEN QueueCount[j] ELSE 0
  <2>1. PICK l : l = JobLine(j)
    OBVIOUS
  <2>2. QueueCount[j] \in {0, 1} /\ (QueueCount[j] # 0 => j \in JobIds \ FreeIds)
    BY <1>2 DEF QueueCount, ListingOf, FreeIds
  <2>3. j \in JobIds \ FreeIds =>
          v[l] = IF jobs[j].state = state /\ p \in ToSet(jobs[j].parts) THEN 1 ELSE 0
    <3>1. ASSUME j \in JobIds \ FreeIds
          PROVE  l \in QueueLines /\ l.state = jobs[j].state /\ squeuePartitions(l.part) = jobs[j].parts
      BY <2>1, <3>1, LineOfJob
    <3>. QED
      BY <1>6, <3>1 DEF InPart
  <2>4. ASSUME jobs[j].state = state, p \in ToSet(jobs[j].parts)
        PROVE  QueueCount[j] = 1 /\ j \in JobIds \ FreeIds
    <3>1. j \in JobIds \ FreeIds /\ jobs[j].state \in QueueStatesAsked
      BY <2>4, JobIn
    <3>2. ~(ToSet(jobs[j].parts) \subseteq Hidden)
      BY <2>4
    <3>. QED
      BY <3>1, <3>2 DEF QueueCount
  <2>5. w[j] = IF jobs[j].state = state /\ p \in ToSet(jobs[j].parts) THEN 1 ELSE 0
    BY DEF JobsIn, Once
  <2>6. w[j] = IF QueueCount[j] # 0 /\ v[l] = 1 THEN QueueCount[j] ELSE 0
    BY <2>2, <2>3, <2>4, <2>5
  <2>. QED
    BY <2>1, <2>6
<1>13. \A x \in QueueLines : v[x] \in {0, 1}
  BY <1>6 DEF InPart
<1>14. SeqSum(v, lines) = SumFunctionOnSet(w, JobIds)
  BY <1>2, <1>12, <1>13, ListingSum
<1>. QED
  BY <1>7, <1>10, <1>11, <1>14 DEF Queued

\* A name is once in a list of different names, or not at all.
LEMMA TimesOnce ==
  ASSUME NEW S, NEW s \in Seq(S), IsInjective(s), NEW p
  PROVE  Times(p, s) = IF p \in ToSet(s) THEN 1 ELSE 0
<1>1. PICK D : D = {i \in DOMAIN s : s[i] = p}
  OBVIOUS
<1>2. CASE p \in ToSet(s)
  <2>1. PICK i \in DOMAIN s : s[i] = p
    BY <1>2 DEF ToSet
  <2>2. D = {i}
    BY <1>1, <2>1 DEF IsInjective
  <2>3. Cardinality({i}) = 1
    BY FS_Singleton
  <2>. QED
    BY <1>1, <1>2, <2>2, <2>3 DEF Times
<1>3. CASE p \notin ToSet(s)
  <2>1. D = {}
    BY <1>1, <1>3 DEF ToSet
  <2>2. Cardinality({}) = 0
    BY FS_EmptySet
  <2>. QED
    BY <1>1, <1>3, <2>1, <2>2 DEF Times
<1>. QED
  BY <1>2, <1>3

PartitionRead == INSTANCE FoldProofs WITH Step <- CountIn

\* What a column adds to the count of p.
ColumnNames(t, S, p) == \A x \in S : t[x] = Times(p, squeuePartitions(x)) /\ t[x] \in Int

\* A partition that sinfo knows ends with the number of times that the columns name it.
LEMMA PartitionCounts ==
  ASSUME NEW S, NEW s \in Seq(S), NEW p \in Partitions \ Hidden, NEW t, ColumnNames(t, S, p)
  PROVE  /\ FoldLeft(CountIn, Known, s)[p] = SeqSum(t, s)
         /\ DOMAIN FoldLeft(CountIn, Known, s) = Partitions \ Hidden
<1>1. PICK n \in Nat : DOMAIN s = 1 .. n
  OBVIOUS
<1>2. PICK none : none = Known
  OBVIOUS
<1>3. FoldLeft(CountIn, Known, s) = PartitionRead!Folded(none, s)
  BY <1>2 DEF PartitionRead!Folded, FoldLeft, MapThenFoldSet,
     PartitionRead!MapThenFoldSet, Max, PartitionRead!Greatest
<1>4. \E g : /\ g[0] = none
             /\ \A i \in 1 .. n : g[i] = CountIn(g[i - 1], s[i])
             /\ PartitionRead!Folded(none, s) = g[n]
  BY <1>1, PartitionRead!Trace
<1>5. PICK g : /\ g[0] = none
               /\ \A i \in 1 .. n : g[i] = CountIn(g[i - 1], s[i])
               /\ PartitionRead!Folded(none, s) = g[n]
  BY <1>4
<1>6. PICK c : c = [i \in DOMAIN s |-> t[s[i]]]
  OBVIOUS
<1>7. \A i \in 1 .. n : c[i] \in Int /\ c[i] = Times(p, squeuePartitions(s[i]))
  BY <1>1, <1>6 DEF ColumnNames
<1>. DEFINE Good(k) == DOMAIN g[k] = Partitions \ Hidden /\ g[k][p] = SumFunctionOnSet(c, 1 .. k) /\ g[k][p] \in Int
            U == {k \in Nat : k <= n => Good(k)}
<1>8. 0 \in U
  <2>1. 1 .. 0 = {}
    OBVIOUS
  <2>2. SumFunctionOnSet(c, 1 .. 0) = 0
    BY <2>1, SumEmpty
  <2>3. DOMAIN none = Partitions \ Hidden /\ none[p] = 0
    BY <1>2 DEF Known
  <2>4. Good(0)
    BY <1>5, <2>2, <2>3
  <2>. HIDE DEF Good
  <2>. QED
    BY <2>4
<1>9. ASSUME NEW k \in Nat, k \in U PROVE k + 1 \in U
  <2>1. CASE k + 1 <= n
    <3>1. k + 1 \in 1 .. n /\ (k + 1) - 1 = k /\ k <= n
      BY <2>1
    <3>2. Good(k)
      <4>. HIDE DEF Good
      <4>. QED
        BY <1>9, <3>1
    <3>3. PICK m, e, x : m = g[k] /\ e = g[k + 1] /\ x = s[k + 1]
      OBVIOUS
    <3>4. e = CountIn(m, x)
      BY <1>5, <3>1, <3>3
    <3>5. DOMAIN e = DOMAIN m /\ \A y \in DOMAIN m : e[y] = m[y] + Times(y, squeuePartitions(x))
      BY <3>4 DEF CountIn
    <3>6. DOMAIN m = Partitions \ Hidden /\ m[p] = SumFunctionOnSet(c, 1 .. k) /\ m[p] \in Int
      BY <3>2, <3>3
    <3>7. c[k + 1] = Times(p, squeuePartitions(x)) /\ c[k + 1] \in Int
      BY <1>7, <3>1, <3>3
    <3>8. \A i \in 1 .. k + 1 : c[i] \in Int
      BY <1>7, <3>1
    <3>9. SumFunctionOnSet(c, 1 .. k + 1) = c[k + 1] + SumFunctionOnSet(c, 1 .. k)
      BY <3>8, SumUpTo
    <3>10. e[p] = m[p] + c[k + 1]
      BY <3>5, <3>6, <3>7
    <3>11. Good(k + 1)
      BY <3>3, <3>5, <3>6, <3>7, <3>9, <3>10
    <3>. HIDE DEF Good
    <3>. QED
      BY <3>11
  <2>2. CASE ~(k + 1 <= n)
    BY <2>2
  <2>. QED
    BY <2>1, <2>2
<1>10. Nat \subseteq U
  <2>. HIDE DEF U
  <2>. QED
    BY <1>8, <1>9, NatInd
<1>11. Good(n)
  <2>1. n \in U
    BY <1>10
  <2>. HIDE DEF Good
  <2>. QED
    BY <2>1
<1>12. SeqSum(t, s) = SumFunctionOnSet(c, 1 .. n)
  <2>1. DOMAIN c = 1 .. n
    BY <1>1, <1>6
  <2>. QED
    BY <1>6, <2>1 DEF SeqSum, SumFunction
<1>. QED
  BY <1>3, <1>5, <1>11, <1>12

\* The partition columns of lines.
PartColumns == {l.part : l \in QueueLines}

\* A column is a list of different names.
LEMMA LineNames ==
  ASSUME JobTable, NEW l \in QueueLines
  PROVE  squeuePartitions(l.part) \in Seq(Partitions) /\ IsInjective(squeuePartitions(l.part))
<1>1. PICK j \in JobIds \ FreeIds : l = JobLine(j)
  BY DEF QueueLines
<1>2. squeuePartitions(l.part) = jobs[j].parts
  BY <1>1, LineOfJob
<1>3. ValidJob(jobs[j])
  BY DEF JobTable, FreeIds
<1>4. jobs[j].parts \in Seq(Partitions) /\ IsInjective(jobs[j].parts)
  BY <1>3 DEF ValidJob, SomeJob
<1>. QED
  BY <1>2, <1>4

\* The projection keeps the columns of the lines in the state; they name p as often as the
\* lines do.
LEMMA ViewSum ==
  ASSUME JobTable, NEW lines \in Seq(QueueLines), NEW state, NEW p,
         NEW t, ColumnNames(t, PartColumns, p), NEW v, InPart(v, state, p)
  PROVE  /\ projectPartitionView(lines, state) \in Seq(PartColumns)
         /\ SeqSum(t, projectPartitionView(lines, state)) = SeqSum(v, lines)
<1>1. PICK seqs : seqs = [i \in DOMAIN lines |-> IF lines[i].state = state THEN <<lines[i].part>> ELSE << >>]
  OBVIOUS
<1>2. projectPartitionView(lines, state) = FlattenSeq(seqs)
  BY <1>1 DEF projectPartitionView
<1>3. PICK n \in Nat : DOMAIN lines = 1 .. n
  OBVIOUS
<1>4. \A i \in 1 .. n : lines[i] \in QueueLines /\ lines[i].part \in PartColumns
  BY <1>3 DEF PartColumns
<1>5. \A i \in 1 .. n : seqs[i] \in Seq(PartColumns)
  BY <1>1, <1>3, <1>4
<1>6. seqs = [i \in 1 .. n |-> seqs[i]]
  BY <1>1, <1>3
<1>7. seqs \in Seq(Seq(PartColumns)) /\ DOMAIN seqs = 1 .. n
  BY <1>5, <1>6
<1>8. Valued(t, PartColumns)
  BY DEF Valued, ColumnNames
<1>9. PICK w : w = [i \in DOMAIN lines |-> v[lines[i]]]
  OBVIOUS
<1>10. ASSUME NEW i \in 1 .. n PROVE w[i] = SeqSum(t, seqs[i])
  <2>1. PICK l, x, s : l = lines[i] /\ x = l.part /\ s = seqs[i]
    OBVIOUS
  <2>2. l \in QueueLines /\ x \in PartColumns
    BY <1>4, <2>1
  <2>3. w[i] = v[l]
    BY <1>3, <1>9, <2>1
  <2>4. t[x] = (IF p \in ToSet(squeuePartitions(x)) THEN 1 ELSE 0) /\ t[x] \in Int
    <3>1. PICK names : names = squeuePartitions(x)
      OBVIOUS
    <3>2. names \in Seq(Partitions) /\ IsInjective(names)
      BY <2>1, <2>2, <3>1, LineNames
    <3>3. Times(p, names) = IF p \in ToSet(names) THEN 1 ELSE 0
      BY <3>2, TimesOnce
    <3>. QED
      BY <2>2, <3>1, <3>3 DEF ColumnNames
  <2>5. v[l] = IF l.state = state /\ p \in ToSet(squeuePartitions(x)) THEN 1 ELSE 0
    BY <2>1, <2>2 DEF InPart
  <2>6. CASE l.state = state
    <3>1. s = <<x>>
      BY <1>1, <1>3, <2>1, <2>6
    <3>2. PICK f : f = [y \in {1} |-> t[x]]
      OBVIOUS
    <3>3. [y \in DOMAIN s |-> t[s[y]]] = f /\ DOMAIN f = {1}
      BY <3>1, <3>2
    <3>4. f[1] \in Int /\ f[1] = t[x]
      BY <2>4, <3>2
    <3>5. SeqSum(t, s) = SumFunctionOnSet(f, {1})
      BY <3>3 DEF SeqSum, SumFunction
    <3>6. f[1] \in Int
      BY <3>4
    <3>7. SumFunctionOnSet(f, {1}) = f[1]
      BY <3>6, SumOne
    <3>. QED
      BY <2>1, <2>3, <2>4, <2>5, <2>6, <3>4, <3>5, <3>7
  <2>7. CASE l.state # state
    <3>1. s = << >>
      BY <1>1, <1>3, <2>1, <2>7
    <3>2. PICK f : f = [y \in {} |-> 0]
      OBVIOUS
    <3>3. [y \in DOMAIN s |-> t[s[y]]] = f /\ DOMAIN f = {}
      BY <3>1, <3>2
    <3>4. SeqSum(t, s) = SumFunctionOnSet(f, {})
      BY <3>3 DEF SeqSum, SumFunction
    <3>5. SumFunctionOnSet(f, {}) = 0
      BY SumEmpty
    <3>. QED
      BY <2>1, <2>3, <2>5, <2>7, <3>4, <3>5
  <2>. QED
    BY <2>6, <2>7
<1>11. \A i \in DOMAIN seqs : w[i] = SeqSum(t, seqs[i])
  BY <1>7, <1>10
<1>12. SeqSum(t, FlattenSeq(seqs)) = SumFunctionOnSet(w, DOMAIN seqs)
  BY <1>7, <1>8, <1>11, FlattenSum
<1>13. FlattenSeq(seqs) \in Seq(PartColumns)
  BY <1>7, FlattenHas
<1>14. SeqSum(v, lines) = SumFunctionOnSet(w, DOMAIN seqs)
  <2>1. DOMAIN w = DOMAIN seqs
    BY <1>3, <1>7, <1>9
  <2>. QED
    BY <1>9, <2>1 DEF SeqSum, SumFunction
<1>. QED
  BY <1>2, <1>12, <1>13, <1>14

\* What the lines with a task each say of a visible or a hidden partition.
LEMMA TasksIn ==
  ASSUME JobTable, NEW state \in {"PENDING", "RUNNING"}, NEW p,
         NEW v, InPart(v, state, p), NEW w, JobsIn(w, state, p, Tasks)
  PROVE  /\ SqueueJobsData \in Seq(QueueLines)
         /\ SeqSum(v, SqueueJobsData) = SumFunctionOnSet(w, JobIds)
<1>1. ListingOf(SqueueJobsData, TaskCount)
  BY SqueueJobsListing
<1>2. \A x \in QueueLines : v[x] \in {0, 1}
  BY DEF InPart
<1>3. ASSUME NEW j \in JobIds
      PROVE  w[j] = IF TaskCount[j] # 0 /\ v[JobLine(j)] = 1 THEN TaskCount[j] ELSE 0
  <2>1. PICK l : l = JobLine(j)
    OBVIOUS
  <2>2. TaskCount[j] # 0 => j \in JobIds \ FreeIds
    BY <1>1 DEF ListingOf, FreeIds
  <2>3. TaskCount[j] = IF jobs[j].state \in DefaultStates THEN jobs[j].tasks ELSE 0
    BY DEF TaskCount
  <2>4. j \in JobIds \ FreeIds =>
          v[l] = IF jobs[j].state = state /\ p \in ToSet(jobs[j].parts) THEN 1 ELSE 0
    <3>1. ASSUME j \in JobIds \ FreeIds
          PROVE  l \in QueueLines /\ l.state = jobs[j].state /\ squeuePartitions(l.part) = jobs[j].parts
      BY <2>1, <3>1, LineOfJob
    <3>. QED
      BY <3>1 DEF InPart
  <2>5. jobs[j].state = state => /\ j \in JobIds \ FreeIds /\ jobs[j].state \in DefaultStates
                                 /\ jobs[j].tasks # 0
    BY JobIn
  <2>6. w[j] = IF jobs[j].state = state /\ p \in ToSet(jobs[j].parts) THEN jobs[j].tasks ELSE 0
    BY DEF JobsIn, Tasks
  <2>7. w[j] = IF TaskCount[j] # 0 /\ v[l] = 1 THEN TaskCount[j] ELSE 0
    BY <2>2, <2>3, <2>4, <2>5, <2>6
  <2>. QED
    BY <2>1, <2>7
<1>. QED
  BY <1>1, <1>2, <1>3, ListingSum

\* partitions.go counts the tasks of the jobs in a visible partition.
LEMMA PartitionIs ==
  ASSUME JobTable, NEW state \in {"PENDING", "RUNNING"}, NEW p \in Partitions \ Hidden,
         NEW m, m = FoldLeft(CountIn, Known, projectPartitionView(SqueueJobsData, state)),
         NEW w, JobsIn(w, state, p, Tasks)
  PROVE  m[p] = SumFunctionOnSet(w, JobIds) /\ DOMAIN m = Partitions \ Hidden
<1>1. PICK v, t : /\ v = [l \in QueueLines |-> IF l.state = state /\ p \in ToSet(squeuePartitions(l.part)) THEN 1 ELSE 0]
                  /\ t = [x \in PartColumns |-> Times(p, squeuePartitions(x))]
  OBVIOUS
<1>2. InPart(v, state, p)
  BY <1>1 DEF InPart
<1>3. ColumnNames(t, PartColumns, p)
  <2>1. ASSUME NEW x \in PartColumns PROVE Times(p, squeuePartitions(x)) \in Int
    <3>1. PICK l \in QueueLines : x = l.part
      BY DEF PartColumns
    <3>2. PICK names : names = squeuePartitions(x)
      OBVIOUS
    <3>3. names \in Seq(Partitions) /\ IsInjective(names)
      BY <3>1, <3>2, LineNames
    <3>4. Times(p, names) \in {0, 1}
      BY <3>3, TimesOnce
    <3>. QED
      BY <3>2, <3>4
  <2>. QED
    BY <1>1, <2>1 DEF ColumnNames
<1>4. PICK lines, view : lines = SqueueJobsData /\ view = projectPartitionView(lines, state)
  OBVIOUS
<1>5. lines \in Seq(QueueLines) /\ SeqSum(v, lines) = SumFunctionOnSet(w, JobIds)
  BY <1>2, <1>4, TasksIn
<1>6. view \in Seq(PartColumns) /\ SeqSum(t, view) = SeqSum(v, lines)
  BY <1>2, <1>3, <1>4, <1>5, ViewSum
<1>7. FoldLeft(CountIn, Known, view)[p] = SeqSum(t, view) /\ DOMAIN FoldLeft(CountIn, Known, view) = Partitions \ Hidden
  BY <1>3, <1>6, PartitionCounts
<1>. QED
  BY <1>4, <1>5, <1>6, <1>7

\* The partitions and the queue collector agree.
THEOREM PartitionsAndQueue == QueueSpec => []PartitionsMatchQueue
<1>1. ASSUME JobTable PROVE PartitionsMatchQueue
  <2>1. PICK q, m : q = queue /\ m = partitions
    OBVIOUS
  <2>2. PICK pending, running :
          /\ pending = FoldLeft(CountIn, Known, projectPartitionView(SqueueJobsData, "PENDING"))
          /\ running = FoldLeft(CountIn, Known, projectPartitionView(SqueueJobsData, "RUNNING"))
    OBVIOUS
  <2>3. m.jobPending = pending /\ m.jobRunning = running
    BY <2>1, <2>2 DEF partitions, parsePartitionJobs
  <2>4. IsFiniteSet(JobIds)
    BY JobQueueAssumption, FS_Interval DEF JobIds
  <2>5. ASSUME NEW p \in Partitions \ Hidden
        PROVE  /\ running[p] = Queued(q, "RUNNING", p)
               /\ pending[p] >= Queued(q, "PENDING", p)
               /\ (\A j \in JobIds \ FreeIds : jobs[j].tasks = 1) => pending[p] = Queued(q, "PENDING", p)
    <3>1. PICK r1, r2, w1, w2 :
            /\ r1 = [j \in JobIds |-> IF jobs[j].state = "RUNNING" /\ p \in ToSet(jobs[j].parts) THEN Once[j] ELSE 0]
            /\ r2 = [j \in JobIds |-> IF jobs[j].state = "RUNNING" /\ p \in ToSet(jobs[j].parts) THEN Tasks[j] ELSE 0]
            /\ w1 = [j \in JobIds |-> IF jobs[j].state = "PENDING" /\ p \in ToSet(jobs[j].parts) THEN Once[j] ELSE 0]
            /\ w2 = [j \in JobIds |-> IF jobs[j].state = "PENDING" /\ p \in ToSet(jobs[j].parts) THEN Tasks[j] ELSE 0]
      OBVIOUS
    <3>2. /\ JobsIn(r1, "RUNNING", p, Once) /\ JobsIn(r2, "RUNNING", p, Tasks)
          /\ JobsIn(w1, "PENDING", p, Once) /\ JobsIn(w2, "PENDING", p, Tasks)
      BY <3>1 DEF JobsIn
    <3>3. Queued(q, "RUNNING", p) = SumFunctionOnSet(r1, JobIds) /\ Queued(q, "PENDING", p) = SumFunctionOnSet(w1, JobIds)
      BY <1>1, <2>1, <3>2, QueuedIs
    <3>4. running[p] = SumFunctionOnSet(r2, JobIds) /\ pending[p] = SumFunctionOnSet(w2, JobIds)
      BY <1>1, <2>2, <3>2, PartitionIs
    <3>5. ASSUME NEW j \in JobIds
          PROVE  /\ r1[j] \in Int /\ r2[j] = r1[j]
                 /\ w1[j] \in Int /\ w2[j] \in Int /\ w1[j] <= w2[j]
                 /\ jobs[j].tasks = 1 \/ j \in FreeIds => w1[j] = w2[j]
      <4>1. Once[j] = 1 /\ Tasks[j] = jobs[j].tasks
        BY DEF Once, Tasks
      <4>2. ASSUME jobs[j].state \in {"PENDING", "RUNNING"}
            PROVE  jobs[j].tasks \in Nat \ {0} /\ j \notin FreeIds
        BY <1>1, <4>2, JobIn
      <4>7. jobs[j].state = "RUNNING" => jobs[j].tasks = 1
        BY <1>1, JobIn
      <4>3. PICK st, ts : st = jobs[j].state /\ ts = jobs[j].tasks
        OBVIOUS
      <4>4. CASE st = "RUNNING" /\ p \in ToSet(jobs[j].parts)
        <5>1. r1[j] = 1 /\ r2[j] = ts /\ w1[j] = 0 /\ w2[j] = 0
          BY <3>1, <4>1, <4>3, <4>4
        <5>2. ts = 1
          BY <4>3, <4>4, <4>7
        <5>. QED
          BY <5>1, <5>2
      <4>5. CASE st = "PENDING" /\ p \in ToSet(jobs[j].parts)
        <5>1. r1[j] = 0 /\ r2[j] = 0 /\ w1[j] = 1 /\ w2[j] = ts
          BY <3>1, <4>1, <4>3, <4>5
        <5>2. ts \in Nat \ {0} /\ j \notin FreeIds
          BY <4>2, <4>3, <4>5
        <5>. QED
          BY <4>3, <5>1, <5>2
      <4>6. CASE st \notin {"PENDING", "RUNNING"} \/ p \notin ToSet(jobs[j].parts)
        <5>1. r1[j] = 0 /\ r2[j] = 0 /\ w1[j] = 0 /\ w2[j] = 0
          BY <3>1, <4>3, <4>6
        <5>. QED
          BY <5>1
      <4>. QED
        BY <4>4, <4>5, <4>6
    <3>6. SumFunctionOnSet(r1, JobIds) = SumFunctionOnSet(r2, JobIds)
      BY <2>4, <3>5, SumSame
    <3>7. SumFunctionOnSet(w1, JobIds) <= SumFunctionOnSet(w2, JobIds)
      BY <2>4, <3>5, SumLeq
    <3>8. ASSUME \A j \in JobIds \ FreeIds : jobs[j].tasks = 1
          PROVE  SumFunctionOnSet(w1, JobIds) = SumFunctionOnSet(w2, JobIds)
      <4>1. \A j \in JobIds : w1[j] \in Int /\ w1[j] = w2[j]
        BY <3>5, <3>8
      <4>. QED
        BY <2>4, <4>1, SumSame
    <3>9. SumFunctionOnSet(w1, JobIds) \in Int /\ SumFunctionOnSet(w2, JobIds) \in Int
      BY <2>4, <3>5, SumInt
    <3>. QED
      BY <3>3, <3>4, <3>6, <3>7, <3>8, <3>9
  <2>. QED
    BY <2>1, <2>3, <2>5 DEF PartitionsMatchQueue
<1>. QED
  BY <1>1, JobTableCorrect, PTL

\* What accounts.go and users.go know of one name.
Reads(m, x) == IF x \in DOMAIN m THEN m[x] ELSE JobMetrics

Tallies == [pending : Nat, running : Nat, runningCpus : Nat, runningGPUs : Nat, suspended : Nat]

\* One more line of a name.
LEMMA CountedOnce ==
  ASSUME NEW c \in Tallies, NEW l, l.cores \in Nat, l.gpus \in Nat, NEW d, d = Counted(c, l)
  PROVE  /\ d \in Tallies
         /\ d.pending   = c.pending   + (IF l.state = "PENDING" THEN 1 ELSE 0)
         /\ d.running   = c.running   + (IF l.state = "RUNNING" THEN 1 ELSE 0)
         /\ d.suspended = c.suspended + (IF l.state = "SUSPENDED" THEN 1 ELSE 0)
<1>1. CASE l.state = "PENDING"
  <2>1. d = [c EXCEPT !.pending = @ + 1]
    BY <1>1 DEF Counted
  <2>. QED
    BY <1>1, <2>1 DEF Tallies
<1>2. CASE l.state = "RUNNING"
  <2>1. d = [c EXCEPT !.running = @ + 1, !.runningCpus = @ + l.cores, !.runningGPUs = @ + l.gpus]
    BY <1>2 DEF Counted
  <2>2. PICK cpus \in Nat, gpus \in Nat : cpus = l.cores /\ gpus = l.gpus
    OBVIOUS
  <2>3. d = [c EXCEPT !.running = @ + 1, !.runningCpus = @ + cpus, !.runningGPUs = @ + gpus]
    BY <2>1, <2>2
  <2>4. d \in Tallies
    <3>1. PICK p \in Nat, r \in Nat, rc \in Nat, rg \in Nat, s \in Nat :
             c = [pending |-> p, running |-> r, runningCpus |-> rc, runningGPUs |-> rg, suspended |-> s]
      BY DEF Tallies
    <3>2. d = [pending |-> p, running |-> r + 1, runningCpus |-> rc + cpus,
               runningGPUs |-> rg + gpus, suspended |-> s]
      BY <2>3, <3>1
    <3>3. r + 1 \in Nat /\ rc + cpus \in Nat /\ rg + gpus \in Nat
      OBVIOUS
    <3>. QED
      BY <3>2, <3>3 DEF Tallies
  <2>5. d.pending = c.pending /\ d.running = c.running + 1 /\ d.suspended = c.suspended
    BY <2>3 DEF Tallies
  <2>. QED
    BY <1>2, <2>4, <2>5 DEF Tallies
<1>3. CASE l.state = "SUSPENDED"
  <2>1. d = [c EXCEPT !.suspended = @ + 1]
    BY <1>3 DEF Counted
  <2>. QED
    BY <1>3, <2>1 DEF Tallies
<1>4. CASE l.state \notin {"PENDING", "RUNNING", "SUSPENDED"}
  <2>1. d = c
    BY <1>4 DEF Counted
  <2>. QED
    BY <1>4, <2>1 DEF Tallies
<1>. QED
  BY <1>1, <1>2, <1>3, <1>4

NameRead == INSTANCE FoldProofs WITH Step <- CountJob

\* c says which lines have the name and the state.
ForName(c, s, n, x, state) ==
  \A i \in 1 .. n : c[i] = IF s[i].name = x /\ s[i].state = state THEN 1 ELSE 0

\* The lines that the parsers of accounts and users read.
NamedLines(s, n) == /\ DOMAIN s = 1 .. n
                    /\ \A i \in 1 .. n : s[i].cores \in Nat /\ s[i].gpus \in Nat

\* What one line does to the map of names.
LEMMA JobCounted ==
  ASSUME NEW m, NEW l, NEW x
  PROVE  /\ DOMAIN CountJob(m, l) = DOMAIN m \cup {l.name}
         /\ Reads(CountJob(m, l), x) = IF x = l.name THEN Counted(Reads(m, x), l) ELSE Reads(m, x)
<1>1. PICK e : e = CountJob(m, l)
  OBVIOUS
<1>2. DOMAIN e = DOMAIN m \cup {l.name}
  BY <1>1 DEF CountJob
<1>3. \A n \in DOMAIN e :
        e[n] = IF n = l.name THEN Counted(IF n \in DOMAIN m THEN m[n] ELSE JobMetrics, l) ELSE m[n]
  BY <1>1, <1>2 DEF CountJob
<1>4. CASE x = l.name
  <2>1. e[x] = Counted(IF x \in DOMAIN m THEN m[x] ELSE JobMetrics, l) /\ x \in DOMAIN e
    BY <1>2, <1>3, <1>4
  <2>. QED
    BY <1>1, <1>2, <1>4, <2>1 DEF Reads
<1>5. CASE x # l.name
  BY <1>1, <1>2, <1>3, <1>5 DEF Reads
<1>. QED
  BY <1>1, <1>2, <1>4, <1>5

\* A name ends with the number of its lines in each state.
LEMMA NameCounts ==
  ASSUME NEW s, NEW n \in Nat, NamedLines(s, n), NEW x,
         NEW a, ForName(a, s, n, x, "PENDING"),
         NEW b, ForName(b, s, n, x, "RUNNING"),
         NEW c, ForName(c, s, n, x, "SUSPENDED"),
         NEW m, m = FoldLeft(CountJob, Empty, s)
  PROVE  /\ Reads(m, x) \in Tallies
         /\ Reads(m, x).pending = SumFunctionOnSet(a, 1 .. n)
         /\ Reads(m, x).running = SumFunctionOnSet(b, 1 .. n)
         /\ Reads(m, x).suspended = SumFunctionOnSet(c, 1 .. n)
         /\ x \in DOMAIN m <=> \E i \in 1 .. n : s[i].name = x
<1>1. DOMAIN s = 1 .. n
  BY DEF NamedLines
<1>2. PICK none : none = Empty
  OBVIOUS
<1>3. FoldLeft(CountJob, Empty, s) = NameRead!Folded(none, s)
  BY <1>2 DEF NameRead!Folded, FoldLeft, MapThenFoldSet,
     NameRead!MapThenFoldSet, Max, NameRead!Greatest
<1>4. \E g : /\ g[0] = none
             /\ \A i \in 1 .. n : g[i] = CountJob(g[i - 1], s[i])
             /\ NameRead!Folded(none, s) = g[n]
  BY <1>1, NameRead!Trace
<1>5. PICK g : /\ g[0] = none
               /\ \A i \in 1 .. n : g[i] = CountJob(g[i - 1], s[i])
               /\ NameRead!Folded(none, s) = g[n]
  BY <1>4
<1>6. \A i \in 1 .. n : a[i] \in Int /\ b[i] \in Int /\ c[i] \in Int
  BY DEF ForName
<1>. DEFINE Good(k) == /\ Reads(g[k], x) \in Tallies
                       /\ Reads(g[k], x).pending = SumFunctionOnSet(a, 1 .. k)
                       /\ Reads(g[k], x).running = SumFunctionOnSet(b, 1 .. k)
                       /\ Reads(g[k], x).suspended = SumFunctionOnSet(c, 1 .. k)
                       /\ x \in DOMAIN g[k] <=> \E i \in 1 .. k : s[i].name = x
            U == {k \in Nat : k <= n => Good(k)}
<1>8. 0 \in U
  <2>1. 1 .. 0 = {}
    OBVIOUS
  <2>2. SumFunctionOnSet(a, 1 .. 0) = 0 /\ SumFunctionOnSet(b, 1 .. 0) = 0 /\ SumFunctionOnSet(c, 1 .. 0) = 0
    BY <2>1, SumEmpty
  <2>3. DOMAIN none = {}
    BY <1>2 DEF Empty
  <2>4. x \notin DOMAIN g[0] /\ Reads(g[0], x) = JobMetrics
    BY <1>5, <2>3 DEF Reads
  <2>5. /\ JobMetrics \in Tallies
        /\ JobMetrics.pending = 0 /\ JobMetrics.running = 0 /\ JobMetrics.suspended = 0
    BY DEF JobMetrics, Tallies
  <2>6. Good(0)
    BY <2>1, <2>2, <2>4, <2>5
  <2>. HIDE DEF Good
  <2>. QED
    BY <2>6
<1>9. ASSUME NEW k \in Nat, k \in U PROVE k + 1 \in U
  <2>1. CASE k + 1 <= n
    <3>1. k + 1 \in 1 .. n /\ (k + 1) - 1 = k /\ k <= n
      BY <2>1
    <3>2. Good(k)
      <4>. HIDE DEF Good
      <4>. QED
        BY <1>9, <3>1
    <3>3. PICK o, e, l : o = g[k] /\ e = g[k + 1] /\ l = s[k + 1]
      OBVIOUS
    <3>4. e = CountJob(o, l)
      BY <1>5, <3>1, <3>3
    <3>5. PICK r, t : r = Reads(o, x) /\ t = Reads(e, x)
      OBVIOUS
    <3>6. /\ r \in Tallies
          /\ r.pending = SumFunctionOnSet(a, 1 .. k)
          /\ r.running = SumFunctionOnSet(b, 1 .. k)
          /\ r.suspended = SumFunctionOnSet(c, 1 .. k)
      BY <3>2, <3>3, <3>5
    <3>7. l.cores \in Nat /\ l.gpus \in Nat
      BY <3>1, <3>3 DEF NamedLines
    <3>8. t = IF x = l.name THEN Counted(r, l) ELSE r
      BY <3>4, <3>5, JobCounted
    <3>9. /\ a[k + 1] = IF x = l.name /\ l.state = "PENDING" THEN 1 ELSE 0
          /\ b[k + 1] = IF x = l.name /\ l.state = "RUNNING" THEN 1 ELSE 0
          /\ c[k + 1] = IF x = l.name /\ l.state = "SUSPENDED" THEN 1 ELSE 0
      BY <3>1, <3>3 DEF ForName
    <3>10. /\ t \in Tallies
           /\ t.pending = r.pending + a[k + 1]
           /\ t.running = r.running + b[k + 1]
           /\ t.suspended = r.suspended + c[k + 1]
      <4>1. CASE x = l.name
        <5>1. t = Counted(r, l)
          BY <3>8, <4>1
        <5>2. /\ t \in Tallies
              /\ t.pending   = r.pending   + (IF l.state = "PENDING" THEN 1 ELSE 0)
              /\ t.running   = r.running   + (IF l.state = "RUNNING" THEN 1 ELSE 0)
              /\ t.suspended = r.suspended + (IF l.state = "SUSPENDED" THEN 1 ELSE 0)
          BY <3>6, <3>7, <5>1, CountedOnce
        <5>. QED
          BY <3>9, <4>1, <5>2
      <4>2. CASE x # l.name
        <5>1. t = r /\ a[k + 1] = 0 /\ b[k + 1] = 0 /\ c[k + 1] = 0
          BY <3>8, <3>9, <4>2
        <5>. QED
          BY <3>6, <5>1 DEF Tallies
      <4>. QED
        BY <4>1, <4>2
    <3>11. \A i \in 1 .. k + 1 : a[i] \in Int /\ b[i] \in Int /\ c[i] \in Int
      BY <1>6, <3>1
    <3>12. SumFunctionOnSet(a, 1 .. k + 1) = a[k + 1] + SumFunctionOnSet(a, 1 .. k)
      BY <3>11, SumUpTo
    <3>13. SumFunctionOnSet(b, 1 .. k + 1) = b[k + 1] + SumFunctionOnSet(b, 1 .. k)
      BY <3>11, SumUpTo
    <3>14. SumFunctionOnSet(c, 1 .. k + 1) = c[k + 1] + SumFunctionOnSet(c, 1 .. k)
      BY <3>11, SumUpTo
    <3>15. r.pending \in Nat /\ r.running \in Nat /\ r.suspended \in Nat
      BY <3>6 DEF Tallies
    <3>16. a[k + 1] \in Int /\ b[k + 1] \in Int /\ c[k + 1] \in Int
      BY <1>6, <3>1
    <3>17. x \in DOMAIN e <=> \E i \in 1 .. k + 1 : s[i].name = x
      <4>1. DOMAIN e = DOMAIN o \cup {l.name}
        BY <3>4, JobCounted
      <4>2. x \in DOMAIN o <=> \E i \in 1 .. k : s[i].name = x
        BY <3>2, <3>3
      <4>3. 1 .. k + 1 = (1 .. k) \cup {k + 1}
        OBVIOUS
      <4>. QED
        BY <3>3, <4>1, <4>2, <4>3
    <3>18. /\ t.pending = SumFunctionOnSet(a, 1 .. k + 1)
           /\ t.running = SumFunctionOnSet(b, 1 .. k + 1)
           /\ t.suspended = SumFunctionOnSet(c, 1 .. k + 1)
      BY <3>6, <3>10, <3>12, <3>13, <3>14, <3>15, <3>16
    <3>19. Good(k + 1)
      BY <3>3, <3>5, <3>10, <3>17, <3>18
    <3>. HIDE DEF Good
    <3>. QED
      BY <3>19
  <2>2. CASE ~(k + 1 <= n)
    BY <2>2
  <2>. QED
    BY <2>1, <2>2
<1>10. Nat \subseteq U
  <2>. HIDE DEF U
  <2>. QED
    BY <1>8, <1>9, NatInd
<1>11. Good(n)
  <2>1. n \in U
    BY <1>10
  <2>. HIDE DEF Good
  <2>. QED
    BY <2>1
<1>. QED
  BY <1>3, <1>5, <1>11

\* What the projection for accounts and users shows its parser.
LEMMA NamedView ==
  ASSUME JobTable, NEW lines \in Seq(QueueLines), NEW n \in Nat, DOMAIN lines = 1 .. n, NEW column,
         NEW s, s = projectNamedJobView(lines, column)
  PROVE  /\ NamedLines(s, n)
         /\ \A i \in 1 .. n : s[i].name = lines[i][column] /\ s[i].state = lines[i].state
<1>1. DOMAIN s = 1 .. n
  BY DEF projectNamedJobView
<1>2. ASSUME NEW i \in 1 .. n
      PROVE  /\ s[i].name = lines[i][column] /\ s[i].state = lines[i].state
             /\ s[i].cores \in Nat /\ s[i].gpus \in Nat
  <2>1. PICK l : l = lines[i]
    OBVIOUS
  <2>2. l \in QueueLines
    BY <2>1
  <2>3. PICK j \in JobIds \ FreeIds : l = JobLine(j)
    BY <2>2 DEF QueueLines
  <2>4. l.cores = jobs[j].cpus /\ l.gpus = jobs[j].gpus
    BY <2>3, LineOfJob
  <2>5. jobs[j].cpus \in Nat /\ jobs[j].gpus \in Nat
    BY DEF JobTable, FreeIds, ValidJob, SomeJob
  <2>6. s[i] = [name |-> l[column], state |-> l.state, cores |-> l.cores, gpus |-> l.gpus]
    BY <2>1 DEF projectNamedJobView
  <2>. QED
    BY <2>1, <2>4, <2>5, <2>6
<1>. QED
  BY <1>1, <1>2 DEF NamedLines

\* v says which lines count; w counts the tasks of the jobs whose lines do.
CountsTasks(w, v) ==
  \A j \in JobIds : w[j] = IF j \notin FreeIds /\ jobs[j].state \in DefaultStates /\ v[JobLine(j)] = 1
                           THEN jobs[j].tasks ELSE 0

\* The lines of squeue -a -r that count are the tasks of the jobs that do.
LEMMA TaskLines ==
  ASSUME JobTable, NEW lines, lines = SqueueJobsData, NEW n \in Nat, DOMAIN lines = 1 .. n,
         NEW v, \A l \in QueueLines : v[l] \in {0, 1},
         NEW c, \A i \in 1 .. n : c[i] = v[lines[i]],
         NEW w, CountsTasks(w, v)
  PROVE  SumFunctionOnSet(c, 1 .. n) = SumFunctionOnSet(w, JobIds)
<1>1. ListingOf(SqueueJobsData, TaskCount)
  BY SqueueJobsListing
<1>2. ASSUME NEW j \in JobIds
      PROVE  w[j] = IF TaskCount[j] # 0 /\ v[JobLine(j)] = 1 THEN TaskCount[j] ELSE 0
  <2>1. TaskCount[j] # 0 => j \notin FreeIds
    BY <1>1 DEF ListingOf, FreeIds
  <2>2. TaskCount[j] = IF jobs[j].state \in DefaultStates THEN jobs[j].tasks ELSE 0
    BY DEF TaskCount
  <2>3. w[j] = IF j \notin FreeIds /\ jobs[j].state \in DefaultStates /\ v[JobLine(j)] = 1 THEN jobs[j].tasks ELSE 0
    BY DEF CountsTasks
  <2>4. j \notin FreeIds => jobs[j].tasks # 0
    BY DEF JobTable, FreeIds, ValidJob, SomeJob
  <2>. QED
    BY <2>1, <2>2, <2>3, <2>4
<1>3. lines \in Seq(QueueLines) /\ SeqSum(v, lines) = SumFunctionOnSet(w, JobIds)
  BY <1>1, <1>2, ListingSum
<1>4. PICK f : f = [i \in DOMAIN lines |-> v[lines[i]]]
  OBVIOUS
<1>5. SeqSum(v, lines) = SumFunctionOnSet(f, 1 .. n)
  <2>1. DOMAIN f = 1 .. n
    BY <1>4
  <2>. QED
    BY <1>4, <2>1 DEF SeqSum, SumFunction
<1>6. \A i \in 1 .. n : f[i] = c[i] /\ f[i] \in Int
  BY <1>3, <1>4
<1>7. PICK I : I = 1 .. n
  OBVIOUS
<1>8. SumFunctionOnSet(f, I) = SumFunctionOnSet(c, I)
  <2>1. IsFiniteSet(I)
    BY <1>7, FS_Interval
  <2>2. \A i \in I : f[i] \in Int
    BY <1>6, <1>7
  <2>3. \A i \in I : f[i] = c[i]
    BY <1>6, <1>7
  <2>. QED
    BY <2>1, <2>2, <2>3, SumSame
<1>. QED
  BY <1>3, <1>5, <1>7, <1>8

\* b has a column for each name, which says which lines have the name and the state.
NameTable(b, D, s, n, state) ==
  b = [x \in D |-> [i \in 1 .. n |-> IF s[i].name = x /\ s[i].state = state THEN 1 ELSE 0]]

\* The names of the lines.
NamesOf(D, s, n) == \A x : x \in D <=> \E i \in 1 .. n : s[i].name = x

\* t says which lines are in the state.
InState(t, s, n, state) == \A i \in 1 .. n : t[i] = IF s[i].state = state THEN 1 ELSE 0

\* The names' counts add up to the number of lines in the state.
LEMMA NamesAddUp ==
  ASSUME NEW n \in Nat, NEW s, NEW D, NamesOf(D, s, n),
         NEW state, NEW b, NameTable(b, D, s, n, state),
         NEW h, RowSums(b, D, 1 .. n, h),
         NEW t, InState(t, s, n, state)
  PROVE  SumFunctionOnSet(h, D) = SumFunctionOnSet(t, 1 .. n)
<1>. USE DEF NamesOf, InState
<1>1. PICK I : I = 1 .. n
  OBVIOUS
<1>2. IsFiniteSet(I)
  BY <1>1, FS_Interval
<1>3. IsFiniteSet(D)
  <2>1. PICK f : f = [i \in I |-> s[i].name]
    OBVIOUS
  <2>2. \A y \in D : \E i \in I : y = f[i]
    BY <1>1, <2>1
  <2>. QED
    BY <1>2, <2>2, FiniteImage
<1>4. PICK a : a = [i \in I |-> [x \in D |-> IF s[i].name = x /\ s[i].state = state THEN 1 ELSE 0]]
  OBVIOUS
<1>5. Table(a, b, I, D)
  BY <1>1, <1>4 DEF Table, NameTable
<1>6. ASSUME NEW i \in I PROVE t[i] = SumFunctionOnSet(a[i], D)
  <2>1. PICK r, x : r = a[i] /\ x = s[i].name
    OBVIOUS
  <2>2. x \in D
    BY <1>1, <2>1
  <2>3. \A y \in D : r[y] = IF x = y /\ s[i].state = state THEN 1 ELSE 0
    BY <1>4, <2>1
  <2>4. r[x] = t[i] /\ r[x] \in Int
    BY <1>1, <2>2, <2>3
  <2>5. \A y \in {x} : r[y] \in Int /\ r[y] = r[y]
    BY <2>4
  <2>6. \A y \in D \ {x} : r[y] = 0
    BY <2>3
  <2>7. SumFunctionOnSet(r, D) = SumFunctionOnSet(r, {x})
    BY <1>3, <2>2, <2>5, <2>6, SumFilter
  <2>8. r[x] \in Int
    BY <2>4
  <2>9. SumFunctionOnSet(r, {x}) = r[x]
    BY <2>8, SumOne
  <2>. QED
    BY <2>1, <2>4, <2>7, <2>9
<1>7. RowSums(a, I, D, t)
  BY <1>6 DEF RowSums
<1>8. RowSums(b, D, I, h)
  BY <1>1 DEF RowSums
<1>9. SumFunctionOnSet(t, I) = SumFunctionOnSet(h, D)
  BY <1>2, <1>3, <1>5, <1>7, <1>8, SumSwap
<1>. QED
  BY <1>1, <1>9

\* These are the jobs of a user that have not begun to end and that squeue lists.
UserJobs(u, of) ==
  of = {j \in JobIds \ FreeIds :
          jobs[j].user = u /\ jobs[j].state \in {"PENDING", "RUNNING", "SUSPENDED"} \cap DefaultStates}

\* The tasks that squeue lists of a user are in the three series of the user, and
\* none in the last if it does not list suspended jobs.
LEMMA UserTasks ==
  ASSUME JobTable, NEW u, NEW m, m = users,
         NEW of, UserJobs(u, of), NEW tasks, \A j \in of : tasks[j] = jobs[j].tasks
  PROVE  /\ SumFunctionOnSet(tasks, of) = Reads(m, u).pending + Reads(m, u).running + Reads(m, u).suspended
         /\ "SUSPENDED" \notin DefaultStates => Reads(m, u).suspended = 0
<1>1. PICK lines : lines = SqueueJobsData
  OBVIOUS
<1>2. lines \in Seq(QueueLines)
  <2>1. PICK v, w : /\ v = [l \in QueueLines |-> IF l.state = "RUNNING" /\ u \in ToSet(squeuePartitions(l.part)) THEN 1 ELSE 0]
                    /\ w = [j \in JobIds |-> IF jobs[j].state = "RUNNING" /\ u \in ToSet(jobs[j].parts) THEN Tasks[j] ELSE 0]
    OBVIOUS
  <2>2. InPart(v, "RUNNING", u) /\ JobsIn(w, "RUNNING", u, Tasks)
    BY <2>1 DEF InPart, JobsIn
  <2>. QED
    BY <1>1, <2>2, TasksIn
<1>3. PICK n \in Nat : DOMAIN lines = 1 .. n
  BY <1>2
<1>4. PICK s : s = projectNamedJobView(lines, "user")
  OBVIOUS
<1>5. NamedLines(s, n)
  BY <1>2, <1>3, <1>4, NamedView
<1>6. \A i \in 1 .. n : s[i].name = lines[i].user /\ s[i].state = lines[i].state
  BY <1>2, <1>3, <1>4, NamedView
<1>7. m = FoldLeft(CountJob, Empty, s)
  BY <1>1, <1>4 DEF users, ParseUsersMetrics
<1>8. PICK a, b, c, d, e :
        /\ a = [i \in 1 .. n |-> IF s[i].name = u /\ s[i].state = "PENDING" THEN 1 ELSE 0]
        /\ b = [i \in 1 .. n |-> IF s[i].name = u /\ s[i].state = "RUNNING" THEN 1 ELSE 0]
        /\ c = [i \in 1 .. n |-> IF s[i].name = u /\ s[i].state = "SUSPENDED" THEN 1 ELSE 0]
        /\ d = [i \in 1 .. n |-> a[i] + b[i]]
        /\ e = [i \in 1 .. n |-> d[i] + c[i]]
  OBVIOUS
<1>9. /\ ForName(a, s, n, u, "PENDING") /\ ForName(b, s, n, u, "RUNNING")
      /\ ForName(c, s, n, u, "SUSPENDED")
  BY <1>8 DEF ForName
<1>10. /\ Reads(m, u).pending = SumFunctionOnSet(a, 1 .. n)
       /\ Reads(m, u).running = SumFunctionOnSet(b, 1 .. n)
       /\ Reads(m, u).suspended = SumFunctionOnSet(c, 1 .. n)
  BY <1>5, <1>7, <1>9, NameCounts
<1>11. PICK I : I = 1 .. n
  OBVIOUS
<1>12. IsFiniteSet(I)
  BY <1>11, FS_Interval
<1>13. \A i \in I : /\ a[i] \in Int /\ b[i] \in Int /\ c[i] \in Int
                    /\ d[i] = a[i] + b[i] /\ d[i] \in Int /\ e[i] = d[i] + c[i]
  BY <1>8, <1>11
<1>14. SumFunctionOnSet(d, I) = SumFunctionOnSet(a, I) + SumFunctionOnSet(b, I)
  BY <1>12, <1>13, SumPlus
<1>15. SumFunctionOnSet(e, I) = SumFunctionOnSet(d, I) + SumFunctionOnSet(c, I)
  BY <1>12, <1>13, SumPlus
<1>16. PICK v : v = [l \in QueueLines |-> IF l.user = u /\ l.state \in {"PENDING", "RUNNING", "SUSPENDED"} THEN 1 ELSE 0]
  OBVIOUS
<1>17. \A l \in QueueLines : v[l] \in {0, 1}
  BY <1>16
<1>18. ASSUME NEW i \in 1 .. n PROVE e[i] = v[lines[i]]
  <2>1. PICK l, st : l = lines[i] /\ st = l.state
    OBVIOUS
  <2>2. l \in QueueLines
    BY <1>2, <1>3, <2>1
  <2>3. /\ a[i] = IF l.user = u /\ st = "PENDING" THEN 1 ELSE 0
        /\ b[i] = IF l.user = u /\ st = "RUNNING" THEN 1 ELSE 0
        /\ c[i] = IF l.user = u /\ st = "SUSPENDED" THEN 1 ELSE 0
    BY <1>6, <1>8, <2>1
  <2>4. v[l] = IF l.user = u /\ st \in {"PENDING", "RUNNING", "SUSPENDED"} THEN 1 ELSE 0
    BY <1>16, <2>1, <2>2
  <2>5. e[i] = (a[i] + b[i]) + c[i]
    BY <1>11, <1>13
  <2>. QED
    BY <2>1, <2>3, <2>4, <2>5
<1>19. PICK w : w = [j \in JobIds |-> IF j \notin FreeIds /\ jobs[j].state \in DefaultStates /\ v[JobLine(j)] = 1
                                      THEN jobs[j].tasks ELSE 0]
  OBVIOUS
<1>20. CountsTasks(w, v)
  BY <1>19 DEF CountsTasks
<1>21. \A i \in 1 .. n : e[i] = v[lines[i]]
  BY <1>18
<1>22. SumFunctionOnSet(e, 1 .. n) = SumFunctionOnSet(w, JobIds)
  BY <1>1, <1>3, <1>17, <1>20, <1>21, TaskLines
<1>23. of \in SUBSET JobIds
  BY DEF UserJobs
<1>24. IsFiniteSet(JobIds)
  BY JobQueueAssumption, FS_Interval DEF JobIds
<1>25. ASSUME NEW j \in JobIds
       PROVE  /\ j \in of => tasks[j] \in Int /\ w[j] = tasks[j]
              /\ j \notin of => w[j] = 0
  <2>1. CASE j \in FreeIds
    BY <1>19, <2>1 DEF UserJobs
  <2>2. CASE j \notin FreeIds
    <3>1. PICK l, st : l = JobLine(j) /\ st = jobs[j].state
      OBVIOUS
    <3>2. l \in QueueLines /\ l.user = jobs[j].user /\ l.state = st
      BY <2>2, <3>1, LineOfJob
    <3>3. v[l] = IF jobs[j].user = u /\ st \in {"PENDING", "RUNNING", "SUSPENDED"} THEN 1 ELSE 0
      BY <1>16, <3>2
    <3>4. ValidJob(jobs[j])
      BY <2>2 DEF JobTable, FreeIds
    <3>5. st \in Live \cup Ends /\ jobs[j].tasks \in Nat
      BY <3>1, <3>4 DEF ValidJob, SomeJob
    <3>6. j \in of <=> jobs[j].user = u /\ st \in {"PENDING", "RUNNING", "SUSPENDED"} \cap DefaultStates
      BY <2>2, <3>1 DEF UserJobs
    <3>7. w[j] = IF st \in DefaultStates /\ v[l] = 1 THEN jobs[j].tasks ELSE 0
      BY <1>19, <2>2, <3>1
    <3>. QED
      BY <3>3, <3>5, <3>6, <3>7
  <2>. QED
    BY <2>1, <2>2
<1>26. SumFunctionOnSet(w, JobIds) = SumFunctionOnSet(tasks, of)
  <2>1. \A j \in of : tasks[j] \in Int /\ w[j] = tasks[j]
    BY <1>23, <1>25
  <2>2. \A j \in JobIds \ of : w[j] = 0
    BY <1>25
  <2>. QED
    BY <1>23, <1>24, <2>1, <2>2, SumFilter
<1>27. SumFunctionOnSet(e, I) = SumFunctionOnSet(tasks, of)
  BY <1>11, <1>22, <1>26
<1>28. SumFunctionOnSet(a, I) \in Int /\ SumFunctionOnSet(b, I) \in Int /\ SumFunctionOnSet(c, I) \in Int
  BY <1>12, <1>13, SumInt
<1>29. ASSUME "SUSPENDED" \notin DefaultStates PROVE Reads(m, u).suspended = 0
  <2>1. PICK x : x = [l \in QueueLines |-> IF l.user = u /\ l.state = "SUSPENDED" THEN 1 ELSE 0]
    OBVIOUS
  <2>2. PICK y : y = [j \in JobIds |-> IF j \notin FreeIds /\ jobs[j].state \in DefaultStates /\ x[JobLine(j)] = 1
                                       THEN jobs[j].tasks ELSE 0]
    OBVIOUS
  <2>3. \A l \in QueueLines : x[l] \in {0, 1}
    BY <2>1
  <2>4. \A i \in 1 .. n : c[i] = x[lines[i]]
    <3>1. \A i \in 1 .. n : lines[i] \in QueueLines
      BY <1>2, <1>3
    <3>. QED
      BY <1>6, <1>8, <2>1, <3>1
  <2>5. CountsTasks(y, x)
    BY <2>2 DEF CountsTasks
  <2>6. SumFunctionOnSet(c, 1 .. n) = SumFunctionOnSet(y, JobIds)
    BY <1>1, <1>3, <2>3, <2>4, <2>5, TaskLines
  <2>7. ASSUME NEW j \in JobIds PROVE y[j] = 0
    <3>1. CASE j \notin FreeIds /\ jobs[j].state \in DefaultStates
      <4>1. PICK l : l = JobLine(j)
        OBVIOUS
      <4>2. l \in QueueLines /\ l.state = jobs[j].state
        BY <3>1, <4>1, LineOfJob
      <4>3. x[l] = 0
        BY <1>29, <2>1, <3>1, <4>2
      <4>. QED
        BY <2>2, <4>1, <4>3
    <3>2. CASE ~(j \notin FreeIds /\ jobs[j].state \in DefaultStates)
      BY <2>2, <3>2
    <3>. QED
      BY <3>1, <3>2
  <2>8. SumFunctionOnSet(y, JobIds) = SumFunctionOnSet(tasks, {})
    BY <1>24, <2>7, SumFilter
  <2>. QED
    BY <1>10, <2>6, <2>8, SumEmpty
<1>. QED
  BY <1>10, <1>11, <1>14, <1>15, <1>27, <1>28, <1>29

\* Each task that has not begun to end is in one of its user's three series, or in
\* none while it is suspended if squeue does not list it then.
THEOREM EveryTaskCorrect == QueueSpec => []EveryTaskInOneSeries
<1>1. ASSUME JobTable PROVE EveryTaskInOneSeries
  <2>1. ASSUME NEW u, NEW states, states = {"PENDING", "RUNNING", "SUSPENDED"} \cap DefaultStates,
               NEW counted, counted = IF u \in DOMAIN users THEN users[u].pending + users[u].running + users[u].suspended ELSE 0
        PROVE  /\ counted = TasksOf(u, states)
               /\ "SUSPENDED" \notin DefaultStates => (u \in DOMAIN users => users[u].suspended = 0)
    <3>1. PICK of, tasks, m : /\ of = {j \in JobIds \ FreeIds : jobs[j].user = u /\ jobs[j].state \in states}
                              /\ tasks = [j \in of |-> jobs[j].tasks]
                              /\ m = users
      OBVIOUS
    <3>2. \A j \in of : tasks[j] = jobs[j].tasks
      BY <3>1
    <3>3. /\ SumFunctionOnSet(tasks, of) = Reads(m, u).pending + Reads(m, u).running + Reads(m, u).suspended
          /\ "SUSPENDED" \notin DefaultStates => Reads(m, u).suspended = 0
      <4>1. UserJobs(u, of)
        BY <2>1, <3>1 DEF UserJobs
      <4>. QED
        BY <1>1, <3>1, <3>2, <4>1, UserTasks
    <3>4. TasksOf(u, states) = SumFunctionOnSet(tasks, of)
      <4>1. DOMAIN tasks = of
        BY <3>1
      <4>. QED
        BY <3>1, <4>1 DEF TasksOf, SumFunction
    <3>5. u \notin DOMAIN m => Reads(m, u).pending + Reads(m, u).running + Reads(m, u).suspended = 0
      BY DEF Reads, JobMetrics
    <3>. QED
      BY <2>1, <3>1, <3>3, <3>4, <3>5 DEF Reads
  <2>2. {"PENDING", "RUNNING", "SUSPENDED"} \cap DefaultStates
          = IF "SUSPENDED" \in DefaultStates THEN {"PENDING", "RUNNING", "SUSPENDED"} ELSE {"PENDING", "RUNNING"}
    BY JobQueueAssumption
  <2>. QED
    BY <2>1, <2>2 DEF EveryTaskInOneSeries
<1>. QED
  BY <1>1, JobTableCorrect, PTL

\* All names of a view, and for each the count of one state, from NameCounts.
LEMMA StateTotal ==
  ASSUME NEW s, NEW n \in Nat, NamedLines(s, n), NEW m, m = FoldLeft(CountJob, Empty, s),
         NEW t1, InState(t1, s, n, "RUNNING"), NEW t2, InState(t2, s, n, "PENDING")
  PROVE  /\ Total(m, "running") = SumFunctionOnSet(t1, 1 .. n)
         /\ Total(m, "pending") = SumFunctionOnSet(t2, 1 .. n)
<1>1. PICK D, h1, h2 : /\ D = DOMAIN m
                       /\ h1 = [x \in D |-> m[x].running]
                       /\ h2 = [x \in D |-> m[x].pending]
  OBVIOUS
<1>2. PICK b1, b2, b3 :
        /\ b1 = [x \in D |-> [i \in 1 .. n |-> IF s[i].name = x /\ s[i].state = "RUNNING" THEN 1 ELSE 0]]
        /\ b2 = [x \in D |-> [i \in 1 .. n |-> IF s[i].name = x /\ s[i].state = "PENDING" THEN 1 ELSE 0]]
        /\ b3 = [x \in D |-> [i \in 1 .. n |-> IF s[i].name = x /\ s[i].state = "SUSPENDED" THEN 1 ELSE 0]]
  OBVIOUS
<1>3. NameTable(b1, D, s, n, "RUNNING") /\ NameTable(b2, D, s, n, "PENDING")
  BY <1>2 DEF NameTable
<1>4. ASSUME NEW x PROVE x \in D <=> \E i \in 1 .. n : s[i].name = x
  <2>1. PICK a, b, c :
        /\ a = [i \in 1 .. n |-> IF s[i].name = x /\ s[i].state = "PENDING" THEN 1 ELSE 0]
        /\ b = [i \in 1 .. n |-> IF s[i].name = x /\ s[i].state = "RUNNING" THEN 1 ELSE 0]
        /\ c = [i \in 1 .. n |-> IF s[i].name = x /\ s[i].state = "SUSPENDED" THEN 1 ELSE 0]
    OBVIOUS
  <2>2. /\ ForName(a, s, n, x, "PENDING") /\ ForName(b, s, n, x, "RUNNING")
        /\ ForName(c, s, n, x, "SUSPENDED")
    BY <2>1 DEF ForName
  <2>. QED
    BY <1>1, <2>2, NameCounts
<1>5. ASSUME NEW x \in D
      PROVE  h1[x] = SumFunctionOnSet(b1[x], 1 .. n) /\ h2[x] = SumFunctionOnSet(b2[x], 1 .. n)
  <2>1. PICK a, b, c : a = b2[x] /\ b = b1[x] /\ c = b3[x]
    OBVIOUS
  <2>2. /\ ForName(a, s, n, x, "PENDING") /\ ForName(b, s, n, x, "RUNNING")
        /\ ForName(c, s, n, x, "SUSPENDED")
    BY <1>2, <2>1 DEF ForName
  <2>3. Reads(m, x).pending = SumFunctionOnSet(a, 1 .. n) /\ Reads(m, x).running = SumFunctionOnSet(b, 1 .. n)
    BY <2>2, NameCounts
  <2>4. Reads(m, x) = m[x]
    BY <1>1 DEF Reads
  <2>. QED
    BY <1>1, <2>1, <2>3, <2>4
<1>6. NamesOf(D, s, n)
  BY <1>4 DEF NamesOf
<1>7. RowSums(b1, D, 1 .. n, h1)
  BY <1>5 DEF RowSums
<1>8. RowSums(b2, D, 1 .. n, h2)
  BY <1>5 DEF RowSums
<1>9. SumFunctionOnSet(h1, D) = SumFunctionOnSet(t1, 1 .. n)
  BY <1>3, <1>6, <1>7, NamesAddUp
<1>10. SumFunctionOnSet(h2, D) = SumFunctionOnSet(t2, 1 .. n)
  BY <1>3, <1>6, <1>8, NamesAddUp
<1>11. Total(m, "running") = SumFunctionOnSet(h1, D) /\ Total(m, "pending") = SumFunctionOnSet(h2, D)
  <2>1. [x \in DOMAIN m |-> m[x]["running"]] = h1 /\ [x \in DOMAIN m |-> m[x]["pending"]] = h2
    BY <1>1
  <2>2. DOMAIN h1 = D /\ DOMAIN h2 = D
    BY <1>1
  <2>. QED
    BY <2>1, <2>2 DEF Total, SumFunction
<1>. QED
  BY <1>9, <1>10, <1>11

\* The accounts' totals are the running jobs, and the tasks of the pending ones.
LEMMA AccountsTotals ==
  ASSUME JobTable,
         NEW r, \A j \in JobIds : r[j] = IF jobs[j].state = "RUNNING" THEN 1 ELSE 0,
         NEW w, \A j \in JobIds : w[j] = IF jobs[j].state = "PENDING" THEN jobs[j].tasks ELSE 0
  PROVE  /\ Total(accounts, "running") = SumFunctionOnSet(r, JobIds)
         /\ Total(accounts, "pending") = SumFunctionOnSet(w, JobIds)
<1>1. PICK lines, m : lines = SqueueJobsData /\ m = accounts
  OBVIOUS
<1>2. lines \in Seq(QueueLines)
  <2>1. PICK v, x : /\ v = [l \in QueueLines |-> IF l.state = "RUNNING" /\ 0 \in ToSet(squeuePartitions(l.part)) THEN 1 ELSE 0]
                    /\ x = [j \in JobIds |-> IF jobs[j].state = "RUNNING" /\ 0 \in ToSet(jobs[j].parts) THEN Tasks[j] ELSE 0]
    OBVIOUS
  <2>2. InPart(v, "RUNNING", 0) /\ JobsIn(x, "RUNNING", 0, Tasks)
    BY <2>1 DEF InPart, JobsIn
  <2>. QED
    BY <1>1, <2>2, TasksIn
<1>3. PICK n \in Nat : DOMAIN lines = 1 .. n
  BY <1>2
<1>4. PICK s : s = projectNamedJobView(lines, "account")
  OBVIOUS
<1>5. NamedLines(s, n)
  BY <1>2, <1>3, <1>4, NamedView
<1>6. \A i \in 1 .. n : s[i].state = lines[i].state
  BY <1>2, <1>3, <1>4, NamedView
<1>7. m = FoldLeft(CountJob, Empty, s)
  BY <1>1, <1>4 DEF accounts, ParseAccountsMetrics
<1>8. PICK v1, v2, t1, t2 :
        /\ v1 = [l \in QueueLines |-> IF l.state = "RUNNING" THEN 1 ELSE 0]
        /\ v2 = [l \in QueueLines |-> IF l.state = "PENDING" THEN 1 ELSE 0]
        /\ t1 = [i \in 1 .. n |-> v1[lines[i]]]
        /\ t2 = [i \in 1 .. n |-> v2[lines[i]]]
  OBVIOUS
<1>9. ASSUME NEW i \in 1 .. n
      PROVE  /\ t1[i] = IF s[i].state = "RUNNING" THEN 1 ELSE 0
             /\ t2[i] = IF s[i].state = "PENDING" THEN 1 ELSE 0
             /\ t1[i] = v1[lines[i]] /\ t2[i] = v2[lines[i]]
  <2>1. PICK l : l = lines[i]
    OBVIOUS
  <2>2. l \in QueueLines
    BY <1>2, <1>3, <2>1
  <2>3. s[i].state = l.state /\ t1[i] = v1[l] /\ t2[i] = v2[l]
    BY <1>6, <1>8, <2>1
  <2>. QED
    BY <1>8, <2>1, <2>2, <2>3
<1>10. InState(t1, s, n, "RUNNING")
  BY <1>9 DEF InState
<1>11. InState(t2, s, n, "PENDING")
  BY <1>9 DEF InState
<1>12. Total(m, "running") = SumFunctionOnSet(t1, 1 .. n) /\ Total(m, "pending") = SumFunctionOnSet(t2, 1 .. n)
  BY <1>5, <1>7, <1>10, <1>11, StateTotal
<1>13. ASSUME NEW j \in JobIds
       PROVE  /\ r[j] = IF j \notin FreeIds /\ jobs[j].state \in DefaultStates /\ v1[JobLine(j)] = 1 THEN jobs[j].tasks ELSE 0
              /\ w[j] = IF j \notin FreeIds /\ jobs[j].state \in DefaultStates /\ v2[JobLine(j)] = 1 THEN jobs[j].tasks ELSE 0
  <2>1. PICK l, st, ts : l = JobLine(j) /\ st = jobs[j].state /\ ts = jobs[j].tasks
    OBVIOUS
  <2>2. st \in {"PENDING", "RUNNING"} => j \notin FreeIds /\ st \in DefaultStates
    BY <2>1, JobIn
  <2>3. st = "RUNNING" => ts = 1
    BY <2>1, JobIn
  <2>4. j \notin FreeIds => l \in QueueLines /\ l.state = st
    BY <2>1, LineOfJob
  <2>5. j \notin FreeIds => v1[l] = (IF st = "RUNNING" THEN 1 ELSE 0) /\ v2[l] = (IF st = "PENDING" THEN 1 ELSE 0)
    BY <1>8, <2>4
  <2>6. r[j] = (IF st = "RUNNING" THEN 1 ELSE 0) /\ w[j] = (IF st = "PENDING" THEN ts ELSE 0)
    BY <2>1
  <2>7. /\ r[j] = IF j \notin FreeIds /\ st \in DefaultStates /\ v1[l] = 1 THEN ts ELSE 0
        /\ w[j] = IF j \notin FreeIds /\ st \in DefaultStates /\ v2[l] = 1 THEN ts ELSE 0
    BY <2>2, <2>3, <2>5, <2>6
  <2>. QED
    BY <2>1, <2>7
<1>14. CountsTasks(r, v1) /\ CountsTasks(w, v2)
  BY <1>13 DEF CountsTasks
<1>15. \A l \in QueueLines : v1[l] \in {0, 1}
  BY <1>8
<1>16. \A l \in QueueLines : v2[l] \in {0, 1}
  BY <1>8
<1>17. \A i \in 1 .. n : t1[i] = v1[lines[i]]
  BY <1>9
<1>18. \A i \in 1 .. n : t2[i] = v2[lines[i]]
  BY <1>9
<1>19. SumFunctionOnSet(t1, 1 .. n) = SumFunctionOnSet(r, JobIds)
  BY <1>1, <1>3, <1>14, <1>15, <1>17, TaskLines
<1>20. SumFunctionOnSet(t2, 1 .. n) = SumFunctionOnSet(w, JobIds)
  BY <1>1, <1>3, <1>14, <1>16, <1>18, TaskLines
<1>. QED
  BY <1>1, <1>12, <1>19, <1>20

\* A running job is counted in one partition, or is in a hidden one.
LEMMA RunningInOne ==
  ASSUME JobTable, NEW running, running = FoldLeft(CountIn, Known, projectPartitionView(SqueueJobsData, "RUNNING")),
         NEW P, P = Partitions \ Hidden,
         NEW hidden, hidden = {j \in JobIds : jobs[j].state = "RUNNING" /\ Head(jobs[j].parts) \in Hidden},
         NEW z, \A j \in JobIds : z[j] = IF jobs[j].state = "RUNNING" THEN 1 ELSE 0
  PROVE  SumFunctionOnSet(running, P) = SumFunctionOnSet(z, JobIds) - Cardinality(hidden)
<1>1. IsFiniteSet(JobIds)
  BY JobQueueAssumption, FS_Interval DEF JobIds
<1>2. IsFiniteSet(P)
  BY JobQueueAssumption, FS_Subset
<1>3. PICK a, b : /\ a = [j \in JobIds |-> [p \in P |-> IF jobs[j].state = "RUNNING" /\ p \in ToSet(jobs[j].parts) THEN 1 ELSE 0]]
                  /\ b = [p \in P |-> [j \in JobIds |-> IF jobs[j].state = "RUNNING" /\ p \in ToSet(jobs[j].parts) THEN 1 ELSE 0]]
  OBVIOUS
<1>4. Table(a, b, JobIds, P)
  BY <1>3 DEF Table
<1>5. ASSUME NEW p \in P PROVE running[p] = SumFunctionOnSet(b[p], JobIds)
  <2>1. PICK w : w = b[p]
    OBVIOUS
  <2>2. ASSUME NEW j \in JobIds
        PROVE  w[j] = IF jobs[j].state = "RUNNING" /\ p \in ToSet(jobs[j].parts) THEN Tasks[j] ELSE 0
    <3>1. w[j] = IF jobs[j].state = "RUNNING" /\ p \in ToSet(jobs[j].parts) THEN 1 ELSE 0
      BY <1>3, <2>1
    <3>2. jobs[j].state = "RUNNING" => Tasks[j] = 1
      BY JobIn DEF Tasks
    <3>. QED
      BY <3>1, <3>2
  <2>3. JobsIn(w, "RUNNING", p, Tasks)
    BY <2>2 DEF JobsIn
  <2>4. running[p] = SumFunctionOnSet(w, JobIds)
    BY <2>3, PartitionIs
  <2>. QED
    BY <2>1, <2>4
<1>6. RowSums(b, P, JobIds, running)
  BY <1>5 DEF RowSums
<1>7. PICK r, hd : /\ r = [j \in JobIds |-> IF jobs[j].state = "RUNNING" /\ Head(jobs[j].parts) \notin Hidden THEN 1 ELSE 0]
                   /\ hd = [j \in JobIds |-> IF jobs[j].state = "RUNNING" /\ Head(jobs[j].parts) \in Hidden THEN 1 ELSE 0]
  OBVIOUS
<1>8. ASSUME NEW j \in JobIds PROVE r[j] = SumFunctionOnSet(a[j], P)
  <2>1. PICK row, parts, st : row = a[j] /\ parts = jobs[j].parts /\ st = jobs[j].state
    OBVIOUS
  <2>2. \A p \in P : row[p] = IF st = "RUNNING" /\ p \in ToSet(parts) THEN 1 ELSE 0
    BY <1>3, <2>1
  <2>3. CASE st = "RUNNING" /\ Head(parts) \notin Hidden
    <3>1. ValidJob(jobs[j]) /\ Len(parts) = 1
      BY <2>1, <2>3, JobIn
    <3>2. parts \in Seq(Partitions)
      BY <2>1, <3>1 DEF ValidJob, SomeJob
    <3>3. PICK p0 : p0 = Head(parts)
      OBVIOUS
    <3>4. p0 \in P /\ ToSet(parts) = {p0}
      BY <2>3, <3>1, <3>2, <3>3 DEF ToSet
    <3>5. row[p0] = 1
      BY <2>2, <2>3, <3>4
    <3>6. \A p \in {p0} : row[p] \in Int /\ row[p] = row[p]
      BY <3>5
    <3>7. \A p \in P \ {p0} : row[p] = 0
      BY <2>2, <3>4
    <3>8. SumFunctionOnSet(row, P) = SumFunctionOnSet(row, {p0})
      BY <1>2, <3>4, <3>6, <3>7, SumFilter
    <3>9. row[p0] \in Int
      BY <3>5
    <3>10. SumFunctionOnSet(row, {p0}) = row[p0]
      BY <3>9, SumOne
    <3>11. r[j] = 1
      BY <1>7, <2>1, <2>3
    <3>. QED
      BY <2>1, <3>5, <3>8, <3>10, <3>11
  <2>4. CASE ~(st = "RUNNING" /\ Head(parts) \notin Hidden)
    <3>1. \A p \in P \ {} : row[p] = 0
      <4>1. CASE st # "RUNNING"
        BY <2>2, <4>1
      <4>2. CASE st = "RUNNING" /\ Head(parts) \in Hidden
        <5>1. ValidJob(jobs[j]) /\ Len(parts) = 1
          BY <2>1, <4>2, JobIn
        <5>2. parts \in Seq(Partitions)
          BY <2>1, <5>1 DEF ValidJob, SomeJob
        <5>3. ToSet(parts) = {Head(parts)}
          BY <5>1, <5>2 DEF ToSet
        <5>. QED
          BY <2>2, <4>2, <5>3
      <4>. QED
        BY <2>4, <4>1, <4>2
    <3>2. \A p \in {} : row[p] \in Int /\ row[p] = row[p]
      OBVIOUS
    <3>3. SumFunctionOnSet(row, P) = SumFunctionOnSet(row, {})
      BY <1>2, <3>1, <3>2, SumFilter
    <3>4. SumFunctionOnSet(row, {}) = 0
      BY SumEmpty
    <3>5. r[j] = 0
      BY <1>7, <2>1, <2>4
    <3>. QED
      BY <2>1, <3>3, <3>4, <3>5
  <2>. QED
    BY <2>3, <2>4
<1>9. RowSums(a, JobIds, P, r)
  BY <1>8 DEF RowSums
<1>10. SumFunctionOnSet(r, JobIds) = SumFunctionOnSet(running, P)
  BY <1>1, <1>2, <1>4, <1>6, <1>9, SumSwap
<1>11. \A j \in JobIds : r[j] \in Int /\ hd[j] \in Int /\ z[j] = r[j] + hd[j]
  BY <1>7
<1>12. SumFunctionOnSet(z, JobIds) = SumFunctionOnSet(r, JobIds) + SumFunctionOnSet(hd, JobIds)
  BY <1>1, <1>11, SumPlus
<1>13. SumFunctionOnSet(hd, JobIds) = Cardinality(hidden)
  <2>1. hidden \in SUBSET JobIds
    OBVIOUS
  <2>2. IsFiniteSet(hidden)
    BY <1>1, <2>1, FS_Subset
  <2>3. \A j \in hidden : hd[j] = 1
    BY <1>7
  <2>4. \A j \in hidden : hd[j] \in Int /\ hd[j] = hd[j]
    BY <2>3
  <2>5. \A j \in JobIds \ hidden : hd[j] = 0
    BY <1>7
  <2>6. SumFunctionOnSet(hd, JobIds) = SumFunctionOnSet(hd, hidden)
    BY <1>1, <2>1, <2>4, <2>5, SumFilter
  <2>7. SumFunctionOnSet(hd, hidden) = Cardinality(hidden)
    BY <2>2, <2>3, SumOnes
  <2>. QED
    BY <2>6, <2>7
<1>14. SumFunctionOnSet(r, JobIds) \in Int /\ SumFunctionOnSet(hd, JobIds) \in Int
  BY <1>1, <1>11, SumInt
<1>. QED
  BY <1>10, <1>12, <1>13, <1>14

\* Running jobs are counted once, and pending ones no more often than there are.
THEOREM RunningOnce == QueueSpec => []RunningCountedOnce
<1>1. ASSUME JobTable PROVE RunningCountedOnce
  <2>1. PICK m, a, pending, running, P, hidden :
          /\ m = partitions /\ a = accounts
          /\ pending = FoldLeft(CountIn, Known, projectPartitionView(SqueueJobsData, "PENDING"))
          /\ running = FoldLeft(CountIn, Known, projectPartitionView(SqueueJobsData, "RUNNING"))
          /\ P = Partitions \ Hidden
          /\ hidden = {j \in JobIds : jobs[j].state = "RUNNING" /\ Head(jobs[j].parts) \in Hidden}
    OBVIOUS
  <2>2. m.jobPending = pending /\ m.jobRunning = running
    BY <2>1 DEF partitions, parsePartitionJobs
  <2>3. IsFiniteSet(JobIds)
    BY JobQueueAssumption, FS_Interval DEF JobIds
  <2>4. PICK z, w : /\ z = [j \in JobIds |-> IF jobs[j].state = "RUNNING" THEN 1 ELSE 0]
                    /\ w = [j \in JobIds |-> IF jobs[j].state = "PENDING" THEN jobs[j].tasks ELSE 0]
    OBVIOUS
  <2>5. \A j \in JobIds : z[j] = IF jobs[j].state = "RUNNING" THEN 1 ELSE 0
    BY <2>4
  <2>6. \A j \in JobIds : w[j] = IF jobs[j].state = "PENDING" THEN jobs[j].tasks ELSE 0
    BY <2>4
  <2>7. Total(a, "running") = SumFunctionOnSet(z, JobIds) /\ Total(a, "pending") = SumFunctionOnSet(w, JobIds)
    BY <1>1, <2>1, <2>5, <2>6, AccountsTotals
  <2>8. SumFunctionOnSet(running, P) = SumFunctionOnSet(z, JobIds) - Cardinality(hidden)
    BY <1>1, <2>1, <2>5, RunningInOne
  <2>9. ASSUME NEW p \in P PROVE pending[p] <= SumFunctionOnSet(w, JobIds)
    <3>1. PICK x : x = [j \in JobIds |-> IF jobs[j].state = "PENDING" /\ p \in ToSet(jobs[j].parts) THEN Tasks[j] ELSE 0]
      OBVIOUS
    <3>2. JobsIn(x, "PENDING", p, Tasks)
      BY <3>1 DEF JobsIn
    <3>3. pending[p] = SumFunctionOnSet(x, JobIds)
      BY <1>1, <2>1, <3>2, PartitionIs
    <3>4. ASSUME NEW j \in JobIds PROVE x[j] \in Int /\ w[j] \in Int /\ x[j] <= w[j]
      <4>1. PICK ts : ts = jobs[j].tasks
        OBVIOUS
      <4>2. jobs[j].state = "PENDING" => ts \in Nat
        BY <1>1, <4>1, JobIn
      <4>3. x[j] = IF jobs[j].state = "PENDING" /\ p \in ToSet(jobs[j].parts) THEN ts ELSE 0
        BY <3>1, <4>1 DEF Tasks
      <4>4. w[j] = IF jobs[j].state = "PENDING" THEN ts ELSE 0
        BY <2>4, <4>1
      <4>. QED
        BY <4>2, <4>3, <4>4
    <3>5. SumFunctionOnSet(x, JobIds) <= SumFunctionOnSet(w, JobIds)
      BY <2>3, <3>4, SumLeq
    <3>. QED
      BY <3>3, <3>5
  <2>. QED
    BY <2>1, <2>2, <2>7, <2>8, <2>9 DEF RunningCountedOnce
<1>. QED
  BY <1>1, JobTableCorrect, PTL

-----------------------------------------------------------------------------
(* The state of slurmctld's statistics (Scheduler).                        *)

\* Calls that were not made took no time.
StatsInv == /\ StatsTypeOK
            /\ \A o \in Operations, u \in RPCUsers : calls[o][u].count = 0 => calls[o][u].time = 0

\* An event that counts changes nothing but figures, which stay numbers.
LEMMA FiguresUpdated ==
  ASSUME StatsInv, NEW changes, \A f \in DOMAIN changes : changes[f] \in Nat, Updates(changes)
  PROVE  StatsInv'
<1>1. calls' = calls
  BY DEF Updates
<1>2. figures' \in [Counters \cup Levels -> Nat]
  <2>1. DOMAIN figures = Counters \cup Levels /\ \A f \in Counters \cup Levels : figures[f] \in Nat
    BY DEF StatsInv, StatsTypeOK
  <2>. QED
    BY <2>1 DEF Updates
<1>. QED
  BY <1>1, <1>2 DEF StatsInv, StatsTypeOK

\* slurmctld's statistics stay well formed, whatever it counts.
THEOREM StatsCorrect == StatsSpec => []StatsInv
<1>1. StatsInit => StatsInv
  BY DEF StatsInit, StatsInv, StatsTypeOK, NoCalls
<1>2. ASSUME StatsInv, [StatsNext]_statsVars PROVE StatsInv'
  <2>0. /\ \A f \in Counters \cup Levels : figures[f] \in Nat /\ More(f) \in Nat
        /\ Durations \subseteq Nat
    BY <1>2, SchedulerAssumption DEF StatsInv, StatsTypeOK, More
  <2>. DEFINE names == Counters \cup Levels
  <2>1. CASE JobEvent
    <3>1. PICK f \in {"submitted", "started", "completed", "canceled", "failed"} :
            Updates([g \in {f} |-> More(g)])
      BY <2>1 DEF JobEvent
    <3>2. f \in names
      BY DEF Counters
    <3>. QED
      BY <1>2, <2>0, <3>1, <3>2, FiguresUpdated
  <2>2. CASE LoadChanges
    <3>1. PICK f \in {"threads", "agentQueue", "dbdQueue"} : Updates([g \in {f} |-> More(g)])
      BY <2>2 DEF LoadChanges
    <3>2. f \in names
      BY DEF Levels
    <3>. QED
      BY <1>2, <2>0, <3>1, <3>2, FiguresUpdated
  <2>3. CASE MainCycle
    <3>1. PICK d \in Durations :
            Updates([cycles |-> More("cycles"), cycleTime |-> figures.cycleTime + d, lastCycle |-> d])
      BY <2>3 DEF MainCycle
    <3>2. More("cycles") \in Nat /\ figures.cycleTime + d \in Nat /\ d \in Nat
      <4>1. "cycles" \in names /\ "cycleTime" \in names
        BY DEF Counters
      <4>. QED
        BY <2>0, <4>1
    <3>. QED
      BY <1>2, <3>1, <3>2, FiguresUpdated
  <2>4. CASE BackfillCycle
    <3>1. PICK d \in Durations, looked \in 0 .. 1 :
            Updates([bfCycles |-> More("bfCycles"), bfCycleTime |-> figures.bfCycleTime + d,
                     bfLastCycle |-> d, bfDepth |-> figures.bfDepth + looked])
      BY <2>4 DEF BackfillCycle
    <3>2. /\ More("bfCycles") \in Nat /\ figures.bfCycleTime + d \in Nat /\ d \in Nat
          /\ figures.bfDepth + looked \in Nat
      <4>1. "bfCycles" \in names /\ "bfCycleTime" \in names /\ "bfDepth" \in names
        BY DEF Counters
      <4>. QED
        BY <2>0, <4>1
    <3>. QED
      BY <1>2, <3>1, <3>2, FiguresUpdated
  <2>5. CASE Backfilled
    <3>1. PICK hetero \in 0 .. 1 :
            Updates([bfJobsCycle |-> More("bfJobsCycle"), bfJobsStart |-> More("bfJobsStart"),
                     bfHetero |-> figures.bfHetero + hetero, started |-> More("started")])
      BY <2>5 DEF Backfilled
    <3>2. /\ More("bfJobsCycle") \in Nat /\ More("bfJobsStart") \in Nat /\ More("started") \in Nat
          /\ figures.bfHetero + hetero \in Nat
      <4>1. /\ "bfJobsCycle" \in names /\ "bfJobsStart" \in names /\ "started" \in names
            /\ "bfHetero" \in names
        BY DEF Counters, Levels
      <4>. QED
        BY <2>0, <4>1
    <3>. QED
      BY <1>2, <3>1, <3>2, FiguresUpdated
  <2>6. CASE MinutePasses
    BY <1>2, <2>6, FiguresUpdated DEF MinutePasses
  <2>7. CASE ServesRPC
    <3>1. PICK o \in Operations, u \in RPCUsers, d \in Durations :
            /\ calls' = [calls EXCEPT ![o][u].count = @ + 1, ![o][u].time = @ + d]
            /\ figures' = figures
      BY <2>7 DEF ServesRPC
    <3>2. PICK cell \in [count : Nat, time : Nat] : cell = calls[o][u]
      BY <1>2 DEF StatsInv, StatsTypeOK
    <3>3. PICK row : row = [cell EXCEPT !.count = @ + 1, !.time = @ + d]
      OBVIOUS
    <3>4. row \in [count : Nat, time : Nat] /\ row.count # 0
      <4>1. cell.count + 1 \in Nat \ {0} /\ cell.time + d \in Nat
        BY <2>0
      <4>. QED
        BY <3>3, <4>1
    <3>5. calls' = [calls EXCEPT ![o][u] = row]
      <4>2. calls = [p \in Operations |-> calls[p]] /\ calls[o] = [v \in RPCUsers |-> calls[o][v]]
        BY <1>2 DEF StatsInv, StatsTypeOK
      <4>. QED
        BY <3>1, <3>2, <3>3, <4>2
    <3>6. /\ calls' \in [Operations -> [RPCUsers -> [count : Nat, time : Nat]]]
          /\ \A p \in Operations, v \in RPCUsers : calls'[p][v] \in {row, calls[p][v]}
      BY <1>2, <3>4, <3>5 DEF StatsInv, StatsTypeOK
    <3>. QED
      BY <1>2, <3>1, <3>4, <3>6 DEF StatsInv, StatsTypeOK
  <2>8. CASE ResetStats
    BY <1>2, <2>8 DEF ResetStats, StatsInv, StatsTypeOK, NoCalls
  <2>9. CASE UNCHANGED statsVars
    BY <1>2, <2>9 DEF statsVars, StatsInv, StatsTypeOK
  <2>. QED
    BY <1>2, <2>1, <2>2, <2>3, <2>4, <2>5, <2>6, <2>7, <2>8, <2>9 DEF StatsNext
<1>. QED
  BY <1>1, <1>2, PTL DEF StatsSpec

-----------------------------------------------------------------------------
\* The loop of ParseRPCStats.
RPCRead == INSTANCE FoldProofs WITH Step <- RPCLine

\* Two listings, one after the other, are read one after the other.
LEMMA RPCInTwo ==
  ASSUME NEW S, NEW s \in Seq(S), NEW t \in Seq(S), NEW p
  PROVE  /\ s \o t \in Seq(S)
         /\ RPCRead!Folded(p, s \o t) = RPCRead!Folded(RPCRead!Folded(p, s), t)
<1>0. Len(s) \in Nat /\ Len(t) \in Nat /\ s \o t \in Seq(S)
  OBVIOUS
<1>1. PICK m, n, st : m = Len(s) /\ n = Len(t) /\ st = s \o t
  OBVIOUS
<1>2. RPCRead!Joins(st, s, m, t, n)
  BY <1>1 DEF RPCRead!Joins
<1>. QED
  BY <1>0, <1>1, <1>2, RPCRead!InTwo

\* The keys of the lines of figures.
FigureKeys == {"Server_thread_count", "Agent_queue_size", "DBD_Agent_queue_size",
        "Cycles_per_minute", "Depth_Mean", "Total_backfilled_jobs_(since_last_slurm_start)",
        "Total_backfilled_jobs_(since_last_stats_cycle_start)",
        "Total_backfilled_heterogeneous_job_components", "Jobs_submitted", "Jobs_started",
        "Jobs_completed", "Jobs_canceled", "Jobs_failed", "Last_cycle", "Mean_cycle",
        "Last_cycle_when", "Last_depth_cycle"}

\* The lines of figures.
FigureLine == [kind : {"figure"}, key : FigureKeys, value : Nat]

\* What sdiag writes of a figure is such a line.
LEMMA FigureIs ==
  ASSUME NEW k \in FigureKeys, NEW v \in Nat
  PROVE  Figure(k, v) \in FigureLine
BY DEF Figure, FigureLine

\* A mean is a number, even of nothing.
LEMMA MeanNat == ASSUME NEW m \in Nat, NEW n \in Nat PROVE Mean(m, n) \in Nat
BY DEF Mean

\* A line that sdiag may leave out is a sequence of lines.
LEMMA Optional ==
  ASSUME NEW S, NEW c, NEW x, c => x \in S
  PROVE  If(c, <<x>>) \in Seq(S)
BY DEF If

\* One line and five lines are sequences of lines.
LEMMA FewLines ==
  ASSUME NEW S, NEW a \in S, NEW b \in S, NEW c \in S, NEW d \in S, NEW e \in S
  PROVE  <<a>> \in Seq(S) /\ <<a, b, c, d, e>> \in Seq(S)
OBVIOUS

\* Nine lines are a sequence of lines.
LEMMA MoreLines ==
  ASSUME NEW S, NEW a \in S, NEW b \in S, NEW c \in S, NEW d \in S, NEW e \in S, NEW f \in S,
         NEW g \in S, NEW h \in S, NEW i \in S
  PROVE  <<a, b, c, d, e, f, g, h, i>> \in Seq(S)
OBVIOUS

\* The lines of figures, in seven parts: those that sdiag may leave out are parts of their own.
MainLines ==
  << Figure("Server_thread_count", figures.threads),
     Figure("Agent_queue_size", figures.agentQueue),
     Figure("DBD_Agent_queue_size", figures.dbdQueue),
     Figure("Jobs_submitted", figures.submitted),
     Figure("Jobs_started", figures.started),
     Figure("Jobs_completed", figures.completed),
     Figure("Jobs_canceled", figures.canceled),
     Figure("Jobs_failed", figures.failed),
     Figure("Last_cycle", figures.lastCycle) >>
MeanLine == If(figures.cycles > 0, << Figure("Mean_cycle", Mean(figures.cycleTime, figures.cycles)) >>)
RateLine == If(figures.minutes > 0, << Figure("Cycles_per_minute", figures.cycles \div figures.minutes) >>)
BackfillLines ==
  << Figure("Total_backfilled_jobs_(since_last_slurm_start)", figures.bfJobsStart),
     Figure("Total_backfilled_jobs_(since_last_stats_cycle_start)", figures.bfJobsCycle),
     Figure("Total_backfilled_heterogeneous_job_components", figures.bfHetero),
     Figure("Last_cycle_when", 0),
     Figure("Last_cycle", figures.bfLastCycle) >>
BackfillMeanLine ==
  If(figures.bfCycles > 0, << Figure("Mean_cycle", Mean(figures.bfCycleTime, figures.bfCycles)) >>)
DepthLine     == << Figure("Last_depth_cycle", 0) >>
DepthMeanLine ==
  If(figures.bfCycles > 0, << Figure("Depth_Mean", Mean(figures.bfDepth, figures.bfCycles)) >>)

\* Each of the parts is made of figures.
LEMMA FigureLinesTyped ==
  ASSUME StatsInv
  PROVE  /\ FigureLines = MainLines \o MeanLine \o RateLine \o BackfillLines
                            \o BackfillMeanLine \o DepthLine \o DepthMeanLine
         /\ {MainLines, MeanLine, RateLine, BackfillLines, BackfillMeanLine, DepthLine, DepthMeanLine}
              \subseteq Seq(FigureLine)
         /\ FigureLines \in Seq(FigureLine)
<1>1. \A f \in Counters \cup Levels : figures[f] \in Nat
  BY DEF StatsInv, StatsTypeOK
<1>2. /\ figures.threads \in Nat /\ figures.agentQueue \in Nat /\ figures.dbdQueue \in Nat
      /\ figures.submitted \in Nat /\ figures.started \in Nat /\ figures.completed \in Nat
      /\ figures.canceled \in Nat /\ figures.failed \in Nat /\ figures.lastCycle \in Nat
      /\ figures.cycles \in Nat /\ figures.cycleTime \in Nat /\ figures.minutes \in Nat
      /\ figures.bfJobsStart \in Nat /\ figures.bfJobsCycle \in Nat /\ figures.bfHetero \in Nat
      /\ figures.bfLastCycle \in Nat /\ figures.bfCycles \in Nat /\ figures.bfCycleTime \in Nat
      /\ figures.bfDepth \in Nat
  BY <1>1 DEF Counters, Levels
<1>3. /\ Mean(figures.cycleTime, figures.cycles) \in Nat
      /\ Mean(figures.bfCycleTime, figures.bfCycles) \in Nat
      /\ Mean(figures.bfDepth, figures.bfCycles) \in Nat
      /\ figures.minutes > 0 => figures.cycles \div figures.minutes \in Nat
  <2>1. \A m, n \in Nat : n > 0 => m \div n \in Nat
    OBVIOUS
  <2>. QED
    BY <1>2, <2>1, MeanNat
<1>4. /\ Figure("Server_thread_count", figures.threads) \in FigureLine
      /\ Figure("Agent_queue_size", figures.agentQueue) \in FigureLine
      /\ Figure("DBD_Agent_queue_size", figures.dbdQueue) \in FigureLine
      /\ Figure("Jobs_submitted", figures.submitted) \in FigureLine
      /\ Figure("Jobs_started", figures.started) \in FigureLine
      /\ Figure("Jobs_completed", figures.completed) \in FigureLine
      /\ Figure("Jobs_canceled", figures.canceled) \in FigureLine
      /\ Figure("Jobs_failed", figures.failed) \in FigureLine
      /\ Figure("Last_cycle", figures.lastCycle) \in FigureLine
  BY <1>2, FigureIs DEF FigureKeys
<1>5. /\ Figure("Total_backfilled_jobs_(since_last_slurm_start)", figures.bfJobsStart) \in FigureLine
      /\ Figure("Total_backfilled_jobs_(since_last_stats_cycle_start)", figures.bfJobsCycle) \in FigureLine
      /\ Figure("Total_backfilled_heterogeneous_job_components", figures.bfHetero) \in FigureLine
      /\ Figure("Last_cycle_when", 0) \in FigureLine
      /\ Figure("Last_cycle", figures.bfLastCycle) \in FigureLine
      /\ Figure("Last_depth_cycle", 0) \in FigureLine
  BY <1>2, FigureIs DEF FigureKeys
<1>6. /\ Figure("Mean_cycle", Mean(figures.cycleTime, figures.cycles)) \in FigureLine
      /\ figures.minutes > 0 => Figure("Cycles_per_minute", figures.cycles \div figures.minutes) \in FigureLine
      /\ Figure("Mean_cycle", Mean(figures.bfCycleTime, figures.bfCycles)) \in FigureLine
      /\ Figure("Depth_Mean", Mean(figures.bfDepth, figures.bfCycles)) \in FigureLine
  BY <1>3, FigureIs DEF FigureKeys
<1>7. /\ MeanLine \in Seq(FigureLine) /\ RateLine \in Seq(FigureLine)
      /\ BackfillMeanLine \in Seq(FigureLine) /\ DepthMeanLine \in Seq(FigureLine)
  BY <1>6, Optional DEF MeanLine, RateLine, BackfillMeanLine, DepthMeanLine
<1>8. MainLines \in Seq(FigureLine)
  BY <1>4, MoreLines DEF MainLines
<1>9. BackfillLines \in Seq(FigureLine) /\ DepthLine \in Seq(FigureLine)
  BY <1>5, FewLines DEF BackfillLines, DepthLine
<1>10. FigureLines = MainLines \o MeanLine \o RateLine \o BackfillLines
                      \o BackfillMeanLine \o DepthLine \o DepthMeanLine
  BY DEF FigureLines, MainLines, MeanLine, RateLine, BackfillLines, BackfillMeanLine, DepthLine, DepthMeanLine
<1>11. \A S : \A s, t \in Seq(S) : s \o t \in Seq(S)
  OBVIOUS
<1>. QED
  BY <1>7, <1>8, <1>9, <1>10, <1>11

-----------------------------------------------------------------------------
\* What ParseRPCStats has made of the lines so far, and before the first.
Parsed(sec, a, b) == [section |-> sec, rpcStats |-> a, userRPCStats |-> b]
Unread == Parsed("none", << >>, << >>)

\* The two titles differ, and neither is the key of a figure.
LEMMA TitlesAre == /\ ByMessageType # ByUser /\ {ByMessageType, ByUser} \cap FigureKeys = {}
                   /\ Title(ByMessageType).key = ByMessageType /\ Title(ByUser).key = ByUser
                   /\ Title(ByMessageType).kind # "rpc" /\ Title(ByUser).kind # "rpc"
BY DEF ByMessageType, ByUser, FigureKeys, Title

\* A line that is no row can only change the section; a row goes to the table of the section.
LEMMA LineRead ==
  ASSUME NEW sec, NEW a, NEW b, NEW line
  PROVE  /\ line.kind # "rpc" =>
              RPCLine(Parsed(sec, a, b), line) = Parsed(Section(Parsed(sec, a, b), line), a, b)
         /\ line.kind = "rpc" /\ line.key \in DOMAIN Label =>
              /\ RPCLine(Parsed("rpcStats", a, b), line) = Parsed("rpcStats", Stored(a, line), b)
              /\ RPCLine(Parsed("userRPCStats", a, b), line) = Parsed("userRPCStats", a, Stored(b, line))
<1>1. /\ Parsed(sec, a, b).rpcStats = a /\ Parsed(sec, a, b).userRPCStats = b
      /\ \A s : Parsed(s, a, b).section = s
  BY DEF Parsed
<1>2. ASSUME line.key \in DOMAIN Label, NEW s PROVE Section(Parsed(s, a, b), line) = s
  BY <1>1, <1>2, SchedulerAssumption DEF Section
<1>3. \A s : Parsed(s, a, b).rpcStats = a /\ Parsed(s, a, b).userRPCStats = b
  BY DEF Parsed
<1>4. line.kind # "rpc" =>
              RPCLine(Parsed(sec, a, b), line) = Parsed(Section(Parsed(sec, a, b), line), a, b)
  BY <1>1 DEF RPCLine, Parsed
<1>5. ASSUME line.kind = "rpc", line.key \in DOMAIN Label
      PROVE  RPCLine(Parsed("rpcStats", a, b), line) = Parsed("rpcStats", Stored(a, line), b)
  BY <1>2, <1>3, <1>5 DEF RPCLine, Parsed
<1>6. ASSUME line.kind = "rpc", line.key \in DOMAIN Label
      PROVE  RPCLine(Parsed("userRPCStats", a, b), line) = Parsed("userRPCStats", a, Stored(b, line))
  BY <1>2, <1>3, <1>6 DEF RPCLine, Parsed
<1>. QED
  BY <1>4, <1>5, <1>6

\* The lines of figures come before the sections: nothing is read from them.
LEMMA FiguresPass ==
  ASSUME NEW s \in Seq(FigureLine)
  PROVE  RPCRead!Folded(Unread, s) = Unread
<1>1. Len(s) \in Nat /\ DOMAIN s = 1 .. Len(s) /\ \A i \in 1 .. Len(s) : s[i] \in FigureLine
  OBVIOUS
<1>2. ASSUME NEW line \in FigureLine PROVE RPCLine(Unread, line) = Unread
  <2>1. line.kind # "rpc" /\ line.key \in FigureKeys
    BY DEF FigureLine
  <2>2. Section(Unread, line) = "none"
    BY <2>1, TitlesAre DEF Section, Unread, Parsed
  <2>. QED
    BY <2>1, <2>2, LineRead DEF Unread
<1>3. PICK n, u : n = Len(s) /\ u = Unread
  OBVIOUS
<1>4. n \in Nat /\ DOMAIN s = 1 .. n
  BY <1>1, <1>3
<1>5. \A i \in 1 .. n : RPCLine(u, s[i]) = u
  BY <1>1, <1>2, <1>3
<1>. QED
  BY <1>3, <1>4, <1>5, RPCRead!Idle

\* A title begins its section.
LEMMA TitleRead ==
  ASSUME NEW sec, NEW a, NEW b
  PROVE  /\ RPCRead!Folded(Parsed(sec, a, b), <<Title(ByMessageType)>>) = Parsed("rpcStats", a, b)
         /\ RPCRead!Folded(Parsed(sec, a, b), <<Title(ByUser)>>) = Parsed("userRPCStats", a, b)
<1>1. ASSUME NEW x, NEW p PROVE RPCRead!Folded(p, <<x>>) = RPCLine(p, x)
  <2>1. PICK s : s = <<x>>
    OBVIOUS
  <2>2. DOMAIN s = 1 .. 1 /\ s[1] = x /\ 1 .. 1 = {1}
    BY <2>1
  <2>. QED
    BY <2>1, <2>2, RPCRead!Single
<1>2. /\ Section(Parsed(sec, a, b), Title(ByMessageType)) = "rpcStats"
      /\ Section(Parsed(sec, a, b), Title(ByUser)) = "userRPCStats"
  BY TitlesAre DEF Section
<1>. QED
  BY <1>1, <1>2, TitlesAre, LineRead

\* A table with a row stored after another.
Tabled == INSTANCE FoldProofs WITH Step <- Stored

\* The rows of a table.
TableRows(s, n) == s = [i \in 1 .. n |-> s[i]] /\ \A i \in 1 .. n : s[i].kind = "rpc" /\ s[i].key \in DOMAIN Label

\* The rows of a section are stored in its table, one after another, and nowhere else.
LEMMA RowsRead ==
  ASSUME NEW n \in Nat, NEW s, TableRows(s, n), NEW a, NEW b
  PROVE  /\ RPCRead!Folded(Parsed("rpcStats", a, b), s) = Parsed("rpcStats", Tabled!Folded(a, s), b)
         /\ RPCRead!Folded(Parsed("userRPCStats", a, b), s) = Parsed("userRPCStats", a, Tabled!Folded(b, s))
<1>0. DOMAIN s = 1 .. n
  BY DEF TableRows
<1>1. ASSUME NEW p PROVE \E g : RPCRead!Runs(g, p, s, n)
  BY <1>0, RPCRead!OneRun
<1>2. ASSUME NEW p PROVE \E h : Tabled!Runs(h, p, s, n)
  BY <1>0, Tabled!OneRun
<1>3. PICK g : RPCRead!Runs(g, Parsed("rpcStats", a, b), s, n)
  BY <1>1
<1>4. PICK h : Tabled!Runs(h, a, s, n)
  BY <1>2
<1>5. PICK k : RPCRead!Runs(k, Parsed("userRPCStats", a, b), s, n)
  BY <1>1
<1>6. PICK l : Tabled!Runs(l, b, s, n)
  BY <1>2
<1>. DEFINE S == {i \in Nat : i <= n => g[i] = Parsed("rpcStats", h[i], b)
                                        /\ k[i] = Parsed("userRPCStats", a, l[i])}
<1>7. 0 \in S
  BY <1>3, <1>4, <1>5, <1>6 DEF RPCRead!Runs, Tabled!Runs
<1>8. ASSUME NEW i \in Nat, i \in S PROVE i + 1 \in S
  <2> SUFFICES ASSUME i + 1 <= n
               PROVE  /\ g[i + 1] = Parsed("rpcStats", h[i + 1], b)
                      /\ k[i + 1] = Parsed("userRPCStats", a, l[i + 1])
    OBVIOUS
  <2>1. i + 1 \in 1 .. n /\ (i + 1) - 1 = i
    OBVIOUS
  <2>2. g[i] = Parsed("rpcStats", h[i], b) /\ k[i] = Parsed("userRPCStats", a, l[i])
    BY <1>8
  <2>3. /\ g[i + 1] = RPCLine(g[i], s[i + 1]) /\ k[i + 1] = RPCLine(k[i], s[i + 1])
    BY <1>3, <1>5, <2>1 DEF RPCRead!Runs
  <2>4. /\ h[i + 1] = Stored(h[i], s[i + 1]) /\ l[i + 1] = Stored(l[i], s[i + 1])
    BY <1>4, <1>6, <2>1 DEF Tabled!Runs
  <2>5. s[i + 1].kind = "rpc" /\ s[i + 1].key \in DOMAIN Label
    BY <2>1 DEF TableRows
  <2>. QED
    BY <2>2, <2>3, <2>4, <2>5, LineRead
<1>9. n \in S
  <2>. HIDE DEF S
  <2>. QED
    BY <1>7, <1>8, NatInd
<1>. QED
  BY <1>3, <1>4, <1>5, <1>6, <1>9 DEF RPCRead!Runs, Tabled!Runs

-----------------------------------------------------------------------------
\* What a row says of one name.
Said(line) == [count |-> line.count, ave |-> line.ave, total |-> line.total]

\* A table has one entry for each label, and says of a label that only one row has what that row says.
TableOf(t, s, n) == /\ DOMAIN t = {Label[s[i].key] : i \in 1 .. n}
                    /\ (\A i, j \in 1 .. n : Label[s[i].key] = Label[s[j].key] => i = j)
                         => \A i \in 1 .. n : t[Label[s[i].key]] = Said(s[i])

\* A table is made of its rows.
LEMMA TableRead ==
  ASSUME NEW n \in Nat, NEW s, TableRows(s, n)
  PROVE  TableOf(Tabled!Folded(<< >>, s), s, n)
<1>0. DOMAIN s = 1 .. n
  BY DEF TableRows
<1>1. PICK none : none = << >> /\ DOMAIN none = {}
  OBVIOUS
<1>2. PICK g : Tabled!Runs(g, none, s, n)
  BY <1>0, Tabled!OneRun
<1>. DEFINE S == {i \in Nat : i <= n =>
                    /\ DOMAIN g[i] = {Label[s[j].key] : j \in 1 .. i}
                    /\ (\A j, k \in 1 .. n : Label[s[j].key] = Label[s[k].key] => j = k)
                          => \A j \in 1 .. i : g[i][Label[s[j].key]] = Said(s[j])}
<1>3. 0 \in S
  BY <1>1, <1>2 DEF Tabled!Runs
<1>4. ASSUME NEW i \in Nat, i \in S PROVE i + 1 \in S
  <2> SUFFICES ASSUME i + 1 <= n
               PROVE  /\ DOMAIN g[i + 1] = {Label[s[j].key] : j \in 1 .. i + 1}
                      /\ (\A j, k \in 1 .. n : Label[s[j].key] = Label[s[k].key] => j = k)
                           => \A j \in 1 .. i + 1 : g[i + 1][Label[s[j].key]] = Said(s[j])
    OBVIOUS
  <2>1. i + 1 \in 1 .. n /\ (i + 1) - 1 = i /\ \A j \in 1 .. i + 1 : j = i + 1 \/ j \in 1 .. i
    OBVIOUS
  <2>2. g[i + 1] = Stored(g[i], s[i + 1])
    BY <1>2, <2>1 DEF Tabled!Runs
  <2>3. PICK new, old, l : new = g[i + 1] /\ old = g[i] /\ l = Label[s[i + 1].key]
    OBVIOUS
  <2>4. /\ DOMAIN new = DOMAIN old \cup {l}
        /\ new[l] = Said(s[i + 1])
        /\ \A x \in DOMAIN old : x # l => new[x] = old[x]
    BY <2>2, <2>3 DEF Stored, Said
  <2>5. DOMAIN old = {Label[s[j].key] : j \in 1 .. i}
    BY <1>4, <2>3
  <2>6. DOMAIN new = {Label[s[j].key] : j \in 1 .. i + 1}
    BY <2>1, <2>3, <2>4, <2>5
  <2>7. ASSUME \A j, k \in 1 .. n : Label[s[j].key] = Label[s[k].key] => j = k, NEW j \in 1 .. i + 1
        PROVE  new[Label[s[j].key]] = Said(s[j])
    <3>1. CASE j = i + 1
      BY <2>3, <2>4, <3>1
    <3>2. CASE j # i + 1
      <4>1. j \in 1 .. i /\ j \in 1 .. n /\ Label[s[j].key] # l
        BY <2>1, <2>3, <2>7, <3>2
      <4>2. old[Label[s[j].key]] = Said(s[j])
        BY <1>4, <2>3, <2>7, <4>1
      <4>. QED
        BY <2>4, <2>5, <4>1, <4>2
    <3>. QED
      BY <3>1, <3>2
  <2>. QED
    BY <2>3, <2>6, <2>7
<1>5. n \in S
  <2>. HIDE DEF S
  <2>. QED
    BY <1>3, <1>4, NatInd
<1>6. Tabled!Folded(<< >>, s) = g[n]
  BY <1>1, <1>2 DEF Tabled!Runs
<1>7. /\ DOMAIN g[n] = {Label[s[j].key] : j \in 1 .. n}
      /\ (\A j, k \in 1 .. n : Label[s[j].key] = Label[s[k].key] => j = k)
            => \A j \in 1 .. n : g[n][Label[s[j].key]] = Said(s[j])
  BY <1>5
<1>. HIDE DEF S
<1>. QED
  BY <1>6, <1>7 DEF TableOf

\* s has a row for each of those that were called, in some order.
RowsFor(s, called, ct, tm) ==
  s = [i \in 1 .. Cardinality(called) |->
         LET x == SetToSeq(called)[i] IN RPCRow(x, ct[x], tm[x])]

\* t has an entry for the label of each of those that were called.
Tabulates(t, called, ct, tm) ==
  /\ DOMAIN t = {Label[x] : x \in called}
  /\ (\A x, y \in called : Label[x] = Label[y] => x = y)
       => \A x \in called : t[Label[x]] = Said(RPCRow(x, ct[x], tm[x]))

\* Whatever the order of the rows.
LEMMA CalledRows ==
  ASSUME NEW called \in SUBSET DOMAIN Label, NEW ct, NEW tm, NEW s, RowsFor(s, called, ct, tm)
  PROVE  /\ \E n \in Nat : TableRows(s, n)
         /\ Tabulates(Tabled!Folded(<< >>, s), called, ct, tm)
<1>2. IsFiniteSet(called)
  BY SchedulerAssumption, FS_Subset
<1>3. PICK n \in Nat : n = Cardinality(called)
  BY <1>2, FS_CardinalityType
<1>4. PICK q : q = SetToSeq(called)
  OBVIOUS
<1>5. /\ \A i \in 1 .. n : q[i] \in called
      /\ \A i, j \in 1 .. n : q[i] = q[j] => i = j
      /\ \A x \in called : \E i \in 1 .. n : q[i] = x
  BY <1>2, <1>3, <1>4, Listed
<1>6. s = [i \in 1 .. n |-> RPCRow(q[i], ct[q[i]], tm[q[i]])]
  BY <1>3, <1>4 DEF RowsFor
<1>7. \A x, c, d : RPCRow(x, c, d).kind = "rpc" /\ RPCRow(x, c, d).key = x
  BY DEF RPCRow
<1>8. DOMAIN s = 1 .. n /\ \A i \in 1 .. n : s[i] = RPCRow(q[i], ct[q[i]], tm[q[i]])
  BY <1>6
<1>9. \A i \in 1 .. n : s[i].key = q[i] /\ s[i].kind = "rpc"
  BY <1>7, <1>8
<1>10. TableRows(s, n)
  <2>1. s = [i \in 1 .. n |-> s[i]]
    BY <1>6, <1>8
  <2>. QED
    BY <1>5, <1>9, <2>1 DEF TableRows
<1>11. PICK t : t = Tabled!Folded(<< >>, s)
  OBVIOUS
<1>12. TableOf(t, s, n)
  BY <1>10, <1>11, TableRead
<1>13. DOMAIN t = {Label[x] : x \in called}
  <2>1. DOMAIN t = {Label[s[i].key] : i \in 1 .. n}
    BY <1>12 DEF TableOf
  <2>2. \A i \in 1 .. n : Label[s[i].key] = Label[q[i]]
    BY <1>9
  <2>. QED
    BY <1>5, <2>1, <2>2
<1>14. ASSUME \A x, y \in called : Label[x] = Label[y] => x = y, NEW x \in called
       PROVE  t[Label[x]] = Said(RPCRow(x, ct[x], tm[x]))
  <2>1. \A i, j \in 1 .. n : Label[q[i]] = Label[q[j]] => i = j
    BY <1>5, <1>14
  <2>2. \A i, j \in 1 .. n : Label[s[i].key] = Label[s[j].key] => i = j
    BY <1>9, <2>1
  <2>3. PICK i \in 1 .. n : q[i] = x
    BY <1>5
  <2>4. t[Label[s[i].key]] = Said(s[i])
    BY <1>12, <2>2 DEF TableOf
  <2>. QED
    BY <1>8, <1>9, <2>3, <2>4
<1>. QED
  BY <1>10, <1>11, <1>13, <1>14 DEF Tabulates

\* The rows of the two tables, as sdiag writes them.
OperationRows == RPCRows(Operations, OfOperation)
UserRows      == RPCRows(RPCUsers, OfUser)

\* The table of one field, by operation or by user.
ByOperation(field) == [o \in Operations |-> OfOperation(field, o)]
BySender(field)    == [u \in RPCUsers |-> OfUser(field, u)]

\* Those that have a row.
CalledOperations == {o \in Operations : ByOperation("count")[o] > 0}
CallingUsers     == {u \in RPCUsers : BySender("count")[u] > 0}

\* sdiag writes a row for each operation and each user that was called or called.
LEMMA RowsWritten ==
  /\ RowsFor(OperationRows, CalledOperations, ByOperation("count"), ByOperation("time"))
  /\ RowsFor(UserRows, CallingUsers, BySender("count"), BySender("time"))
  /\ CalledOperations \in SUBSET DOMAIN Label /\ CallingUsers \in SUBSET DOMAIN Label
  /\ \E m \in Nat : TableRows(OperationRows, m)
  /\ \E n \in Nat : TableRows(UserRows, n)
<1>1. PICK so, su : so = OperationRows /\ su = UserRows
  OBVIOUS
<1>2. CalledOperations \in SUBSET DOMAIN Label /\ CallingUsers \in SUBSET DOMAIN Label
  BY SchedulerAssumption DEF CalledOperations, CallingUsers
<1>3. \A called \in SUBSET DOMAIN Label : \A i \in 1 .. Cardinality(called) : SetToSeq(called)[i] \in called
  <2>1. \A called \in SUBSET DOMAIN Label : IsFiniteSet(called)
    BY SchedulerAssumption, FS_Subset
  <2>. QED
    BY <2>1, Listed
<1>4. RowsFor(so, CalledOperations, ByOperation("count"), ByOperation("time"))
  <2>1. PICK co : co = CalledOperations /\ co = {x \in Operations : OfOperation("count", x) > 0}
    BY DEF CalledOperations, ByOperation
  <2>2. \A o \in co : /\ OfOperation("count", o) = ByOperation("count")[o]
                      /\ OfOperation("time", o) = ByOperation("time")[o]
    BY <2>1 DEF ByOperation
  <2>3. so = [i \in 1 .. Cardinality(co) |->
                LET x == SetToSeq(co)[i] IN RPCRow(x, OfOperation("count", x), OfOperation("time", x))]
    BY <1>1, <2>1 DEF OperationRows, RPCRows
  <2>4. \A i \in 1 .. Cardinality(co) : SetToSeq(co)[i] \in co
    BY <1>2, <1>3, <2>1
  <2>. QED
    BY <2>1, <2>2, <2>3, <2>4 DEF RowsFor
<1>5. RowsFor(su, CallingUsers, BySender("count"), BySender("time"))
  <2>1. PICK cu : cu = CallingUsers /\ cu = {x \in RPCUsers : OfUser("count", x) > 0}
    BY DEF CallingUsers, BySender
  <2>2. \A u \in cu : /\ OfUser("count", u) = BySender("count")[u]
                      /\ OfUser("time", u) = BySender("time")[u]
    BY <2>1 DEF BySender
  <2>3. su = [i \in 1 .. Cardinality(cu) |->
                LET x == SetToSeq(cu)[i] IN RPCRow(x, OfUser("count", x), OfUser("time", x))]
    BY <1>1, <2>1 DEF UserRows, RPCRows
  <2>4. \A i \in 1 .. Cardinality(cu) : SetToSeq(cu)[i] \in cu
    BY <1>2, <1>3, <2>1
  <2>. QED
    BY <2>1, <2>2, <2>3, <2>4 DEF RowsFor
<1>7. (\E m \in Nat : TableRows(so, m)) /\ \E n \in Nat : TableRows(su, n)
  BY <1>2, <1>4, <1>5, CalledRows
<1>. QED
  BY <1>1, <1>2, <1>4, <1>5, <1>7

\* What ParseRPCStats makes of the output: one table of the operations' rows and one of the users'.
LEMMA StatsRead ==
  ASSUME StatsInv
  PROVE  \E t, v :
           /\ ParseRPCStats(SchedulerData) = Parsed("userRPCStats", t, v)
           /\ Tabulates(t, CalledOperations, ByOperation("count"), ByOperation("time"))
           /\ Tabulates(v, CallingUsers, BySender("count"), BySender("time"))
<1>1. PICK so, su : so = OperationRows /\ su = UserRows
  OBVIOUS
<1>2. PICK t, v : t = Tabled!Folded(<< >>, so) /\ v = Tabled!Folded(<< >>, su)
  OBVIOUS
<1>3. /\ RowsFor(so, CalledOperations, ByOperation("count"), ByOperation("time"))
      /\ RowsFor(su, CallingUsers, BySender("count"), BySender("time"))
      /\ CalledOperations \in SUBSET DOMAIN Label /\ CallingUsers \in SUBSET DOMAIN Label
  BY <1>1, RowsWritten
<1>7. PICK m \in Nat : TableRows(so, m)
  BY <1>1, RowsWritten
<1>8. PICK n \in Nat : TableRows(su, n)
  BY <1>1, RowsWritten
<1>9. /\ Tabulates(t, CalledOperations, ByOperation("count"), ByOperation("time"))
      /\ Tabulates(v, CallingUsers, BySender("count"), BySender("time"))
  BY <1>2, <1>3, CalledRows
<1>10. ParseRPCStats(SchedulerData) = Parsed("userRPCStats", t, v)
  <2>2. PICK f, t1, t2 : f = FigureLines /\ t1 = <<Title(ByMessageType)>> /\ t2 = <<Title(ByUser)>>
    OBVIOUS
  <2>3. PICK S : S = FigureLine \cup {Title(ByMessageType), Title(ByUser)}
                       \cup {so[i] : i \in 1 .. m} \cup {su[i] : i \in 1 .. n}
    OBVIOUS
  <2>4. f \in Seq(FigureLine) /\ f \in Seq(S)
    <3>1. f \in Seq(FigureLine) /\ FigureLine \subseteq S
      BY <2>2, <2>3, FigureLinesTyped
    <3>. QED
      BY <3>1
  <2>5. t1 \in Seq(S) /\ t2 \in Seq(S)
    BY <2>2, <2>3
  <2>6. so \in Seq(S) /\ su \in Seq(S)
    <3>1. (\A i \in 1 .. m : so[i] \in S) /\ \A i \in 1 .. n : su[i] \in S
      BY <2>3
    <3>2. so = [i \in 1 .. m |-> so[i]] /\ su = [i \in 1 .. n |-> su[i]]
      BY <1>7, <1>8 DEF TableRows
    <3>. QED
      BY <3>1, <3>2
  <2>7. SchedulerData = f \o t1 \o so \o t2 \o su
    BY <1>1, <2>2 DEF SchedulerData, OperationRows, UserRows
  <2>8. ParseRPCStats(SchedulerData) = RPCRead!Folded(Unread, f \o t1 \o so \o t2 \o su)
    BY <2>7 DEF ParseRPCStats, Unread, Parsed, RPCRead!Folded, FoldLeft, MapThenFoldSet,
       RPCRead!MapThenFoldSet, Max, RPCRead!Greatest
  <2>. HIDE <2>3
  <2>9. PICK a1 : a1 = f \o t1
    OBVIOUS
  <2>a. PICK a2 : a2 = a1 \o so
    OBVIOUS
  <2>b. PICK a3 : a3 = a2 \o t2
    OBVIOUS
  <2>c. a1 \in Seq(S) /\ a2 \in Seq(S) /\ a3 \in Seq(S)
    BY <2>4, <2>5, <2>6, <2>9, <2>a, <2>b
  <2>10. RPCRead!Folded(Unread, f) = Unread
    BY <2>4, FiguresPass
  <2>11. RPCRead!Folded(Unread, a1) = RPCRead!Folded(RPCRead!Folded(Unread, f), t1)
    BY <2>4, <2>5, <2>9, RPCInTwo
  <2>12. RPCRead!Folded(Unread, a2) = RPCRead!Folded(RPCRead!Folded(Unread, a1), so)
    BY <2>6, <2>a, <2>c, RPCInTwo
  <2>13. RPCRead!Folded(Unread, a3) = RPCRead!Folded(RPCRead!Folded(Unread, a2), t2)
    BY <2>5, <2>b, <2>c, RPCInTwo
  <2>14. RPCRead!Folded(Unread, a3 \o su) = RPCRead!Folded(RPCRead!Folded(Unread, a3), su)
    BY <2>6, <2>c, RPCInTwo
  <2>15. RPCRead!Folded(Unread, a1) = Parsed("rpcStats", << >>, << >>)
    BY <2>2, <2>10, <2>11, TitleRead DEF Unread
  <2>16. RPCRead!Folded(Unread, a2) = Parsed("rpcStats", t, << >>)
    BY <1>2, <1>7, <2>12, <2>15, RowsRead
  <2>17. RPCRead!Folded(Unread, a3) = Parsed("userRPCStats", t, << >>)
    BY <2>2, <2>13, <2>16, TitleRead
  <2>18. RPCRead!Folded(Unread, a3 \o su) = Parsed("userRPCStats", t, v)
    BY <1>2, <1>8, <2>14, <2>17, RowsRead
  <2>. QED
    BY <2>8, <2>9, <2>a, <2>b, <2>18
<1>. QED
  BY <1>9, <1>10

-----------------------------------------------------------------------------
\* Nothing but zeros adds up to zero.
LEMMA SumZero ==
  ASSUME NEW f, NEW S, IsFiniteSet(S), \A x \in S : f[x] \in Nat, SumFunctionOnSet(f, S) = 0, NEW y \in S
  PROVE  f[y] = 0
<1>1. SumFunctionOnSet(f, S) = f[y] + SumFunctionOnSet(f, S \ {y})
  BY SumRemove
<1>2. SumFunctionOnSet(f, S \ {y}) \in Nat
  <2>1. IsFiniteSet(S \ {y})
    BY FS_Subset
  <2>. QED
    BY <2>1, SumNat
<1>. QED
  BY <1>1, <1>2

\* What an entry says.
LEMMA SaidIs ==
  ASSUME NEW x, NEW c, NEW d
  PROVE  Said(RPCRow(x, c, d)).count = c /\ Said(RPCRow(x, c, d)).total = d
BY DEF Said, RPCRow

\* A table with an entry for each of those that were called adds up to their figures.
LEMMA TableSum ==
  ASSUME NEW called \in SUBSET DOMAIN Label, NEW ct, NEW tm, NEW t, Tabulates(t, called, ct, tm),
         \A x, y \in called : Label[x] = Label[y] => x = y,
         \A x \in called : ct[x] \in Nat /\ tm[x] \in Nat
  PROVE  /\ SumFunction([n \in DOMAIN t |-> t[n]["count"]]) = SumFunctionOnSet(ct, called)
         /\ SumFunction([n \in DOMAIN t |-> t[n]["total"]]) = SumFunctionOnSet(tm, called)
<1>1. IsFiniteSet(called)
  BY SchedulerAssumption, FS_Subset
<1>2. OneToOne(Label, called, DOMAIN t)
  BY DEF Tabulates, OneToOne
<1>3. \A x \in called : t[Label[x]].count = ct[x] /\ t[Label[x]].total = tm[x]
  <2>1. \A x \in called : t[Label[x]] = Said(RPCRow(x, ct[x], tm[x]))
    BY DEF Tabulates
  <2>. QED
    BY <2>1, SaidIs
<1>4. PICK D : D = DOMAIN t
  OBVIOUS
<1>5. PICK f, g : f = [n \in D |-> t[n]["count"]] /\ g = [n \in D |-> t[n]["total"]]
  OBVIOUS
<1>6. \A x \in called : Label[x] \in D /\ ct[x] = f[Label[x]] /\ tm[x] = g[Label[x]]
  BY <1>2, <1>3, <1>4, <1>5 DEF OneToOne
<1>7. \A y \in D : f[y] \in Int /\ g[y] \in Int
  BY <1>2, <1>4, <1>6 DEF OneToOne
<1>8. SumFunctionOnSet(ct, called) = SumFunctionOnSet(f, D)
  BY <1>1, <1>2, <1>4, <1>6, <1>7, SumReindex
<1>9. SumFunctionOnSet(tm, called) = SumFunctionOnSet(g, D)
  BY <1>1, <1>2, <1>4, <1>6, <1>7, SumReindex
<1>10. SumFunction(f) = SumFunctionOnSet(f, D) /\ SumFunction(g) = SumFunctionOnSet(g, D)
  BY <1>5 DEF SumFunction, SumFunctionOnSet
<1>. QED
  BY <1>4, <1>5, <1>8, <1>9, <1>10

\* Summed over the operations and over the users, calls are the same, and those of an operation
\* or a user that are not counted took no time.
LEMMA CallsAddUp ==
  ASSUME StatsInv, NEW field \in {"count", "time"}
  PROVE  /\ \A o \in Operations : ByOperation(field)[o] \in Nat
         /\ \A u \in RPCUsers : BySender(field)[u] \in Nat
         /\ SumFunctionOnSet(ByOperation(field), Operations) = SumFunctionOnSet(BySender(field), RPCUsers)
         /\ \A o \in Operations \ CalledOperations : ByOperation(field)[o] = 0
         /\ \A u \in RPCUsers \ CallingUsers : BySender(field)[u] = 0
<1>1. IsFiniteSet(Operations) /\ IsFiniteSet(RPCUsers)
  BY SchedulerAssumption, FS_Subset
<1>2. \A o \in Operations, u \in RPCUsers :
        /\ calls[o][u]["count"] \in Nat /\ calls[o][u]["time"] \in Nat
        /\ calls[o][u]["count"] = 0 => calls[o][u]["time"] = 0
  BY DEF StatsInv, StatsTypeOK
<1>. DEFINE A(fd) == [o \in Operations |-> [u \in RPCUsers |-> calls[o][u][fd]]]
            B(fd) == [u \in RPCUsers |-> [o \in Operations |-> calls[o][u][fd]]]
<1>3. ASSUME NEW fd \in {"count", "time"}
      PROVE  /\ \A o \in Operations : /\ A(fd)[o] = [u \in RPCUsers |-> calls[o][u][fd]]
                                      /\ ByOperation(fd)[o] = SumFunctionOnSet(A(fd)[o], RPCUsers)
                                      /\ ByOperation(fd)[o] \in Nat
             /\ \A u \in RPCUsers : /\ B(fd)[u] = [o \in Operations |-> calls[o][u][fd]]
                                    /\ BySender(fd)[u] = SumFunctionOnSet(B(fd)[u], Operations)
                                    /\ BySender(fd)[u] \in Nat
  <2>1. ASSUME NEW o \in Operations
        PROVE  /\ A(fd)[o] = [u \in RPCUsers |-> calls[o][u][fd]]
               /\ ByOperation(fd)[o] = SumFunctionOnSet(A(fd)[o], RPCUsers)
               /\ ByOperation(fd)[o] \in Nat
    <3>1. PICK f : f = [u \in RPCUsers |-> calls[o][u][fd]]
      OBVIOUS
    <3>2. ByOperation(fd)[o] = SumFunctionOnSet(f, RPCUsers)
      BY <3>1 DEF ByOperation, OfOperation, SumFunction, SumFunctionOnSet
    <3>3. \A u \in RPCUsers : f[u] \in Nat
      BY <1>2, <3>1
    <3>4. SumFunctionOnSet(f, RPCUsers) \in Nat
      BY <1>1, <3>3, SumNat
    <3>. QED
      BY <3>1, <3>2, <3>4
  <2>2. ASSUME NEW u \in RPCUsers
        PROVE  /\ B(fd)[u] = [o \in Operations |-> calls[o][u][fd]]
               /\ BySender(fd)[u] = SumFunctionOnSet(B(fd)[u], Operations)
               /\ BySender(fd)[u] \in Nat
    <3>1. PICK f : f = [o \in Operations |-> calls[o][u][fd]]
      OBVIOUS
    <3>2. BySender(fd)[u] = SumFunctionOnSet(f, Operations)
      BY <3>1 DEF BySender, OfUser, SumFunction, SumFunctionOnSet
    <3>3. \A o \in Operations : f[o] \in Nat
      BY <1>2, <3>1
    <3>4. SumFunctionOnSet(f, Operations) \in Nat
      BY <1>1, <3>3, SumNat
    <3>. QED
      BY <3>1, <3>2, <3>4
  <2>. QED
    BY <2>1, <2>2
<1>4. SumFunctionOnSet(ByOperation(field), Operations) = SumFunctionOnSet(BySender(field), RPCUsers)
  <2>1. PICK a, b : a = A(field) /\ b = B(field)
    OBVIOUS
  <2>2. Table(a, b, Operations, RPCUsers)
    BY <1>2, <2>1 DEF Table
  <2>3. /\ RowSums(a, Operations, RPCUsers, ByOperation(field))
        /\ RowSums(b, RPCUsers, Operations, BySender(field))
    BY <1>3, <2>1 DEF RowSums
  <2>. QED
    BY <1>1, <2>2, <2>3, SumSwap
<1>5. ASSUME NEW o \in Operations \ CalledOperations PROVE ByOperation(field)[o] = 0
  <2>1. PICK c, d : c = A("count")[o] /\ d = A(field)[o]
    OBVIOUS
  <2>2. SumFunctionOnSet(c, RPCUsers) = 0
    BY <1>3, <2>1 DEF CalledOperations
  <2>3. \A u \in RPCUsers : c[u] \in Nat /\ (c[u] = 0 => d[u] = 0)
    BY <1>2, <2>1
  <2>4. \A u \in RPCUsers : c[u] = 0
    BY <1>1, <2>2, <2>3, SumZero
  <2>5. SumFunctionOnSet(d, RPCUsers) = 0 * Cardinality(RPCUsers)
    BY <1>1, <2>3, <2>4, SumConst
  <2>. QED
    BY <1>1, <1>3, <2>1, <2>5, FS_CardinalityType
<1>6. ASSUME NEW u \in RPCUsers \ CallingUsers PROVE BySender(field)[u] = 0
  <2>1. PICK c, d : c = B("count")[u] /\ d = B(field)[u]
    OBVIOUS
  <2>2. SumFunctionOnSet(c, Operations) = 0
    BY <1>3, <2>1 DEF CallingUsers
  <2>3. \A o \in Operations : c[o] \in Nat /\ (c[o] = 0 => d[o] = 0)
    BY <1>2, <2>1
  <2>4. \A o \in Operations : c[o] = 0
    BY <1>1, <2>2, <2>3, SumZero
  <2>5. SumFunctionOnSet(d, Operations) = 0 * Cardinality(Operations)
    BY <1>1, <2>3, <2>4, SumConst
  <2>. QED
    BY <1>1, <1>3, <2>1, <2>5, FS_CardinalityType
<1>. QED
  BY <1>3, <1>4, <1>5, <1>6

\* The two tables of RPCs are two views of the same calls: summed over the operations and over
\* the users they are the same, and each row is the figure of the operation or user it is about.
THEOREM RPCViewsAgreeHolds == StatsSpec => []RPCViewsAgree
<1>1. ASSUME StatsInv PROVE RPCViewsAgree
  <2>1. PICK t, v : /\ ParseRPCStats(SchedulerData) = Parsed("userRPCStats", t, v)
                    /\ Tabulates(t, CalledOperations, ByOperation("count"), ByOperation("time"))
                    /\ Tabulates(v, CallingUsers, BySender("count"), BySender("time"))
    BY <1>1, StatsRead
  <2>2. PICK rpc : rpc = ParseRPCStats(SchedulerData)
    OBVIOUS
  <2>3. rpc.rpcStats = t /\ rpc.userRPCStats = v
    BY <2>1, <2>2 DEF Parsed
  <2>4. /\ CalledOperations \in SUBSET DOMAIN Label /\ CallingUsers \in SUBSET DOMAIN Label
        /\ CalledOperations \in SUBSET Operations /\ CallingUsers \in SUBSET RPCUsers
        /\ IsFiniteSet(Operations) /\ IsFiniteSet(RPCUsers)
        /\ \A o, p \in CalledOperations : Label[o] = Label[p] => o = p
    BY SchedulerAssumption, FS_Subset DEF CalledOperations, CallingUsers
  <2>5. ASSUME NEW o \in Operations, OfOperation("count", o) > 0
        PROVE  t[Label[o]].count = OfOperation("count", o)
    <3>1. o \in CalledOperations /\ ByOperation("count")[o] = OfOperation("count", o)
      BY <2>5 DEF CalledOperations, ByOperation
    <3>. QED
      <4>1. t[Label[o]] = Said(RPCRow(o, ByOperation("count")[o], ByOperation("time")[o]))
        BY <2>1, <2>4, <3>1 DEF Tabulates
      <4>. QED
        BY <3>1, <4>1, SaidIs
  <2>6. ASSUME Distinct, NEW u \in RPCUsers, OfUser("count", u) > 0
        PROVE  v[Label[u]].count = OfUser("count", u)
    <3>1. u \in CallingUsers /\ BySender("count")[u] = OfUser("count", u)
      BY <2>6 DEF CallingUsers, BySender
    <3>2. \A x, y \in CallingUsers : Label[x] = Label[y] => x = y
      BY <2>6 DEF Distinct, CallingUsers, BySender
    <3>. QED
      <4>1. v[Label[u]] = Said(RPCRow(u, BySender("count")[u], BySender("time")[u]))
        BY <2>1, <3>1, <3>2 DEF Tabulates
      <4>. QED
        BY <3>1, <4>1, SaidIs
  <2>7. ASSUME Distinct
        PROVE  /\ SumFunction([n \in DOMAIN t |-> t[n]["count"]]) = SumFunction([n \in DOMAIN v |-> v[n]["count"]])
               /\ SumFunction([n \in DOMAIN t |-> t[n]["total"]]) = SumFunction([n \in DOMAIN v |-> v[n]["total"]])
    <3>2. \A x, y \in CallingUsers : Label[x] = Label[y] => x = y
      BY <2>7 DEF Distinct, CallingUsers, BySender
    <3>3. PICK oc, ot, uc, ut : /\ oc = ByOperation("count") /\ ot = ByOperation("time")
                                /\ uc = BySender("count") /\ ut = BySender("time")
      OBVIOUS
    <3>4. /\ \A o \in Operations : oc[o] \in Nat /\ ot[o] \in Nat
          /\ \A u \in RPCUsers : uc[u] \in Nat /\ ut[u] \in Nat
          /\ SumFunctionOnSet(oc, Operations) = SumFunctionOnSet(uc, RPCUsers)
          /\ SumFunctionOnSet(ot, Operations) = SumFunctionOnSet(ut, RPCUsers)
          /\ \A o \in Operations \ CalledOperations : oc[o] = 0 /\ ot[o] = 0
          /\ \A u \in RPCUsers \ CallingUsers : uc[u] = 0 /\ ut[u] = 0
      BY <1>1, <3>3, CallsAddUp
    <3>5. /\ SumFunction([n \in DOMAIN t |-> t[n]["count"]]) = SumFunctionOnSet(oc, CalledOperations)
          /\ SumFunction([n \in DOMAIN t |-> t[n]["total"]]) = SumFunctionOnSet(ot, CalledOperations)
      BY <2>1, <2>4, <3>3, <3>4, TableSum
    <3>6. /\ SumFunction([n \in DOMAIN v |-> v[n]["count"]]) = SumFunctionOnSet(uc, CallingUsers)
          /\ SumFunction([n \in DOMAIN v |-> v[n]["total"]]) = SumFunctionOnSet(ut, CallingUsers)
      BY <2>1, <2>4, <3>2, <3>3, <3>4, TableSum
    <3>7. \A n \in Nat : n \in Int
      OBVIOUS
    <3>8. /\ SumFunctionOnSet(oc, Operations) = SumFunctionOnSet(oc, CalledOperations)
          /\ SumFunctionOnSet(ot, Operations) = SumFunctionOnSet(ot, CalledOperations)
      BY <2>4, <3>4, <3>7, SumFilter
    <3>9. /\ SumFunctionOnSet(uc, RPCUsers) = SumFunctionOnSet(uc, CallingUsers)
          /\ SumFunctionOnSet(ut, RPCUsers) = SumFunctionOnSet(ut, CallingUsers)
      BY <2>4, <3>4, <3>7, SumFilter
    <3>. QED
      BY <3>4, <3>5, <3>6, <3>8, <3>9
  <2>. QED
    BY <2>2, <2>3, <2>5, <2>6, <2>7 DEF RPCViewsAgree
<1>. QED
  BY <1>1, StatsCorrect, PTL

\* The loop of ParseSchedulerMetrics.
FigureRead == INSTANCE FoldProofs WITH Step <- ApplyLine

\* ParseSchedulerMetrics goes from p to q over one line, and over several.
LineLeads(p, line, q)    == ApplyLine(p, line) = q
LinesLead(p, lines, q) == FigureRead!Folded(p, lines) = q

\* Lines that follow others are read from where those leave the parser.
LEMMA FiguresInTwo ==
  ASSUME NEW S, NEW s \in Seq(S), NEW t \in Seq(S), NEW p, NEW q, NEW r,
         LinesLead(p, s, q), LinesLead(q, t, r)
  PROVE  s \o t \in Seq(S) /\ LinesLead(p, s \o t, r)
<1>0. Len(s) \in Nat /\ Len(t) \in Nat /\ s \o t \in Seq(S)
  OBVIOUS
<1>1. PICK m, n, st : m = Len(s) /\ n = Len(t) /\ st = s \o t
  OBVIOUS
<1>2. FigureRead!Joins(st, s, m, t, n)
  BY <1>1 DEF FigureRead!Joins
<1>. QED
  BY <1>0, <1>1, <1>2, FigureRead!InTwo DEF LinesLead

\* Over one line.
LEMMA OneRead ==
  ASSUME NEW p, NEW a, NEW q, LineLeads(p, a, q)
  PROVE  LinesLead(p, <<a>>, q)
<1>1. PICK s : s = <<a>>
  OBVIOUS
<1>2. DOMAIN s = 1 .. 1 /\ s[1] = a /\ 1 .. 1 = {1}
  BY <1>1
<1>. QED
  BY <1>1, <1>2, FigureRead!Single DEF LineLeads, LinesLead

\* Over no line.
LEMMA NoneRead ==
  ASSUME NEW p
  PROVE  LinesLead(p, << >>, p)
<1>1. PICK s : s = << >> /\ DOMAIN s = {}
  OBVIOUS
<1>. QED
  BY <1>1, FigureRead!Nothing DEF LinesLead

\* Over five lines, one after another.
LEMMA FiveRead ==
  ASSUME NEW p0, NEW p1, NEW p2, NEW p3, NEW p4, NEW p5,
         NEW a, NEW b, NEW c, NEW d, NEW e
  PROVE  LineLeads(p0, a, p1) /\ LineLeads(p1, b, p2) /\ LineLeads(p2, c, p3)
           /\ LineLeads(p3, d, p4) /\ LineLeads(p4, e, p5)
         => LinesLead(p0, <<a, b, c, d, e>>, p5)
<1>1. PICK n, s : s = <<a, b, c, d, e>> /\ n = 5
  OBVIOUS
<1>2. n \in Nat /\ DOMAIN s = 1 .. n /\ s[1] = a /\ s[2] = b /\ s[3] = c /\ s[4] = d /\ s[5] = e
  BY <1>1
<1>3. PICK g : FigureRead!Runs(g, p0, s, n)
  BY <1>2, FigureRead!OneRun
<1>4. /\ 1 \in 1 .. n /\ 2 \in 1 .. n /\ 3 \in 1 .. n /\ 4 \in 1 .. n /\ 5 \in 1 .. n
      /\ 1 - 1 = 0 /\ 2 - 1 = 1 /\ 3 - 1 = 2 /\ 4 - 1 = 3 /\ 5 - 1 = 4
  BY <1>1
<1>5. /\ g[0] = p0
      /\ g[1] = ApplyLine(g[0], a) /\ g[2] = ApplyLine(g[1], b) /\ g[3] = ApplyLine(g[2], c)
      /\ g[4] = ApplyLine(g[3], d) /\ g[5] = ApplyLine(g[4], e)
  BY <1>2, <1>3, <1>4 DEF FigureRead!Runs
<1>6. ASSUME LineLeads(p0, a, p1), LineLeads(p1, b, p2), LineLeads(p2, c, p3),
             LineLeads(p3, d, p4), LineLeads(p4, e, p5)
      PROVE  g[5] = p5
  BY <1>5, <1>6 DEF LineLeads
<1>. QED
  BY <1>1, <1>3, <1>6 DEF FigureRead!Runs, LinesLead

\* Over nine lines, one after another.
LEMMA NineRead ==
  ASSUME NEW p0, NEW p1, NEW p2, NEW p3, NEW p4, NEW p5, NEW p6, NEW p7, NEW p8, NEW p9,
         NEW a, NEW b, NEW c, NEW d, NEW e, NEW f, NEW h, NEW i, NEW j
  PROVE  LineLeads(p0, a, p1) /\ LineLeads(p1, b, p2) /\ LineLeads(p2, c, p3)
           /\ LineLeads(p3, d, p4) /\ LineLeads(p4, e, p5) /\ LineLeads(p5, f, p6)
           /\ LineLeads(p6, h, p7) /\ LineLeads(p7, i, p8) /\ LineLeads(p8, j, p9)
         => LinesLead(p0, <<a, b, c, d, e, f, h, i, j>>, p9)
<1>1. PICK n, s : s = <<a, b, c, d, e, f, h, i, j>> /\ n = 9
  OBVIOUS
<1>2. n \in Nat /\ DOMAIN s = 1 .. n /\ s[1] = a /\ s[2] = b /\ s[3] = c /\ s[4] = d /\ s[5] = e /\
      s[6] = f /\ s[7] = h /\ s[8] = i /\ s[9] = j
  BY <1>1
<1>3. PICK g : FigureRead!Runs(g, p0, s, n)
  BY <1>2, FigureRead!OneRun
<1>4. /\ 1 \in 1 .. n /\ 2 \in 1 .. n /\ 3 \in 1 .. n /\ 4 \in 1 .. n /\ 5 \in 1 .. n
      /\ 6 \in 1 .. n /\ 7 \in 1 .. n /\ 8 \in 1 .. n /\ 9 \in 1 .. n
      /\ 1 - 1 = 0 /\ 2 - 1 = 1 /\ 3 - 1 = 2 /\ 4 - 1 = 3 /\ 5 - 1 = 4
      /\ 6 - 1 = 5 /\ 7 - 1 = 6 /\ 8 - 1 = 7 /\ 9 - 1 = 8
  BY <1>1
<1>5. /\ g[0] = p0
      /\ g[1] = ApplyLine(g[0], a) /\ g[2] = ApplyLine(g[1], b) /\ g[3] = ApplyLine(g[2], c)
      /\ g[4] = ApplyLine(g[3], d) /\ g[5] = ApplyLine(g[4], e) /\ g[6] = ApplyLine(g[5], f)
      /\ g[7] = ApplyLine(g[6], h) /\ g[8] = ApplyLine(g[7], i) /\ g[9] = ApplyLine(g[8], j)
  BY <1>2, <1>3, <1>4 DEF FigureRead!Runs
<1>6. ASSUME LineLeads(p0, a, p1), LineLeads(p1, b, p2), LineLeads(p2, c, p3),
             LineLeads(p3, d, p4), LineLeads(p4, e, p5), LineLeads(p5, f, p6),
             LineLeads(p6, h, p7), LineLeads(p7, i, p8), LineLeads(p8, j, p9)
      PROVE  g[9] = p9
  BY <1>5, <1>6 DEF LineLeads
<1>. QED
  BY <1>1, <1>3, <1>6 DEF FigureRead!Runs, LinesLead

-----------------------------------------------------------------------------
\* What ParseSchedulerMetrics has made of the lines so far.
State(sm, seen) == [sm |-> sm, seen |-> seen]

\* One gauge is set.
Put(sm, field, v) == [f \in Fields |-> IF f = field THEN v ELSE sm[f]]

\* A key that appears once has one gauge.
LEMMA FigureFields ==
  ASSUME NEW pair \in FieldOf
  PROVE  /\ pair[1] \notin CycleKeys
         /\ \A f : <<pair[1], f>> \in FieldOf <=> f = pair[2]
<1>1. PICK k, f : pair = <<k, f>>
  BY DEF FieldOf, CoreField, BackfillCounter, JobsField
<1>2. k \notin CycleKeys
  BY <1>1 DEF FieldOf, CoreField, BackfillCounter, JobsField, CycleKeys
<1>3. \A h : <<k, h>> \in FieldOf <=> h = f
  BY <1>1 DEF FieldOf, CoreField, BackfillCounter, JobsField
<1>. QED
  BY <1>1, <1>2, <1>3

\* Its line sets that gauge and no other.
LEMMA PlainRead ==
  ASSUME NEW sm, NEW seen, NEW k, NEW f, <<k, f>> \in FieldOf, NEW v, NEW new, new = Put(sm, f, v)
  PROVE  LineLeads(State(sm, seen), Figure(k, v), State(new, seen))
<1>1. k \notin CycleKeys /\ \A h : <<k, h>> \in FieldOf <=> h = f
  BY FigureFields
<1>2. Figure(k, v).kind = "figure" /\ Figure(k, v).key = k /\ Figure(k, v).value = v
  BY DEF Figure
<1>3. State(sm, seen).sm = sm /\ State(sm, seen).seen = seen
  BY DEF State
<1>4. Assigned(sm, FieldOf, Figure(k, v)) = Put(sm, f, v)
  BY <1>1, <1>2 DEF Assigned, Put
<1>. QED
  BY <1>1, <1>2, <1>3, <1>4 DEF LineLeads, ApplyLine, State

\* A line with no figure of its own.
LEMMA OtherRead ==
  ASSUME NEW sm, sm = [f \in Fields |-> sm[f]], NEW seen, NEW v,
         NEW k \in {"Last_cycle_when", "Last_depth_cycle"}
  PROVE  LineLeads(State(sm, seen), Figure(k, v), State(sm, seen))
<1>1. k \notin CycleKeys /\ \A h : <<k, h>> \notin FieldOf
  BY DEF CycleKeys, FieldOf, CoreField, BackfillCounter, JobsField
<1>2. Figure(k, v).kind = "figure" /\ Figure(k, v).key = k
  BY DEF Figure
<1>3. State(sm, seen).sm = sm /\ State(sm, seen).seen = seen
  BY DEF State
<1>4. Assigned(sm, FieldOf, Figure(k, v)) = sm
  BY <1>1, <1>2 DEF Assigned
<1>. QED
  BY <1>1, <1>2, <1>3, <1>4 DEF LineLeads, ApplyLine, State

\* The figure of a line of the kinds that appear twice: the first of a kind is the main scheduler's.
CycleFigure(k, seen) ==
  IF k = "Last_cycle" THEN IF k \in seen THEN "backfillLastCycle" ELSE "lastCycle"
                       ELSE IF k \in seen THEN "backfillMeanCycle" ELSE "meanCycle"

\* Such a line sets that figure.
LEMMA CycleRead ==
  ASSUME NEW sm, NEW seen, NEW v, NEW k \in CycleKeys, NEW f, f = CycleFigure(k, seen),
         NEW new, new = Put(sm, f, v), NEW s, s = seen \cup {k}
  PROVE  LineLeads(State(sm, seen), Figure(k, v), State(new, s))
<1>1. /\ k \in seen => \A h : <<k, h>> \in BackfillField <=> h = f
      /\ k \notin seen => \A h : <<k, h>> \in MainField <=> h = f
  BY DEF CycleKeys, BackfillField, MainField, CycleFigure
<1>2. Figure(k, v).kind = "figure" /\ Figure(k, v).key = k /\ Figure(k, v).value = v
  BY DEF Figure
<1>3. State(sm, seen).sm = sm /\ State(sm, seen).seen = seen
  BY DEF State
<1>4. Assigned(sm, IF k \in seen THEN BackfillField ELSE MainField, Figure(k, v)) = Put(sm, f, v)
  BY <1>1, <1>2 DEF Assigned, Put
<1>. QED
  BY <1>2, <1>3, <1>4 DEF LineLeads, ApplyLine, applySchedulerCycleField, State

\* There is a gauge of each of these names.
LEMMA FieldNames ==
  {"threads", "queueSize", "dbdQueueSize", "cyclePerMinute", "backfillDepthMean",
   "totalBackfilledJobsSinceStart", "totalBackfilledJobsSinceCycle",
   "totalBackfilledHeterogeneous", "jobsSubmitted", "jobsStarted", "jobsCompleted",
   "jobsCanceled", "jobsFailed", "lastCycle", "meanCycle", "backfillLastCycle",
   "backfillMeanCycle"} \subseteq Fields
<1>1. PICK S : S = FieldOf \cup MainField \cup BackfillField
  OBVIOUS
<1>2. Fields = {pair[2] : pair \in S}
  BY <1>1 DEF Fields
<1>3. \A k, f : <<k, f>> \in S => f \in Fields
  BY <1>2
<1>4. /\ <<"Server_thread_count", "threads">> \in S /\ <<"Agent_queue_size", "queueSize">> \in S
      /\ <<"DBD_Agent_queue_size", "dbdQueueSize">> \in S
      /\ <<"Cycles_per_minute", "cyclePerMinute">> \in S
      /\ <<"Jobs_submitted", "jobsSubmitted">> \in S /\ <<"Jobs_started", "jobsStarted">> \in S
      /\ <<"Jobs_completed", "jobsCompleted">> \in S /\ <<"Jobs_canceled", "jobsCanceled">> \in S
      /\ <<"Jobs_failed", "jobsFailed">> \in S
  BY <1>1 DEF FieldOf, CoreField, JobsField
<1>5. /\ <<"Depth_Mean", "backfillDepthMean">> \in S
      /\ <<"Total_backfilled_jobs_(since_last_slurm_start)", "totalBackfilledJobsSinceStart">> \in S
      /\ <<"Total_backfilled_jobs_(since_last_stats_cycle_start)", "totalBackfilledJobsSinceCycle">> \in S
      /\ <<"Total_backfilled_heterogeneous_job_components", "totalBackfilledHeterogeneous">> \in S
  BY <1>1 DEF FieldOf, BackfillCounter
<1>6. /\ <<"Last_cycle", "lastCycle">> \in S /\ <<"Mean_cycle", "meanCycle">> \in S
      /\ <<"Last_cycle", "backfillLastCycle">> \in S /\ <<"Mean_cycle", "backfillMeanCycle">> \in S
  BY <1>1 DEF MainField, BackfillField
<1>7. /\ "threads" \in Fields /\ "queueSize" \in Fields /\ "dbdQueueSize" \in Fields
      /\ "cyclePerMinute" \in Fields /\ "backfillDepthMean" \in Fields
      /\ "jobsSubmitted" \in Fields /\ "jobsStarted" \in Fields /\ "jobsCompleted" \in Fields
      /\ "jobsCanceled" \in Fields /\ "jobsFailed" \in Fields
      /\ "totalBackfilledJobsSinceStart" \in Fields /\ "totalBackfilledJobsSinceCycle" \in Fields
      /\ "totalBackfilledHeterogeneous" \in Fields
      /\ "lastCycle" \in Fields /\ "meanCycle" \in Fields
      /\ "backfillLastCycle" \in Fields /\ "backfillMeanCycle" \in Fields
  BY <1>3, <1>4, <1>5, <1>6
<1>. QED
  BY <1>7

\* What a line that sdiag may leave out does to the figures.
LEMMA MaybePlain ==
  ASSUME NEW sm, NEW seen, NEW k, NEW f, <<k, f>> \in FieldOf, NEW v, NEW c \in BOOLEAN,
         NEW new, new = IF c THEN Put(sm, f, v) ELSE sm
  PROVE  LinesLead(State(sm, seen), If(c, <<Figure(k, v)>>), State(new, seen))
<1>1. CASE c
  <2>1. If(c, <<Figure(k, v)>>) = <<Figure(k, v)>>
    BY <1>1 DEF If
  <2>2. LineLeads(State(sm, seen), Figure(k, v), State(new, seen))
    BY <1>1, PlainRead
  <2>. QED
    BY <2>1, <2>2, OneRead
<1>2. CASE ~c
  <2>1. If(c, <<Figure(k, v)>>) = << >> /\ new = sm
    BY <1>2 DEF If
  <2>. QED
    BY <2>1, NoneRead
<1>. QED
  BY <1>1, <1>2

\* What the line of a mean does, of which there may be two.
LEMMA MaybeMean ==
  ASSUME NEW sm, NEW seen, NEW v, NEW c \in BOOLEAN, NEW f, f = CycleFigure("Mean_cycle", seen),
         NEW new, new = (IF c THEN Put(sm, f, v) ELSE sm),
         NEW s, s = IF c THEN seen \cup {"Mean_cycle"} ELSE seen
  PROVE  LinesLead(State(sm, seen), If(c, <<Figure("Mean_cycle", v)>>), State(new, s))
<1>1. CASE c
  <2>1. If(c, <<Figure("Mean_cycle", v)>>) = <<Figure("Mean_cycle", v)>>
    BY <1>1 DEF If
  <2>2. "Mean_cycle" \in CycleKeys
    BY DEF CycleKeys
  <2>3. LineLeads(State(sm, seen), Figure("Mean_cycle", v), State(new, s))
    BY <1>1, <2>2, CycleRead
  <2>. QED
    BY <2>1, <2>3, OneRead
<1>2. CASE ~c
  <2>1. If(c, <<Figure("Mean_cycle", v)>>) = << >> /\ new = sm /\ s = seen
    BY <1>2 DEF If
  <2>. QED
    BY <2>1, NoneRead
<1>. QED
  BY <1>1, <1>2

\* The first nine lines set nine figures.
LEMMA MainRead ==
  ASSUME NEW s0
  PROVE  \E sm : /\ LinesLead(State(s0, {}), MainLines, State(sm, {"Last_cycle"}))
                 /\ sm.threads = figures.threads /\ sm.queueSize = figures.agentQueue
                 /\ sm.dbdQueueSize = figures.dbdQueue
                 /\ sm.jobsSubmitted = figures.submitted /\ sm.jobsStarted = figures.started
                 /\ sm.jobsCompleted = figures.completed /\ sm.jobsCanceled = figures.canceled
                 /\ sm.jobsFailed = figures.failed /\ sm.lastCycle = figures.lastCycle
                 /\ sm.meanCycle = s0.meanCycle /\ sm.backfillMeanCycle = s0.backfillMeanCycle
                 /\ sm.backfillDepthMean = s0.backfillDepthMean
                 /\ sm.cyclePerMinute = s0.cyclePerMinute
<1>1. PICK s1, s2, s3 : /\ s1 = Put(s0, "threads", figures.threads)
                        /\ s2 = Put(s1, "queueSize", figures.agentQueue)
                        /\ s3 = Put(s2, "dbdQueueSize", figures.dbdQueue)
  OBVIOUS
<1>2. PICK s4, s5, s6 : /\ s4 = Put(s3, "jobsSubmitted", figures.submitted)
                        /\ s5 = Put(s4, "jobsStarted", figures.started)
                        /\ s6 = Put(s5, "jobsCompleted", figures.completed)
  OBVIOUS
<1>3. PICK s7, s8, s9 : /\ s7 = Put(s6, "jobsCanceled", figures.canceled)
                        /\ s8 = Put(s7, "jobsFailed", figures.failed)
                        /\ s9 = Put(s8, "lastCycle", figures.lastCycle)
  OBVIOUS
<1>4. /\ <<"Server_thread_count", "threads">> \in FieldOf /\ <<"Agent_queue_size", "queueSize">> \in FieldOf
      /\ <<"DBD_Agent_queue_size", "dbdQueueSize">> \in FieldOf
      /\ <<"Jobs_submitted", "jobsSubmitted">> \in FieldOf /\ <<"Jobs_started", "jobsStarted">> \in FieldOf
      /\ <<"Jobs_completed", "jobsCompleted">> \in FieldOf /\ <<"Jobs_canceled", "jobsCanceled">> \in FieldOf
      /\ <<"Jobs_failed", "jobsFailed">> \in FieldOf
  BY DEF FieldOf, CoreField, JobsField
<1>5. /\ LineLeads(State(s0, {}), Figure("Server_thread_count", figures.threads), State(s1, {}))
      /\ LineLeads(State(s1, {}), Figure("Agent_queue_size", figures.agentQueue), State(s2, {}))
      /\ LineLeads(State(s2, {}), Figure("DBD_Agent_queue_size", figures.dbdQueue), State(s3, {}))
      /\ LineLeads(State(s3, {}), Figure("Jobs_submitted", figures.submitted), State(s4, {}))
      /\ LineLeads(State(s4, {}), Figure("Jobs_started", figures.started), State(s5, {}))
      /\ LineLeads(State(s5, {}), Figure("Jobs_completed", figures.completed), State(s6, {}))
      /\ LineLeads(State(s6, {}), Figure("Jobs_canceled", figures.canceled), State(s7, {}))
      /\ LineLeads(State(s7, {}), Figure("Jobs_failed", figures.failed), State(s8, {}))
  BY <1>1, <1>2, <1>3, <1>4, PlainRead
<1>6. LineLeads(State(s8, {}), Figure("Last_cycle", figures.lastCycle), State(s9, {"Last_cycle"}))
  <2>1. /\ "Last_cycle" \in CycleKeys /\ {"Last_cycle"} = {} \cup {"Last_cycle"}
        /\ "lastCycle" = CycleFigure("Last_cycle", {})
    BY DEF CycleKeys, CycleFigure
  <2>. QED
    BY <1>3, <2>1, CycleRead
<1>7. LinesLead(State(s0, {}), MainLines, State(s9, {"Last_cycle"}))
  BY <1>5, <1>6, NineRead DEF MainLines
<1>8. \A x \in Fields : /\ s1[x] = IF x = "threads" THEN figures.threads ELSE s0[x]
                        /\ s2[x] = IF x = "queueSize" THEN figures.agentQueue ELSE s1[x]
                        /\ s3[x] = IF x = "dbdQueueSize" THEN figures.dbdQueue ELSE s2[x]
                        /\ s4[x] = IF x = "jobsSubmitted" THEN figures.submitted ELSE s3[x]
                        /\ s5[x] = IF x = "jobsStarted" THEN figures.started ELSE s4[x]
                        /\ s6[x] = IF x = "jobsCompleted" THEN figures.completed ELSE s5[x]
                        /\ s7[x] = IF x = "jobsCanceled" THEN figures.canceled ELSE s6[x]
                        /\ s8[x] = IF x = "jobsFailed" THEN figures.failed ELSE s7[x]
                        /\ s9[x] = IF x = "lastCycle" THEN figures.lastCycle ELSE s8[x]
  BY <1>1, <1>2, <1>3 DEF Put
<1>9. /\ s9["threads"] = figures.threads /\ s9["queueSize"] = figures.agentQueue
      /\ s9["dbdQueueSize"] = figures.dbdQueue
      /\ s9["jobsSubmitted"] = figures.submitted /\ s9["jobsStarted"] = figures.started
      /\ s9["jobsCompleted"] = figures.completed /\ s9["jobsCanceled"] = figures.canceled
      /\ s9["jobsFailed"] = figures.failed /\ s9["lastCycle"] = figures.lastCycle
      /\ s9["meanCycle"] = s0["meanCycle"] /\ s9["backfillMeanCycle"] = s0["backfillMeanCycle"]
      /\ s9["backfillDepthMean"] = s0["backfillDepthMean"]
      /\ s9["cyclePerMinute"] = s0["cyclePerMinute"]
  BY <1>8, FieldNames
<1>. QED
  BY <1>7, <1>9

\* The lines that are always there in the section on backfilling set four figures.
LEMMA BackfillRead ==
  ASSUME NEW s0, NEW seen, "Last_cycle" \in seen
  PROVE  \E sm : /\ LinesLead(State(s0, seen), BackfillLines, State(sm, seen))
                 /\ sm.totalBackfilledJobsSinceStart = figures.bfJobsStart
                 /\ sm.totalBackfilledJobsSinceCycle = figures.bfJobsCycle
                 /\ sm.totalBackfilledHeterogeneous = figures.bfHetero
                 /\ sm.backfillLastCycle = figures.bfLastCycle
                 /\ \A x \in Fields \ {"totalBackfilledJobsSinceStart", "totalBackfilledJobsSinceCycle",
                                       "totalBackfilledHeterogeneous", "backfillLastCycle"} : sm[x] = s0[x]
                 /\ sm = [x \in Fields |-> sm[x]]
<1>1. PICK s1, s2, s3, s4 : /\ s1 = Put(s0, "totalBackfilledJobsSinceStart", figures.bfJobsStart)
                            /\ s2 = Put(s1, "totalBackfilledJobsSinceCycle", figures.bfJobsCycle)
                            /\ s3 = Put(s2, "totalBackfilledHeterogeneous", figures.bfHetero)
                            /\ s4 = Put(s3, "backfillLastCycle", figures.bfLastCycle)
  OBVIOUS
<1>2. /\ <<"Total_backfilled_jobs_(since_last_slurm_start)", "totalBackfilledJobsSinceStart">> \in FieldOf
      /\ <<"Total_backfilled_jobs_(since_last_stats_cycle_start)", "totalBackfilledJobsSinceCycle">> \in FieldOf
      /\ <<"Total_backfilled_heterogeneous_job_components", "totalBackfilledHeterogeneous">> \in FieldOf
  BY DEF FieldOf, BackfillCounter
<1>3. /\ LineLeads(State(s0, seen), Figure("Total_backfilled_jobs_(since_last_slurm_start)",
                                       figures.bfJobsStart), State(s1, seen))
      /\ LineLeads(State(s1, seen), Figure("Total_backfilled_jobs_(since_last_stats_cycle_start)",
                                       figures.bfJobsCycle), State(s2, seen))
      /\ LineLeads(State(s2, seen), Figure("Total_backfilled_heterogeneous_job_components",
                                       figures.bfHetero), State(s3, seen))
  BY <1>1, <1>2, PlainRead
<1>4. LineLeads(State(s3, seen), Figure("Last_cycle_when", 0), State(s3, seen))
  <2>1. s3 = [x \in Fields |-> s3[x]]
    BY <1>1 DEF Put
  <2>. QED
    BY <2>1, OtherRead
<1>5. LineLeads(State(s3, seen), Figure("Last_cycle", figures.bfLastCycle), State(s4, seen))
  <2>1. /\ "Last_cycle" \in CycleKeys /\ seen = seen \cup {"Last_cycle"}
        /\ "backfillLastCycle" = CycleFigure("Last_cycle", seen)
    BY DEF CycleKeys, CycleFigure
  <2>. QED
    BY <1>1, <2>1, CycleRead
<1>6. LinesLead(State(s0, seen), BackfillLines, State(s4, seen))
  BY <1>3, <1>4, <1>5, FiveRead DEF BackfillLines
<1>7. /\ \A x \in Fields :
           /\ s1[x] = IF x = "totalBackfilledJobsSinceStart" THEN figures.bfJobsStart ELSE s0[x]
           /\ s2[x] = IF x = "totalBackfilledJobsSinceCycle" THEN figures.bfJobsCycle ELSE s1[x]
           /\ s3[x] = IF x = "totalBackfilledHeterogeneous" THEN figures.bfHetero ELSE s2[x]
           /\ s4[x] = IF x = "backfillLastCycle" THEN figures.bfLastCycle ELSE s3[x]
      /\ s4 = [x \in Fields |-> s4[x]]
  BY <1>1 DEF Put
<1>8. /\ s4["totalBackfilledJobsSinceStart"] = figures.bfJobsStart
      /\ s4["totalBackfilledJobsSinceCycle"] = figures.bfJobsCycle
      /\ s4["totalBackfilledHeterogeneous"] = figures.bfHetero
      /\ s4["backfillLastCycle"] = figures.bfLastCycle
      /\ \A x \in Fields \ {"totalBackfilledJobsSinceStart", "totalBackfilledJobsSinceCycle",
                            "totalBackfilledHeterogeneous", "backfillLastCycle"} : s4[x] = s0[x]
  BY <1>7, FieldNames
<1>. QED
  BY <1>6, <1>7, <1>8

\* What GaugesAreTheirFigures says of the gauges sm, the figures being f.
Gauges(sm, f) ==
  /\ <<sm.threads, sm.queueSize, sm.dbdQueueSize>> = <<f.threads, f.agentQueue, f.dbdQueue>>
  /\ <<sm.jobsSubmitted, sm.jobsStarted, sm.jobsCompleted, sm.jobsCanceled, sm.jobsFailed>>
       = <<f.submitted, f.started, f.completed, f.canceled, f.failed>>
  /\ <<sm.lastCycle, sm.backfillLastCycle>> = <<f.lastCycle, f.bfLastCycle>>
  /\ sm.backfillDepthMean = Mean(f.bfDepth, f.bfCycles)
  /\ sm.cyclePerMinute = IF f.minutes > 0 THEN f.cycles \div f.minutes ELSE 0
  /\ <<sm.totalBackfilledJobsSinceStart, sm.totalBackfilledJobsSinceCycle,
       sm.totalBackfilledHeterogeneous>> = <<f.bfJobsStart, f.bfJobsCycle, f.bfHetero>>
  /\ <<sm.meanCycle, sm.backfillMeanCycle>> =
       IF f.cycles > 0 THEN <<Mean(f.cycleTime, f.cycles), Mean(f.bfCycleTime, f.bfCycles)>>
                       ELSE <<Mean(f.bfCycleTime, f.bfCycles), 0>>

\* The lines of figures leave the gauges at what slurmctld counts.
LEMMA FiguresRead ==
  ASSUME StatsInv, NEW s0, s0 = [f \in Fields |-> 0]
  PROVE  \E sm, seen : LinesLead(State(s0, {}), FigureLines, State(sm, seen)) /\ Gauges(sm, figures)
<1>1. s0["meanCycle"] = 0 /\ s0["backfillMeanCycle"] = 0 /\ s0["backfillDepthMean"] = 0
      /\ s0["cyclePerMinute"] = 0
  BY FieldNames
<1>2. PICK a : /\ LinesLead(State(s0, {}), MainLines, State(a, {"Last_cycle"}))
               /\ a.threads = figures.threads /\ a.queueSize = figures.agentQueue
               /\ a.dbdQueueSize = figures.dbdQueue
               /\ a.jobsSubmitted = figures.submitted /\ a.jobsStarted = figures.started
               /\ a.jobsCompleted = figures.completed /\ a.jobsCanceled = figures.canceled
               /\ a.jobsFailed = figures.failed /\ a.lastCycle = figures.lastCycle
               /\ a.meanCycle = s0.meanCycle /\ a.backfillMeanCycle = s0.backfillMeanCycle
               /\ a.backfillDepthMean = s0.backfillDepthMean
               /\ a.cyclePerMinute = s0.cyclePerMinute
  BY MainRead
<1>3. PICK ran \in BOOLEAN, timed \in BOOLEAN, bf \in BOOLEAN :
        (ran <=> figures.cycles > 0) /\ (timed <=> figures.minutes > 0) /\ (bf <=> figures.bfCycles > 0)
  <2>1. \E ran \in BOOLEAN : ran <=> figures.cycles > 0
    BY Zenon
  <2>2. \E ran \in BOOLEAN : ran <=> figures.minutes > 0
    BY Zenon
  <2>3. \E ran \in BOOLEAN : ran <=> figures.bfCycles > 0
    BY Zenon
  <2>. QED
    BY <2>1, <2>2, <2>3, Zenon
<1>4. PICK v, w, x, y : /\ v = Mean(figures.cycleTime, figures.cycles)
                        /\ w = figures.cycles \div figures.minutes
                        /\ x = Mean(figures.bfCycleTime, figures.bfCycles)
                        /\ y = Mean(figures.bfDepth, figures.bfCycles)
  OBVIOUS
<1>5. PICK b, c, seen : /\ b = IF ran THEN Put(a, "meanCycle", v) ELSE a
                        /\ c = IF timed THEN Put(b, "cyclePerMinute", w) ELSE b
                        /\ seen = IF ran THEN {"Last_cycle"} \cup {"Mean_cycle"} ELSE {"Last_cycle"}
  OBVIOUS
<1>6. PICK d : /\ LinesLead(State(c, seen), BackfillLines, State(d, seen))
               /\ d.totalBackfilledJobsSinceStart = figures.bfJobsStart
               /\ d.totalBackfilledJobsSinceCycle = figures.bfJobsCycle
               /\ d.totalBackfilledHeterogeneous = figures.bfHetero
               /\ d.backfillLastCycle = figures.bfLastCycle
               /\ \A f \in Fields \ {"totalBackfilledJobsSinceStart", "totalBackfilledJobsSinceCycle",
                                     "totalBackfilledHeterogeneous", "backfillLastCycle"} : d[f] = c[f]
               /\ d = [f \in Fields |-> d[f]]
  <2>1. "Last_cycle" \in seen
    BY <1>5
  <2>. QED
    BY <2>1, BackfillRead
<1>7. PICK mean, e, g, all : /\ mean = CycleFigure("Mean_cycle", seen)
                             /\ e = IF bf THEN Put(d, mean, x) ELSE d
                             /\ g = IF bf THEN Put(e, "backfillDepthMean", y) ELSE e
                             /\ all = IF bf THEN seen \cup {"Mean_cycle"} ELSE seen
  OBVIOUS
<1>8. LinesLead(State(a, {"Last_cycle"}), MeanLine, State(b, seen))
  <2>1. "meanCycle" = CycleFigure("Mean_cycle", {"Last_cycle"})
    BY DEF CycleFigure
  <2>2. MeanLine = If(ran, <<Figure("Mean_cycle", v)>>)
    BY <1>3, <1>4 DEF MeanLine, If
  <2>. QED
    BY <1>5, <2>1, <2>2, MaybeMean
<1>9. LinesLead(State(b, seen), RateLine, State(c, seen))
  <2>1. <<"Cycles_per_minute", "cyclePerMinute">> \in FieldOf
    BY DEF FieldOf, CoreField
  <2>2. RateLine = If(timed, <<Figure("Cycles_per_minute", w)>>)
    BY <1>3, <1>4 DEF RateLine, If
  <2>. QED
    BY <1>5, <2>1, <2>2, MaybePlain
<1>10. LinesLead(State(d, seen), BackfillMeanLine, State(e, all))
  <2>1. BackfillMeanLine = If(bf, <<Figure("Mean_cycle", x)>>)
    BY <1>3, <1>4 DEF BackfillMeanLine, If
  <2>. QED
    BY <1>7, <2>1, MaybeMean
<1>11. LinesLead(State(e, all), DepthLine, State(e, all))
  <2>1. e = [f \in Fields |-> e[f]]
    BY <1>6, <1>7 DEF Put
  <2>2. LineLeads(State(e, all), Figure("Last_depth_cycle", 0), State(e, all))
    BY <2>1, OtherRead
  <2>. QED
    BY <2>2, OneRead DEF DepthLine
<1>12. LinesLead(State(e, all), DepthMeanLine, State(g, all))
  <2>1. <<"Depth_Mean", "backfillDepthMean">> \in FieldOf
    BY DEF FieldOf, BackfillCounter
  <2>2. DepthMeanLine = If(bf, <<Figure("Depth_Mean", y)>>)
    BY <1>3, <1>4 DEF DepthMeanLine, If
  <2>. QED
    BY <1>7, <2>1, <2>2, MaybePlain
<1>13. LinesLead(State(s0, {}), FigureLines, State(g, all))
  <2>. DEFINE S == Seq(FigureLine)
  <2>1. PICK p1, p2, p3, p4, p5, p6 :
          /\ p1 = MainLines \o MeanLine /\ p2 = p1 \o RateLine /\ p3 = p2 \o BackfillLines
          /\ p4 = p3 \o BackfillMeanLine /\ p5 = p4 \o DepthLine /\ p6 = p5 \o DepthMeanLine
    OBVIOUS
  <2>2. /\ MainLines \in S /\ MeanLine \in S /\ RateLine \in S /\ BackfillLines \in S
        /\ BackfillMeanLine \in S /\ DepthLine \in S /\ DepthMeanLine \in S
    BY FigureLinesTyped
  <2>3. p1 \in S /\ LinesLead(State(s0, {}), p1, State(b, seen))
    BY <1>2, <1>8, <2>1, <2>2, FiguresInTwo
  <2>4. p2 \in S /\ LinesLead(State(s0, {}), p2, State(c, seen))
    BY <1>9, <2>1, <2>2, <2>3, FiguresInTwo
  <2>5. p3 \in S /\ LinesLead(State(s0, {}), p3, State(d, seen))
    BY <1>6, <2>1, <2>2, <2>4, FiguresInTwo
  <2>6. p4 \in S /\ LinesLead(State(s0, {}), p4, State(e, all))
    BY <1>10, <2>1, <2>2, <2>5, FiguresInTwo
  <2>7. p5 \in S /\ LinesLead(State(s0, {}), p5, State(e, all))
    BY <1>11, <2>1, <2>2, <2>6, FiguresInTwo
  <2>8. p6 \in S /\ LinesLead(State(s0, {}), p6, State(g, all))
    BY <1>12, <2>1, <2>2, <2>7, FiguresInTwo
  <2>9. FigureLines = p6
    BY <2>1, FigureLinesTyped
  <2>. QED
    BY <2>8, <2>9
<1>14. \A f \in Fields : /\ b[f] = IF ran /\ f = "meanCycle" THEN v ELSE a[f]
                         /\ c[f] = IF timed /\ f = "cyclePerMinute" THEN w ELSE b[f]
                         /\ e[f] = IF bf /\ f = mean THEN x ELSE d[f]
                         /\ g[f] = IF bf /\ f = "backfillDepthMean" THEN y ELSE e[f]
  BY <1>5, <1>7 DEF Put
<1>15. mean = IF ran THEN "backfillMeanCycle" ELSE "meanCycle"
  BY <1>5, <1>7 DEF CycleFigure
<1>16. /\ g["threads"] = a["threads"] /\ g["queueSize"] = a["queueSize"]
       /\ g["dbdQueueSize"] = a["dbdQueueSize"]
       /\ g["jobsSubmitted"] = a["jobsSubmitted"] /\ g["jobsStarted"] = a["jobsStarted"]
       /\ g["jobsCompleted"] = a["jobsCompleted"] /\ g["jobsCanceled"] = a["jobsCanceled"]
       /\ g["jobsFailed"] = a["jobsFailed"] /\ g["lastCycle"] = a["lastCycle"]
  BY <1>6, <1>14, <1>15, FieldNames
<1>17. /\ g["totalBackfilledJobsSinceStart"] = d["totalBackfilledJobsSinceStart"]
       /\ g["totalBackfilledJobsSinceCycle"] = d["totalBackfilledJobsSinceCycle"]
       /\ g["totalBackfilledHeterogeneous"] = d["totalBackfilledHeterogeneous"]
       /\ g["backfillLastCycle"] = d["backfillLastCycle"]
  BY <1>14, <1>15, FieldNames
<1>18. /\ g["cyclePerMinute"] = IF timed THEN w ELSE a["cyclePerMinute"]
       /\ g["backfillDepthMean"] = IF bf THEN y ELSE a["backfillDepthMean"]
       /\ ran => /\ g["meanCycle"] = v
                 /\ g["backfillMeanCycle"] = IF bf THEN x ELSE a["backfillMeanCycle"]
       /\ ~ran => /\ g["meanCycle"] = IF bf THEN x ELSE a["meanCycle"]
                  /\ g["backfillMeanCycle"] = a["backfillMeanCycle"]
  BY <1>6, <1>14, <1>15, FieldNames
<1>19. ~bf => x = 0 /\ y = 0
  <2>1. figures.bfCycles \in Nat
    BY DEF StatsInv, StatsTypeOK, Counters, Levels
  <2>. QED
    BY <1>3, <1>4, <2>1 DEF Mean
<1>20. /\ g.backfillDepthMean = y
       /\ g.cyclePerMinute = IF timed THEN w ELSE 0
       /\ IF ran THEN g.meanCycle = v /\ g.backfillMeanCycle = x
                 ELSE g.meanCycle = x /\ g.backfillMeanCycle = 0
  BY <1>1, <1>2, <1>18, <1>19
<1>21. Gauges(g, figures)
  BY <1>2, <1>3, <1>4, <1>6, <1>16, <1>17, <1>18, <1>20 DEF Gauges
<1>. QED
  BY <1>13, <1>21

\* The titles and the rows of the tables leave the gauges alone.
LEMMA TablesPass ==
  ASSUME NEW p, FigureLines \in Seq(FigureLine), NEW q, LinesLead(q, FigureLines, p)
  PROVE  LinesLead(q, SchedulerData, p)
<1>1. PICK so, su, t1, t2 : /\ so = OperationRows /\ su = UserRows
                            /\ t1 = <<Title(ByMessageType)>> /\ t2 = <<Title(ByUser)>>
  OBVIOUS
<1>2. PICK m \in Nat : TableRows(so, m)
  BY <1>1, RowsWritten
<1>3. PICK n \in Nat : TableRows(su, n)
  BY <1>1, RowsWritten
<1>4. PICK S : S = FigureLine \cup {Title(ByMessageType), Title(ByUser)}
                     \cup {so[i] : i \in 1 .. m} \cup {su[i] : i \in 1 .. n}
  OBVIOUS
<1>5. FigureLines \in Seq(S) /\ t1 \in Seq(S) /\ t2 \in Seq(S) /\ so \in Seq(S) /\ su \in Seq(S)
  <2>1. FigureLine \subseteq S /\ (\A i \in 1 .. m : so[i] \in S) /\ \A i \in 1 .. n : su[i] \in S
    BY <1>4
  <2>2. so = [i \in 1 .. m |-> so[i]] /\ su = [i \in 1 .. n |-> su[i]]
    BY <1>2, <1>3 DEF TableRows
  <2>3. ASSUME NEW k \in Nat, NEW s, s = [i \in 1 .. k |-> s[i]], \A i \in 1 .. k : s[i] \in S
        PROVE  s \in Seq(S)
    BY <2>3
  <2>4. FigureLines \in Seq(S)
    BY <2>1
  <2>5. t1 \in Seq(S) /\ t2 \in Seq(S)
    BY <1>1, <1>4
  <2>. QED
    BY <2>1, <2>2, <2>3, <2>4, <2>5
<1>6. ASSUME NEW k \in Nat, NEW s, TableRows(s, k) PROVE LinesLead(p, s, p)
  <2>1. DOMAIN s = 1 .. k /\ \A i \in 1 .. k : s[i].kind # "figure"
    BY <1>6 DEF TableRows
  <2>2. \A i \in 1 .. k : ApplyLine(p, s[i]) = p
    BY <2>1 DEF ApplyLine
  <2>. QED
    BY <2>1, <2>2, FigureRead!Idle DEF LinesLead
<1>7. ASSUME NEW x PROVE LinesLead(p, <<Title(x)>>, p)
  <2>1. LineLeads(p, Title(x), p)
    BY DEF LineLeads, ApplyLine, Title
  <2>. QED
    BY <2>1, OneRead
<1>8. LinesLead(p, so, p) /\ LinesLead(p, su, p) /\ LinesLead(p, t1, p) /\ LinesLead(p, t2, p)
  BY <1>1, <1>2, <1>3, <1>6, <1>7
<1>. HIDE <1>4
<1>9. PICK a1, a2, a3 : a1 = FigureLines \o t1 /\ a2 = a1 \o so /\ a3 = a2 \o t2
  OBVIOUS
<1>10. a1 \in Seq(S) /\ LinesLead(q, a1, p)
  BY <1>5, <1>8, <1>9, FiguresInTwo
<1>11. a2 \in Seq(S) /\ LinesLead(q, a2, p)
  BY <1>5, <1>8, <1>9, <1>10, FiguresInTwo
<1>12. a3 \in Seq(S) /\ LinesLead(q, a3, p)
  BY <1>5, <1>8, <1>9, <1>11, FiguresInTwo
<1>13. LinesLead(q, a3 \o su, p)
  BY <1>5, <1>8, <1>12, FiguresInTwo
<1>. QED
  BY <1>1, <1>9, <1>13 DEF SchedulerData, OperationRows, UserRows

\* At any moment each gauge is the figure that its help text names.
THEOREM GaugesAreTheirFiguresHolds == StatsSpec => []GaugesAreTheirFigures
<1>1. ASSUME StatsInv PROVE GaugesAreTheirFigures
  <2>1. PICK s0 : s0 = [f \in Fields |-> 0]
    OBVIOUS
  <2>2. PICK sm, seen : LinesLead(State(s0, {}), FigureLines, State(sm, seen)) /\ Gauges(sm, figures)
    BY <1>1, <2>1, FiguresRead
  <2>3. LinesLead(State(s0, {}), SchedulerData, State(sm, seen))
    BY <1>1, <2>2, FigureLinesTyped, TablesPass
  <2>4. FigureRead!Folded(State(s0, {}), SchedulerData) = State(sm, seen)
    BY <2>3 DEF LinesLead
  <2>5. ParseSchedulerMetrics(SchedulerData) = FigureRead!Folded(State(s0, {}), SchedulerData).sm
    BY <2>1 DEF ParseSchedulerMetrics, State, FigureRead!Folded, FoldLeft, MapThenFoldSet,
       FigureRead!MapThenFoldSet, Max, FigureRead!Greatest
  <2>6. ParseSchedulerMetrics(SchedulerData) = sm
    BY <2>4, <2>5 DEF State
  <2>. QED
    BY <2>2, <2>6 DEF GaugesAreTheirFigures, Gauges
<1>. QED
  BY <1>1, StatsCorrect, PTL
=============================================================================
