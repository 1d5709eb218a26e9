----------------------------- MODULE FoldTheorems -----------------------------
(***************************************************************************)
(* What the folds of the community modules compute.  A fold is a recursive *)
(* function over the subsets of the set it folds; its recursion equation   *)
(* and the facts about it are proved by looking at a smallest              *)
(* counterexample (WFMin), which needs no induction rule with a predicate  *)
(* as parameter.  The step of a fold is given as a function from an element *)
(* and a value to a value, for the same reason.                            *)
(***************************************************************************)
EXTENDS Integers, Sequences, SequencesExt, Functions, FiniteSets, FiniteSetsExt,
        FiniteSetTheorems, TLAPS

\* A non-empty set of naturals has a smallest element: the form in which the
\* proofs below use induction.
LEMMA SmallestElement ==
  ASSUME NEW T \in SUBSET Nat, T # {}
  PROVE  \E m \in T : \A y \in T : m <= y
<1>1. \E m \in T : \A y \in T : ~ (<<y, m>> \in OpToRel(<, Nat))
  BY NatLessThanWellFounded, WFMin, Zenon
<1>2. PICK m \in T : \A y \in T : ~ (<<y, m>> \in OpToRel(<, Nat))
  BY <1>1, Zenon
<1>3. ASSUME NEW y \in T PROVE m <= y
  <2>1. ~ (y < m) BY <1>2, Zenon DEF OpToRel
  <2> QED BY <2>1
<1> QED BY <1>3

\* Induction over 0 .. n, with the set G of good numbers in place of a
\* predicate.
LEMMA UpTo ==
  ASSUME NEW n \in Nat, NEW G, 0 \in G,
         \A k \in 1 .. n : k - 1 \in G => k \in G
  PROVE  \A k \in 0 .. n : k \in G
<1> DEFINE Bad == {k \in 0 .. n : k \notin G}
<1>1. SUFFICES ASSUME Bad # {} PROVE FALSE OBVIOUS
<1>2. Bad \in SUBSET Nat OBVIOUS
<1>3. PICK m \in Bad : \A y \in Bad : m <= y
  <2> HIDE DEF Bad
  <2> QED BY <1>1, <1>2, SmallestElement
<1>4. m \in 1 .. n /\ m \notin G /\ m - 1 \notin Bad BY <1>3
<1> QED BY <1>4

\* The ways to choose an element of each non-empty subset of S, and the steps of
\* a fold over S with values in X.
Choosers(S) == {c \in [(SUBSET S) \ {{}} -> S] : \A s \in (SUBSET S) \ {{}} : c[s] \in s}
Steps(S, X) == [S \X X -> X]

\* Induction over the subsets of a finite set, an element c[s] less each time,
\* with the set G of good subsets in place of a predicate.
LEMMA SubsetsInduction ==
  ASSUME NEW S, IsFiniteSet(S), NEW c \in Choosers(S),
         NEW G, {} \in G,
         \A s \in SUBSET S : s # {} /\ s \ {c[s]} \in G => s \in G
  PROVE  \A s \in SUBSET S : s \in G
<1> DEFINE Bad == {n \in Nat : \E s \in SUBSET S : s \notin G /\ Cardinality(s) = n}
<1> HIDE DEF Bad
<1>c. \A s \in SUBSET S : /\ IsFiniteSet(s) /\ Cardinality(s) \in Nat
   BY FS_Subset, FS_CardinalityType
<1>d. \A s \in SUBSET S : s # {} =>
         /\ c[s] \in s /\ s \ {c[s]} \in SUBSET S
         /\ Cardinality(s \ {c[s]}) = Cardinality(s) - 1
   BY <1>c, FS_RemoveElement, Zenon DEF Choosers
<1>1. CASE Bad = {}
  BY <1>1, <1>c DEF Bad
<1>2. CASE Bad # {}
  <2>1. Bad \in SUBSET Nat BY DEF Bad
  <2>2. PICK m \in Bad : \A y \in Bad : m <= y
    BY <1>2, <2>1, SmallestElement
  <2>3. PICK s \in SUBSET S : s \notin G /\ Cardinality(s) = m
    BY DEF Bad
  <2>4. s # {} BY <2>3
  <2>5. s \ {c[s]} \notin G BY <2>3, <2>4
  <2>6. Cardinality(s) - 1 \in Bad
    <3>1. s \ {c[s]} \in SUBSET S /\ Cardinality(s \ {c[s]}) = Cardinality(s) - 1 BY <2>4, <1>d
    <3>2. Cardinality(s \ {c[s]}) \in Nat BY <3>1, <1>c
    <3> QED BY <2>5, <3>1, <3>2 DEF Bad
  <2> QED BY <2>1, <2>2, <2>3, <2>6
<1> QED BY <1>1, <1>2

\* The equation of a fold: c[s] is the element taken from s, h the step.
FoldStep(base, h, c, g, s) == IF s = {} THEN base ELSE h[<<c[s], g[s \ {c[s]}]>>]
FoldFunctions(S, X, base, h, c) ==
  {g \in [SUBSET S -> X] : \A s \in SUBSET S : g[s] = FoldStep(base, h, c, g, s)}

\* The recursion behind a fold has a solution over the subsets of a finite set,
\* found by extending a solution for the smaller subsets.
LEMMA FoldExists ==
  ASSUME NEW S, IsFiniteSet(S), NEW c \in Choosers(S),
         NEW X, NEW base \in X, NEW h \in Steps(S, X)
  PROVE  FoldFunctions(S, X, base, h, c) # {}
<1> DEFINE Good(n) == \E g \in [SUBSET S -> X] :
                          \A s \in SUBSET S : Cardinality(s) <= n => g[s] = FoldStep(base, h, c, g, s)
           G == {n \in Nat : Good(n)}
<1>c. \A s \in SUBSET S : /\ IsFiniteSet(s) /\ Cardinality(s) \in Nat
                          /\ Cardinality(s) <= Cardinality(S)
                          /\ Cardinality(s) = 0 <=> s = {}
   BY FS_Subset, FS_CardinalityType, FS_EmptySet
<1>d. \A s \in SUBSET S : s # {} =>
         /\ c[s] \in s /\ s \ {c[s]} \in SUBSET S
         /\ Cardinality(s \ {c[s]}) = Cardinality(s) - 1
   BY <1>c, FS_RemoveElement DEF Choosers
<1>1. Good(0)
  <2> DEFINE z == [s \in SUBSET S |-> base]
  <2>1. z \in [SUBSET S -> X] OBVIOUS
  <2>2. \A s \in SUBSET S : Cardinality(s) <= 0 => z[s] = FoldStep(base, h, c, z, s)
    BY <1>c DEF FoldStep
  <2> QED BY <2>1, <2>2, Zenon
<1>2. ASSUME NEW m \in 1 .. Cardinality(S), Good(m - 1) PROVE Good(m)
  <2>0. m \in Nat /\ m # 0 BY <1>c
  <2>1. PICK g \in [SUBSET S -> X] :
           \A s \in SUBSET S : Cardinality(s) <= m - 1 => g[s] = FoldStep(base, h, c, g, s)
    BY <1>2
  <2> DEFINE k == [s \in SUBSET S |-> IF Cardinality(s) = m THEN FoldStep(base, h, c, g, s) ELSE g[s]]
  <2>2. k \in [SUBSET S -> X]
    <3>1. ASSUME NEW s \in SUBSET S PROVE FoldStep(base, h, c, g, s) \in X
      BY <1>d, Zenon DEF FoldStep, Steps
    <3> QED BY <3>1
  <2>3. ASSUME NEW s \in SUBSET S, Cardinality(s) <= m
        PROVE  k[s] = FoldStep(base, h, c, k, s)
    <3>1. CASE s = {}
      <4>1. Cardinality(s) = 0 BY <3>1, <1>c
      <4>2. k[s] = g[s] /\ Cardinality(s) <= m - 1 BY <4>1, <2>0
      <4>3. g[s] = base BY <4>2, <2>1, <3>1, Zenon DEF FoldStep
      <4> QED BY <3>1, <4>2, <4>3 DEF FoldStep
    <3>2. CASE s # {}
      <4> DEFINE r == s \ {c[s]}
      <4>1. r \in SUBSET S /\ Cardinality(r) # m BY <1>c, <1>d, <2>0, <2>3, <3>2
      <4>2. k[r] = g[r] BY <4>1
      <4>3. FoldStep(base, h, c, k, s) = FoldStep(base, h, c, g, s) BY <3>2, <4>2 DEF FoldStep
      <4>4. k[s] = FoldStep(base, h, c, g, s) BY <1>c, <2>0, <2>1, <2>3
      <4> QED BY <4>3, <4>4
    <3> QED BY <3>1, <3>2
  <2> HIDE DEF k
  <2> QED BY <2>2, <2>3
<1> HIDE DEF Good
<1>3. Cardinality(S) \in Nat BY <1>c
<1>4. 0 \in G /\ \A k \in 1 .. Cardinality(S) : k - 1 \in G => k \in G
  BY <1>1, <1>2, <1>3
<1> HIDE DEF G
<1>5. \A k \in 0 .. Cardinality(S) : k \in G BY <1>3, <1>4, UpTo
<1>6. Good(Cardinality(S)) BY <1>3, <1>5 DEF G
<1> QED BY <1>6, <1>c, Zenon DEF Good, FoldFunctions

-----------------------------------------------------------------------------
(* Folds over sequences *)

\* A non-empty set of indices has a largest one, which FoldLeft takes next.
LEMMA MaxIndex ==
  ASSUME NEW n \in Nat, NEW s \in SUBSET (1 .. n), s # {}
  PROVE  Max(s) \in s /\ \A y \in s : y <= Max(s)
<1> DEFINE T == {n - x : x \in s}
<1>0. \A x \in s : x \in Nat /\ x <= n /\ n - x \in Nat OBVIOUS
<1>1. T \in SUBSET Nat /\ T # {} BY <1>0, Zenon
<1>2. PICK m \in T : \A y \in T : m <= y
  <2> HIDE DEF T
  <2> QED BY <1>1, SmallestElement
<1>3. PICK x \in s : m = n - x BY <1>2
<1>4. ASSUME NEW y \in s PROVE x >= y
  <2>1. m <= n - y BY <1>2
  <2> QED BY <1>0, <1>3, <2>1
<1>5. \E z \in s : \A y \in s : z >= y BY <1>4, Zenon
<1>6. Max(s) \in s /\ \A y \in s : Max(s) >= y BY <1>5, Zenon DEF Max
<1> QED BY <1>6

\* The solutions of the equation behind FoldLeft over a sequence of length n;
\* being one as far as the values are in X; and the values after each element.
LeftFolds(n, X, base, h) ==
  {g \in [SUBSET (1 .. n) -> X] :
     \A s \in SUBSET (1 .. n) : g[s] = IF s = {} THEN base ELSE h[<<Max(s), g[s \ {Max(s)}]>>]}

FoldsLeft(n, X, base, h, g) ==
  /\ g[{}] = base
  /\ \A s \in SUBSET (1 .. n) :
       s # {} /\ g[s \ {Max(s)}] \in X => g[s] = h[<<Max(s), g[s \ {Max(s)}]>>]

LeftRuns(n, X, base, h) ==
  {r \in [0 .. n -> X] : r[0] = base /\ \A k \in 1 .. n : r[k] = h[<<k, r[k - 1]>>]}

\* The recursion behind FoldLeft has a solution.
LEMMA FoldLeftExists ==
  ASSUME NEW n \in Nat, NEW X, NEW base \in X, NEW h \in Steps(1 .. n, X)
  PROVE  LeftFolds(n, X, base, h) # {}
<1> DEFINE S == 1 .. n
           c == [s \in (SUBSET S) \ {{}} |-> Max(s)]
<1>1. IsFiniteSet(S) BY FS_Interval
<1>2. \A s \in SUBSET S : s # {} => c[s] \in s BY MaxIndex, Zenon
<1>3. \A s \in SUBSET S : s # {} => c[s] = Max(s) BY Zenon
<1>4. h \in Steps(S, X) /\ c \in Choosers(S) BY <1>2, Zenon DEF Choosers
<1> HIDE DEF S, c
<1>5. PICK g \in FoldFunctions(S, X, base, h, c) : TRUE
  BY <1>1, <1>4, FoldExists
<1>6. \A s \in SUBSET S : g[s] = IF s = {} THEN base ELSE h[<<Max(s), g[s \ {Max(s)}]>>]
  BY <1>3, <1>5, Zenon DEF FoldFunctions, FoldStep
<1>7. g \in LeftFolds(n, X, base, h) BY <1>5, <1>6 DEF S, FoldFunctions, LeftFolds
<1> QED BY <1>7

\* What FoldLeft computes, step by step: g is the function behind it, and r the
\* value after each element.  The step needs to be h only for values in X.
LEMMA FoldLeftRun ==
  ASSUME NEW n \in Nat, NEW X, NEW base \in X, NEW h \in Steps(1 .. n, X), NEW g,
         FoldsLeft(n, X, base, h, g)
  PROVE  \E r \in LeftRuns(n, X, base, h) : r[n] = g[1 .. n]
<1> DEFINE r == [k \in 0 .. n |-> g[1 .. k]]
           G == {k \in 0 .. n : g[1 .. k] \in X}
<1>1. ASSUME NEW k \in 1 .. n, g[1 .. k - 1] \in X
      PROVE  g[1 .. k] = h[<<k, g[1 .. k - 1]>>] /\ g[1 .. k] \in X
  <2> DEFINE s == 1 .. k
  <2>0. k \in Nat /\ 1 <= k /\ k <= n OBVIOUS
  <2>1. s \in SUBSET (1 .. n) /\ k \in s /\ \A y \in s : y <= k BY <2>0
  <2>2. Max(s) \in s /\ \A y \in s : y <= Max(s)
    <3> HIDE DEF s
    <3>1. s # {} BY <2>1
    <3> QED BY <2>1, <3>1, MaxIndex, Zenon
  <2>3. Max(s) = k BY <2>1, <2>2
  <2>4. s \ {k} = 1 .. k - 1 OBVIOUS
  <2>5. g[s] = h[<<k, g[1 .. k - 1]>>]
    <3> HIDE DEF s
    <3> QED BY <1>1, <2>1, <2>3, <2>4, Zenon DEF FoldsLeft
  <2> QED BY <1>1, <2>5 DEF Steps
<1>2. 1 .. 0 = {} OBVIOUS
<1>3. 0 \in G BY <1>2 DEF FoldsLeft
<1>4. ASSUME NEW k \in 1 .. n, k - 1 \in G PROVE k \in G
  <2>1. g[1 .. k - 1] \in X BY <1>4
  <2>2. g[1 .. k] \in X BY <1>1, <2>1, Zenon
  <2> QED BY <2>2
<1>5. \A k \in 0 .. n : k \in G
  <2> HIDE DEF G
  <2> QED BY <1>3, <1>4, UpTo
<1>6. r \in [0 .. n -> X] BY <1>5
<1>7. \A k \in 1 .. n : r[k] = h[<<k, r[k - 1]>>] BY <1>1, <1>5
<1>8. r[0] = base /\ r[n] = g[1 .. n] BY <1>2 DEF FoldsLeft
<1> HIDE DEF r
<1>9. r \in LeftRuns(n, X, base, h) BY <1>6, <1>7, <1>8 DEF LeftRuns
<1> QED BY <1>8, <1>9

-----------------------------------------------------------------------------
(* Sums *)

\* The equation of the recursive function behind SumFunctionOnSet.
SumStep(f, g, s) ==
  IF s = {} THEN 0
  ELSE f[CHOOSE x \in s : TRUE] + g[s \ {CHOOSE x \in s : TRUE}]

\* Induction over the subsets of a finite set, in the order of a sum.
LEMMA SubsetInduction ==
  ASSUME NEW S, IsFiniteSet(S), NEW G, {} \in G,
         \A s \in SUBSET S : s # {} /\ s \ {CHOOSE x \in s : TRUE} \in G => s \in G
  PROVE  S \in G
<1> DEFINE c == [s \in (SUBSET S) \ {{}} |-> CHOOSE x \in s : TRUE]
<1>1. c \in Choosers(S) BY DEF Choosers
<1>2. \A s \in SUBSET S : s # {} /\ s \ {c[s]} \in G => s \in G OBVIOUS
<1> HIDE DEF c
<1>3. \A s \in SUBSET S : s \in G BY <1>1, <1>2, SubsetsInduction
<1> QED BY <1>3

\* SumFunction follows its recursion equation, the loop of
\* getAccountCollateralValue as well as the sums the invariants speak of.
LEMMA SumEquation ==
  ASSUME NEW S, IsFiniteSet(S), NEW f \in [S -> Int]
  PROVE  \E g : /\ g = [s \in SUBSET S |-> SumStep(f, g, s)]
                /\ SumFunction(f) = g[S]
<1> DEFINE it == CHOOSE g : g = [s \in SUBSET S |-> SumStep(f, g, s)]
           c == [s \in (SUBSET S) \ {{}} |-> CHOOSE x \in s : TRUE]
           h == [p \in S \X Int |-> f[p[1]] + p[2]]
<1>1. \E g : g = [s \in SUBSET S |-> SumStep(f, g, s)]
  <2>1. c \in Choosers(S) /\ \A s \in SUBSET S : s # {} => c[s] = CHOOSE x \in s : TRUE
    BY DEF Choosers
  <2>2. h \in Steps(S, Int) /\ \A x \in S, y \in Int : h[<<x, y>>] = f[x] + y BY DEF Steps
  <2>3. 0 \in Int OBVIOUS
  <2> HIDE DEF c, h
  <2>4. PICK g \in FoldFunctions(S, Int, 0, h, c) : TRUE
    BY <2>1, <2>2, <2>3, FoldExists
  <2>5. g \in [SUBSET S -> Int] /\ \A s \in SUBSET S : g[s] = FoldStep(0, h, c, g, s)
    BY DEF FoldFunctions
  <2>6. ASSUME NEW s \in SUBSET S PROVE g[s] = SumStep(f, g, s)
    <3>1. CASE s = {} BY <2>5, <3>1, Zenon DEF FoldStep, SumStep
    <3>2. CASE s # {}
      <4>1. c[s] \in S /\ g[s \ {c[s]}] \in Int BY <2>1, <2>5, <3>2 DEF Choosers
      <4>2. g[s] = f[c[s]] + g[s \ {c[s]}] BY <2>2, <2>5, <3>2, <4>1, Zenon DEF FoldStep
      <4> QED BY <2>1, <3>2, <4>2, Zenon DEF SumStep
    <3> QED BY <3>1, <3>2
  <2>7. g = [s \in SUBSET S |-> SumStep(f, g, s)] BY <2>5, <2>6
  <2> QED BY <2>7
<1>2. it = [s \in SUBSET S |-> SumStep(f, it, s)] BY <1>1
<1>3. SumFunction(f) = it[S]
  BY DEF SumFunction, SumFunctionOnSet, FoldFunctionOnSet, MapThenFoldSet, SumStep
<1> QED BY <1>2, <1>3, Zenon

\* A sum of integers over a finite set is an integer.
LEMMA SumType ==
  ASSUME NEW S, IsFiniteSet(S), NEW f \in [S -> Int]
  PROVE  SumFunction(f) \in Int
<1>1. PICK g : g = [s \in SUBSET S |-> SumStep(f, g, s)] /\ SumFunction(f) = g[S]
  BY SumEquation, Zenon
<1> DEFINE G == {s \in SUBSET S : g[s] \in Int}
<1>2. {} \in G BY <1>1 DEF SumStep
<1>3. ASSUME NEW s \in SUBSET S, s # {}, s \ {CHOOSE x \in s : TRUE} \in G
      PROVE  s \in G
  BY <1>1, <1>3 DEF SumStep
<1> HIDE DEF G
<1>4. G \in SUBSET (SUBSET S) BY DEF G
<1>5. S \in G BY <1>2, <1>3, <1>4, SubsetInduction
<1> QED BY <1>1, <1>5 DEF G

\* A function that is smaller at every point has the smaller sum.
LEMMA SumMonotone ==
  ASSUME NEW S, IsFiniteSet(S), NEW f \in [S -> Int], NEW h \in [S -> Int],
         \A x \in S : f[x] <= h[x]
  PROVE  SumFunction(f) <= SumFunction(h)
<1>1. PICK g : g = [s \in SUBSET S |-> SumStep(f, g, s)] /\ SumFunction(f) = g[S]
  BY SumEquation, Zenon
<1>2. PICK k : k = [s \in SUBSET S |-> SumStep(h, k, s)] /\ SumFunction(h) = k[S]
  BY SumEquation, Zenon
<1> DEFINE G == {s \in SUBSET S : g[s] \in Int /\ k[s] \in Int /\ g[s] <= k[s]}
<1>3. {} \in G BY <1>1, <1>2 DEF SumStep
<1>4. ASSUME NEW s \in SUBSET S, s # {}, s \ {CHOOSE x \in s : TRUE} \in G
      PROVE  s \in G
  <2> DEFINE c == CHOOSE x \in s : TRUE
  <2>1. c \in S BY <1>4
  <2>2. g[s] = f[c] + g[s \ {c}] /\ k[s] = h[c] + k[s \ {c}]
    BY <1>1, <1>2, <1>4, Zenon DEF SumStep
  <2> HIDE DEF c
  <2>3. g[s \ {c}] \in Int /\ k[s \ {c}] \in Int /\ g[s \ {c}] <= k[s \ {c}]
    BY <1>4 DEF c
  <2>4. f[c] \in Int /\ h[c] \in Int /\ f[c] <= h[c] BY <2>1
  <2> QED BY <2>2, <2>3, <2>4
<1> HIDE DEF G
<1>5. G \in SUBSET (SUBSET S) BY DEF G
<1>6. S \in G BY <1>3, <1>4, <1>5, SubsetInduction
<1> QED BY <1>1, <1>2, <1>6 DEF G

\* The balances of a newly deployed token, all 0, sum up to 0.
LEMMA SumZero ==
  ASSUME NEW S, IsFiniteSet(S)
  PROVE  SumFunction([x \in S |-> 0]) = 0
<1> DEFINE f == [x \in S |-> 0]
<1>0. f \in [S -> Int] OBVIOUS
<1>1. PICK g : g = [s \in SUBSET S |-> SumStep(f, g, s)] /\ SumFunction(f) = g[S]
  BY <1>0, SumEquation, Zenon
<1> DEFINE G == {s \in SUBSET S : g[s] = 0}
<1>2. {} \in G BY <1>1 DEF SumStep
<1>3. ASSUME NEW s \in SUBSET S, s # {}, s \ {CHOOSE x \in s : TRUE} \in G
      PROVE  s \in G
  BY <1>1, <1>3 DEF SumStep
<1> HIDE DEF G
<1>4. G \in SUBSET (SUBSET S) BY DEF G
<1>5. S \in G BY <1>2, <1>3, <1>4, SubsetInduction
<1> QED BY <1>1, <1>5 DEF G

\* Replacing one balance changes the sum by the difference: the fact every
\* conservation argument rests on.
LEMMA SumUpdate ==
  ASSUME NEW S, IsFiniteSet(S), NEW f \in [S -> Int], NEW u \in S, NEW v \in Int
  PROVE  SumFunction([f EXCEPT ![u] = v]) = SumFunction(f) - f[u] + v
<1> DEFINE h == [f EXCEPT ![u] = v]
<1>0. h \in [S -> Int] OBVIOUS
<1>1. PICK g : g = [s \in SUBSET S |-> SumStep(f, g, s)] /\ SumFunction(f) = g[S]
  BY SumEquation
<1>2. PICK k : k = [s \in SUBSET S |-> SumStep(h, k, s)] /\ SumFunction(h) = k[S]
  BY <1>0, SumEquation, Zenon
<1> DEFINE G == {s \in SUBSET S : /\ g[s] \in Int /\ k[s] \in Int
                                  /\ k[s] = g[s] + (IF u \in s THEN v - f[u] ELSE 0)}
<1>3. {} \in G BY <1>1, <1>2 DEF SumStep
<1>4. ASSUME NEW s \in SUBSET S, s # {}, s \ {CHOOSE x \in s : TRUE} \in G
      PROVE  s \in G
  <2> DEFINE c == CHOOSE x \in s : TRUE
  <2>1. c \in S /\ c \in s BY <1>4
  <2>2. g[s] = f[c] + g[s \ {c}] /\ k[s] = h[c] + k[s \ {c}]
    BY <1>1, <1>2, <1>4, Zenon DEF SumStep
  <2>3. /\ g[s \ {c}] \in Int /\ k[s \ {c}] \in Int
        /\ k[s \ {c}] = g[s \ {c}] + (IF u \in s \ {c} THEN v - f[u] ELSE 0)
    BY <1>4, Zenon
  <2> HIDE DEF c
  <2>4. f[c] \in Int /\ f[u] \in Int /\ h[c] = IF c = u THEN v ELSE f[c] BY <2>1
  <2>5. u \in s \ {c} <=> u \in s /\ c # u OBVIOUS
  <2> HIDE DEF h
  <2>6. CASE c = u BY <2>1, <2>2, <2>3, <2>4, <2>5, <2>6
  <2>7. CASE c # u BY <2>1, <2>2, <2>3, <2>4, <2>5, <2>7
  <2> QED BY <2>6, <2>7
<1> HIDE DEF G
<1>5. G \in SUBSET (SUBSET S) BY DEF G
<1>6. S \in G BY <1>3, <1>4, <1>5, SubsetInduction
<1>7. k[S] = g[S] + (v - f[u]) /\ g[S] \in Int /\ f[u] \in Int BY <1>6 DEF G
<1> QED BY <1>1, <1>2, <1>7

\* A sum of balances is a natural number and at least each of them.
LEMMA SumNat ==
  ASSUME NEW S, IsFiniteSet(S), NEW f \in [S -> Nat]
  PROVE  /\ SumFunction(f) \in Nat
         /\ \A x \in S : f[x] <= SumFunction(f)
<1> DEFINE z == [x \in S |-> 0]
<1>1. f \in [S -> Int] /\ z \in [S -> Int] /\ \A x \in S : z[x] <= f[x] OBVIOUS
<1>z. SumFunction(z) = 0 BY SumZero
<1> HIDE DEF z
<1>2. SumFunction(f) \in Int /\ 0 <= SumFunction(f) BY <1>1, <1>z, SumType, SumMonotone
<1>3. ASSUME NEW x \in S PROVE f[x] <= SumFunction(f)
  <2> DEFINE h == [f EXCEPT ![x] = 0]
  <2>1. h \in [S -> Int] /\ \A y \in S : z[y] <= h[y] BY DEF z
  <2>0. f \in [S -> Int] /\ 0 \in Int BY <1>1
  <2>2. SumFunction(h) = SumFunction(f) - f[x] + 0 BY <2>0, SumUpdate, Zenon
  <2> HIDE DEF h
  <2>3. SumFunction(h) \in Int /\ 0 <= SumFunction(h)
    BY <1>1, <1>z, <2>1, SumType, SumMonotone
  <2> QED BY <1>2, <2>2, <2>3
<1> QED BY <1>2, <1>3

\* g sums f over every subset of S.
SumsUp(S, f, g) ==
  \A s \in SUBSET S :
    /\ s = {} => g[s] = 0
    /\ s # {} => /\ (CHOOSE x \in s : TRUE) \in s
                 /\ g[s] = f[CHOOSE x \in s : TRUE] + g[s \ {CHOOSE x \in s : TRUE}]

\* g[s] can be computed by taking out any element of s first.
AnyOrder(S, f, g) ==
  \A s \in SUBSET S : g[s] \in Int /\ \A x \in s : g[s] = f[x] + g[s \ {x}]

\* The order of a sum does not matter: any element can be taken out first.
LEMMA SumAnyElement ==
  ASSUME NEW S, IsFiniteSet(S), NEW f, \A x \in S : f[x] \in Int, NEW g, SumsUp(S, f, g)
  PROVE  AnyOrder(S, f, g)
<1> DEFINE Ok(s) == g[s] \in Int /\ \A x \in s : g[s] = f[x] + g[s \ {x}]
           G == {n \in Nat : \A s \in SUBSET S : Cardinality(s) <= n => Ok(s)}
<1>c. \A s \in SUBSET S : /\ IsFiniteSet(s) /\ Cardinality(s) \in Nat
                          /\ Cardinality(s) <= Cardinality(S)
                          /\ Cardinality(s) = 0 <=> s = {}
                          /\ \A x \in s : Cardinality(s \ {x}) = Cardinality(s) - 1
  BY FS_Subset, FS_CardinalityType, FS_EmptySet, FS_RemoveElement
<1>1. ASSUME NEW s \in SUBSET S, Cardinality(s) <= 0 PROVE Ok(s)
  <2>1. s = {} BY <1>1, <1>c
  <2>2. g[s] = 0 BY <2>1, Zenon DEF SumsUp
  <2> QED BY <2>1, <2>2
<1>2. ASSUME NEW n \in Nat, n # 0, \A s \in SUBSET S : Cardinality(s) <= n - 1 => Ok(s),
             NEW s \in SUBSET S, Cardinality(s) <= n
      PROVE  Ok(s)
  <2>1. CASE s = {} BY <2>1 DEF SumsUp
  <2>2. CASE s # {}
    <3>1. PICK c \in s : g[s] = f[c] + g[s \ {c}] BY <2>2, Zenon DEF SumsUp
    <3>3. ASSUME NEW x \in s PROVE s \ {x} \in SUBSET S /\ Ok(s \ {x})
      <4>1. s \ {x} \in SUBSET S OBVIOUS
      <4>2. Cardinality(s \ {x}) = Cardinality(s) - 1 /\ Cardinality(s) \in Nat BY <1>c
      <4>3. Cardinality(s \ {x}) <= n - 1 BY <1>2, <4>2
      <4> QED BY <1>2, <4>1, <4>3, Zenon
    <3>4. g[s] \in Int
      <4>1. g[s \ {c}] \in Int BY <3>3, Zenon
      <4>2. f[c] \in Int OBVIOUS
      <4> QED BY <3>1, <4>1, <4>2
    <3>5. ASSUME NEW x \in s PROVE g[s] = f[x] + g[s \ {x}]
      <4>1. CASE x = c BY <3>1, <4>1
      <4>2. CASE x # c
        <5> DEFINE r == s \ {c, x}
        <5>1. x \in s \ {c} /\ c \in s \ {x} BY <4>2
        <5>2. (s \ {c}) \ {x} = r /\ (s \ {x}) \ {c} = r OBVIOUS
        <5>3. g[s \ {c}] = f[x] + g[(s \ {c}) \ {x}] BY <3>3, <5>1, Zenon
        <5>4. g[s \ {x}] = f[c] + g[(s \ {x}) \ {c}] BY <3>3, <5>1
        <5>5. g[r] \in Int
          <6>1. (s \ {x}) \ {c} \in SUBSET S /\ s \ {x} \in SUBSET S OBVIOUS
          <6>2. Cardinality((s \ {x}) \ {c}) = Cardinality(s \ {x}) - 1 BY <1>c, <5>1, <6>1, Zenon
          <6>3. Cardinality(s \ {x}) = Cardinality(s) - 1 BY <1>c
          <6>4. Cardinality(s) \in Nat BY <1>c
          <6>5. Cardinality((s \ {x}) \ {c}) <= n - 1 BY <1>2, <6>2, <6>3, <6>4
          <6> QED BY <1>2, <5>2, <6>1, <6>5, Zenon
        <5>6. f[x] \in Int /\ f[c] \in Int OBVIOUS
        <5> HIDE DEF r
        <5>7. g[s \ {c}] = f[x] + g[r] /\ g[s \ {x}] = f[c] + g[r] BY <5>2, <5>3, <5>4, Zenon
        <5> QED BY <3>1, <5>5, <5>6, <5>7
      <4> QED BY <4>1, <4>2
    <3> QED BY <3>4, <3>5, Zenon
  <2> QED BY <2>1, <2>2
<1> HIDE DEF Ok
<1>3. 0 \in G BY <1>1
<1>4. Cardinality(S) \in Nat BY <1>c
<1>5. ASSUME NEW k \in 1 .. Cardinality(S), k - 1 \in G PROVE k \in G
  <2>1. k \in Nat /\ k # 0 BY <1>4
  <2>2. \A s \in SUBSET S : Cardinality(s) <= k - 1 => Ok(s) BY <1>5
  <2>3. \A s \in SUBSET S : Cardinality(s) <= k => Ok(s) BY <1>2, <2>1, <2>2
  <2> QED BY <2>1, <2>3
<1> HIDE DEF G
<1>6. \A k \in 0 .. Cardinality(S) : k \in G BY <1>3, <1>4, <1>5, UpTo
<1>7. Cardinality(S) \in G BY <1>4, <1>6
<1>8. \A s \in SUBSET S : Ok(s) BY <1>7, <1>c DEF G
<1> QED BY <1>8 DEF Ok, AnyOrder

\* Taking one element out of the domain takes its value out of the sum.
LEMMA SumWithout ==
  ASSUME NEW S, IsFiniteSet(S), NEW f \in [S -> Int], NEW x \in S
  PROVE  SumFunction(f) = f[x] + SumFunction([y \in S \ {x} |-> f[y]])
<1> DEFINE T == S \ {x}
           e == [y \in T |-> f[y]]
<1>1. IsFiniteSet(T) /\ e \in [T -> Int] BY FS_RemoveElement
<1>2. PICK g : g = [s \in SUBSET S |-> SumStep(f, g, s)] /\ SumFunction(f) = g[S]
  BY SumEquation, Zenon
<1>3. PICK k : k = [s \in SUBSET T |-> SumStep(e, k, s)] /\ SumFunction(e) = k[T]
  BY <1>1, SumEquation, Zenon
<1> DEFINE G == {s \in SUBSET T : k[s] = g[s]}
<1>4. {} \in G BY <1>2, <1>3 DEF SumStep
<1>5. ASSUME NEW s \in SUBSET T, s # {}, s \ {CHOOSE y \in s : TRUE} \in G
      PROVE  s \in G
  <2> DEFINE c == CHOOSE y \in s : TRUE
  <2>1. c \in T /\ s \in SUBSET S BY <1>5
  <2>2. g[s] = f[c] + g[s \ {c}] BY <1>2, <1>5, <2>1 DEF SumStep
  <2>3. k[s] = e[c] + k[s \ {c}] BY <1>3, <1>5, Zenon DEF SumStep
  <2>4. e[c] = f[c] /\ k[s \ {c}] = g[s \ {c}] BY <1>5, <2>1
  <2> QED BY <2>2, <2>3, <2>4
<1> HIDE DEF G
<1>6. T \in G BY <1>1, <1>4, <1>5, SubsetInduction
<1>7. g[S] = f[x] + g[T]
  <2>1. SumsUp(S, f, g) BY <1>2, Zenon DEF SumsUp, SumStep
  <2>2. \A y \in S : f[y] \in Int OBVIOUS
  <2>3. AnyOrder(S, f, g) BY <2>1, <2>2, SumAnyElement
  <2> QED BY <2>3 DEF AnyOrder
<1> QED BY <1>2, <1>3, <1>6, <1>7 DEF G
==============================================================================
