--------------------------- MODULE InductionLemmas ---------------------------
(***************************************************************************)
(* Induction and order, and what they show of the operators that the model *)
(* uses.  The induction theorems of the library have an operator for the   *)
(* predicate; these have a set, so that they can be cited.                 *)
(***************************************************************************)
EXTENDS Ordering, SequencesExt, FiniteSetTheorems, SequenceTheorems, WellFoundedInduction, TLAPS

-----------------------------------------------------------------------------
(* Induction over natural numbers and sequences.                           *)

\* Every set of natural numbers that has an element has a least one: the initial segments
\* it bounds are finite sets, and inclusion is well-founded on those.
LEMMA LeastNatural ==
    ASSUME NEW T, T \subseteq Nat, NEW t \in T
    PROVE  \E m \in T : \A k \in T : m <= k
<1> DEFINE S == 1..t
           U == {u \in SUBSET S : \E k \in T : k <= t /\ u = 1..k}
           R == StrictSubsetOrdering(S)
<1>1. IsWellFoundedOn(R, FiniteSubsetsOf(S))
  BY FS_StrictSubsetOrderingWellFounded
<1>2. U \subseteq FiniteSubsetsOf(S) /\ U # {}
  <2>1. 1..t \in U
    OBVIOUS
  <2>2. \A k \in Nat : IsFiniteSet(1..k)
    BY FS_Interval
  <2> QED BY <2>1, <2>2 DEF FiniteSubsetsOf
<1>3. PICK u \in U : \A v \in U : ~(<<v, u>> \in R)
  <2> HIDE DEF S, U, R
  <2> QED BY <1>1, <1>2, WFMin
<1>4. PICK m \in T : m <= t /\ u = 1..m
  BY <1>3
<1>5. ASSUME NEW k \in T, k < m PROVE FALSE
  <2>1. 1..k \in U
    BY <1>4, <1>5
  <2>2. 1..k \subseteq 1..m /\ m \in 1..m /\ m \notin 1..k
    BY <1>4, <1>5
  <2>3. <<1..k, u>> \in R
    BY <1>4, <2>1, <2>2 DEF StrictSubsetOrdering
  <2> QED BY <1>3, <2>1, <2>3
<1> QED BY <1>4, <1>5

LEMMA LeastIsMin ==
    ASSUME NEW T, T \subseteq Nat, NEW m \in T, \A k \in T : m <= k
    PROVE  Min(T) = m
<1>1. \A x \in T : (\A k \in T : x <= k) => x = m
  OBVIOUS
<1>2. Min(T) \in T /\ \A k \in T : Min(T) <= k
  BY DEF Min
<1> QED BY <1>1, <1>2

\* Induction, with a set for the predicate.
LEMMA SetInduction ==
    ASSUME NEW n \in Nat, NEW S, 1 \in S,
           \A k \in 1..(n - 1) : k \in S => k + 1 \in S
    PROVE  1..n \subseteq S
<1> DEFINE bad == {k \in 1..n : k \notin S}
<1> SUFFICES ASSUME NEW t \in bad PROVE FALSE
  OBVIOUS
<1>1. PICK m \in bad : \A k \in bad : m <= k
  <2>1. bad \subseteq Nat
    OBVIOUS
  <2> HIDE DEF bad
  <2> QED BY <2>1, LeastNatural
<1>2. m # 1
  BY <1>1
<1>3. m - 1 \in 1..(n - 1) /\ m - 1 \notin bad
  BY <1>1, <1>2
<1>4. m - 1 \in S
  BY <1>3
<1>5. m = (m - 1) + 1
  BY <1>1
<1> QED BY <1>1, <1>3, <1>4, <1>5

\* Induction over the subsets of a finite set, with a set for the predicate.
LEMMA SubsetInduction ==
    ASSUME NEW S, IsFiniteSet(S), NEW P,
           \A s \in SUBSET S : (\A t \in SUBSET s : t # s => t \in P) => s \in P
    PROVE  SUBSET S \subseteq P
<1> DEFINE U == {s \in SUBSET S : s \notin P}
           R == StrictSubsetOrdering(S)
<1> SUFFICES ASSUME U # {} PROVE FALSE
  OBVIOUS
<1>1. IsWellFoundedOn(R, FiniteSubsetsOf(S))
  BY FS_StrictSubsetOrderingWellFounded
<1>2. U \subseteq FiniteSubsetsOf(S)
  <2>1. \A s \in SUBSET S : IsFiniteSet(s)
    BY FS_Subset
  <2> QED BY <2>1 DEF FiniteSubsetsOf
<1>3. PICK u \in U : \A v \in U : ~(<<v, u>> \in R)
  <2> HIDE DEF U, R
  <2> QED BY <1>1, <1>2, WFMin
<1>4. ASSUME NEW t \in SUBSET u, t # u PROVE t \in P
  <2>1. <<t, u>> \in R
    BY <1>4 DEF StrictSubsetOrdering
  <2>2. t \notin U
    <3> HIDE DEF U, R
    <3> QED BY <1>3, <2>1
  <2> QED BY <2>2
<1> QED BY <1>4

-----------------------------------------------------------------------------
(* Sums: SumFunction of the module Functions adds up the values of a function. *)

\* The equation of iter in MapThenFoldSet.
SumOf(it, f, s) ==
    IF s = {} THEN 0
    ELSE LET x == CHOOSE y \in s : TRUE IN f[x] + it[s \ {x}]

Adds(it, f, S) == it = [s \in SUBSET S |-> SumOf(it, f, s)]

LEMMA OneLess ==
    ASSUME NEW S, IsFiniteSet(S), NEW s \in SUBSET S, NEW x \in s
    PROVE  /\ Cardinality(s) \in Nat /\ Cardinality(s \ {x}) \in Nat
           /\ Cardinality(s) = Cardinality(s \ {x}) + 1
           /\ Cardinality(s) <= Cardinality(S)
<1>1. IsFiniteSet(s)
  BY FS_Subset
<1>2. IsFiniteSet(s \ {x}) /\ Cardinality(s \ {x}) = Cardinality(s) - 1
  BY <1>1, FS_RemoveElement
<1>3. Cardinality(s) <= Cardinality(S)
  BY FS_Subset
<1> QED BY <1>1, <1>2, <1>3, FS_CardinalityType

\* The recursion has a solution.
LEMMA SumExists ==
    ASSUME NEW S, IsFiniteSet(S), NEW f \in [S -> Nat]
    PROVE  \E it \in [SUBSET S -> Nat] : Adds(it, f, S)
<1> DEFINE n == Cardinality(S) + 1
           Small(k) == {s \in SUBSET S : Cardinality(s) < k}
           Solves(it, k) == \A s \in Small(k) : it[s] = SumOf(it, f, s)
           T == {k \in 1..n : \E it \in [Small(k) -> Nat] : Solves(it, k)}
<1>1. n \in Nat /\ n >= 1
  BY FS_CardinalityType
<1>2. \A s \in SUBSET S : /\ Cardinality(s) \in Nat /\ Cardinality(s) < n
                          /\ Cardinality(s) = 0 <=> s = {}
  <2> SUFFICES ASSUME NEW s \in SUBSET S
               PROVE  /\ Cardinality(s) \in Nat /\ Cardinality(s) < n
                      /\ Cardinality(s) = 0 <=> s = {}
    OBVIOUS
  <2>1. IsFiniteSet(s) /\ Cardinality(s) <= Cardinality(S)
    BY FS_Subset
  <2> QED BY <2>1, FS_CardinalityType, FS_EmptySet
<1>3. 1 \in T
  <2> DEFINE it == [s \in Small(1) |-> 0]
  <2>1. Small(1) = {{}}
    <3>1. ASSUME NEW s \in SUBSET S PROVE Cardinality(s) < 1 <=> s = {}
      <4>1. Cardinality(s) \in Nat /\ (Cardinality(s) = 0 <=> s = {})
        BY <1>2
      <4> QED BY <4>1
    <3> QED BY <3>1
  <2>2. it \in [Small(1) -> Nat] /\ Solves(it, 1)
    BY <2>1 DEF SumOf
  <2>3. 1 \in 1..n
    BY <1>1
  <2> HIDE DEF n, Small, it
  <2> QED BY <2>2, <2>3
<1>4. ASSUME NEW k \in 1..(n - 1), k \in T PROVE k + 1 \in T
  <2>1. PICK it \in [Small(k) -> Nat] : Solves(it, k)
    BY <1>4
  <2> DEFINE more == [s \in Small(k + 1) |-> SumOf(it, f, s)]
  <2>2. ASSUME NEW s \in Small(k + 1), s # {}
        PROVE  /\ (CHOOSE y \in s : TRUE) \in s
               /\ s \ {CHOOSE y \in s : TRUE} \in Small(k)
    <3>1. (CHOOSE y \in s : TRUE) \in s
      BY <2>2
    <3>2. s \in SUBSET S /\ Cardinality(s) < k + 1
      OBVIOUS
    <3>3. k \in Nat
      BY <1>4
    <3> DEFINE x == CHOOSE y \in s : TRUE
    <3>4. /\ Cardinality(s) \in Nat /\ Cardinality(s \ {x}) \in Nat
          /\ Cardinality(s) = Cardinality(s \ {x}) + 1
      <4> HIDE DEF x, Small, n
      <4>1. x \in s /\ s \in SUBSET S
        BY <3>1, <3>2 DEF x
      <4> QED BY <4>1, OneLess
    <3>5. Cardinality(s \ {x}) < k
      <4> HIDE DEF x
      <4> QED BY <3>2, <3>3, <3>4
    <3> QED BY <3>1, <3>2, <3>5
  <2>3. ASSUME NEW s \in Small(k + 1) PROVE more[s] \in Nat
    <3>1. CASE s = {}
      BY <3>1 DEF SumOf
    <3>2. CASE s # {}
      <4> DEFINE x == CHOOSE y \in s : TRUE
      <4>1. x \in S /\ s \ {x} \in Small(k)
        BY <2>2, <3>2
      <4>2. f[x] \in Nat /\ it[s \ {x}] \in Nat
        <5> HIDE DEF x, Small
        <5> QED BY <2>1, <4>1
      <4>3. more[s] = f[x] + it[s \ {x}]
        BY <3>2 DEF SumOf
      <4> QED BY <4>2, <4>3
    <3> QED BY <3>1, <3>2
  <2>4. \A s \in Small(k) : more[s] = it[s]
    <3>1. Small(k) \subseteq Small(k + 1)
      <4>1. k \in Nat
        BY <1>4
      <4> SUFFICES ASSUME NEW s \in SUBSET S, Cardinality(s) < k
                   PROVE  Cardinality(s) < k + 1
        OBVIOUS
      <4>2. Cardinality(s) \in Nat
        BY <1>2
      <4> QED BY <4>1, <4>2
    <3> QED BY <2>1, <3>1
  <2>5. ASSUME NEW s \in Small(k + 1) PROVE more[s] = SumOf(more, f, s)
    <3>1. CASE s = {}
      BY <3>1 DEF SumOf
    <3>2. CASE s # {}
      <4> DEFINE x == CHOOSE y \in s : TRUE
      <4>1. more[s \ {x}] = it[s \ {x}]
        BY <2>2, <2>4, <3>2
      <4>2. more[s] = f[x] + it[s \ {x}]
        BY <3>2 DEF SumOf
      <4>3. SumOf(more, f, s) = f[x] + more[s \ {x}]
        BY <3>2 DEF SumOf
      <4> QED BY <4>1, <4>2, <4>3
    <3> QED BY <3>1, <3>2
  <2>6. more \in [Small(k + 1) -> Nat]
    BY <2>3
  <2>7. k + 1 \in 1..n
    BY <1>1
  <2> QED BY <2>5, <2>6, <2>7
<1>5. n \in T
  <2> HIDE DEF T, n
  <2> QED BY <1>1, <1>3, <1>4, SetInduction
<1>6. Small(n) = SUBSET S
  <2> SUFFICES ASSUME NEW s \in SUBSET S PROVE Cardinality(s) < n
    OBVIOUS
  <2> QED BY <1>2
<1>7. PICK it \in [SUBSET S -> Nat] : \A s \in SUBSET S : it[s] = SumOf(it, f, s)
  BY <1>5, <1>6
<1> QED BY <1>7 DEF Adds

\* Whichever element is added last, the sum is the same.
LEMMA SumRemove ==
    ASSUME NEW S, IsFiniteSet(S), NEW f \in [S -> Nat],
           NEW it \in [SUBSET S -> Nat], Adds(it, f, S)
    PROVE  \A s \in SUBSET S : \A x \in s : it[s] = f[x] + it[s \ {x}]
<1> DEFINE P == {s \in SUBSET S : \A x \in s : it[s] = f[x] + it[s \ {x}]}
<1>1. \A s \in SUBSET S : it[s] = SumOf(it, f, s)
  BY DEF Adds
<1>2. ASSUME NEW s \in SUBSET S, \A t \in SUBSET s : t # s => t \in P
      PROVE  s \in P
  <2> SUFFICES ASSUME NEW x \in s PROVE it[s] = f[x] + it[s \ {x}]
    BY <1>2
  <2> DEFINE y == CHOOSE z \in s : TRUE
  <2>1. y \in s
    OBVIOUS
  <2>2. it[s] = f[y] + it[s \ {y}]
    BY <1>1 DEF SumOf
  <2> HIDE DEF y
  <2>3. CASE x = y
    BY <2>2, <2>3
  <2>4. CASE x # y
    <3>1. s \ {y} \in P /\ s \ {x} \in P
      <4> HIDE DEF P
      <4> QED BY <1>2, <2>1
    <3>2. it[s \ {y}] = f[x] + it[(s \ {y}) \ {x}]
      BY <2>4, <3>1
    <3>3. it[s \ {x}] = f[y] + it[(s \ {x}) \ {y}]
      BY <2>1, <2>4, <3>1
    <3>4. (s \ {y}) \ {x} = (s \ {x}) \ {y}
      OBVIOUS
    <3>5. f[x] \in Nat /\ f[y] \in Nat /\ it[(s \ {x}) \ {y}] \in Nat
      BY <2>1
    <3> DEFINE a == f[x]
               b == f[y]
               c == it[(s \ {x}) \ {y}]
    <3>6. it[s] = b + (a + c) /\ it[s \ {x}] = b + c
      BY <2>2, <3>2, <3>3, <3>4
    <3>7. it[s] = a + (b + c)
      <4>1. a \in Nat /\ b \in Nat /\ c \in Nat
        BY <3>5
      <4> HIDE DEF a, b, c
      <4> QED BY <3>6, <4>1
    <3> QED BY <3>6, <3>7
  <2> QED BY <2>3, <2>4
<1>3. SUBSET S \subseteq P
  <2> HIDE DEF P
  <2> QED BY <1>2, SubsetInduction
<1> QED BY <1>3

LEMMA SumIs ==
    ASSUME NEW S, IsFiniteSet(S), NEW f \in [S -> Nat]
    PROVE  \E it \in [SUBSET S -> Nat] : Adds(it, f, S) /\ SumFunction(f) = it[S]
<1>1. SumFunction(f) = (CHOOSE it : Adds(it, f, S))[S]
  BY DEF SumFunction, SumFunctionOnSet, FoldFunctionOnSet, MapThenFoldSet, Adds, SumOf
<1>2. PICK it \in [SUBSET S -> Nat] : Adds(it, f, S)
  BY SumExists
<1>3. \A other : Adds(other, f, S) => other = it
  <2> SUFFICES ASSUME NEW other, Adds(other, f, S) PROVE other = it
    OBVIOUS
  <2> DEFINE P == {s \in SUBSET S : other[s] = it[s]}
  <2>1. ASSUME NEW s \in SUBSET S, \A t \in SUBSET s : t # s => t \in P
        PROVE  s \in P
    <3>1. other[s] = SumOf(other, f, s) /\ it[s] = SumOf(it, f, s)
      BY <1>2 DEF Adds
    <3>2. CASE s = {}
      BY <3>1, <3>2 DEF SumOf
    <3>3. CASE s # {}
      <4> DEFINE x == CHOOSE y \in s : TRUE
      <4>1. x \in s
        BY <3>3
      <4>2. s \ {x} \in P
        <5> HIDE DEF P, x
        <5> QED BY <2>1, <4>1
      <4>3. other[s \ {x}] = it[s \ {x}]
        BY <4>2
      <4> QED BY <3>1, <3>3, <4>3 DEF SumOf
    <3> QED BY <3>2, <3>3
  <2>2. SUBSET S \subseteq P
    <3> HIDE DEF P
    <3> QED BY <2>1, SubsetInduction
  <2>3. other = [s \in SUBSET S |-> other[s]]
    BY DEF Adds
  <2>4. it = [s \in SUBSET S |-> it[s]]
    OBVIOUS
  <2>5. \A s \in SUBSET S : other[s] = it[s]
    BY <2>2
  <2> HIDE DEF P
  <2> QED BY <2>3, <2>4, <2>5
<1>4. (CHOOSE g : Adds(g, f, S)) = it
  BY <1>2, <1>3
<1> QED BY <1>1, <1>2, <1>4

\* A sum of nothing but zeros.
LEMMA SumZero ==
    ASSUME NEW S, IsFiniteSet(S)
    PROVE  SumFunction([s \in S |-> 0]) = 0
<1> DEFINE f == [s \in S |-> 0]
<1>1. PICK it \in [SUBSET S -> Nat] : Adds(it, f, S) /\ SumFunction(f) = it[S]
  <2>1. f \in [S -> Nat]
    OBVIOUS
  <2> HIDE DEF f
  <2> QED BY <2>1, SumIs
<1> DEFINE P == {s \in SUBSET S : it[s] = 0}
<1>2. ASSUME NEW s \in SUBSET S, \A t \in SUBSET s : t # s => t \in P
      PROVE  s \in P
  <2>1. it[s] = SumOf(it, f, s)
    BY <1>1 DEF Adds
  <2>2. CASE s = {}
    BY <2>1, <2>2 DEF SumOf
  <2>3. CASE s # {}
    <3> DEFINE x == CHOOSE y \in s : TRUE
    <3>1. x \in s
      BY <2>3
    <3>2. s \ {x} \in P
      <4> HIDE DEF P, x
      <4> QED BY <1>2, <3>1
    <3>3. it[s] = f[x] + it[s \ {x}]
      BY <2>1, <2>3 DEF SumOf
    <3>4. f[x] = 0 /\ it[s \ {x}] = 0
      BY <3>1, <3>2
    <3> QED BY <3>3, <3>4
  <2> QED BY <2>2, <2>3
<1>3. SUBSET S \subseteq P
  <2> HIDE DEF P
  <2> QED BY <1>2, SubsetInduction
<1> QED BY <1>1, <1>3

\* Two functions that differ at h only have sums that differ as much.
LEMMA SumUpdate ==
    ASSUME NEW S, IsFiniteSet(S), NEW f \in [S -> Nat], NEW g \in [S -> Nat], NEW h \in S,
           \A s \in S : s # h => g[s] = f[s]
    PROVE  /\ SumFunction(f) \in Nat /\ SumFunction(g) \in Nat
           /\ SumFunction(g) = SumFunction(f) - f[h] + g[h]
<1>1. PICK it \in [SUBSET S -> Nat] : Adds(it, f, S) /\ SumFunction(f) = it[S]
  BY SumIs
<1>2. PICK jt \in [SUBSET S -> Nat] : Adds(jt, g, S) /\ SumFunction(g) = jt[S]
  BY SumIs
<1> DEFINE P == {s \in SUBSET S : h \notin s => it[s] = jt[s]}
<1>3. ASSUME NEW s \in SUBSET S, \A t \in SUBSET s : t # s => t \in P
      PROVE  s \in P
  <2> SUFFICES ASSUME h \notin s PROVE it[s] = jt[s]
    OBVIOUS
  <2>1. it[s] = SumOf(it, f, s) /\ jt[s] = SumOf(jt, g, s)
    BY <1>1, <1>2 DEF Adds
  <2>2. CASE s = {}
    BY <2>1, <2>2 DEF SumOf
  <2>3. CASE s # {}
    <3> DEFINE x == CHOOSE y \in s : TRUE
    <3>1. x \in s
      BY <2>3
    <3>2. s \ {x} \in P
      <4> HIDE DEF P, x
      <4> QED BY <1>3, <3>1
    <3>3. it[s] = f[x] + it[s \ {x}] /\ jt[s] = g[x] + jt[s \ {x}]
      BY <2>1, <2>3 DEF SumOf
    <3> HIDE DEF x
    <3>4. f[x] = g[x] /\ it[s \ {x}] = jt[s \ {x}]
      BY <3>1, <3>2
    <3> QED BY <3>3, <3>4
  <2> QED BY <2>2, <2>3
<1>4. SUBSET S \subseteq P
  <2> HIDE DEF P
  <2> QED BY <1>3, SubsetInduction
<1>5. it[S \ {h}] = jt[S \ {h}]
  BY <1>4
<1>6. it[S] = f[h] + it[S \ {h}] /\ jt[S] = g[h] + jt[S \ {h}]
  BY <1>1, <1>2, SumRemove
<1>7. it[S] \in Nat /\ jt[S] \in Nat /\ f[h] \in Nat /\ g[h] \in Nat /\ it[S \ {h}] \in Nat
  OBVIOUS
<1> QED BY <1>1, <1>2, <1>5, <1>6, <1>7

-----------------------------------------------------------------------------
(* Order: the n-th is the one that has n - 1 before it.                    *)

StrictOrder(R, S) ==
    /\ \A x \in S : <<x, x>> \notin R
    /\ \A x, y, z \in S : <<x, y>> \in R /\ <<y, z>> \in R => <<x, z>> \in R
    /\ \A x, y \in S : x # y => <<x, y>> \in R \/ <<y, x>> \in R

Below(R, S, x) == {y \in S : <<y, x>> \in R}

\* Of two members the later one has more members before it.
LEMMA MoreBelow ==
    ASSUME NEW S, IsFiniteSet(S), NEW R, StrictOrder(R, S), NEW x \in S
    PROVE  /\ Cardinality(Below(R, S, x)) \in 0..(Cardinality(S) - 1)
           /\ \A y \in S : <<x, y>> \in R =>
                Cardinality(Below(R, S, x)) < Cardinality(Below(R, S, y))
<1>1. \A y \in S : IsFiniteSet(Below(R, S, y)) /\ Below(R, S, y) \subseteq S
  BY FS_Subset DEF Below
<1>2. \A y \in S : Cardinality(Below(R, S, y)) \in Nat
  BY <1>1, FS_CardinalityType
<1>3. IsFiniteSet(Below(R, S, x) \cup {x})
      /\ Cardinality(Below(R, S, x) \cup {x}) = Cardinality(Below(R, S, x)) + 1
  <2>1. x \notin Below(R, S, x)
    BY DEF Below, StrictOrder
  <2> QED BY <1>1, <2>1, FS_AddElement
<1>4. Cardinality(S) \in Nat
  BY FS_CardinalityType
<1>5. Cardinality(Below(R, S, x)) + 1 <= Cardinality(S)
  <2>1. Below(R, S, x) \cup {x} \in SUBSET S
    BY <1>1
  <2>2. Cardinality(Below(R, S, x) \cup {x}) <= Cardinality(S)
    BY <2>1, FS_Subset
  <2> QED BY <1>3, <2>2
<1>6. ASSUME NEW y \in S, <<x, y>> \in R
      PROVE  Cardinality(Below(R, S, x)) < Cardinality(Below(R, S, y))
  <2>1. Below(R, S, x) \cup {x} \in SUBSET Below(R, S, y)
    BY <1>6 DEF Below, StrictOrder
  <2>2. Cardinality(Below(R, S, x) \cup {x}) <= Cardinality(Below(R, S, y))
    BY <1>1, <2>1, FS_Subset
  <2> QED BY <1>2, <1>3, <2>2
<1> QED BY <1>2, <1>4, <1>5, <1>6

\* So each number of members is before one of them.
LEMMA NthExists ==
    ASSUME NEW S, IsFiniteSet(S), NEW R, StrictOrder(R, S)
    PROVE  \A n \in 1..Cardinality(S) : \E x \in S : Cardinality(Below(R, S, x)) = n - 1
<1> DEFINE c == Cardinality(S)
           f == [x \in S |-> Cardinality(Below(R, S, x))]
<1>1. c \in Nat
  BY FS_CardinalityType
<1>2. IsFiniteSet(0..(c - 1)) /\ Cardinality(0..(c - 1)) = c
  <2> HIDE DEF c
  <2> QED BY <1>1, FS_Interval
<1>3. f \in Injection(S, 0..(c - 1))
  <2>1. f \in [S -> 0..(c - 1)]
    BY MoreBelow
  <2>2. ASSUME NEW x \in S, NEW y \in S, x # y PROVE f[x] # f[y]
    <3>1. \A z \in S : f[z] \in Int
      BY <1>1, <2>1
    <3>2. <<x, y>> \in R \/ <<y, x>> \in R
      BY <2>2 DEF StrictOrder
    <3>3. f[x] < f[y] \/ f[y] < f[x]
      BY <3>2, MoreBelow
    <3> HIDE DEF f
    <3> QED BY <3>1, <3>3
  <2> HIDE DEF f, c
  <2> QED BY <2>1, <2>2 DEF Injection, IsInjective
<1>4. f \in Surjection(S, 0..(c - 1))
  <2> HIDE DEF f
  <2> QED BY <1>2, <1>3, FS_Injection
<1> SUFFICES ASSUME NEW n \in 1..c PROVE \E x \in S : f[x] = n - 1
  OBVIOUS
<1>5. n - 1 \in 0..(c - 1)
  BY <1>1
<1> HIDE DEF f, c
<1> QED BY <1>4, <1>5 DEF Surjection

\* A list of S by these numbers is in order, and complete.
LEMMA OrderIs ==
    ASSUME NEW S, NEW R, NEW order \in [1..Cardinality(S) -> S],
           IsFiniteSet(S), StrictOrder(R, S),
           \A n \in 1..Cardinality(S) : Cardinality(Below(R, S, order[n])) = n - 1
    PROVE  /\ \A m, n \in 1..Cardinality(S) : m < n => <<order[m], order[n]>> \in R
           /\ \A x \in S : \E n \in 1..Cardinality(S) : order[n] = x
<1>1. Cardinality(S) \in Nat
  BY FS_CardinalityType
<1>2. \A x \in S : Cardinality(Below(R, S, x)) \in Nat
  BY <1>1, MoreBelow
<1>3. ASSUME NEW x \in S, NEW y \in S, Cardinality(Below(R, S, x)) <= Cardinality(Below(R, S, y))
      PROVE  x = y \/ <<x, y>> \in R
  <2>1. CASE <<y, x>> \in R
    BY <1>2, <1>3, <2>1, MoreBelow
  <2> QED BY <2>1 DEF StrictOrder
<1>4. ASSUME NEW m \in 1..Cardinality(S), NEW n \in 1..Cardinality(S), m < n
      PROVE  <<order[m], order[n]>> \in R
  <2>1. order[m] # order[n]
    BY <1>4, <1>1
  <2>2. Cardinality(Below(R, S, order[m])) <= Cardinality(Below(R, S, order[n]))
    BY <1>4, <1>1
  <2> QED BY <1>3, <2>1, <2>2
<1>5. ASSUME NEW x \in S PROVE \E n \in 1..Cardinality(S) : order[n] = x
  <2> DEFINE n == Cardinality(Below(R, S, x)) + 1
  <2>1. n \in 1..Cardinality(S)
    BY <1>1, MoreBelow
  <2>2. Cardinality(Below(R, S, order[n])) = Cardinality(Below(R, S, x))
    BY <1>1, <1>2, <2>1
  <2>3. order[n] \in S
    BY <2>1
  <2> HIDE DEF n
  <2>4. x = order[n] \/ <<x, order[n]>> \in R
    BY <1>2, <1>3, <2>2, <2>3
  <2>5. <<x, order[n]>> \notin R
    BY <1>2, <2>2, <2>3, MoreBelow
  <2> QED BY <2>1, <2>4, <2>5
<1> QED BY <1>4, <1>5

\* Numbers in ascending order.
LEMMA AscendingIs ==
    ASSUME NEW S, IsFiniteSet(S), S \subseteq Nat
    PROVE  /\ Ascending(S) \in [1..Cardinality(S) -> S]
           /\ \A m, n \in 1..Cardinality(S) : m < n => Ascending(S)[m] < Ascending(S)[n]
           /\ \A x \in S : \E n \in 1..Cardinality(S) : Ascending(S)[n] = x
<1> DEFINE order == Ascending(S)
           R == {p \in S \X S : p[1] < p[2]}
<1>1. StrictOrder(R, S)
  BY DEF StrictOrder
<1>2. \A x \in S : Below(R, S, x) = {y \in S : y < x}
  BY DEF Below
<1>3. \A n \in 1..Cardinality(S) : \E x \in S : Cardinality({y \in S : y < x}) = n - 1
  <2>1. \A n \in 1..Cardinality(S) : \E x \in S : Cardinality(Below(R, S, x)) = n - 1
    <3> HIDE DEF R
    <3> QED BY <1>1, NthExists
  <2>2. \A x \in S : Cardinality(Below(R, S, x)) = Cardinality({y \in S : y < x})
    BY <1>2
  <2> HIDE DEF R
  <2> QED BY <2>1, <2>2
<1>4. ASSUME NEW n \in 1..Cardinality(S)
      PROVE  order[n] \in S /\ Cardinality({y \in S : y < order[n]}) = n - 1
  <2>1. order[n] = CHOOSE x \in S : Cardinality({y \in S : y < x}) = n - 1
    BY DEF Ascending, InOrder
  <2> HIDE DEF order
  <2> QED BY <1>3, <2>1
<1>5. order \in [1..Cardinality(S) -> S]
  BY <1>4 DEF Ascending, InOrder
<1>6. \A x, y \in S : <<x, y>> \in R <=> x < y
  OBVIOUS
<1> HIDE DEF order, R
<1>7. /\ \A m, n \in 1..Cardinality(S) : m < n => <<order[m], order[n]>> \in R
      /\ \A x \in S : \E n \in 1..Cardinality(S) : order[n] = x
  <2>1. \A n \in 1..Cardinality(S) : Cardinality(Below(R, S, order[n])) = n - 1
    BY <1>2, <1>4
  <2> QED BY <1>1, <1>5, <2>1, OrderIs
<1>8. \A m, n \in 1..Cardinality(S) : m < n => order[m] < order[n]
  BY <1>5, <1>6, <1>7
<1> QED BY <1>5, <1>7, <1>8 DEF order

\* A filter of a sequence: some of its positions, in order.
LEMMA PickIs ==
    ASSUME NEW T, NEW s \in Seq(T), NEW S, S \subseteq DOMAIN s
    PROVE  /\ IsFiniteSet(S) /\ S \subseteq Nat /\ Cardinality(S) \in Nat
           /\ Pick(s, S) \in Seq(T) /\ Len(Pick(s, S)) = Cardinality(S)
           /\ \A n \in 1..Cardinality(S) : Pick(s, S)[n] = s[Ascending(S)[n]]
<1> DEFINE c == Cardinality(S)
           order == Ascending(S)
<1>1. IsFiniteSet(S) /\ S \subseteq Nat
  <2>1. DOMAIN s = 1..Len(s) /\ Len(s) \in Nat
    OBVIOUS
  <2>2. IsFiniteSet(1..Len(s))
    BY <2>1, FS_Interval
  <2> QED BY <2>1, <2>2, FS_Subset
<1>2. c \in Nat
  BY <1>1, FS_CardinalityType
<1>3. order \in [1..c -> S]
  BY <1>1, AscendingIs
<1>4. Pick(s, S) = [n \in 1..c |-> s[order[n]]]
  BY DEF Pick
<1> HIDE DEF c, order
<1>5. \A n \in 1..c : s[order[n]] \in T
  BY <1>3
<1>6. Pick(s, S) \in Seq(T) /\ Len(Pick(s, S)) = c
  BY <1>2, <1>4, <1>5
<1>7. \A n \in 1..c : Pick(s, S)[n] = s[order[n]]
  BY <1>4
<1> QED BY <1>1, <1>2, <1>6, <1>7 DEF c, order

\* Part of a sequence.
LEMMA PartIs ==
    ASSUME NEW T, NEW s \in Seq(T), NEW a \in Nat, NEW b \in Nat, a <= b, b <= Len(s)
    PROVE  /\ SubSeq(s, a + 1, b) = [n \in 1..(b - a) |-> s[a + n]]
           /\ SubSeq(s, a + 1, b) \in Seq(T) /\ Len(SubSeq(s, a + 1, b)) = b - a
           /\ \A n \in 1..(b - a) : SubSeq(s, a + 1, b)[n] = s[a + n]
<1> DEFINE part == [n \in 1..(b - a) |-> s[a + n]]
<1>1. SubSeq(s, a + 1, b) = [n \in 1..(b - (a + 1) + 1) |-> s[a + 1 + n - 1]]
  OBVIOUS
<1>2. b - (a + 1) + 1 = b - a /\ \A n \in 1..(b - a) : a + 1 + n - 1 = a + n
  OBVIOUS
<1>3. SubSeq(s, a + 1, b) = part
  BY <1>1, <1>2
<1>4. part \in [1..(b - a) -> T] /\ b - a \in Nat
  OBVIOUS
<1>5. part \in Seq(T) /\ Len(part) = b - a
  <2> HIDE DEF part
  <2> QED BY <1>4
<1>6. \A n \in 1..(b - a) : part[n] = s[a + n]
  OBVIOUS
<1> HIDE DEF part
<1> QED BY <1>3, <1>5, <1>6 DEF part

\* What is after a position, picked, is the rest of the sequence.
LEMMA PickRest ==
    ASSUME NEW T, NEW s \in Seq(T), NEW a \in 0..Len(s)
    PROVE  Pick(s, (a + 1)..Len(s)) = SubSeq(s, a + 1, Len(s))
<1> DEFINE b == Len(s)
           S == (a + 1)..b
<1>1. b \in Nat /\ a \in Nat /\ a <= b
  OBVIOUS
<1>2. \A x \in Int : x >= a => Cardinality((a + 1)..x) = x - a
  <2> SUFFICES ASSUME NEW x \in Int, x >= a PROVE Cardinality((a + 1)..x) = x - a
    OBVIOUS
  <2>1. Cardinality((a + 1)..x) = IF a + 1 > x THEN 0 ELSE x - (a + 1) + 1
    BY FS_Interval
  <2> QED BY <2>1
<1>3. Cardinality(S) = b - a
  <2> HIDE DEF b
  <2> QED BY <1>1, <1>2
<1>4. ASSUME NEW n \in 1..(b - a) PROVE Ascending(S)[n] = a + n
  <2>1. Ascending(S)[n] = CHOOSE x \in S : Cardinality({y \in S : y < x}) = n - 1
    BY <1>3 DEF Ascending, InOrder
  <2>2. ASSUME NEW x \in S PROVE Cardinality({y \in S : y < x}) = x - 1 - a
    <3>1. {y \in S : y < x} = (a + 1)..(x - 1) /\ x - 1 \in Int /\ x - 1 >= a
      BY <1>1
    <3> QED BY <1>2, <3>1
  <2>3. a + n \in S /\ S \subseteq Int
    BY <1>1
  <2>4. \A x \in S : Cardinality({y \in S : y < x}) = n - 1 <=> x = a + n
    <3> HIDE DEF S
    <3> QED BY <1>1, <2>2, <2>3
  <2> HIDE DEF S
  <2> QED BY <2>1, <2>3, <2>4
<1>5. Pick(s, S) = [n \in 1..(b - a) |-> s[a + n]]
  <2>1. Pick(s, S) = [n \in 1..(b - a) |-> s[Ascending(S)[n]]]
    BY <1>3 DEF Pick
  <2> HIDE DEF S, b
  <2> QED BY <1>4, <2>1
<1>6. SubSeq(s, a + 1, b) = [n \in 1..(b - a) |-> s[a + n]]
  BY <1>1, PartIs
<1> QED BY <1>5, <1>6
=============================================================================
