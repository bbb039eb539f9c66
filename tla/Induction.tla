------------------------------ MODULE Induction -------------------------------
(***************************************************************************)
(* Induction, stated of sets rather than of predicates: what the proofs    *)
(* about sums, folds and orders of this project rest on.                   *)
(***************************************************************************)
EXTENDS Integers, FiniteSets, FiniteSetsExt, Functions, FiniteSetTheorems,
        WellFoundedInduction, TLAPS

\* A set of naturals has a least member, and Min is it.
LEMMA LeastExists ==
    ASSUME NEW S \in SUBSET Nat, S # {}
    PROVE  Min(S) \in S /\ \A y \in S : Min(S) <= y
  <1> DEFINE R == {ss \in Nat \X Nat : ss[1] < ss[2]}
  <1>1. IsWellFoundedOn(R, Nat)
    BY NatLessThanWellFounded, Zenon DEF OpToRel
  <1>2. \E x \in S : \A y \in S : <<y, x>> \notin R
    <2> HIDE DEF R
    <2>1. QED
      BY <1>1, WFMin, Zenon
  <1>3. PICK x \in S : \A y \in S : <<y, x>> \notin R
    BY <1>2
  <1>4. ASSUME NEW y \in S PROVE x <= y
    <2>1. <<y, x>> \notin R
      BY <1>3
    <2>2. QED
      BY <2>1
  <1>5. QED
    BY <1>4 DEF Min

\* And a bounded one has a greatest, Max.
LEMMA GreatestExists ==
    ASSUME NEW S \in SUBSET Nat, S # {}, NEW n \in Nat, \A x \in S : x <= n
    PROVE  Max(S) \in S /\ \A y \in S : y <= Max(S)
  <1> DEFINE R == {n - x : x \in S}
  <1>1. R \in SUBSET Nat /\ R # {}
    <2>1. \A x \in S : x \in Nat /\ n - x \in Nat
      OBVIOUS
    <2>2. QED
      BY <2>1
  <1>2. Min(R) \in R /\ \A y \in R : Min(R) <= y
    <2> HIDE DEF R
    <2>1. QED
      BY <1>1, LeastExists
  <1>3. PICK m \in S : Min(R) = n - m
    BY <1>2
  <1>4. \A y \in S : y <= m
    <2>1. \A y \in S : n - m <= n - y
      BY <1>2, <1>3
    <2>2. QED
      BY <2>1
  <1>5. QED
    BY <1>4 DEF Max

LEMMA UptoCount ==
    ASSUME NEW n \in Nat
    PROVE  IsFiniteSet(1..n) /\ Cardinality(1..n) = n
  <1>1. 1 \in Int /\ n \in Int
    OBVIOUS
  <1>2. /\ IsFiniteSet(1..n)
        /\ Cardinality(1..n) = IF 1 > n THEN 0 ELSE n - 1 + 1
    BY <1>1, FS_Interval, Zenon
  <1>3. n = IF 1 > n THEN 0 ELSE n - 1 + 1
    OBVIOUS
  <1>4. QED
    BY <1>2, <1>3

\* Induction on the naturals, of a set of them.
LEMMA Naturals ==
    ASSUME NEW Q, 0 \in Q, \A n \in Nat : n \in Q => n + 1 \in Q
    PROVE  Nat \subseteq Q
  <1> DEFINE Bad == Nat \ Q
  <1>1. SUFFICES ASSUME Bad # {} PROVE FALSE
    OBVIOUS
  <1>2. Min(Bad) \in Bad /\ \A y \in Bad : Min(Bad) <= y
    BY <1>1, LeastExists
  <1>3. PICK m \in Nat : m \notin Q /\ \A y \in Bad : m <= y
    BY <1>2
  <1>4. m # 0 /\ m - 1 \in Nat /\ (m - 1) + 1 = m /\ ~(m <= m - 1)
    BY <1>3
  <1>5. m - 1 \in Q
    BY <1>3, <1>4
  <1>6. QED
    BY <1>3, <1>4, <1>5

\* Induction on the subsets of a finite set, one member at a time.
LEMMA Subsets ==
    ASSUME NEW S, IsFiniteSet(S), NEW Q, {} \in Q,
           \A s \in SUBSET S : s # {} => \E x \in s : s \ {x} \in Q => s \in Q
    PROVE  SUBSET S \subseteq Q
  <1> DEFINE OfSize(n) == {s \in SUBSET S : Cardinality(s) = n}
             Good == {n \in Nat : OfSize(n) \subseteq Q}
  <1>1. \A s \in SUBSET S : IsFiniteSet(s) /\ Cardinality(s) \in Nat
    BY FS_Subset, FS_CardinalityType
  <1>2. 0 \in Good
    <2>1. \A s \in OfSize(0) : s = {}
      BY <1>1, FS_EmptySet
    <2>2. QED
      BY <2>1
  <1>3. \A n \in Nat : n \in Good => n + 1 \in Good
    <2> SUFFICES ASSUME NEW n \in Nat, n \in Good, NEW s \in OfSize(n + 1)
                 PROVE  s \in Q
      OBVIOUS
    <2>1. s # {}
      BY FS_EmptySet
    <2>2. PICK x \in s : s \ {x} \in Q => s \in Q
      BY <2>1
    <2>3. Cardinality(s \ {x}) = Cardinality(s) - 1
      BY <1>1, FS_RemoveElement
    <2>4. s \ {x} \in OfSize(n)
      BY <2>3
    <2>5. QED
      BY <2>2, <2>4
  <1>4. Nat \subseteq Good
    <2> HIDE DEF Good
    <2>1. QED
      BY <1>2, <1>3, Naturals
  <1>5. QED
    BY <1>1, <1>4

\* A fold over a finite set, `step` taking in the member `pick` chooses: its value is
\* defined on each subset.
Foldable(S, W, base, step, pick) ==
    /\ IsFiniteSet(S) /\ base \in W /\ step \in [S \X W -> W]
    /\ \A s \in SUBSET S : s # {} => pick[s] \in s
IsFold(g, S, W, base, step, pick) ==
    /\ g \in [SUBSET S -> W]
    /\ g[{}] = base
    /\ \A s \in SUBSET S : s # {} => g[s] = step[<<pick[s], g[s \ {pick[s]}]>>]

LEMMA FoldExists ==
    ASSUME NEW S, NEW W, NEW base, NEW step, NEW pick, Foldable(S, W, base, step, pick)
    PROVE  \E g : IsFold(g, S, W, base, step, pick)
  <1>0. /\ IsFiniteSet(S) /\ base \in W /\ step \in [S \X W -> W]
        /\ \A s \in SUBSET S : s # {} => pick[s] \in s
    BY DEF Foldable
  <1> DEFINE Upto(n) == {s \in SUBSET S : Cardinality(s) <= n}
             Next1(g, s) == IF s = {} THEN base ELSE step[<<pick[s], g[s \ {pick[s]}]>>]
             Folds(n, g) == g \in [Upto(n) -> W] /\ \A s \in Upto(n) : g[s] = Next1(g, s)
             Good == {n \in Nat : \E g : Folds(n, g)}
  <1>1. \A s \in SUBSET S : IsFiniteSet(s) /\ Cardinality(s) \in Nat
    BY <1>0, FS_Subset, FS_CardinalityType
  <1>2. 0 \in Good
    <2>1. \A s \in Upto(0) : s = {}
      BY <1>1, FS_EmptySet
    <2>2. Folds(0, [s \in Upto(0) |-> base])
      BY <1>0, <2>1
    <2>3. QED
      BY <2>2
  <1>3. \A n \in Nat : n \in Good => n + 1 \in Good
    <2> HIDE DEF Folds
    <2> SUFFICES ASSUME NEW n \in Nat, NEW g, Folds(n, g)
                 PROVE  \E h : Folds(n + 1, h)
      OBVIOUS
    <2> USE DEF Folds
    <2>1. Folds(n, g)
      OBVIOUS
    <2> DEFINE h == [s \in Upto(n + 1) |-> Next1(g, s)]
    <2>2. ASSUME NEW s \in Upto(n + 1), s # {}
          PROVE  s \ {pick[s]} \in Upto(n) /\ pick[s] \in S
      <3>1. pick[s] \in s /\ pick[s] \in S
        BY <1>0, <2>2
      <3>2. Cardinality(s \ {pick[s]}) = Cardinality(s) - 1
        BY <1>1, <3>1, FS_RemoveElement
      <3>3. QED
        BY <1>1, <3>1, <3>2
    <2>3. \A s \in Upto(n) : s \in Upto(n + 1) /\ h[s] = g[s]
      <3>1. \A s \in Upto(n) : s \in Upto(n + 1)
        BY <1>1
      <3>2. QED
        BY <2>1, <3>1
    <2>4. h \in [Upto(n + 1) -> W]
      <3>1. ASSUME NEW s \in Upto(n + 1) PROVE Next1(g, s) \in W
        <4>1. CASE s = {}
          BY <1>0, <4>1
        <4>2. CASE s # {}
          <5>1. s \ {pick[s]} \in Upto(n) /\ pick[s] \in S
            BY <2>2, <4>2
          <5>2. g[s \ {pick[s]}] \in W
            BY <2>1, <5>1
          <5>3. QED
            BY <1>0, <4>2, <5>1, <5>2
        <4>3. QED
          BY <4>1, <4>2
      <3> HIDE DEF Next1, Upto
      <3>2. QED
        BY <3>1
    <2>5. \A s \in Upto(n + 1) : h[s] = Next1(h, s)
      <3>1. ASSUME NEW s \in Upto(n + 1) PROVE Next1(g, s) = Next1(h, s)
        <4>1. CASE s = {}
          BY <4>1
        <4>2. CASE s # {}
          <5>1. h[s \ {pick[s]}] = g[s \ {pick[s]}]
            BY <2>2, <2>3, <4>2
          <5> HIDE DEF h
          <5>2. QED
            BY <5>1
        <4>3. QED
          BY <4>1, <4>2
      <3>2. \A s \in Upto(n + 1) : h[s] = Next1(g, s)
        <4> HIDE DEF Next1, Upto
        <4>1. QED
          OBVIOUS
      <3> HIDE DEF h, Next1, Upto
      <3>3. QED
        BY <3>1, <3>2
    <2>6. QED
      <3> HIDE DEF h, Next1, Upto
      <3>1. QED
        BY <2>4, <2>5
  <1>4. Cardinality(S) \in Good
    <2>1. Nat \subseteq Good
      <3> HIDE DEF Good
      <3>1. QED
        BY <1>2, <1>3, Naturals
    <2>2. QED
      BY <1>1, <2>1
  <1>5. Upto(Cardinality(S)) = SUBSET S
    BY <1>0, <1>1, FS_Subset
  <1>6. PICK g : Folds(Cardinality(S), g)
    BY <1>4
  <1>7. g \in [SUBSET S -> W] /\ \A s \in SUBSET S : g[s] = Next1(g, s)
    BY <1>5, <1>6
  <1>8. /\ g[{}] = base
        /\ \A s \in SUBSET S : s # {} => g[s] = step[<<pick[s], g[s \ {pick[s]}]>>]
    BY <1>7
  <1>9. QED
    BY <1>7, <1>8 DEF IsFold

------------------------------------------------------------------------------
(***************************************************************************)
(* Sums.                                                                   *)
(***************************************************************************)

\* The sum of a function over part of its finite domain: it exists, and takes the members
\* in any order.
IsSum(g, S, f) ==
    /\ g \in [SUBSET S -> Nat]
    /\ g[{}] = 0
    /\ \A s \in SUBSET S : \A x \in s : g[s] = f[x] + g[s \ {x}]

LEMMA SumExists ==
    ASSUME NEW S, IsFiniteSet(S), NEW f \in [S -> Nat]
    PROVE  \E g : IsSum(g, S, f) /\ \A s \in SUBSET S : SumFunctionOnSet(f, s) = g[s]
  <1> DEFINE pick == [s \in SUBSET S |-> CHOOSE x \in s : TRUE]
             step == [p \in S \X Nat |-> f[p[1]] + p[2]]
  <1>1. \A s \in SUBSET S : s # {} =>
            pick[s] = (CHOOSE x \in s : TRUE) /\ pick[s] \in s /\ pick[s] \in S
    OBVIOUS
  <1>2. step \in [S \X Nat -> Nat] /\ \A x \in S, n \in Nat : step[<<x, n>>] = f[x] + n
    OBVIOUS
  <1>3. PICK g : IsFold(g, S, Nat, 0, step, pick)
    <2>1. Foldable(S, Nat, 0, step, pick)
      <3> HIDE DEF step, pick
      <3>1. QED
        BY <1>1, <1>2 DEF Foldable
    <2> HIDE DEF step, pick
    <2>2. QED
      BY <2>1, FoldExists
  <1>4. g \in [SUBSET S -> Nat] /\ g[{}] = 0
    BY <1>3 DEF IsFold
  <1>5. ASSUME NEW s \in SUBSET S, s # {}
        PROVE  g[s] = f[CHOOSE x \in s : TRUE] + g[s \ {CHOOSE x \in s : TRUE}]
    <2> HIDE DEF step, pick
    <2>1. g[s] = step[<<pick[s], g[s \ {pick[s]}]>>]
      BY <1>3, <1>5 DEF IsFold
    <2>2. pick[s] \in S /\ g[s \ {pick[s]}] \in Nat
      BY <1>1, <1>4, <1>5
    <2>3. g[s] = f[pick[s]] + g[s \ {pick[s]}]
      BY <1>2, <2>1, <2>2
    <2>4. QED
      BY <1>1, <1>5, <2>3
  <1> HIDE DEF step, pick
  <1>6. ASSUME NEW s \in SUBSET S PROVE SumFunctionOnSet(f, s) = g[s]
    <2> DEFINE fold(h) == [u \in SUBSET s |->
                            IF u = {} THEN 0
                            ELSE f[CHOOSE x \in u : TRUE] + h[u \ {CHOOSE x \in u : TRUE}]]
               it == CHOOSE h : h = fold(h)
               part == [u \in SUBSET s |-> g[u]]
    <2>1. part = fold(part)
      <3>1. ASSUME NEW u \in SUBSET s, u # {}
            PROVE  g[u] = f[CHOOSE x \in u : TRUE] + part[u \ {CHOOSE x \in u : TRUE}]
        BY <1>5, <3>1
      <3>2. ASSUME NEW u \in SUBSET s
            PROVE  g[u] = IF u = {} THEN 0
                          ELSE f[CHOOSE x \in u : TRUE] + part[u \ {CHOOSE x \in u : TRUE}]
        <4> HIDE DEF part
        <4>1. QED
          BY <1>4, <3>1
      <3>3. QED
        BY <3>2
    <2>2. it = fold(it)
      <3> HIDE DEF fold, part
      <3>1. \E h : h = fold(h)
        BY <2>1
      <3>2. QED
        BY <3>1
    <2>3. SumFunctionOnSet(f, s) = it[s]
      BY Zenon DEF SumFunctionOnSet, FoldFunctionOnSet, MapThenFoldSet
    <2>4. \A u \in SUBSET s : it[u] =
              IF u = {} THEN 0
              ELSE f[CHOOSE x \in u : TRUE] + it[u \ {CHOOSE x \in u : TRUE}]
      <3> HIDE DEF it
      <3>1. QED
        BY <2>2
    <2> HIDE DEF it, fold, part
    <2> DEFINE Q == {u \in SUBSET s : it[u] = g[u]}
    <2>5. {} \in Q
      BY <1>4, <2>4
    <2>6. \A u \in SUBSET s : u # {} => \E x \in u : u \ {x} \in Q => u \in Q
      <3> SUFFICES ASSUME NEW u \in SUBSET s, u # {}
                   PROVE  \E x \in u : u \ {x} \in Q => u \in Q
        OBVIOUS
      <3> DEFINE x == CHOOSE x \in u : TRUE
      <3>1. x \in u
        OBVIOUS
      <3>2. g[u] = f[x] + g[u \ {x}]
        BY <1>5
      <3>3. it[u] = f[x] + it[u \ {x}]
        BY <2>4
      <3> HIDE DEF x
      <3>4. u \ {x} \in Q => u \in Q
        BY <3>2, <3>3
      <3>5. QED
        BY <3>1, <3>4
    <2>7. IsFiniteSet(s)
      BY FS_Subset
    <2>8. SUBSET s \subseteq Q
      <3> HIDE DEF Q
      <3>1. QED
        BY <2>5, <2>6, <2>7, Subsets
    <2>9. s \in Q
      BY <2>8
    <2>10. QED
      BY <2>3, <2>9
  <1> DEFINE P(s) == \A x \in s : g[s] = f[x] + g[s \ {x}]
             Good == {n \in Nat : \A s \in SUBSET S : Cardinality(s) = n => P(s)}
  <1>7. \A s \in SUBSET S : IsFiniteSet(s) /\ Cardinality(s) \in Nat
    BY FS_Subset, FS_CardinalityType
  <1>8. 0 \in Good
    BY <1>7, FS_EmptySet
  <1>9. \A n \in Nat : n \in Good => n + 1 \in Good
    <2> HIDE DEF P
    <2> SUFFICES ASSUME NEW n \in Nat, n \in Good, NEW s \in SUBSET S, Cardinality(s) = n + 1
                 PROVE  P(s)
      OBVIOUS
    <2>1. \A u \in SUBSET S : Cardinality(u) = n => P(u)
      OBVIOUS
    <2> SUFFICES ASSUME NEW x \in s PROVE g[s] = f[x] + g[s \ {x}]
      BY DEF P
    <2>2. PICK p \in s : g[s] = f[p] + g[s \ {p}]
      BY <1>5
    <2>3. CASE p = x
      BY <2>2, <2>3
    <2>4. CASE p # x
      <3> HIDE DEF P
      <3>1. IsFiniteSet(s) /\ (n + 1) - 1 = n
        BY <1>7
      <3>2. Cardinality(s \ {p}) = n /\ Cardinality(s \ {x}) = n
        BY <3>1, FS_RemoveElement
      <3>3. P(s \ {p}) /\ P(s \ {x})
        BY <2>1, <3>2
      <3>4. g[s \ {p}] = f[x] + g[(s \ {p}) \ {x}]
        BY <2>4, <3>3 DEF P
      <3>5. g[s \ {x}] = f[p] + g[(s \ {x}) \ {p}]
        BY <2>4, <3>3 DEF P
      <3>6. (s \ {p}) \ {x} = (s \ {x}) \ {p}
        OBVIOUS
      <3>7. f[x] \in Nat /\ f[p] \in Nat /\ g[(s \ {p}) \ {x}] \in Nat
        BY <1>4
      <3>8. g[s] = f[p] + (f[x] + g[(s \ {p}) \ {x}])
        BY <2>2, <3>4
      <3>9. g[s \ {x}] = f[p] + g[(s \ {p}) \ {x}]
        BY <3>5, <3>6
      <3>10. f[p] + (f[x] + g[(s \ {p}) \ {x}]) = f[x] + (f[p] + g[(s \ {p}) \ {x}])
        BY <3>7
      <3>11. QED
        BY <3>8, <3>9, <3>10
    <2>5. QED
      BY <2>3, <2>4
  <1>10. Nat \subseteq Good
    <2> HIDE DEF Good
    <2>1. QED
      BY <1>8, <1>9, Naturals
  <1>11. IsSum(g, S, f)
    BY <1>4, <1>7, <1>10 DEF IsSum
  <1>12. QED
    BY <1>6, <1>11

LEMMA SumTakes ==
    ASSUME NEW S, IsFiniteSet(S), NEW f \in [S -> Nat]
    PROVE  /\ SumFunctionOnSet(f, {}) = 0
           /\ \A s \in SUBSET S : SumFunctionOnSet(f, s) \in Nat
           /\ \A s \in SUBSET S : \A x \in s :
                SumFunctionOnSet(f, s) = f[x] + SumFunctionOnSet(f, s \ {x})
  <1>1. PICK g : IsSum(g, S, f) /\ \A s \in SUBSET S : SumFunctionOnSet(f, s) = g[s]
    BY SumExists
  <1>2. \A s \in SUBSET S : \A x \in s : s \ {x} \in SUBSET S
    OBVIOUS
  <1>3. {} \in SUBSET S
    OBVIOUS
  <1>4. QED
    BY <1>1, <1>2, <1>3 DEF IsSum

\* Two parts with nothing in common add up.
LEMMA SumUnion ==
    ASSUME NEW S, IsFiniteSet(S), NEW f \in [S -> Nat],
           NEW a \in SUBSET S, NEW b \in SUBSET S, a \cap b = {}
    PROVE  SumFunctionOnSet(f, a \union b) = SumFunctionOnSet(f, a) + SumFunctionOnSet(f, b)
  <1> DEFINE Sum(s) == SumFunctionOnSet(f, s)
             Q == {s \in SUBSET b : Sum(a \union s) = Sum(a) + Sum(s)}
  <1>1. /\ Sum({}) = 0
        /\ \A s \in SUBSET S : Sum(s) \in Nat
        /\ \A s \in SUBSET S : \A x \in s : Sum(s) = f[x] + Sum(s \ {x})
    BY SumTakes
  <1> HIDE DEF Sum
  <1>2. {} \in Q
    <2>1. a \union {} = a /\ Sum(a) \in Nat
      BY <1>1
    <2>2. QED
      BY <1>1, <2>1
  <1>3. \A s \in SUBSET b : s # {} => \E x \in s : s \ {x} \in Q => s \in Q
    <2> SUFFICES ASSUME NEW s \in SUBSET b, NEW x \in s, s \ {x} \in Q
                 PROVE  Sum(a \union s) = Sum(a) + Sum(s)
      OBVIOUS
    <2>1. (a \union s) \ {x} = a \union (s \ {x})
      OBVIOUS
    <2>2. Sum(a \union s) = f[x] + Sum(a \union (s \ {x}))
      BY <1>1, <2>1
    <2>3. Sum(s) = f[x] + Sum(s \ {x})
      BY <1>1
    <2>4. Sum(a \union (s \ {x})) = Sum(a) + Sum(s \ {x})
      OBVIOUS
    <2>5. f[x] \in Nat /\ Sum(a) \in Nat /\ Sum(s \ {x}) \in Nat
      BY <1>1
    <2>6. QED
      BY <2>2, <2>3, <2>4, <2>5
  <1>4. IsFiniteSet(b)
    BY FS_Subset
  <1>5. SUBSET b \subseteq Q
    <2> HIDE DEF Q
    <2>1. QED
      BY <1>2, <1>3, <1>4, Subsets
  <1>6. QED
    BY <1>5 DEF Sum

\* A function that has one value there.
LEMMA SumConstant ==
    ASSUME NEW S, IsFiniteSet(S), NEW f \in [S -> Nat],
           NEW b \in SUBSET S, NEW v \in Nat, \A x \in b : f[x] = v
    PROVE  SumFunctionOnSet(f, b) = Cardinality(b) * v
  <1> DEFINE Sum(s) == SumFunctionOnSet(f, s)
             Q == {s \in SUBSET b : Sum(s) = Cardinality(s) * v}
  <1>1. /\ Sum({}) = 0
        /\ \A s \in SUBSET S : \A x \in s : Sum(s) = f[x] + Sum(s \ {x})
    BY SumTakes
  <1> HIDE DEF Sum
  <1>2. \A s \in SUBSET b : IsFiniteSet(s) /\ Cardinality(s) \in Nat
    BY FS_Subset, FS_CardinalityType
  <1>3. {} \in Q
    BY <1>1, FS_EmptySet
  <1>4. \A s \in SUBSET b : s # {} => \E x \in s : s \ {x} \in Q => s \in Q
    <2> SUFFICES ASSUME NEW s \in SUBSET b, NEW x \in s, s \ {x} \in Q
                 PROVE  Sum(s) = Cardinality(s) * v
      OBVIOUS
    <2>1. Sum(s) = v + Sum(s \ {x})
      BY <1>1
    <2>2. Cardinality(s \ {x}) = Cardinality(s) - 1
      BY <1>2, FS_RemoveElement
    <2>3. PICK n \in Nat : n = Cardinality(s \ {x}) /\ Cardinality(s) = n + 1
      BY <1>2, <2>2
    <2>4. v + n * v = (n + 1) * v
      OBVIOUS
    <2>5. QED
      BY <2>1, <2>3, <2>4
  <1>5. IsFiniteSet(b)
    BY FS_Subset
  <1>6. SUBSET b \subseteq Q
    <2> HIDE DEF Q
    <2>1. QED
      BY <1>3, <1>4, <1>5, Subsets
  <1>7. QED
    BY <1>6 DEF Sum

\* A function that gives each x what another gives the part c takes to x.
LEMMA SumParts ==
    ASSUME NEW S, IsFiniteSet(S), NEW f \in [S -> Nat],
           NEW R, IsFiniteSet(R), NEW h \in [R -> Nat], NEW c \in [R -> S],
           \A x \in S : SumFunctionOnSet(h, {k \in R : c[k] = x}) = f[x],
           NEW b \in SUBSET S
    PROVE  SumFunctionOnSet(h, {k \in R : c[k] \in b}) = SumFunctionOnSet(f, b)
  <1> DEFINE Sum(s) == SumFunctionOnSet(f, s)
             Part(s) == {k \in R : c[k] \in s}
             Q == {s \in SUBSET b : SumFunctionOnSet(h, Part(s)) = Sum(s)}
  <1>1. /\ Sum({}) = 0
        /\ \A s \in SUBSET S : Sum(s) \in Nat
        /\ \A s \in SUBSET S : \A x \in s : Sum(s) = f[x] + Sum(s \ {x})
    BY SumTakes
  <1>2. {} \in Q
    <2>1. Part({}) = {} /\ SumFunctionOnSet(h, {}) = 0
      BY SumTakes
    <2>2. QED
      BY <1>1, <2>1
  <1> HIDE DEF Sum
  <1>3. \A s \in SUBSET b : s # {} => \E x \in s : s \ {x} \in Q => s \in Q
    <2> SUFFICES ASSUME NEW s \in SUBSET b, NEW x \in s, s \ {x} \in Q
                 PROVE  SumFunctionOnSet(h, Part(s)) = Sum(s)
      OBVIOUS
    <2>1. Part(s) = Part({x}) \union Part(s \ {x}) /\ Part({x}) \cap Part(s \ {x}) = {}
      OBVIOUS
    <2>2. SumFunctionOnSet(h, Part(s))
             = SumFunctionOnSet(h, Part({x})) + SumFunctionOnSet(h, Part(s \ {x}))
      <3>1. ASSUME NEW p \in SUBSET R, NEW q \in SUBSET R, p \cap q = {}
            PROVE  SumFunctionOnSet(h, p \union q) = SumFunctionOnSet(h, p) + SumFunctionOnSet(h, q)
        BY <3>1, SumUnion
      <3>2. Part({x}) \in SUBSET R /\ Part(s \ {x}) \in SUBSET R
        OBVIOUS
      <3> HIDE DEF Part
      <3>3. QED
        BY <2>1, <3>1, <3>2
    <2>3. Part({x}) = {k \in R : c[k] = x}
      OBVIOUS
    <2>4. QED
      BY <1>1, <2>2, <2>3
  <1>4. IsFiniteSet(b)
    BY FS_Subset
  <1>5. SUBSET b \subseteq Q
    <2> HIDE DEF Q
    <2>1. QED
      BY <1>2, <1>3, <1>4, Subsets
  <1>6. QED
    BY <1>5 DEF Sum
==============================================================================
