------------------------------ MODULE SetLemmas ------------------------------
(***************************************************************************)
(* Lemmas about the largest member and the sum of a finite set, as the     *)
(* community modules define them, and about a set of numbers in ascending  *)
(* order, for the proofs that need them.                                   *)
(***************************************************************************)
EXTENDS Integers, FiniteSets, FiniteSetsExt, FiniteSetTheorems, SequenceTheorems, Places, TLAPS

(* Of finitely many natural numbers one is the largest: the smallest of the*)
(* sets of those that are no less than some of them is its own singleton.  *)
LEMMA MaxBounds ==
    ASSUME NEW S \in SUBSET Nat, IsFiniteSet(S), S # {}
    PROVE  Max(S) \in S /\ \A y \in S : y <= Max(S)
<1> DEFINE Above(x) == {y \in S : x <= y}
           Aboves == {Above(x) : x \in S}
           R == StrictSubsetOrdering(S)
<1>1. IsWellFoundedOn(R, FiniteSubsetsOf(S))
  BY FS_StrictSubsetOrderingWellFounded
<1>2. Aboves \subseteq FiniteSubsetsOf(S)
  BY FS_FiniteSubsetsOfFinite
<1>3. Aboves # {}
  OBVIOUS
<1>4. PICK least \in Aboves : \A T \in Aboves : <<T, least>> \notin R
  <2> HIDE DEF R, Aboves
  <2> QED BY <1>1, <1>2, <1>3, WFMin
<1>5. PICK x \in S : least = Above(x)
  BY <1>4
<1>6. \A y \in S : x >= y
  <2> SUFFICES ASSUME NEW y \in S, ~(x >= y) PROVE FALSE
    OBVIOUS
  <2>1. x \in Nat /\ y \in Nat
    OBVIOUS
  <2>2. x <= x /\ x <= y /\ ~(y <= x) /\ \A z \in Nat : y <= z => x <= z
    BY <2>1
  <2>3. Above(y) \subseteq Above(x) /\ x \in Above(x) /\ x \notin Above(y)
    BY <2>2
  <2>4. <<Above(y), least>> \in R
    BY <1>5, <2>3 DEF StrictSubsetOrdering
  <2> QED BY <1>4, <2>4
<1> QED BY <1>6 DEF Max

(* The larger of two numbers is one of them, and no less than either.      *)
LEMMA MaxOfTwo ==
    ASSUME NEW a \in Int, NEW b \in Int
    PROVE  Max({a, b}) \in {a, b} /\ a <= Max({a, b}) /\ b <= Max({a, b})
<1>1. \E x \in {a, b} : \A y \in {a, b} : x >= y
  <2>1. a >= b \/ b >= a
    OBVIOUS
  <2>2. a >= a /\ b >= b
    OBVIOUS
  <2> QED BY <2>1, <2>2
<1>2. Max({a, b}) \in {a, b} /\ \A y \in {a, b} : Max({a, b}) >= y
  BY <1>1 DEF Max
<1> QED BY <1>2

(* The smaller of two numbers is one of them, and no more than either.     *)
LEMMA MinOfTwo ==
    ASSUME NEW a \in Int, NEW b \in Int
    PROVE  Min({a, b}) \in {a, b} /\ Min({a, b}) <= a /\ Min({a, b}) <= b
<1>1. \E x \in {a, b} : \A y \in {a, b} : x <= y
  <2>1. a <= b \/ b <= a
    OBVIOUS
  <2>2. a <= a /\ b <= b
    OBVIOUS
  <2> QED BY <2>1, <2>2
<1>2. Min({a, b}) \in {a, b} /\ \A y \in {a, b} : Min({a, b}) <= y
  BY <1>1 DEF Min
<1> QED BY <1>2

(* The most of the values of a function is no less than any one of them,   *)
(* and a number.                                                           *)
LEMMA MostBounds ==
    ASSUME NEW S, IsFiniteSet(S), NEW f \in [S -> Nat],
           NEW n \in S
    PROVE  Max({0} \cup {f[m] : m \in S}) \in Nat /\ f[n] <= Max({0} \cup {f[m] : m \in S})
<1> DEFINE Values == {f[m] : m \in S}
<1>1. f \in Surjection(S, Values)
  BY DEF Surjection
<1>2. IsFiniteSet(Values)
  BY <1>1, FS_Surjection
<1>3. IsFiniteSet({0} \cup Values)
  <2>1. IsFiniteSet(Values \cup {0})
    BY <1>2, FS_AddElement
  <2> QED BY <2>1
<1>4. {0} \cup Values \in SUBSET Nat /\ {0} \cup Values # {} /\ f[n] \in {0} \cup Values
  OBVIOUS
<1> HIDE DEF Values
<1>5. Max({0} \cup Values) \in Nat /\ f[n] <= Max({0} \cup Values)
  BY <1>3, <1>4, MaxBounds
<1> QED BY <1>5 DEF Values

-----------------------------------------------------------------------------
(* Sums over finite sets.  The sum the community modules define is one     *)
(* entry of a recursive function on the subsets of the set.  That there is *)
(* such a function, and what it says, is shown by taking a smallest subset *)
(* for which it would not be so.                                           *)

First(s) == CHOOSE x \in s : TRUE
IsSum(f, S, it) ==
    it = [s \in SUBSET S |-> IF s = {} THEN 0 ELSE f[First(s)] + it[s \ {First(s)}]]

SumOver(f, S) == MapThenSumSet(LAMBDA x : f[x], S)

(* Of the subsets of a finite set with some property one is smallest.      *)
LEMMA SmallestSubset ==
    ASSUME NEW S, IsFiniteSet(S), NEW Bad \in SUBSET (SUBSET S), Bad # {}
    PROVE  \E s \in Bad : \A t \in SUBSET s : t # s => t \notin Bad
<1>1. IsWellFoundedOn(StrictSubsetOrdering(S), SUBSET S)
  BY FS_StrictSubsetOrderingWellFounded, FS_FiniteSubsetsOfFinite
<1>2. PICK s \in Bad : \A t \in Bad : <<t, s>> \notin StrictSubsetOrdering(S)
  BY <1>1, WFMin
<1>3. ASSUME NEW t \in SUBSET s, t # s PROVE t \notin Bad
  <2>1. <<t, s>> \in StrictSubsetOrdering(S)
    BY <1>3 DEF StrictSubsetOrdering
  <2> QED BY <1>2, <2>1
<1> QED BY <1>3

(* One step of the recursive function.                                     *)
LEMMA SumStep ==
    ASSUME NEW f, NEW S, NEW it, IsSum(f, S, it), NEW s \in SUBSET S
    PROVE  /\ s = {} => it[s] = 0
           /\ s # {} => /\ First(s) \in s /\ s \ {First(s)} \in SUBSET S
                        /\ s \ {First(s)} # s
                        /\ it[s] = f[First(s)] + it[s \ {First(s)}]
<1>1. it[s] = IF s = {} THEN 0 ELSE f[First(s)] + it[s \ {First(s)}]
  BY DEF IsSum
<1>2. s # {} => First(s) \in s
  BY DEF First
<1> QED BY <1>1, <1>2

(* Two such functions agree where both are defined.                        *)
LEMMA SumUnique ==
    ASSUME NEW f, NEW S, IsFiniteSet(S), NEW it, IsSum(f, S, it),
           NEW T \in SUBSET S, NEW jt, IsSum(f, T, jt)
    PROVE  \A s \in SUBSET T : it[s] = jt[s]
<1> DEFINE Bad == {s \in SUBSET T : it[s] # jt[s]}
<1> SUFFICES ASSUME Bad # {} PROVE FALSE
  OBVIOUS
<1>1. PICK s \in Bad : \A t \in SUBSET s : t # s => t \notin Bad
  <2>1. IsFiniteSet(T)
    BY FS_Subset
  <2>2. Bad \in SUBSET (SUBSET T)
    OBVIOUS
  <2> HIDE DEF Bad
  <2> QED BY <2>1, <2>2, SmallestSubset
<1>2. s # {}
  BY SumStep
<1>3. /\ s \ {First(s)} # s /\ it[s] = f[First(s)] + it[s \ {First(s)}]
      /\ jt[s] = f[First(s)] + jt[s \ {First(s)}]
  BY <1>2, SumStep
<1>4. it[s \ {First(s)}] = jt[s \ {First(s)}]
  BY <1>1, <1>3
<1> QED BY <1>3, <1>4

(* There is such a function.                                               *)
LEMMA SumExists ==
    ASSUME NEW f, NEW S, IsFiniteSet(S)
    PROVE  IsSum(f, S, CHOOSE it : IsSum(f, S, it))
<1> DEFINE H(T) == CHOOSE it : IsSum(f, T, it)
           Bad == {T \in SUBSET S : ~IsSum(f, T, H(T))}
<1> SUFFICES ASSUME Bad # {} PROVE FALSE
  OBVIOUS
<1>1. PICK T \in Bad : \A U \in SUBSET T : U # T => U \notin Bad
  <2>1. Bad \in SUBSET (SUBSET S)
    OBVIOUS
  <2> HIDE DEF Bad
  <2> QED BY <2>1, SmallestSubset
<1>2. \A U \in SUBSET T : U # T => IsSum(f, U, H(U))
  BY <1>1
<1> DEFINE below(s) == H(s \ {First(s)})[s \ {First(s)}]
           h == [s \in SUBSET T |-> IF s # T THEN H(s)[s]
                                    ELSE IF T = {} THEN 0 ELSE f[First(s)] + below(s)]
<1> HIDE DEF H
<1>3. ASSUME NEW s \in SUBSET T
      PROVE  h[s] = IF s = {} THEN 0 ELSE f[First(s)] + h[s \ {First(s)}]
  <2>1. s # {} => /\ First(s) \in s /\ s \ {First(s)} \in SUBSET T /\ s \ {First(s)} # T
                  /\ h[s \ {First(s)}] = H(s \ {First(s)})[s \ {First(s)}]
    BY DEF First
  <2>2. CASE s = T
    BY <2>1, <2>2
  <2>3. CASE s # T
    <3>1. h[s] = H(s)[s] /\ IsSum(f, s, H(s))
      BY <1>2, <2>3
    <3>2. CASE s = {}
      <4>1. s \in SUBSET s
        OBVIOUS
      <4> QED BY <3>1, <3>2, <4>1, SumStep
    <3>3. CASE s # {}
      <4>1. H(s)[s] = f[First(s)] + H(s)[s \ {First(s)}]
        <5>1. s \in SUBSET s
          OBVIOUS
        <5>2. \A g : IsSum(f, s, g) => g[s] = f[First(s)] + g[s \ {First(s)}]
          BY <3>3, <5>1, SumStep
        <5> QED BY <3>1, <5>2
      <4>2. IsSum(f, s \ {First(s)}, H(s \ {First(s)}))
        BY <1>2, <2>1, <3>3
      <4>3. IsFiniteSet(s)
        <5>1. T \in SUBSET S
          BY <1>1
        <5>2. s \in SUBSET S
          BY <5>1
        <5> QED BY <5>2, FS_Subset
      <4>4. H(s)[s \ {First(s)}] = H(s \ {First(s)})[s \ {First(s)}]
        BY <3>1, <4>2, <4>3, SumUnique
      <4> QED BY <2>1, <3>1, <3>3, <4>1, <4>4
    <3> QED BY <3>2, <3>3
  <2> QED BY <2>2, <2>3
<1>4. IsSum(f, T, h)
  <2>1. h = [s \in SUBSET T |-> h[s]]
    OBVIOUS
  <2> HIDE DEF h
  <2>2. h = [s \in SUBSET T |-> IF s = {} THEN 0 ELSE f[First(s)] + h[s \ {First(s)}]]
    BY <1>3, <2>1
  <2> QED BY <2>2 DEF IsSum
<1> HIDE DEF h
<1>5. IsSum(f, T, H(T))
  BY <1>4 DEF H
<1> QED BY <1>1, <1>5

(* The library's sum is any such function's value.                         *)
LEMMA SumIs ==
    ASSUME NEW f, NEW S, IsFiniteSet(S), NEW it, IsSum(f, S, it), NEW T \in SUBSET S
    PROVE  SumOver(f, T) = it[T]
<1>1. IsFiniteSet(T) /\ T \in SUBSET T
  BY FS_Subset
<1>2. IsSum(f, T, CHOOSE jt : IsSum(f, T, jt))
  BY <1>1, SumExists
<1>3. SumOver(f, T) = (CHOOSE jt : IsSum(f, T, jt))[T]
  BY DEF SumOver, MapThenSumSet, MapThenFoldSet, IsSum, First
<1> QED BY <1>1, <1>2, <1>3, SumUnique

(* The sum of nothing, and what an element adds.                           *)
LEMMA SumAdds ==
    ASSUME NEW S, IsFiniteSet(S), NEW f \in [S -> Int]
    PROVE  /\ SumOver(f, {}) = 0
           /\ \A T \in SUBSET S : SumOver(f, T) \in Int
           /\ \A T \in SUBSET S : \A x \in T : SumOver(f, T) = f[x] + SumOver(f, T \ {x})
<1> DEFINE it == CHOOSE g : IsSum(f, S, g)
<1>1. IsSum(f, S, it)
  BY SumExists
<1> HIDE DEF it
<1> DEFINE Good(s) == it[s] \in Int /\ \A x \in s : it[s] = f[x] + it[s \ {x}]
           Bad == {s \in SUBSET S : ~Good(s)}
<1>2. Bad = {}
  <2> SUFFICES ASSUME Bad # {} PROVE FALSE
    OBVIOUS
  <2>1. PICK s \in Bad : \A t \in SUBSET s : t # s => t \notin Bad
    <3>1. Bad \in SUBSET (SUBSET S)
      OBVIOUS
    <3> HIDE DEF Bad
    <3> QED BY <3>1, SmallestSubset
  <2>2. \A t \in SUBSET s : t # s => Good(t)
    BY <2>1
  <2>3. s # {}
    <3>1. s \in SUBSET S /\ (s = {} => it[s] = 0)
      BY <1>1, SumStep
    <3> QED BY <2>1, <3>1
  <2> DEFINE p == First(s)
  <2>4. p \in s /\ s \ {p} # s /\ it[s] = f[p] + it[s \ {p}] /\ f[p] \in Int
    BY <1>1, <2>3, SumStep
  <2> HIDE DEF p
  <2>5. Good(s \ {p})
    BY <2>2, <2>4
  <2>6. it[s] \in Int
    BY <2>4, <2>5
  <2>7. ASSUME NEW x \in s, x # p PROVE it[s] = f[x] + it[s \ {x}]
    <3> DEFINE rest == (s \ {p}) \ {x}
    <3>1. rest = (s \ {x}) \ {p} /\ p \in s \ {x} /\ x \in s \ {p}
      BY <2>4, <2>7
    <3>2. Good(s \ {x}) /\ Good(rest)
      BY <2>2, <2>4, <3>1
    <3>3. it[s \ {p}] = f[x] + it[rest] /\ it[s \ {x}] = f[p] + it[rest]
      BY <2>5, <3>1, <3>2
    <3>4. f[x] \in Int /\ f[p] \in Int /\ it[rest] \in Int
      BY <2>4, <3>2
    <3> HIDE DEF rest
    <3> QED BY <2>4, <3>3, <3>4
  <2>8. Good(s)
    BY <2>4, <2>6, <2>7
  <2> QED BY <2>1, <2>8
<1>3. \A T \in SUBSET S : SumOver(f, T) = it[T]
  BY <1>1, SumIs
<1>4. \A T \in SUBSET S : Good(T)
  BY <1>2
<1>5. SumOver(f, {}) = 0
  <2>1. {} \in SUBSET S
    OBVIOUS
  <2>2. it[{}] = 0
    BY <1>1, <2>1, SumStep
  <2> QED BY <1>3, <2>1, <2>2
<1> QED BY <1>3, <1>4, <1>5

(* Where no value of the sum is less than some number.                     *)
LEMMA SumAtLeast ==
    ASSUME NEW S, IsFiniteSet(S), NEW f \in [S -> Nat], NEW k \in Nat,
           NEW T \in SUBSET S, \A x \in T : f[x] >= k
    PROVE  SumOver(f, T) \in Nat /\ SumOver(f, T) >= k * Cardinality(T) /\ SumOver(f, S) >= SumOver(f, T)
<1> DEFINE Good(s) == /\ SumOver(f, s) \in Nat /\ SumOver(f, s) >= k * Cardinality(s \cap T)
                      /\ SumOver(f, s) >= SumOver(f, s \cap T)
           Bad == {s \in SUBSET S : ~Good(s)}
<1>a. f \in [S -> Int]
  OBVIOUS
<1>0. /\ SumOver(f, {}) = 0
      /\ \A s \in SUBSET S : SumOver(f, s) \in Int
      /\ \A s \in SUBSET S : \A x \in s : SumOver(f, s) = f[x] + SumOver(f, s \ {x})
  BY <1>a, SumAdds
<1>1. Bad = {}
  <2> SUFFICES ASSUME Bad # {} PROVE FALSE
    OBVIOUS
  <2>1. PICK s \in Bad : \A t \in SUBSET s : t # s => t \notin Bad
    <3>1. Bad \in SUBSET (SUBSET S)
      OBVIOUS
    <3> HIDE DEF Bad
    <3> QED BY <3>1, SmallestSubset
  <2>2. s \in SUBSET S /\ IsFiniteSet(s)
    BY <2>1, FS_Subset
  <2>3. s # {}
    <3>1. ASSUME s = {} PROVE Good(s)
      <4>1. s \cap T = {} /\ Cardinality(s \cap T) = 0
        BY <3>1, FS_EmptySet
      <4> QED BY <1>0, <3>1, <4>1
    <3> QED BY <2>1, <3>1
  <2>4. PICK x \in s : TRUE
    BY <2>3
  <2> DEFINE r == s \ {x}
  <2>5. Good(r)
    BY <2>1, <2>2
  <2>6. SumOver(f, s) = f[x] + SumOver(f, r) /\ f[x] \in Nat
    BY <1>0, <2>2
  <2>7. IsFiniteSet(r \cap T) /\ Cardinality(r \cap T) \in Nat
    <3>1. r \cap T \in SUBSET S
      BY <2>2
    <3> QED BY <3>1, FS_Subset, FS_CardinalityType
  <2>8. CASE x \notin T
    <3>1. s \cap T = r \cap T
      BY <2>8
    <3>2. SumOver(f, r \cap T) \in Int /\ k * Cardinality(r \cap T) \in Nat
      BY <1>0, <2>2, <2>7
    <3>3. Good(r) => Good(s)
      <4> DEFINE a == SumOver(f, r)  b == SumOver(f, r \cap T)  c == k * Cardinality(r \cap T)  v == f[x]
      <4>1. /\ SumOver(f, s) = v + a /\ SumOver(f, s \cap T) = b
            /\ k * Cardinality(s \cap T) = c
            /\ v \in Nat /\ c \in Nat /\ b \in Int
        BY <2>6, <3>1, <3>2
      <4>2. a \in Nat /\ a >= c /\ a >= b
        BY <2>5
      <4> HIDE DEF a, b, c, v
      <4>3. v + a \in Nat /\ v + a >= c /\ v + a >= b
        BY <4>1, <4>2
      <4> QED BY <4>1, <4>3
    <3> QED BY <2>1, <2>5, <3>3
  <2>9. CASE x \in T
    <3>1. s \cap T = (r \cap T) \cup {x} /\ x \notin r \cap T /\ (s \cap T) \ {x} = r \cap T
      BY <2>9
    <3>2. Cardinality(s \cap T) = Cardinality(r \cap T) + 1
      BY <2>7, <3>1, FS_AddElement
    <3>3. SumOver(f, s \cap T) = f[x] + SumOver(f, r \cap T) /\ SumOver(f, r \cap T) \in Int
      BY <1>0, <2>2, <2>9, <3>1
    <3>4. f[x] >= k
      BY <2>9
    <3>5. k * (Cardinality(r \cap T) + 1) = k * Cardinality(r \cap T) + k
          /\ k * Cardinality(r \cap T) \in Nat
      BY <2>7
    <3>6. Good(r) => Good(s)
      <4> DEFINE a == SumOver(f, r)  b == SumOver(f, r \cap T)  c == k * Cardinality(r \cap T)  v == f[x]
      <4>1. /\ SumOver(f, s) = v + a /\ SumOver(f, s \cap T) = v + b
            /\ k * Cardinality(s \cap T) = c + k
            /\ v \in Nat /\ v >= k /\ c \in Nat /\ b \in Int
        BY <2>6, <3>2, <3>3, <3>4, <3>5
      <4>2. a \in Nat /\ a >= c /\ a >= b
        BY <2>5
      <4> HIDE DEF a, b, c, v
      <4>3. v + a \in Nat /\ v + a >= c + k /\ v + a >= v + b
        BY <4>1, <4>2
      <4> QED BY <4>1, <4>3
    <3> QED BY <2>1, <2>5, <3>6
  <2> QED BY <2>8, <2>9
<1>2. Good(S) /\ Good(T)
  <2>1. \A s \in SUBSET S : Good(s)
    BY <1>1
  <2> HIDE DEF Good
  <2> QED BY <2>1
<1>3. S \cap T = T /\ T \cap T = T
  OBVIOUS
<1> QED BY <1>2, <1>3

(* A sum is about the values of its own elements only.                     *)
LEMMA SumSame ==
    ASSUME NEW f, NEW g, NEW T, IsFiniteSet(T), \A x \in T : f[x] = g[x]
    PROVE  SumOver(f, T) = SumOver(g, T)
<1> DEFINE it == CHOOSE h : IsSum(f, T, h)
<1>1. IsSum(f, T, it)
  BY SumExists
<1> HIDE DEF it
<1>2. \A s \in SUBSET T : s # {} => f[First(s)] = g[First(s)]
  BY DEF First
<1>3. IsSum(g, T, it)
  BY <1>1, <1>2 DEF IsSum
<1>4. T \in SUBSET T
  OBVIOUS
<1>5. SumOver(f, T) = it[T]
  BY <1>1, <1>4, SumIs
<1>6. SumOver(g, T) = it[T]
  BY <1>3, <1>4, SumIs
<1> QED BY <1>5, <1>6

(* A sum of natural numbers is one.                                        *)
LEMMA SumNat ==
    ASSUME NEW S, IsFiniteSet(S), NEW f \in [S -> Nat]
    PROVE  SumOver(f, S) \in Nat
<1>1. S \in SUBSET S /\ \A x \in S : f[x] >= 0
  OBVIOUS
<1> QED BY <1>1, SumAtLeast

(* What changes in one place changes the sum by as much.                   *)
LEMMA SumChange ==
    ASSUME NEW S, IsFiniteSet(S), NEW f \in [S -> Int], NEW g \in [S -> Int],
           NEW p \in S, \A x \in S \ {p} : f[x] = g[x]
    PROVE  /\ SumOver(f, S) \in Int /\ SumOver(g, S) \in Int
           /\ SumOver(g, S) = SumOver(f, S) + g[p] - f[p]
<1>1. S \in SUBSET S /\ S \ {p} \in SUBSET S
  OBVIOUS
<1>2. IsFiniteSet(S \ {p})
  BY <1>1, FS_Subset
<1>3. SumOver(f, S \ {p}) = SumOver(g, S \ {p})
  BY <1>2, SumSame
<1>4. /\ SumOver(f, S) = f[p] + SumOver(f, S \ {p}) /\ SumOver(f, S \ {p}) \in Int
      /\ SumOver(f, S) \in Int
  BY <1>1, SumAdds
<1>5. SumOver(g, S) = g[p] + SumOver(g, S \ {p}) /\ SumOver(g, S) \in Int
  BY <1>1, SumAdds
<1>6. f[p] \in Int /\ g[p] \in Int
  OBVIOUS
<1> QED BY <1>3, <1>4, <1>5, <1>6

(* A sum is that over a part, and that with nothing left in this part.     *)
LEMMA SumSplit ==
    ASSUME NEW S, IsFiniteSet(S), NEW f \in [S -> Nat], NEW g \in [S -> Nat],
           NEW B \in SUBSET S, \A x \in B : g[x] = 0, \A x \in S \ B : g[x] = f[x]
    PROVE  SumOver(f, S) = SumOver(f, B) + SumOver(g, S)
<1> DEFINE Good(s) == SumOver(f, s) = SumOver(f, s \cap B) + SumOver(g, s)
           Bad == {s \in SUBSET S : ~Good(s)}
<1>1. f \in [S -> Int] /\ g \in [S -> Int]
  OBVIOUS
<1>2. /\ SumOver(f, {}) = 0
      /\ \A s \in SUBSET S : SumOver(f, s) \in Int
      /\ \A s \in SUBSET S : \A x \in s : SumOver(f, s) = f[x] + SumOver(f, s \ {x})
  BY <1>1, SumAdds
<1>3. /\ SumOver(g, {}) = 0
      /\ \A s \in SUBSET S : SumOver(g, s) \in Int
      /\ \A s \in SUBSET S : \A x \in s : SumOver(g, s) = g[x] + SumOver(g, s \ {x})
  BY <1>1, SumAdds
<1>4. Bad = {}
  <2> SUFFICES ASSUME Bad # {} PROVE FALSE
    OBVIOUS
  <2>1. PICK s \in Bad : \A t \in SUBSET s : t # s => t \notin Bad
    <3>1. Bad \in SUBSET (SUBSET S)
      OBVIOUS
    <3> HIDE DEF Bad
    <3> QED BY <3>1, SmallestSubset
  <2>2. s \in SUBSET S
    BY <2>1
  <2>3. s # {}
    <3>1. ASSUME s = {} PROVE Good(s)
      <4>1. s \cap B = {}
        BY <3>1
      <4> QED BY <1>2, <1>3, <3>1, <4>1
    <3> QED BY <2>1, <3>1
  <2>4. PICK x \in s : TRUE
    BY <2>3
  <2> DEFINE r == s \ {x}
  <2>5. Good(r)
    BY <2>1, <2>2
  <2>6. SumOver(f, s) = f[x] + SumOver(f, r) /\ SumOver(g, s) = g[x] + SumOver(g, r)
    BY <1>2, <1>3, <2>2
  <2>7. /\ SumOver(f, r) \in Int /\ SumOver(g, r) \in Int /\ SumOver(f, r \cap B) \in Int
        /\ f[x] \in Nat
    BY <1>2, <1>3, <2>2
  <2>8. CASE x \in B
    <3>1. /\ r \cap B = (s \cap B) \ {x} /\ x \in s \cap B /\ s \cap B \in SUBSET S
      BY <2>2, <2>8
    <3>2. SumOver(f, s \cap B) = f[x] + SumOver(f, r \cap B)
      <4>1. \A q \in SUBSET S : x \in q => SumOver(f, q) = f[x] + SumOver(f, q \ {x})
        BY <1>2
      <4> HIDE DEF r
      <4> QED BY <3>1, <4>1
    <3>3. g[x] = 0
      BY <2>8
    <3>4. Good(s)
      BY <2>5, <2>6, <2>7, <3>2, <3>3
    <3> QED BY <2>1, <3>4
  <2>9. CASE x \notin B
    <3>1. r \cap B = s \cap B /\ g[x] = f[x]
      BY <2>2, <2>9
    <3>2. Good(s)
      BY <2>5, <2>6, <2>7, <3>1
    <3> QED BY <2>1, <3>2
  <2> QED BY <2>8, <2>9
<1>5. Good(S)
  <2>1. \A s \in SUBSET S : Good(s)
    BY <1>4
  <2> HIDE DEF Good
  <2> QED BY <2>1
<1>6. S \cap B = B
  OBVIOUS
<1> QED BY <1>5, <1>6

(* A sum is that over a part and that over the rest.                       *)
LEMMA SumParts ==
    ASSUME NEW S, IsFiniteSet(S), NEW f \in [S -> Int], NEW A \in SUBSET S
    PROVE  SumOver(f, S) = SumOver(f, A) + SumOver(f, S \ A)
<1> DEFINE Good(s) == SumOver(f, s) = SumOver(f, s \cap A) + SumOver(f, s \ A)
           Bad == {s \in SUBSET S : ~Good(s)}
<1>1. /\ SumOver(f, {}) = 0
      /\ \A s \in SUBSET S : SumOver(f, s) \in Int
      /\ \A s \in SUBSET S : \A x \in s : SumOver(f, s) = f[x] + SumOver(f, s \ {x})
  BY SumAdds
<1>4. Bad = {}
  <2> SUFFICES ASSUME Bad # {} PROVE FALSE
    OBVIOUS
  <2>1. PICK s \in Bad : \A t \in SUBSET s : t # s => t \notin Bad
    <3>1. Bad \in SUBSET (SUBSET S)
      OBVIOUS
    <3> HIDE DEF Bad
    <3> QED BY <3>1, SmallestSubset
  <2>2. s \in SUBSET S
    BY <2>1
  <2>3. s # {}
    <3>1. ASSUME s = {} PROVE Good(s)
      <4>1. s \cap A = {} /\ s \ A = {}
        BY <3>1
      <4> QED BY <1>1, <3>1, <4>1
    <3> QED BY <2>1, <3>1
  <2>4. PICK x \in s : TRUE
    BY <2>3
  <2> DEFINE r == s \ {x}
  <2>5. Good(r)
    BY <2>1, <2>2
  <2>6. SumOver(f, s) = f[x] + SumOver(f, r) /\ f[x] \in Int
    BY <1>1, <2>2
  <2>7. SumOver(f, r) \in Int /\ SumOver(f, r \cap A) \in Int /\ SumOver(f, r \ A) \in Int
    <3>1. r \in SUBSET S /\ r \cap A \in SUBSET S /\ r \ A \in SUBSET S
      BY <2>2
    <3> QED BY <1>1, <3>1
  <2>8. CASE x \in A
    <3>1. /\ r \cap A = (s \cap A) \ {x} /\ x \in s \cap A /\ s \cap A \in SUBSET S
          /\ r \ A = s \ A
      BY <2>2, <2>8
    <3>2. SumOver(f, s \cap A) = f[x] + SumOver(f, r \cap A)
      BY <1>1, <3>1
    <3>3. SumOver(f, s \ A) = SumOver(f, r \ A)
      BY <3>1
    <3>4. \A a, b, c \in Int : a + (b + c) = (a + b) + c /\ a + (b + c) = b + (a + c)
      OBVIOUS
    <3>5. f[x] + (SumOver(f, r \cap A) + SumOver(f, r \ A))
            = SumOver(f, s \cap A) + SumOver(f, s \ A)
      BY <2>6, <2>7, <3>2, <3>3, <3>4
    <3>6. Good(s)
      BY <2>5, <2>6, <3>5
    <3> QED BY <2>1, <3>6
  <2>9. CASE x \notin A
    <3>1. /\ r \ A = (s \ A) \ {x} /\ x \in s \ A /\ s \ A \in SUBSET S
          /\ r \cap A = s \cap A
      BY <2>2, <2>9
    <3>2. SumOver(f, s \ A) = f[x] + SumOver(f, r \ A)
      BY <1>1, <3>1
    <3>3. SumOver(f, s \cap A) = SumOver(f, r \cap A)
      BY <3>1
    <3>4. \A a, b, c \in Int : a + (b + c) = (a + b) + c /\ a + (b + c) = b + (a + c)
      OBVIOUS
    <3>5. f[x] + (SumOver(f, r \cap A) + SumOver(f, r \ A))
            = SumOver(f, s \cap A) + SumOver(f, s \ A)
      BY <2>6, <2>7, <3>2, <3>3, <3>4
    <3>6. Good(s)
      BY <2>5, <2>6, <3>5
    <3> QED BY <2>1, <3>6
  <2> QED BY <2>8, <2>9
<1>5. Good(S)
  <2>1. \A s \in SUBSET S : Good(s)
    BY <1>4
  <2> HIDE DEF Good
  <2> QED BY <2>1
<1>6. S \cap A = A
  OBVIOUS
<1> QED BY <1>5, <1>6

(* The sum of sums is the sum of both.                                     *)
LEMMA SumPlus ==
    ASSUME NEW S, IsFiniteSet(S), NEW f \in [S -> Int], NEW g \in [S -> Int],
           NEW h \in [S -> Int], \A x \in S : h[x] = f[x] + g[x]
    PROVE  SumOver(h, S) = SumOver(f, S) + SumOver(g, S)
<1> DEFINE Good(s) == SumOver(h, s) = SumOver(f, s) + SumOver(g, s)
           Bad == {s \in SUBSET S : ~Good(s)}
<1>1. /\ SumOver(f, {}) = 0
      /\ \A s \in SUBSET S : SumOver(f, s) \in Int
      /\ \A s \in SUBSET S : \A x \in s : SumOver(f, s) = f[x] + SumOver(f, s \ {x})
  BY SumAdds
<1>2. /\ SumOver(g, {}) = 0
      /\ \A s \in SUBSET S : SumOver(g, s) \in Int
      /\ \A s \in SUBSET S : \A x \in s : SumOver(g, s) = g[x] + SumOver(g, s \ {x})
  BY SumAdds
<1>3. /\ SumOver(h, {}) = 0
      /\ \A s \in SUBSET S : SumOver(h, s) \in Int
      /\ \A s \in SUBSET S : \A x \in s : SumOver(h, s) = h[x] + SumOver(h, s \ {x})
  BY SumAdds
<1>4. Bad = {}
  <2> SUFFICES ASSUME Bad # {} PROVE FALSE
    OBVIOUS
  <2>1. PICK s \in Bad : \A t \in SUBSET s : t # s => t \notin Bad
    <3>1. Bad \in SUBSET (SUBSET S)
      OBVIOUS
    <3> HIDE DEF Bad
    <3> QED BY <3>1, SmallestSubset
  <2>2. s \in SUBSET S
    BY <2>1
  <2>3. s # {}
    <3>1. ASSUME s = {} PROVE Good(s)
      BY <1>1, <1>2, <1>3, <3>1
    <3> QED BY <2>1, <3>1
  <2>4. PICK x \in s : TRUE
    BY <2>3
  <2> DEFINE r == s \ {x}
  <2>5. Good(r) /\ r \in SUBSET S
    BY <2>1, <2>2
  <2>6. /\ SumOver(f, s) = f[x] + SumOver(f, r) /\ SumOver(g, s) = g[x] + SumOver(g, r)
        /\ SumOver(h, s) = h[x] + SumOver(h, r) /\ h[x] = f[x] + g[x]
        /\ f[x] \in Int /\ g[x] \in Int /\ SumOver(f, r) \in Int /\ SumOver(g, r) \in Int
    BY <1>1, <1>2, <1>3, <2>2, <2>5
  <2>7. Good(s)
    BY <2>5, <2>6
  <2> QED BY <2>1, <2>7
<1>5. Good(S)
  <2>1. \A s \in SUBSET S : Good(s)
    BY <1>4
  <2> HIDE DEF Good
  <2> QED BY <2>1
<1> QED BY <1>5

(* A sum is the same under other names for its elements.                   *)
LEMMA SumRenamed ==
    ASSUME NEW S, IsFiniteSet(S), NEW f \in [S -> Int], NEW name,
           \A x, y \in S : name[x] = name[y] => x = y,
           NEW g, \A x \in S : g[name[x]] = f[x]
    PROVE  SumOver(f, S) = SumOver(g, {name[x] : x \in S})
<1> DEFINE Image(s) == {name[x] : x \in s}
           gg == [y \in Image(S) |-> g[y]]
           Good(s) == SumOver(f, s) = SumOver(gg, Image(s))
           Bad == {s \in SUBSET S : ~Good(s)}
<1>1. /\ SumOver(f, {}) = 0
      /\ \A s \in SUBSET S : SumOver(f, s) \in Int
      /\ \A s \in SUBSET S : \A x \in s : SumOver(f, s) = f[x] + SumOver(f, s \ {x})
  BY SumAdds
<1>2. IsFiniteSet(Image(S)) /\ gg \in [Image(S) -> Int]
  <2> DEFINE nm == [x \in S |-> name[x]]
  <2>1. nm \in Surjection(S, Image(S))
    BY DEF Surjection
  <2>2. IsFiniteSet(Image(S))
    <3> HIDE DEF nm, Image
    <3> QED BY <2>1, FS_Surjection
  <2>3. gg \in [Image(S) -> Int]
    OBVIOUS
  <2> QED BY <2>2, <2>3
<1>3. /\ SumOver(gg, {}) = 0
      /\ \A s \in SUBSET Image(S) : \A y \in s : SumOver(gg, s) = gg[y] + SumOver(gg, s \ {y})
  <2> HIDE DEF gg, Image
  <2> QED BY <1>2, SumAdds
<1>4. Bad = {}
  <2> SUFFICES ASSUME Bad # {} PROVE FALSE
    OBVIOUS
  <2>1. PICK s \in Bad : \A t \in SUBSET s : t # s => t \notin Bad
    <3>1. Bad \in SUBSET (SUBSET S)
      OBVIOUS
    <3> HIDE DEF Bad
    <3> QED BY <3>1, SmallestSubset
  <2>2. s \in SUBSET S
    BY <2>1
  <2>3. s # {}
    <3>1. ASSUME s = {} PROVE Good(s)
      <4>1. Image(s) = {}
        BY <3>1
      <4> QED BY <1>1, <1>3, <3>1, <4>1
    <3> QED BY <2>1, <3>1
  <2>4. PICK x \in s : TRUE
    BY <2>3
  <2> DEFINE r == s \ {x}
  <2>5. Good(r)
    BY <2>1, <2>2
  <2>6. SumOver(f, s) = f[x] + SumOver(f, r)
    BY <1>1, <2>2
  <2>7. /\ Image(s) \in SUBSET Image(S) /\ name[x] \in Image(s)
        /\ Image(s) \ {name[x]} = Image(r)
    BY <2>2
  <2>8. SumOver(gg, Image(s)) = gg[name[x]] + SumOver(gg, Image(s) \ {name[x]})
    BY <1>3, <2>7
  <2>9. gg[name[x]] = f[x]
    BY <2>2
  <2>10. Good(s)
    <3> HIDE DEF gg, Image, r
    <3> QED BY <2>5, <2>6, <2>7, <2>8, <2>9
  <2> QED BY <2>1, <2>10
<1>5. Good(S)
  <2>1. \A s \in SUBSET S : Good(s)
    BY <1>4
  <2> HIDE DEF Good
  <2> QED BY <2>1
<1>6. SumOver(gg, Image(S)) = SumOver(g, Image(S))
  <2>1. \A y \in Image(S) : gg[y] = g[y]
    OBVIOUS
  <2> HIDE DEF gg, Image
  <2> QED BY <1>2, <2>1, SumSame
<1> QED BY <1>5, <1>6

-----------------------------------------------------------------------------
(* Ascending order, and what stands at some places of a sequence. *)

(* Of some numbers one is least.                                           *)
LEMMA LeastNumber ==
    ASSUME NEW S \in SUBSET Nat, S # {}
    PROVE  \E n \in S : \A m \in S : n <= m
<1>1. IsWellFoundedOn(OpToRel(<, Nat), Nat)
  BY NatLessThanWellFounded
<1>2. PICK n \in S : \A m \in S : <<m, n>> \notin OpToRel(<, Nat)
  BY <1>1, WFMin
<1>3. \A m \in S : ~(m < n)
  BY <1>2 DEF OpToRel
<1> QED BY <1>3

(* What climbs through a finite set of numbers in as many steps as it has  *)
(* passes each of them once.                                               *)
LEMMA ClimbsThroughAll ==
    ASSUME NEW S \in SUBSET Nat, IsFiniteSet(S), NEW s \in [1..Cardinality(S) -> S], Climbs(s)
    PROVE  /\ \A i, j \in DOMAIN s : s[i] = s[j] => i = j
           /\ \A x \in S : \E i \in DOMAIN s : s[i] = x
<1>1. Cardinality(S) \in Nat /\ DOMAIN s = 1..Cardinality(S)
  BY FS_CardinalityType
<1>2. \A i, j \in DOMAIN s : s[i] = s[j] => i = j
  <2> SUFFICES ASSUME NEW i \in DOMAIN s, NEW j \in DOMAIN s, s[i] = s[j], i # j PROVE FALSE
    OBVIOUS
  <2>1. i \in Nat /\ j \in Nat /\ s[i] \in Nat /\ s[j] \in Nat
    <3>1. i \in 1..Cardinality(S) /\ j \in 1..Cardinality(S)
      BY <1>1
    <3>2. s[i] \in S /\ s[j] \in S
      BY <3>1
    <3>3. \A n \in Nat : \A k \in 1..n : k \in Nat
      OBVIOUS
    <3> QED BY <1>1, <3>1, <3>2, <3>3
  <2>2. i < j \/ j < i
    BY <2>1
  <2>3. s[i] < s[j] \/ s[j] < s[i]
    BY <2>2 DEF Climbs
  <2> QED BY <2>1, <2>3
<1>3. s \in Injection(1..Cardinality(S), S)
  BY <1>1, <1>2 DEF Injection, IsInjective
<1>4. IsFiniteSet(1..Cardinality(S)) /\ Cardinality(1..Cardinality(S)) = Cardinality(S)
  BY <1>1, FS_Interval
<1>5. s \in Surjection(1..Cardinality(S), S)
  BY <1>3, <1>4, FS_Injection
<1> QED BY <1>1, <1>2, <1>5 DEF Surjection

(* There is one way to climb through a finite set of numbers.              *)
LEMMA ClimbIsUnique ==
    ASSUME NEW S \in SUBSET Nat, IsFiniteSet(S),
           NEW s \in [1..Cardinality(S) -> S], Climbs(s),
           NEW t \in [1..Cardinality(S) -> S], Climbs(t)
    PROVE  s = t
<1> DEFINE n == Cardinality(S)
           Differ == {i \in 1..n : s[i] # t[i]}
<1>1. n \in Nat
  BY FS_CardinalityType
<1> SUFFICES ASSUME Differ # {} PROVE FALSE
  <2>1. Differ = {} => \A i \in 1..n : s[i] = t[i]
    OBVIOUS
  <2>2. s = [i \in 1..n |-> s[i]] /\ t = [i \in 1..n |-> t[i]]
    OBVIOUS
  <2> HIDE DEF Differ, n
  <2> QED BY <2>1, <2>2
<1>2. PICK k \in Differ : \A i \in Differ : k <= i
  <2>1. Differ \in SUBSET Nat
    BY <1>1
  <2> HIDE DEF Differ
  <2> QED BY <2>1, LeastNumber
<1>3. k \in 1..n /\ s[k] # t[k] /\ \A i \in 1..n : i < k => s[i] = t[i]
  <2>1. \A i \in 1..n : i < k => i \notin Differ
    BY <1>1, <1>2
  <2> QED BY <1>2, <2>1
<1>4. ASSUME NEW f \in [1..n -> S], Climbs(f), NEW g \in [1..n -> S], Climbs(g),
             f[k] < g[k], \A i \in 1..n : i < k => f[i] = g[i]
      PROVE  FALSE
  <2>0. f[k] \in S /\ DOMAIN g = 1..n
    BY <1>3, <1>4
  <2>1. PICK j \in 1..n : g[j] = f[k]
    <3>1. \A x \in S : \E i \in DOMAIN g : g[i] = x
      BY <1>4, ClimbsThroughAll
    <3> QED BY <2>0, <3>1
  <2>2. /\ j \in Nat /\ k \in Nat /\ f[k] \in Nat /\ g[k] \in Nat /\ f[j] \in Nat
    <3>1. \A i \in 1..n : i \in Nat
      BY <1>1
    <3>2. k \in 1..n /\ j \in 1..n
      BY <1>3, <2>1
    <3>3. f[k] \in S /\ g[k] \in S /\ f[j] \in S
      BY <1>4, <3>2
    <3> QED BY <3>1, <3>2, <3>3
  <2>3. CASE j < k
    <3>1. f[j] = f[k]
      BY <1>4, <2>1, <2>3
    <3>2. f[j] < f[k]
      BY <1>3, <1>4, <2>1, <2>3 DEF Climbs
    <3> QED BY <2>2, <3>1, <3>2
  <2>4. CASE j = k
    BY <1>4, <2>1, <2>2, <2>4
  <2>5. CASE k < j
    <3>1. g[k] < g[j]
      BY <1>3, <1>4, <2>1, <2>5 DEF Climbs
    <3> QED BY <1>4, <2>1, <2>2, <3>1
  <2> QED BY <2>2, <2>3, <2>4, <2>5
<1>5. s[k] \in Nat /\ t[k] \in Nat
  BY <1>3
<1>6. s[k] < t[k] \/ t[k] < s[k]
  BY <1>3, <1>5
<1> QED BY <1>3, <1>4, <1>6

(* And there is one.                                                       *)
LEMMA ClimbExists ==
    ASSUME NEW S \in SUBSET Nat, IsFiniteSet(S)
    PROVE  \E s \in [1..Cardinality(S) -> S] : Climbs(s)
<1> DEFINE Bad == {T \in SUBSET S : ~\E s \in [1..Cardinality(T) -> T] : Climbs(s)}
<1> SUFFICES ASSUME Bad # {} PROVE FALSE
  OBVIOUS
<1>1. PICK T \in Bad : \A U \in SUBSET T : U # T => U \notin Bad
  <2>1. Bad \in SUBSET (SUBSET S)
    OBVIOUS
  <2> HIDE DEF Bad
  <2> QED BY <2>1, SmallestSubset
<1>2. T \in SUBSET Nat /\ IsFiniteSet(T)
  <2>1. T \in SUBSET S
    BY <1>1
  <2> QED BY <2>1, FS_Subset
<1>3. CASE T = {}
  <2>1. Cardinality(T) = 0
    BY <1>3, FS_EmptySet
  <2>2. 1..0 = {}
    OBVIOUS
  <2>3. [i \in 1..Cardinality(T) |-> i] \in [1..Cardinality(T) -> T]
    BY <2>1, <2>2
  <2>4. Climbs([i \in 1..Cardinality(T) |-> i])
    BY <2>1, <2>2 DEF Climbs
  <2> QED BY <1>1, <2>3, <2>4
<1>4. CASE T # {}
  <2> DEFINE m == Max(T)
             U == T \ {m}
             n == Cardinality(T)
  <2>1. m \in T /\ \A y \in T : y <= m
    BY <1>2, <1>4, MaxBounds
  <2>2. IsFiniteSet(U) /\ Cardinality(U) = n - 1 /\ n \in Nat /\ n # 0
    <3>1. n \in Nat
      BY <1>2, FS_CardinalityType
    <3>2. IsFiniteSet(U) /\ Cardinality(U) = n - 1
      BY <1>2, <2>1, FS_RemoveElement
    <3>3. Cardinality(U) \in Nat
      BY <3>2, FS_CardinalityType
    <3> QED BY <3>1, <3>2, <3>3
  <2>3. PICK u \in [1..Cardinality(U) -> U] : Climbs(u)
    <3>1. U \in SUBSET T /\ U # T /\ U \in SUBSET S
      BY <1>1, <2>1
    <3> QED BY <1>1, <3>1
  <2> DEFINE s == [i \in 1..n |-> IF i = n THEN m ELSE u[i]]
  <2>4. \A i \in 1..n : i # n => i \in 1..Cardinality(U)
    BY <2>2
  <2>5. s \in [1..n -> T] /\ \A i \in 1..n : /\ i = n => s[i] = m
                                             /\ i # n => s[i] = u[i] /\ u[i] \in U
    BY <2>1, <2>3, <2>4
  <2>6. \A x \in U : x < m
    <3>1. \A x \in U : x \in Nat /\ x <= m /\ x # m
      BY <1>2, <2>1
    <3>2. m \in Nat
      BY <1>2, <2>1
    <3> HIDE DEF U, m
    <3> QED BY <3>1, <3>2
  <2> HIDE DEF s, U, m
  <2>7. \A i, j \in 1..n : i < j => s[i] < s[j]
    <3> SUFFICES ASSUME NEW i \in 1..n, NEW j \in 1..n, i < j PROVE s[i] < s[j]
      OBVIOUS
    <3>1. i # n /\ i \in 1..Cardinality(U)
      BY <2>2, <2>4
    <3>2. CASE j = n
      BY <2>5, <2>6, <3>1, <3>2
    <3>3. CASE j # n
      <4>1. j \in 1..Cardinality(U)
        BY <2>4, <3>3
      <4>2. u[i] < u[j]
        BY <2>3, <3>1, <4>1 DEF Climbs
      <4> QED BY <2>5, <3>1, <3>3, <4>2
    <3> QED BY <3>2, <3>3
  <2>8. Climbs(s)
    BY <2>5, <2>7 DEF Climbs
  <2> QED BY <1>1, <2>5, <2>8
<1> QED BY <1>3, <1>4

(* Ascending is that one.                                                  *)
LEMMA AscendingIs ==
    ASSUME NEW S \in SUBSET Nat, IsFiniteSet(S)
    PROVE  /\ Ascending(S) \in [1..Cardinality(S) -> S] /\ Climbs(Ascending(S))
           /\ \A i, j \in 1..Cardinality(S) : Ascending(S)[i] = Ascending(S)[j] => i = j
           /\ \A x \in S : \E i \in 1..Cardinality(S) : Ascending(S)[i] = x
           /\ \A s \in [1..Cardinality(S) -> S] : Climbs(s) => s = Ascending(S)
<1>1. \E s \in [1..Cardinality(S) -> S] : Climbs(s)
  BY ClimbExists
<1>2. Ascending(S) \in [1..Cardinality(S) -> S] /\ Climbs(Ascending(S))
  BY <1>1 DEF Ascending
<1>3. DOMAIN Ascending(S) = 1..Cardinality(S)
  BY <1>2
<1>4. /\ \A i, j \in DOMAIN Ascending(S) : Ascending(S)[i] = Ascending(S)[j] => i = j
      /\ \A x \in S : \E i \in DOMAIN Ascending(S) : Ascending(S)[i] = x
  <2> HIDE DEF Ascending
  <2> QED BY <1>2, ClimbsThroughAll
<1>5. \A s \in [1..Cardinality(S) -> S] : Climbs(s) => s = Ascending(S)
  BY <1>2, ClimbIsUnique
<1> QED BY <1>2, <1>3, <1>4, <1>5
(* What stands at some places of a sequence is no more than it has, each   *)
(* at a place of its own.                                                  *)
LEMMA PlacesAre ==
    ASSUME NEW n \in Nat, NEW s, NEW I \in SUBSET (1..n)
    PROVE  /\ Cardinality(I) \in Nat /\ Cardinality(I) <= n
           /\ AtPlaces(s, I) = [k \in 1..Cardinality(I) |-> s[Ascending(I)[k]]]
           /\ Ascending(I) \in [1..Cardinality(I) -> I]
           /\ \A j, k \in 1..Cardinality(I) : Ascending(I)[j] = Ascending(I)[k] => j = k
<1>1. IsFiniteSet(1..n) /\ Cardinality(1..n) = n
  BY FS_Interval
<1>2. IsFiniteSet(I) /\ Cardinality(I) <= n
  BY <1>1, FS_Subset
<1>3. I \in SUBSET Nat /\ Cardinality(I) \in Nat
  BY <1>2, FS_CardinalityType
<1> QED BY <1>2, <1>3, AscendingIs DEF AtPlaces

(* Numbers from 1 on are their own places.                                 *)
LEMMA AscendingInterval ==
    ASSUME NEW n \in Nat
    PROVE  Cardinality(1..n) = n /\ Ascending(1..n) = [i \in 1..n |-> i]
<1>1. IsFiniteSet(1..n) /\ Cardinality(1..n) = n /\ 1..n \in SUBSET Nat
  BY FS_Interval
<1> DEFINE s == [i \in 1..n |-> i]
<1>2. s \in [1..n -> 1..n] /\ Climbs(s)
  BY DEF Climbs
<1> HIDE DEF s
<1>3. s = Ascending(1..n)
  BY <1>1, <1>2, AscendingIs
<1> QED BY <1>1, <1>3 DEF s

(* As many things as a function without repetition has places.             *)
LEMMA CountDistinct ==
    ASSUME NEW n \in Nat, NEW f, DOMAIN f = 1..n, \A i, j \in 1..n : f[i] = f[j] => i = j,
           NEW T, \A x : x \in T <=> \E i \in 1..n : x = f[i]
    PROVE  Cardinality(T) = n
<1> DEFINE g == [i \in 1..n |-> f[i]]
<1>1. g \in Surjection(1..n, T) /\ g \in Injection(1..n, T)
  BY DEF Surjection, Injection, IsInjective
<1>2. IsFiniteSet(1..n) /\ Cardinality(1..n) = n
  BY FS_Interval
<1> HIDE DEF g
<1> QED BY <1>1, <1>2, FS_Surjection

(* The length of a sequence given as a function.                          *)
LEMMA LenIs ==
    ASSUME NEW n \in Nat, NEW s, NEW X, s \in [1..n -> X]
    PROVE  s \in Seq(X) /\ Len(s) = n
OBVIOUS

(* The first so many of a sequence.                                        *)
LEMMA Prefix ==
    ASSUME NEW o \in Nat, NEW X, NEW s \in [1..o -> X], NEW n \in Nat, n <= o
    PROVE  SubSeq(s, 1, n) = [i \in 1..n |-> s[i]]
<1> DEFINE t == SubSeq(s, 1, n)
<1>1. s \in Seq(X) /\ Len(s) = o
  BY LenIs
<1>2. t \in Seq(X) /\ Len(t) = n /\ \A i \in 1..n : t[i] = s[i]
  BY <1>1
<1> HIDE DEF t
<1>3. t \in [1..n -> X]
  BY <1>2, LenProperties
<1>4. t = [i \in 1..n |-> s[i]]
  BY <1>2, <1>3
<1> QED BY <1>4 DEF t
=============================================================================
