------------------------------- MODULE Totals -------------------------------
(***************************************************************************)
(* The total of a function to the natural numbers.  It is the number of    *)
(* units <<x, i>> with i \in 1..f[x], so that what one update does to a    *)
(* total follows from facts about the cardinality of finite sets.  And the *)
(* least number of a set, which stands in for induction.                   *)
(***************************************************************************)
EXTENDS Integers, FiniteSets, FiniteSetTheorems, TLAPS

Stack(x, n) == {x} \X (1..n)

Units(f) == UNION {Stack(x, f[x]) : x \in DOMAIN f}

Total(f) == Cardinality(Units(f))

-----------------------------------------------------------------------------
(* A stack of n units has n elements.                                       *)
LEMMA StackSize ==
  ASSUME NEW x, NEW n \in Nat
  PROVE  IsFiniteSet(Stack(x, n)) /\ Cardinality(Stack(x, n)) = n
<1>1. IsFiniteSet(1..n) /\ Cardinality(1..n) = n
  BY FS_Interval
<1>2. IsFiniteSet({x}) /\ Cardinality({x}) = 1
  BY FS_Singleton
<1>3. /\ IsFiniteSet({x} \X (1..n))
      /\ Cardinality({x} \X (1..n)) = Cardinality({x}) * Cardinality(1..n)
  <2> DEFINE S == {x}
             T == 1..n
  <2>1. IsFiniteSet(S) /\ IsFiniteSet(T)
    BY <1>1, <1>2
  <2> HIDE DEF S, T
  <2>2. IsFiniteSet(S \X T) /\ Cardinality(S \X T) = Cardinality(S) * Cardinality(T)
    BY <2>1, FS_Product
  <2>3. QED
    BY <2>2 DEF S, T
<1>4. Stack(x, n) = {x} \X (1..n)
  BY DEF Stack
<1>5. 1 * n = n
  OBVIOUS
<1>6. QED
  BY <1>1, <1>2, <1>3, <1>4, <1>5

(* A function on a finite domain has finitely many units.                   *)
LEMMA UnitsFinite ==
  ASSUME NEW S, IsFiniteSet(S), NEW f \in [S -> Nat]
  PROVE  IsFiniteSet(Units(f)) /\ Total(f) \in Nat
<1> DEFINE T == {Stack(x, f[x]) : x \in S}
           s == [x \in S |-> Stack(x, f[x])]
<1>1. s \in Surjection(S, T)
  BY DEF Surjection
<1>2. IsFiniteSet(T)
  BY <1>1, FS_Surjection
<1>3. \A U \in T : IsFiniteSet(U)
  BY StackSize
<1>4. IsFiniteSet(UNION T)
  BY <1>2, <1>3, FS_UNION
<1>5. Units(f) = UNION T
  BY DEF Units
<1>6. QED
  BY <1>4, <1>5, FS_CardinalityType DEF Total

(* One update changes the total by the difference.                          *)
LEMMA TotalUpdate ==
  ASSUME NEW S, IsFiniteSet(S), NEW f \in [S -> Nat], NEW x \in S, NEW v \in Nat
  PROVE  Total([f EXCEPT ![x] = v]) = Total(f) - f[x] + v
<1> DEFINE g == [f EXCEPT ![x] = v]
           Rest == Units(f) \ Stack(x, f[x])
<1>1. IsFiniteSet(Units(f)) /\ Total(f) \in Nat
  BY UnitsFinite
<1>2. Stack(x, f[x]) \subseteq Units(f)
  BY DEF Units
<1>3. IsFiniteSet(Rest) /\ Cardinality(Rest) = Total(f) - f[x]
  <2>1. Units(f) \cap Stack(x, f[x]) = Stack(x, f[x])
    BY <1>2
  <2>2. f[x] \in Nat
    OBVIOUS
  <2>3. Cardinality(Stack(x, f[x])) = f[x]
    BY <2>2, StackSize
  <2>4. QED
    BY <1>1, <2>1, <2>3, FS_Difference DEF Total
<1>4. Units(g) = Rest \cup Stack(x, v)
  BY DEF Units, Stack
<1>5. Rest \cap Stack(x, v) = {}
  BY DEF Units, Stack
<1>6. Total(g) = Cardinality(Rest) + Cardinality(Stack(x, v)) - Cardinality({})
  <2>1. IsFiniteSet(Stack(x, v))
    BY StackSize
  <2>2. Cardinality(Rest \cup Stack(x, v)) =
          Cardinality(Rest) + Cardinality(Stack(x, v)) - Cardinality(Rest \cap Stack(x, v))
    <3> HIDE DEF Rest
    <3> QED BY <1>3, <2>1, FS_Union
  <2>3. QED
    BY <1>4, <1>5, <2>2 DEF Total
<1>7. QED
  BY <1>1, <1>3, <1>6, StackSize, FS_EmptySet

(* A total is at least each of its parts, and 0 when every part is.         *)
LEMMA TotalBounds ==
  ASSUME NEW S, IsFiniteSet(S), NEW f \in [S -> Nat]
  PROVE  /\ \A x \in S : f[x] <= Total(f)
         /\ (\A x \in S : f[x] = 0) => Total(f) = 0
<1>1. IsFiniteSet(Units(f))
  BY UnitsFinite
<1>2. ASSUME NEW x \in S PROVE f[x] <= Total(f)
  <2>1. Stack(x, f[x]) \subseteq Units(f)
    BY DEF Units
  <2>2. Cardinality(Stack(x, f[x])) <= Total(f)
    BY <1>1, <2>1, FS_Subset DEF Total
  <2>3. QED
    BY <2>2, StackSize
<1>3. ASSUME \A x \in S : f[x] = 0 PROVE Total(f) = 0
  <2>1. Units(f) = {}
    BY <1>3 DEF Units, Stack
  <2>2. QED
    BY <2>1, FS_EmptySet DEF Total
<1>4. QED
  BY <1>2, <1>3

-----------------------------------------------------------------------------
(* A set of natural numbers that is not empty has a least one: what fails   *)
(* for some number fails for a first, which replaces induction.             *)
LEMMA LeastNumber ==
  ASSUME NEW T, T \subseteq Nat, T # {}
  PROVE  \E x \in T : \A y \in T : x <= y
<1> DEFINE sets == {1..n : n \in T}
           R == StrictSubsetOrdering(Nat)
           F == FiniteSubsetsOf(Nat)
<1>1. IsWellFoundedOn(R, F)
  BY FS_StrictSubsetOrderingWellFounded
<1>2. sets \subseteq F /\ sets # {}
  <2>1. \A n \in T : 1..n \subseteq Nat /\ IsFiniteSet(1..n)
    BY FS_Interval
  <2>2. QED
    BY <2>1 DEF FiniteSubsetsOf
<1> HIDE DEF sets, R, F
<1>3. PICK s \in sets : \A t \in sets : ~ (<<t, s>> \in R)
  BY <1>1, <1>2, WFMin
<1>4. PICK x \in T : s = 1..x
  BY DEF sets
<1>5. ASSUME NEW y \in T, y < x PROVE FALSE
  <2>1. 1..y \in sets
    BY DEF sets
  <2>2. 1..y \subseteq 1..x /\ x \in 1..x /\ x \notin 1..y /\ x \in Nat /\ y \in Nat
    BY <1>5
  <2>3. 1..y \in F /\ s \in F
    BY <1>2, <2>1
  <2>4. 1..y \subseteq s /\ 1..y # s
    BY <1>4, <2>2
  <2>5. <<1..y, s>> \in R
    <3>1. 1..y \in SUBSET Nat /\ s \in SUBSET Nat
      BY <2>3 DEF F, FiniteSubsetsOf
    <3> DEFINE p == <<1..y, s>>
    <3>2. p \in (SUBSET Nat) \X (SUBSET Nat) /\ p[1] = 1..y /\ p[2] = s
      BY <3>1
    <3>3. p[1] \subseteq p[2] /\ p[1] # p[2]
      BY <2>4, <3>2
    <3> HIDE DEF p
    <3>4. p \in R
      BY <3>2, <3>3 DEF R, StrictSubsetOrdering
    <3>5. QED BY <3>4 DEF p
  <2>6. QED
    BY <1>3, <2>1, <2>5
<1>6. QED
  BY <1>5
=============================================================================
