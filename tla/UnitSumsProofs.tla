---------------------------- MODULE UnitSumsProofs ----------------------------
(* Facts about the sums of UnitSums, for every finite domain, and about    *)
(* the least and greatest of a set of naturals.                            *)
EXTENDS UnitSums, FiniteSetTheorems, WellFoundedInduction, TLAPS

(* The units of one index are as many as its value.                        *)
LEMMA UnitsOfOne ==
  ASSUME NEW x, NEW n \in Nat
  PROVE  IsFiniteSet({x} \X (1..n)) /\ Cardinality({x} \X (1..n)) = n
<1>1. IsFiniteSet({x}) /\ Cardinality({x}) = 1
  BY FS_Singleton
<1>2. IsFiniteSet(1..n) /\ Cardinality(1..n) = n
  BY FS_Interval
<1>3. /\ IsFiniteSet({x} \X (1..n))
      /\ Cardinality({x} \X (1..n)) = Cardinality({x}) * Cardinality(1..n)
  BY <1>1, <1>2, FS_Product
<1>4. QED
  BY <1>1, <1>2, <1>3

(* Finitely many indexes have finitely many units.                         *)
LEMMA UnitsFinite ==
  ASSUME NEW S, IsFiniteSet(S), NEW f, \A x \in S : f[x] \in Nat
  PROVE  IsFiniteSet(Units(f, S))
<1>1. IsFiniteSet({{x} \X (1..f[x]) : x \in S})
  <2> DEFINE Block(x) == {x} \X (1..f[x])
  <2> SUFFICES IsFiniteSet({Block(x) : x \in S})
    OBVIOUS
  <2>1. \A x \in S : Block(x) \in {Block(y) : y \in S}
    OBVIOUS
  <2>2. [x \in S |-> Block(x)] \in Surjection(S, {Block(x) : x \in S})
    <3> HIDE DEF Block
    <3> QED BY DEF Surjection
  <2>3. QED
    BY <2>2, FS_Surjection
<1>2. \A T \in {{x} \X (1..f[x]) : x \in S} : IsFiniteSet(T)
  <2>1. \A x \in S : IsFiniteSet({x} \X (1..f[x]))
    BY UnitsOfOne
  <2>2. QED
    BY <2>1
<1>3. QED
  BY <1>1, <1>2, FS_UNION DEF Units

(* A sum of naturals is a natural.                                         *)
LEMMA SumOverType ==
  ASSUME NEW S, IsFiniteSet(S), NEW f \in [S -> Nat]
  PROVE  SumOver(f) \in Nat
BY UnitsFinite, FS_CardinalityType DEF SumOver

(* One index split off a sum.                                              *)
LEMMA SumOverSplit ==
  ASSUME NEW S, IsFiniteSet(S), NEW f \in [S -> Nat], NEW x \in S
  PROVE  /\ Cardinality(Units(f, S \ {x})) \in Nat
         /\ SumOver(f) = Cardinality(Units(f, S \ {x})) + f[x]
<1> DEFINE rest == Units(f, S \ {x})
           own == {x} \X (1..f[x])
<1>1. IsFiniteSet(S \ {x})
  BY FS_RemoveElement
<1>2. IsFiniteSet(rest)
  BY <1>1, UnitsFinite
<1>3. IsFiniteSet(own) /\ Cardinality(own) = f[x]
  BY UnitsOfOne
<1>4. Units(f, S) = rest \cup own
  BY DEF Units
<1>5. rest \cap own = {}
  BY DEF Units
<1>6. Cardinality(rest \cup own) = Cardinality(rest) + f[x]
  <2> HIDE DEF rest, own
  <2>1. Cardinality(rest \cup own)
          = Cardinality(rest) + Cardinality(own) - Cardinality(rest \cap own)
    BY <1>2, <1>3, FS_Union
  <2>2. Cardinality(rest \cap own) = 0 /\ Cardinality(rest) \in Nat
    BY <1>2, <1>5, FS_EmptySet, FS_CardinalityType
  <2>3. QED
    BY <1>3, <2>1, <2>2
<1>7. Cardinality(rest) \in Nat
  BY <1>2, FS_CardinalityType
<1>8. QED
  BY <1>4, <1>6, <1>7 DEF SumOver

(* Changing one index changes the sum by as much.                          *)
LEMMA SumOverChange ==
  ASSUME NEW S, IsFiniteSet(S), NEW f \in [S -> Nat], NEW g \in [S -> Nat],
         NEW x \in S, \A y \in S \ {x} : g[y] = f[y]
  PROVE  SumOver(g) = SumOver(f) - f[x] + g[x]
<1>1. Units(g, S \ {x}) = Units(f, S \ {x})
  BY DEF Units
<1>2. /\ SumOver(f) = Cardinality(Units(f, S \ {x})) + f[x]
      /\ SumOver(g) = Cardinality(Units(g, S \ {x})) + g[x]
      /\ Cardinality(Units(f, S \ {x})) \in Nat
  BY SumOverSplit
<1>3. QED
  BY <1>1, <1>2

(* Each index is at most the sum.                                          *)
LEMMA SumOverAtLeast ==
  ASSUME NEW S, IsFiniteSet(S), NEW f \in [S -> Nat], NEW x \in S
  PROVE  f[x] <= SumOver(f)
<1>1. /\ Cardinality(Units(f, S \ {x})) \in Nat
      /\ SumOver(f) = Cardinality(Units(f, S \ {x})) + f[x]
  BY SumOverSplit
<1>2. QED
  BY <1>1

(* The sum of zeros.                                                       *)
LEMMA SumOverZero ==
  ASSUME NEW S, IsFiniteSet(S), NEW f \in [S -> Nat], \A x \in S : f[x] = 0
  PROVE  SumOver(f) = 0
<1>1. Units(f, S) = {}
  BY DEF Units
<1>2. QED
  BY <1>1, FS_EmptySet DEF SumOver

(* The units of two sets without a common index.                           *)
LEMMA UnitsUnion ==
  ASSUME NEW S, NEW T, IsFiniteSet(S), IsFiniteSet(T), S \cap T = {},
         NEW f, \A x \in S \cup T : f[x] \in Nat
  PROVE  Cardinality(Units(f, S \cup T))
           = Cardinality(Units(f, S)) + Cardinality(Units(f, T))
<1> DEFINE left == Units(f, S)
           right == Units(f, T)
<1>1. IsFiniteSet(left) /\ IsFiniteSet(right)
  BY UnitsFinite
<1>2. Units(f, S \cup T) = left \cup right
  BY DEF Units
<1>3. left \cap right = {}
  BY DEF Units
<1>4. Cardinality(left \cup right) = Cardinality(left) + Cardinality(right)
  <2> HIDE DEF left, right
  <2>1. Cardinality(left \cup right)
          = Cardinality(left) + Cardinality(right) - Cardinality(left \cap right)
    BY <1>1, FS_Union
  <2>2. Cardinality(left \cap right) = 0
    BY <1>3, FS_EmptySet
  <2>3. Cardinality(left) \in Nat /\ Cardinality(right) \in Nat
    BY <1>1, FS_CardinalityType
  <2>4. QED
    BY <2>1, <2>2, <2>3
<1>5. QED
  BY <1>2, <1>4

(* The sum of a function over part of its domain, in units.                *)
LEMMA SumOverPart ==
  ASSUME NEW S, NEW f
  PROVE  SumOver([x \in S |-> f[x]]) = Cardinality(Units(f, S))
BY DEF SumOver, Units

(* A sum over two disjoint sets is the sum of the two sums.                *)
LEMMA SumOverUnion ==
  ASSUME NEW S, NEW T, IsFiniteSet(S), IsFiniteSet(T), S \cap T = {},
         NEW f, \A x \in S \cup T : f[x] \in Nat
  PROVE  SumOver([x \in S \cup T |-> f[x]])
           = SumOver([x \in S |-> f[x]]) + SumOver([x \in T |-> f[x]])
BY UnitsUnion, SumOverPart

(* The sum over nothing, and over one index.                               *)
LEMMA SumOverFew ==
  ASSUME NEW f, NEW x, f[x] \in Nat
  PROVE  /\ SumOver([y \in {} |-> f[y]]) = 0
         /\ SumOver([y \in {x} |-> f[y]]) = f[x]
<1>1. SumOver([y \in {} |-> f[y]]) = 0
  <2>1. Units(f, {}) = {}
    BY DEF Units
  <2>2. QED
    BY <2>1, SumOverPart, FS_EmptySet
<1>2. SumOver([y \in {x} |-> f[y]]) = f[x]
  <2>1. Units(f, {x}) = {x} \X (1..f[x])
    BY DEF Units
  <2>2. SumOver([y \in {x} |-> f[y]]) = Cardinality(Units(f, {x}))
    BY SumOverPart
  <2>3. Cardinality({x} \X (1..f[x])) = f[x]
    BY UnitsOfOne
  <2>4. QED
    BY <2>1, <2>2, <2>3
<1>3. QED
  BY <1>1, <1>2

-----------------------------------------------------------------------------
(* A nonempty set of naturals has a least element.                         *)
LEMMA Least ==
  ASSUME NEW T \in SUBSET Nat, T # {}
  PROVE  \E n \in T : \A m \in T : n <= m
<1> DEFINE R == OpToRel(<, Nat)
<1>1. IsWellFoundedOn(R, Nat)
  BY NatLessThanWellFounded
<1>2. \A x, y \in Nat : <<x, y>> \in R <=> x < y
  BY DEF OpToRel
<1> HIDE DEF R
<1>3. PICK n \in T : \A m \in T : ~ (<<m, n>> \in R)
  BY <1>1, WFMin
<1>4. \A m \in T : n \in Nat /\ m \in Nat /\ ~(m < n)
  BY <1>2, <1>3
<1>5. \A m \in T : n <= m
  BY <1>4
<1>6. QED
  BY <1>5

(* If it has an upper bound it has a greatest element as well.             *)
LEMMA Greatest ==
  ASSUME NEW T \in SUBSET Nat, T # {}, NEW limit \in Nat, \A n \in T : n <= limit
  PROVE  \E n \in T : \A m \in T : m <= n
<1> DEFINE room == {limit - n : n \in T}
<1>1. room \in SUBSET Nat /\ room # {}
  <2>1. \A n \in T : limit - n \in Nat
    OBVIOUS
  <2>2. QED
    BY <2>1
<1>2. PICK r \in room : \A s \in room : r <= s
  BY <1>1, Least
<1>3. PICK n \in T : r = limit - n
  BY <1>2
<1>4. \A m \in T : limit - n <= limit - m
  BY <1>2, <1>3
<1>5. \A m \in T : m <= n
  BY <1>4
<1>6. QED
  BY <1>5
=============================================================================
