---------------------------- MODULE NumberFacts ----------------------------
(* Facts about sets of numbers that the proofs of this project rest on.     *)
EXTENDS Integers, Sequences, FiniteSets, FiniteSetsExt, WellFoundedInduction, FiniteSetTheorems,
        SequenceTheorems, TLAPS

(* A set of natural numbers that is not empty has a least member: the       *)
(* numbers are well-founded under <.                                        *)
LEMMA LeastElement ==
    ASSUME NEW S \in SUBSET Nat, S # {}
    PROVE  \E x \in S : \A y \in S : x <= y
  <1> DEFINE R == OpToRel(<, Nat)
  <1>1. \A x, y \in Nat : y < x => <<y, x>> \in R
    BY DEF OpToRel
  <1>2. IsWellFoundedOn(R, Nat)
    BY NatLessThanWellFounded
  <1> HIDE DEF R
  <1>3. PICK x \in S : \A y \in S : <<y, x>> \notin R
    BY <1>2, WFMin
  <1>4. ASSUME NEW y \in S
        PROVE  x <= y
    <2>1. x \in Nat /\ y \in Nat /\ ~(y < x)
      BY <1>1, <1>3
    <2>2. QED
      BY <2>1
  <1>5. QED
    BY <1>4

(* A set of numbers up to a bound that is not empty has a greatest member:  *)
(* the one that is the least away from the bound.                           *)
LEMMA GreatestElement ==
    ASSUME NEW n \in Nat, NEW S \in SUBSET (0..n), S # {}
    PROVE  \E x \in S : \A y \in S : y <= x
  <1> DEFINE Below == {n - x : x \in S}
  <1>1. Below \in SUBSET Nat /\ Below # {}
    <2>1. \A x \in S : x \in Int /\ n - x \in Nat
      OBVIOUS
    <2>2. QED
      BY <2>1
  <1>2. PICK b \in Below : \A c \in Below : b <= c
    BY <1>1, LeastElement
  <1>3. PICK x \in S : b = n - x
    BY <1>2
  <1>4. \A y \in S : n - x <= n - y
    BY <1>2, <1>3
  <1>5. QED
    BY <1>4

(* A finite set of natural numbers has an upper bound: of a smallest set    *)
(* without one, take a member away.                                         *)
LEMMA FiniteBounded ==
    ASSUME NEW S \in SUBSET Nat, IsFiniteSet(S)
    PROVE  \E n \in Nat : S \subseteq 0..n
  <1> DEFINE Bounded(T) == \E n \in Nat : T \subseteq 0..n
             Sizes == {k \in Nat : \E T \in SUBSET Nat :
                          IsFiniteSet(T) /\ Cardinality(T) = k /\ ~Bounded(T)}
  <1>1. SUFFICES Sizes = {}
    BY FS_CardinalityType
  <1>2. SUFFICES ASSUME Sizes # {} PROVE FALSE
    OBVIOUS
  <1>3. PICK k \in Sizes : \A l \in Sizes : k <= l
    BY <1>2, LeastElement
  <1>4. PICK T \in SUBSET Nat : IsFiniteSet(T) /\ Cardinality(T) = k /\ ~Bounded(T)
    BY <1>3
  <1>5. T # {}
    <2>1. {} \subseteq 0..0
      OBVIOUS
    <2>2. QED
      BY <1>4, <2>1
  <1>6. PICK x \in T : TRUE
    BY <1>5
  <1>7. /\ IsFiniteSet(T \ {x}) /\ Cardinality(T \ {x}) = k - 1
        /\ k - 1 \in Nat
    <2>1. Cardinality(T \ {x}) = k - 1 /\ IsFiniteSet(T \ {x})
      BY <1>4, <1>6, FS_RemoveElement
    <2>2. Cardinality(T \ {x}) \in Nat
      BY <2>1, FS_CardinalityType
    <2>3. QED
      BY <2>1, <2>2
  <1>8. Bounded(T \ {x})
    <2>1. ~Bounded(T \ {x}) => k - 1 \in Sizes
      BY <1>7
    <2>2. k \in Nat /\ ~(k <= k - 1)
      OBVIOUS
    <2>3. k - 1 \notin Sizes
      BY <1>3, <2>2
    <2>4. QED
      BY <2>1, <2>3
  <1>9. PICK n \in Nat : T \ {x} \subseteq 0..n
    BY <1>8
  <1>10. T \subseteq 0..(n + x)
    BY <1>6, <1>9
  <1>11. n + x \in Nat
    BY <1>6
  <1>12. QED
    BY <1>4, <1>10, <1>11

(* The values of a function on a finite set are finitely many. *)
LEMMA FiniteImage ==
    ASSUME NEW S, IsFiniteSet(S), NEW f
    PROVE  /\ IsFiniteSet({f[x] : x \in S})
           /\ Cardinality({f[x] : x \in S}) <= Cardinality(S)
  <1> DEFINE T == {f[x] : x \in S}
             g == [x \in S |-> f[x]]
  <1>1. g \in Surjection(S, T)
    BY DEF Surjection
  <1> HIDE DEF g, T
  <1>2. IsFiniteSet(T) /\ Cardinality(T) <= Cardinality(S)
    BY <1>1, FS_Surjection
  <1>3. QED
    BY <1>2 DEF T

(* One more member makes a set larger by one at most. *)
LEMMA OneMore ==
    ASSUME NEW S, IsFiniteSet(S), NEW x
    PROVE  /\ IsFiniteSet(S \cup {x}) /\ Cardinality(S \cup {x}) \in Nat
           /\ Cardinality(S \cup {x}) <= Cardinality(S) + 1
           /\ x \notin S => Cardinality(S \cup {x}) = Cardinality(S) + 1
  <1>1. Cardinality(S) \in Nat
    BY FS_CardinalityType
  <1>2. /\ IsFiniteSet(S \cup {x})
        /\ Cardinality(S \cup {x}) = IF x \in S THEN Cardinality(S)
                                     ELSE Cardinality(S) + 1
    BY FS_AddElement
  <1>3. QED
    BY <1>1, <1>2

LEMMA GreatestOfFinite ==
    ASSUME NEW S \in SUBSET Nat, IsFiniteSet(S), S # {}
    PROVE  \E x \in S : \A y \in S : y <= x
  BY FiniteBounded, GreatestElement

(* A finite set of numbers that is not empty has a greatest: that of those  *)
(* that are not negative, or the nearest to them.                           *)
LEMMA GreatestOfInts ==
    ASSUME NEW S \in SUBSET Int, IsFiniteSet(S), S # {}
    PROVE  \E x \in S : \A y \in S : y <= x
  <1> DEFINE Up == S \cap Nat
             Down == {-y : y \in S}
  <1>1. CASE Up # {}
    <2>1. PICK x \in Up : \A y \in Up : y <= x
      BY <1>1, FS_Subset, GreatestOfFinite
    <2>2. \A y \in S : y <= x
      BY <2>1
    <2>3. QED
      BY <2>1, <2>2
  <1>2. CASE Up = {}
    <2>1. Down \in SUBSET Nat /\ Down # {}
      <3>1. \A y \in S : y \in Int /\ y \notin Nat
        BY <1>2
      <3>2. \A y \in S : -y \in Nat
        BY <3>1
      <3>3. QED
        BY <3>2
    <2>2. PICK d \in Down : \A e \in Down : d <= e
      BY <2>1, LeastElement
    <2>3. PICK x \in S : d = -x
      BY <2>2
    <2>4. \A y \in S : -x <= -y
      BY <2>2, <2>3
    <2>5. QED
      BY <2>4
  <1>3. QED
    BY <1>1, <1>2

LEMMA MaxOfInts ==
    ASSUME NEW S \in SUBSET Int, IsFiniteSet(S), S # {}
    PROVE  Max(S) \in S /\ \A y \in S : y <= Max(S)
  <1>1. PICK x \in S : \A y \in S : y <= x
    BY GreatestOfInts
  <1>2. \A y \in S : x >= y
    BY <1>1
  <1>3. QED
    BY <1>1, <1>2 DEF Max

LEMMA MinOfNats ==
    ASSUME NEW S \in SUBSET Nat, S # {}
    PROVE  Min(S) \in S /\ \A y \in S : Min(S) <= y
  BY LeastElement DEF Min

(* Of two numbers.                                                          *)
LEMMA GreaterOfTwo ==
    ASSUME NEW a \in Int, NEW b \in Int
    PROVE  Max({a, b}) = IF a >= b THEN a ELSE b
  <1>1. IsFiniteSet({a, b})
    <2>1. IsFiniteSet({a}) /\ IsFiniteSet({b}) /\ {a, b} = {a} \cup {b}
      BY FS_Singleton
    <2>2. QED
      BY <2>1, FS_Union
  <1>2. PICK T : T = {a, b}
    OBVIOUS
  <1>3. Max(T) \in T /\ \A y \in T : y <= Max(T)
    BY <1>1, <1>2, MaxOfInts
  <1>4. QED
    BY <1>2, <1>3

LEMMA LesserOfTwo ==
    ASSUME NEW a \in Nat, NEW b \in Nat
    PROVE  Min({a, b}) = IF a <= b THEN a ELSE b
  <1>1. PICK T : T = {a, b}
    OBVIOUS
  <1>2. Min(T) \in T /\ \A y \in T : Min(T) <= y
    BY <1>1, MinOfNats
  <1>3. QED
    BY <1>1, <1>2

-----------------------------------------------------------------------------
(* Sums over finite sets.                                                   *)

(* The sum of the values of a function over a set: the operator that the    *)
(* models use, on a function.                                               *)
SumOf(f, S) == MapThenSumSet(LAMBDA x : f[x], S)

(* What the operator is made of: a table of the sums over the subsets.      *)
AnyOf(T) == CHOOSE x \in T : TRUE

SumTable(f, S, g) ==
    g = [T \in SUBSET S |-> IF T = {} THEN 0 ELSE f[AnyOf(T)] + g[T \ {AnyOf(T)}]]

LEMMA SumIsTable ==
    ASSUME NEW f, NEW S
    PROVE  SumOf(f, S) = (CHOOSE g : SumTable(f, S, g))[S]
  BY DEF SumOf, MapThenSumSet, MapThenFoldSet, AnyOf, SumTable

LEMMA AnyOfMember ==
    ASSUME NEW T, T # {}
    PROVE  AnyOf(T) \in T
  BY DEF AnyOf

(* The table of a finite set exists: it is filled by size.                  *)
LEMMA TableExists ==
    ASSUME NEW S, IsFiniteSet(S), NEW f
    PROVE  \E g : SumTable(f, S, g)
  <1> DEFINE Upto(n) == {T \in SUBSET S : Cardinality(T) <= n}
             Filled(n, g) == g = [T \in Upto(n) |-> IF T = {} THEN 0
                                     ELSE f[AnyOf(T)] + g[T \ {AnyOf(T)}]]
             Missing == {n \in Nat : ~\E g : Filled(n, g)}
  <1>1. \A T \in SUBSET S : IsFiniteSet(T) /\ Cardinality(T) \in Nat
    BY FS_Subset, FS_CardinalityType
  <1>2. \A T \in SUBSET S : T # {} =>
           /\ T \ {AnyOf(T)} \in SUBSET S
           /\ Cardinality(T \ {AnyOf(T)}) = Cardinality(T) - 1
    BY <1>1, AnyOfMember, FS_RemoveElement
  <1>3. \E g : Filled(0, g)
    <2>1. \A T \in Upto(0) : T = {}
      BY <1>1, FS_EmptySet
    <2>2. Filled(0, [T \in Upto(0) |-> 0])
      BY <2>1
    <2>3. QED
      BY <2>2
  <1>4. ASSUME NEW n \in Nat, \E g : Filled(n, g)
        PROVE  \E g : Filled(n + 1, g)
    <2>1. PICK g : Filled(n, g)
      BY <1>4
    <2> DEFINE h == [T \in Upto(n + 1) |-> IF T = {} THEN 0
                        ELSE f[AnyOf(T)] + g[T \ {AnyOf(T)}]]
    <2>2. Upto(n) \subseteq Upto(n + 1)
      BY <1>1
    <2>3. \A T \in Upto(n) : h[T] = g[T]
      <3>1. \A T \in Upto(n) : g[T] = IF T = {} THEN 0
                                      ELSE f[AnyOf(T)] + g[T \ {AnyOf(T)}]
        BY <2>1
      <3>2. \A T \in Upto(n) : h[T] = IF T = {} THEN 0
                                      ELSE f[AnyOf(T)] + g[T \ {AnyOf(T)}]
        BY <2>2
      <3>3. QED
        BY <3>1, <3>2
    <2>4. \A T \in Upto(n + 1) : T # {} => T \ {AnyOf(T)} \in Upto(n)
      BY <1>1, <1>2
    <2>5. h = [T \in Upto(n + 1) |-> IF T = {} THEN 0
                  ELSE f[AnyOf(T)] + h[T \ {AnyOf(T)}]]
      BY <2>3, <2>4
    <2>6. QED
      BY <2>5
  <1>5. Missing = {}
    <2>1. SUFFICES ASSUME Missing # {} PROVE FALSE
      OBVIOUS
    <2>2. PICK n \in Missing : \A m \in Missing : n <= m
      BY <2>1, LeastElement
    <2> HIDE DEF Filled
    <2>3. n # 0
      BY <1>3
    <2>4. PICK m \in Nat : n = m + 1 /\ ~(n <= m)
      <3>1. n - 1 \in Nat /\ n = (n - 1) + 1 /\ ~(n <= n - 1)
        BY <2>3
      <3>2. QED
        BY <3>1
    <2>5. \E g : Filled(m, g)
      BY <2>2, <2>4
    <2>6. \E g : Filled(m + 1, g)
      BY <1>4, <2>5
    <2>7. QED
      BY <2>2, <2>4, <2>6
  <1>6. Cardinality(S) \in Nat
    BY FS_CardinalityType
  <1>7. PICK g : Filled(Cardinality(S), g)
    BY <1>5, <1>6
  <1>8. Upto(Cardinality(S)) = SUBSET S
    BY FS_Subset
  <1>9. SumTable(f, S, g)
    BY <1>7, <1>8 DEF SumTable
  <1>10. QED
    BY <1>9

(* The table of a finite set, with the sum of each of its subsets.          *)
LEMMA TableOfSums ==
    ASSUME NEW S, IsFiniteSet(S), NEW f
    PROVE  \E g : SumTable(f, S, g) /\ SumOf(f, S) = g[S]
  <1>1. SumTable(f, S, CHOOSE g : SumTable(f, S, g))
    BY TableExists
  <1>2. QED
    BY <1>1, SumIsTable

(* The table of a subset agrees with that of the set: the least entry in    *)
(* which they differ would be made of one in which they do not.             *)
LEMMA TablesAgree ==
    ASSUME NEW S, IsFiniteSet(S), NEW R \in SUBSET S,
           NEW f, NEW e, \A x \in R : f[x] = e[x],
           NEW g, SumTable(f, S, g), NEW h, SumTable(e, R, h)
    PROVE  g[R] = h[R]
  <1> DEFINE Odd == {U \in SUBSET R : g[U] # h[U]}
             Sizes == {Cardinality(U) : U \in Odd}
  <1>1. \A U \in SUBSET R : IsFiniteSet(U) /\ Cardinality(U) \in Nat
    BY FS_Subset, FS_CardinalityType
  <1>2. SUFFICES ASSUME Odd # {} PROVE FALSE
    OBVIOUS
  <1>3. Sizes \in SUBSET Nat /\ Sizes # {}
    BY <1>1, <1>2
  <1>4. PICK k \in Sizes : \A l \in Sizes : k <= l
    BY <1>3, LeastElement
  <1>5. PICK U \in Odd : Cardinality(U) = k
    BY <1>4
  <1>6. /\ g[U] = IF U = {} THEN 0 ELSE f[AnyOf(U)] + g[U \ {AnyOf(U)}]
        /\ h[U] = IF U = {} THEN 0 ELSE e[AnyOf(U)] + h[U \ {AnyOf(U)}]
    <2>1. U \in SUBSET S /\ U \in SUBSET R
      OBVIOUS
    <2>2. QED
      BY <2>1 DEF SumTable
  <1>7. U # {}
    BY <1>6
  <1> DEFINE V == U \ {AnyOf(U)}
  <1>8. AnyOf(U) \in U
    BY <1>7, AnyOfMember
  <1>9. V \in SUBSET R /\ Cardinality(V) = k - 1 /\ k \in Nat
    BY <1>1, <1>5, <1>8, FS_RemoveElement
  <1>10. V \notin Odd
    <2>1. ~(k <= k - 1)
      BY <1>9
    <2>2. V \in Odd => Cardinality(V) \in Sizes
      OBVIOUS
    <2>3. QED
      BY <1>4, <1>9, <2>1, <2>2
  <1>11. g[V] = h[V]
    BY <1>9, <1>10
  <1>12. f[AnyOf(U)] = e[AnyOf(U)]
    BY <1>8
  <1>13. QED
    BY <1>6, <1>7, <1>11, <1>12

(* A sum sees of a function only its values on the set.                     *)
LEMMA SumAgrees ==
    ASSUME NEW S, IsFiniteSet(S), NEW f, NEW e, \A x \in S : f[x] = e[x]
    PROVE  SumOf(f, S) = SumOf(e, S)
  <1>1. PICK g : SumTable(f, S, g) /\ SumOf(f, S) = g[S]
    BY TableOfSums
  <1>2. PICK h : SumTable(e, S, h) /\ SumOf(e, S) = h[S]
    BY TableOfSums
  <1>3. g[S] = h[S]
    BY <1>1, <1>2, TablesAgree
  <1>4. QED
    BY <1>1, <1>2, <1>3

(* FoldFunction, of numbers, is the sum of NumberFacts. *)
LEMMA FoldIsSum ==
    ASSUME NEW S, NEW f, DOMAIN f = S
    PROVE  FoldFunction(+, 0, f) = SumOf(f, S)
  BY DEF FoldFunction, FoldFunctionOnSet, SumOf, MapThenSumSet

LEMMA SumOfNone ==
    ASSUME NEW f
    PROVE  SumOf(f, {}) = 0
  <1>1. PICK g : SumTable(f, {}, g) /\ SumOf(f, {}) = g[{}]
    BY TableOfSums, FS_EmptySet
  <1>2. QED
    BY <1>1 DEF SumTable

(* A sum is one value and the sum of the rest.                              *)
LEMMA SumUnfolds ==
    ASSUME NEW S, IsFiniteSet(S), S # {}, NEW f
    PROVE  SumOf(f, S) = f[AnyOf(S)] + SumOf(f, S \ {AnyOf(S)})
  <1> DEFINE R == S \ {AnyOf(S)}
  <1>1. PICK g : SumTable(f, S, g) /\ SumOf(f, S) = g[S]
    BY TableOfSums
  <1>2. IsFiniteSet(R)
    BY FS_RemoveElement
  <1>3. PICK h : SumTable(f, R, h) /\ SumOf(f, R) = h[R]
    BY <1>2, TableOfSums
  <1>4. g[R] = h[R]
    <2>1. PICK e : e = f
      OBVIOUS
    <2>2. R \in SUBSET S /\ \A x \in R : f[x] = e[x]
      BY <2>1
    <2>3. SumTable(f, S, g) /\ SumTable(e, R, h)
      BY <1>1, <1>3, <2>1
    <2> HIDE DEF R
    <2>4. QED
      BY <2>2, <2>3, TablesAgree
  <1>5. g[S] = f[AnyOf(S)] + g[R]
    <2>1. S \in SUBSET S
      OBVIOUS
    <2>2. QED
      BY <1>1, <2>1 DEF SumTable
  <1>6. QED
    BY <1>1, <1>3, <1>4, <1>5

(* A least counterexample by size: how the facts below are proved.          *)
LEMMA SmallestOf ==
    ASSUME NEW Family, Family # {},
           \A T \in Family : IsFiniteSet(T)
    PROVE  \E T \in Family : \A U \in Family : ~(Cardinality(U) < Cardinality(T))
  <1> DEFINE Sizes == {Cardinality(T) : T \in Family}
  <1>1. Sizes \in SUBSET Nat /\ Sizes # {}
    BY FS_CardinalityType
  <1>2. PICK k \in Sizes : \A l \in Sizes : k <= l
    BY <1>1, LeastElement
  <1>3. PICK T \in Family : Cardinality(T) = k
    BY <1>2
  <1>4. ASSUME NEW U \in Family
        PROVE  ~(Cardinality(U) < Cardinality(T))
    <2>1. Cardinality(U) \in Nat /\ k \in Nat /\ k <= Cardinality(U)
      BY <1>1, <1>2
    <2>2. QED
      BY <1>3, <2>1
  <1>5. QED
    BY <1>4

LEMMA RemovingIsSmaller ==
    ASSUME NEW S, IsFiniteSet(S), NEW x \in S
    PROVE  IsFiniteSet(S \ {x}) /\ Cardinality(S \ {x}) < Cardinality(S)
  <1>1. Cardinality(S) \in Nat
    BY FS_CardinalityType
  <1>2. IsFiniteSet(S \ {x}) /\ Cardinality(S \ {x}) = Cardinality(S) - 1
    BY FS_RemoveElement
  <1>3. QED
    BY <1>1, <1>2

LEMMA SumIsInt ==
    ASSUME NEW S, IsFiniteSet(S), NEW f, \A x \in S : f[x] \in Int
    PROVE  SumOf(f, S) \in Int
  <1> DEFINE Odd == {T \in SUBSET S : SumOf(f, T) \notin Int}
  <1>1. \A T \in SUBSET S : IsFiniteSet(T)
    BY FS_Subset
  <1>2. SUFFICES ASSUME Odd # {} PROVE FALSE
    OBVIOUS
  <1>3. PICK T \in Odd : \A U \in Odd : ~(Cardinality(U) < Cardinality(T))
    BY <1>1, <1>2, SmallestOf
  <1>4. T # {}
    BY <1>3, SumOfNone
  <1>5. AnyOf(T) \in T
    BY <1>4, AnyOfMember
  <1>6. T \ {AnyOf(T)} \in SUBSET S
    OBVIOUS
  <1>7. Cardinality(T \ {AnyOf(T)}) < Cardinality(T)
    BY <1>1, <1>5, RemovingIsSmaller
  <1>8. SumOf(f, T \ {AnyOf(T)}) \in Int
    BY <1>3, <1>6, <1>7
  <1>9. SumOf(f, T) = f[AnyOf(T)] + SumOf(f, T \ {AnyOf(T)})
    BY <1>1, <1>4, SumUnfolds
  <1>10. f[AnyOf(T)] \in Int
    BY <1>5
  <1>11. SumOf(f, T) \in Int
    BY <1>8, <1>9, <1>10
  <1>12. QED
    BY <1>11

(* Any member may be taken first: what makes the order of choice no matter. *)
LEMMA SumWithout ==
    ASSUME NEW S, IsFiniteSet(S), NEW f, \A y \in S : f[y] \in Int, NEW x \in S
    PROVE  SumOf(f, S) = SumOf(f, S \ {x}) + f[x]
  <1> DEFINE Odd == {T \in SUBSET S : \E y \in T :
                        SumOf(f, T) # SumOf(f, T \ {y}) + f[y]}
  <1>1. \A T \in SUBSET S : IsFiniteSet(T)
    BY FS_Subset
  <1>2. SUFFICES ASSUME Odd # {} PROVE FALSE
    OBVIOUS
  <1>3. PICK T \in Odd : \A U \in Odd : ~(Cardinality(U) < Cardinality(T))
    BY <1>1, <1>2, SmallestOf
  <1>4. PICK y \in T : SumOf(f, T) # SumOf(f, T \ {y}) + f[y]
    BY <1>3
  <1>5. PICK z : z = AnyOf(T) /\ z \in T
    BY AnyOfMember
  <1>6. SumOf(f, T) = f[z] + SumOf(f, T \ {z})
    BY <1>1, <1>5, SumUnfolds
  <1>7. PICK A : A = T \ {y}
    OBVIOUS
  <1>8. PICK B : B = T \ {z}
    OBVIOUS
  <1>9. f[y] \in Int /\ f[z] \in Int
    BY <1>5
  <1>10. /\ A \in SUBSET S /\ B \in SUBSET S
         /\ IsFiniteSet(A) /\ IsFiniteSet(B)
    BY <1>1, <1>7, <1>8
  <1>11. A \notin Odd /\ B \notin Odd
    BY <1>1, <1>3, <1>5, <1>7, <1>8, RemovingIsSmaller
  <1>12. SumOf(f, A) \in Int /\ SumOf(f, B) \in Int
    BY <1>10, SumIsInt
  <1>13. y # z
    <2>1. SumOf(f, T) = SumOf(f, B) + f[z]
      BY <1>6, <1>8, <1>9, <1>12
    <2>2. QED
      BY <1>4, <1>8, <2>1
  <1>14. z \in A /\ y \in B
    BY <1>5, <1>7, <1>8, <1>13
  <1>15. PICK C : C = A \ {z} /\ C = B \ {y}
    BY <1>7, <1>8
  <1>16. SumOf(f, A) = SumOf(f, C) + f[z] /\ SumOf(f, B) = SumOf(f, C) + f[y]
    BY <1>10, <1>11, <1>14, <1>15
  <1>17. SumOf(f, C) \in Int
    <2>1. C \in SUBSET S /\ IsFiniteSet(C)
      BY <1>1, <1>10, <1>15
    <2>2. QED
      BY <2>1, SumIsInt
  <1>18. SumOf(f, T) = SumOf(f, A) + f[y]
    BY <1>6, <1>8, <1>9, <1>16, <1>17
  <1>19. QED
    BY <1>4, <1>7, <1>18

(* One more member adds its value.                                          *)
LEMMA SumWith ==
    ASSUME NEW S, IsFiniteSet(S), NEW f, \A y \in S : f[y] \in Int,
           NEW x, x \notin S, f[x] \in Int
    PROVE  SumOf(f, S \cup {x}) = SumOf(f, S) + f[x]
  <1>1. PICK T : T = S \cup {x}
    OBVIOUS
  <1>2. IsFiniteSet(T) /\ (\A y \in T : f[y] \in Int) /\ x \in T /\ T \ {x} = S
    BY <1>1, FS_AddElement
  <1>3. QED
    BY <1>1, <1>2, SumWithout

(* f and g differ at x only.                                                *)
DifferAt(S, f, g, x) ==
    /\ x \in S /\ g[x] \in Int
    /\ \A y \in S : f[y] \in Int
    /\ \A y \in S : y # x => g[y] = f[y]

(* A sum sees a change of one value as the change of that value.            *)
LEMMA SumChanges ==
    ASSUME NEW S, IsFiniteSet(S), NEW f, NEW g, NEW x, DifferAt(S, f, g, x)
    PROVE  SumOf(g, S) = SumOf(f, S) - f[x] + g[x]
  <1> USE DEF DifferAt
  <1>1. SumOf(f, S) = SumOf(f, S \ {x}) + f[x]
    BY SumWithout
  <1>2. SumOf(g, S) = SumOf(g, S \ {x}) + g[x]
    <2>1. \A y \in S : g[y] \in Int
      OBVIOUS
    <2>2. QED
      BY <2>1, SumWithout
  <1>3. IsFiniteSet(S \ {x}) /\ \A y \in S \ {x} : f[y] = g[y] /\ f[y] \in Int
    BY FS_RemoveElement
  <1>4. SumOf(f, S \ {x}) = SumOf(g, S \ {x})
    BY <1>3, SumAgrees
  <1>5. SumOf(f, S \ {x}) \in Int
    BY <1>3, SumIsInt
  <1>6. QED
    BY <1>1, <1>2, <1>4, <1>5

(* The sum of two functions is the sum of their sums.                       *)
LEMMA SumAdds ==
    ASSUME NEW S, IsFiniteSet(S), NEW f, NEW g, NEW h,
           \A x \in S : f[x] \in Int /\ g[x] \in Int /\ h[x] = f[x] + g[x]
    PROVE  SumOf(h, S) = SumOf(f, S) + SumOf(g, S)
  <1> DEFINE Odd == {T \in SUBSET S : SumOf(h, T) # SumOf(f, T) + SumOf(g, T)}
  <1>1. \A T \in SUBSET S : IsFiniteSet(T)
    BY FS_Subset
  <1>2. SUFFICES ASSUME Odd # {} PROVE FALSE
    OBVIOUS
  <1>3. PICK T \in Odd : \A U \in Odd : ~(Cardinality(U) < Cardinality(T))
    BY <1>1, <1>2, SmallestOf
  <1>4. T # {}
    <2>1. SumOf(f, {}) = 0 /\ SumOf(g, {}) = 0 /\ SumOf(h, {}) = 0
      BY SumOfNone
    <2>2. SumOf(h, {}) = SumOf(f, {}) + SumOf(g, {})
      BY <2>1
    <2>3. {} \notin Odd
      BY <2>2
    <2>4. QED
      BY <1>3, <2>3
  <1>5. PICK x \in T : TRUE
    BY <1>4
  <1>6. PICK R : R = T \ {x} /\ R \in SUBSET S /\ IsFiniteSet(T)
    BY <1>1
  <1>7. R \notin Odd
    BY <1>3, <1>5, <1>6, RemovingIsSmaller
  <1>8. /\ \A y \in T : f[y] \in Int
        /\ \A y \in T : g[y] \in Int
        /\ \A y \in T : h[y] \in Int
    OBVIOUS
  <1>9. /\ SumOf(f, T) = SumOf(f, R) + f[x]
        /\ SumOf(g, T) = SumOf(g, R) + g[x]
        /\ SumOf(h, T) = SumOf(h, R) + h[x]
    BY <1>5, <1>6, <1>8, SumWithout
  <1>10. SumOf(f, R) \in Int /\ SumOf(g, R) \in Int
    BY <1>1, <1>6, SumIsInt
  <1>11. h[x] = f[x] + g[x] /\ f[x] \in Int /\ g[x] \in Int
    BY <1>5
  <1>12. SumOf(h, R) = SumOf(f, R) + SumOf(g, R)
    BY <1>6, <1>7
  <1>13. SumOf(h, T) = SumOf(f, T) + SumOf(g, T)
    BY <1>9, <1>10, <1>11, <1>12
  <1>14. QED
    BY <1>3, <1>13

(* Larger values have the larger sum.                                       *)
LEMMA SumGrows ==
    ASSUME NEW S, IsFiniteSet(S), NEW f, NEW g,
           \A x \in S : f[x] \in Int /\ g[x] \in Int /\ f[x] <= g[x]
    PROVE  SumOf(f, S) <= SumOf(g, S)
  <1> DEFINE Odd == {T \in SUBSET S : ~(SumOf(f, T) <= SumOf(g, T))}
  <1>1. \A T \in SUBSET S : IsFiniteSet(T)
    BY FS_Subset
  <1>2. SUFFICES ASSUME Odd # {} PROVE FALSE
    OBVIOUS
  <1>3. PICK T \in Odd : \A U \in Odd : ~(Cardinality(U) < Cardinality(T))
    BY <1>1, <1>2, SmallestOf
  <1>4. T # {}
    <2>1. SumOf(f, {}) = 0 /\ SumOf(g, {}) = 0
      BY SumOfNone
    <2>2. SumOf(f, {}) <= SumOf(g, {})
      BY <2>1
    <2>3. {} \notin Odd
      BY <2>2
    <2>4. QED
      BY <1>3, <2>3
  <1>5. PICK x \in T : TRUE
    BY <1>4
  <1>6. PICK R : R = T \ {x} /\ R \in SUBSET S /\ IsFiniteSet(T)
    BY <1>1
  <1>7. R \notin Odd
    BY <1>3, <1>5, <1>6, RemovingIsSmaller
  <1>8. /\ \A y \in T : f[y] \in Int
        /\ \A y \in T : g[y] \in Int
    OBVIOUS
  <1>9. /\ SumOf(f, T) = SumOf(f, R) + f[x]
        /\ SumOf(g, T) = SumOf(g, R) + g[x]
    BY <1>5, <1>6, <1>8, SumWithout
  <1>10. SumOf(f, R) \in Int /\ SumOf(g, R) \in Int
    BY <1>1, <1>6, SumIsInt
  <1>11. f[x] <= g[x] /\ f[x] \in Int /\ g[x] \in Int
    BY <1>5
  <1>12. SumOf(f, R) <= SumOf(g, R)
    BY <1>6, <1>7
  <1>13. SumOf(f, T) <= SumOf(g, T)
    BY <1>9, <1>10, <1>11, <1>12
  <1>14. QED
    BY <1>3, <1>13

(* Members whose value is zero may be left out.                             *)
LEMMA SumNarrows ==
    ASSUME NEW S, IsFiniteSet(S), NEW A \in SUBSET S, NEW f,
           \A x \in S : f[x] \in Int, \A x \in S \ A : f[x] = 0
    PROVE  SumOf(f, S) = SumOf(f, A)
  <1> DEFINE Odd == {T \in SUBSET S : A \subseteq T /\ SumOf(f, T) # SumOf(f, A)}
  <1>1. \A T \in SUBSET S : IsFiniteSet(T)
    BY FS_Subset
  <1>2. SUFFICES ASSUME Odd # {} PROVE FALSE
    OBVIOUS
  <1>3. PICK T \in Odd : \A U \in Odd : ~(Cardinality(U) < Cardinality(T))
    BY <1>1, <1>2, SmallestOf
  <1>4. T # A
    BY <1>3
  <1>5. PICK x \in T : x \notin A
    BY <1>3, <1>4
  <1>6. PICK R : R = T \ {x} /\ R \in SUBSET S /\ A \subseteq R /\ IsFiniteSet(T)
    BY <1>1, <1>5
  <1>7. R \notin Odd
    BY <1>3, <1>5, <1>6, RemovingIsSmaller
  <1>8. /\ \A y \in T : f[y] \in Int
        /\ f[x] = 0
    BY <1>5
  <1>9. SumOf(f, T) = SumOf(f, R) + f[x]
    BY <1>5, <1>6, <1>8, SumWithout
  <1>10. SumOf(f, R) \in Int
    BY <1>1, <1>6, SumIsInt
  <1>11. SumOf(f, T) = SumOf(f, R)
    BY <1>8, <1>9, <1>10
  <1>12. QED
    BY <1>3, <1>6, <1>7, <1>11

(* What each of several sources adds up to by itself bounds what they add   *)
(* up to together.                                                          *)
LEMMA SumOfSources ==
    ASSUME NEW S, IsFiniteSet(S), NEW R, IsFiniteSet(R), NEW K \in Nat,
           NEW own \in [R -> [S -> Int]],
           \A p \in R : SumOf(own[p], S) <= K,
           NEW total,
           \A t \in S : total[t] = SumOf([p \in R |-> own[p][t]], R)
    PROVE  SumOf(total, S) <= K * Cardinality(R)
  <1> DEFINE Part(Q) == [t \in S |-> SumOf([p \in R |-> own[p][t]], Q)]
             Odd == {Q \in SUBSET R : ~(SumOf(Part(Q), S) <= K * Cardinality(Q))}
  <1>1. \A Q \in SUBSET R : IsFiniteSet(Q) /\ Cardinality(Q) \in Nat
    BY FS_Subset, FS_CardinalityType
  <1>2. \A Q \in SUBSET R : \A t \in S : Part(Q)[t] \in Int
    <2>1. ASSUME NEW Q \in SUBSET R, NEW t \in S
          PROVE  SumOf([p \in R |-> own[p][t]], Q) \in Int
      BY <1>1, SumIsInt
    <2>2. QED
      BY <2>1
  <1>3. SumOf(total, S) = SumOf(Part(R), S)
    BY SumAgrees
  <1>4. SUFFICES R \notin Odd
    BY <1>3
  <1>5. SUFFICES ASSUME Odd # {} PROVE FALSE
    OBVIOUS
  <1>6. PICK Q \in Odd : \A U \in Odd : ~(Cardinality(U) < Cardinality(Q))
    BY <1>1, <1>5, SmallestOf
  <1>7. Q # {}
    <2>1. \A t \in S : Part({})[t] = 0
      BY SumOfNone
    <2>2. SumOf(Part({}), S) = SumOf(Part({}), {})
      <3>1. PICK f : f = Part({})
        OBVIOUS
      <3>2. PICK A : A = {}
        OBVIOUS
      <3>3. /\ A \in SUBSET S /\ \A t \in S : f[t] \in Int
            /\ \A t \in S \ A : f[t] = 0
        BY <2>1, <3>1, <3>2
      <3>4. SumOf(f, S) = SumOf(f, A)
        BY <3>3, SumNarrows
      <3>5. QED
        BY <3>1, <3>2, <3>4
    <2>3. SumOf(Part({}), S) = 0 /\ Cardinality({}) = 0
      BY <2>2, SumOfNone, FS_EmptySet
    <2>4. {} \notin Odd
      BY <2>3
    <2>5. QED
      BY <1>6, <2>4
  <1>8. PICK p \in Q : TRUE
    BY <1>7
  <1>9. PICK V : V = Q \ {p} /\ V \in SUBSET R
    OBVIOUS
  <1>10. V \notin Odd
    BY <1>1, <1>6, <1>8, <1>9, RemovingIsSmaller
  <1>11. \A t \in S : Part(Q)[t] = Part(V)[t] + own[p][t]
    <2>1. ASSUME NEW t \in S
          PROVE  SumOf([q \in R |-> own[q][t]], Q)
                    = SumOf([q \in R |-> own[q][t]], V) + own[p][t]
      <3>1. PICK f : f = [q \in R |-> own[q][t]]
        OBVIOUS
      <3>2. /\ \A q \in Q : f[q] \in Int
            /\ f[p] = own[p][t]
        BY <1>8, <3>1
      <3>3. SumOf(f, Q) = SumOf(f, V) + f[p]
        BY <1>1, <1>8, <1>9, <3>2, SumWithout
      <3>4. QED
        BY <3>1, <3>2, <3>3
    <2>2. QED
      BY <2>1
  <1>12. PICK f, g : f = Part(Q) /\ g = Part(V)
    OBVIOUS
  <1>13. SumOf(f, S) = SumOf(g, S) + SumOf(own[p], S)
    <2>1. \A t \in S : g[t] \in Int /\ own[p][t] \in Int /\ f[t] = g[t] + own[p][t]
      BY <1>2, <1>8, <1>9, <1>11, <1>12
    <2> HIDE DEF Part, Odd
    <2>2. QED
      BY <2>1, SumAdds
  <1>14. SumOf(g, S) \in Int /\ SumOf(own[p], S) \in Int
    <2>1. \A t \in S : g[t] \in Int
      BY <1>2, <1>9, <1>12
    <2>2. \A t \in S : own[p][t] \in Int
      BY <1>8
    <2>3. QED
      BY <2>1, <2>2, SumIsInt
  <1>15. SumOf(g, S) <= K * Cardinality(V)
    BY <1>9, <1>10, <1>12
  <1>16. Cardinality(V) = Cardinality(Q) - 1 /\ Cardinality(Q) \in Nat
    BY <1>1, <1>8, <1>9, FS_RemoveElement
  <1>17. \A k \in Nat : K * (k - 1) + K = K * k
    OBVIOUS
  <1>18. SumOf(own[p], S) <= K
    BY <1>8
  <1>19. SumOf(f, S) <= K * Cardinality(Q)
    BY <1>13, <1>14, <1>15, <1>16, <1>17, <1>18
  <1>20. QED
    BY <1>6, <1>12, <1>19

LEMMA SumIsZero ==
    ASSUME NEW S, IsFiniteSet(S), NEW f, \A x \in S : f[x] = 0
    PROVE  SumOf(f, S) = 0
  <1>1. PICK A : A = {}
    OBVIOUS
  <1>2. /\ A \in SUBSET S
        /\ \A x \in S : f[x] \in Int
        /\ \A x \in S \ A : f[x] = 0
    BY <1>1
  <1>3. SumOf(f, S) = SumOf(f, A)
    BY <1>2, SumNarrows
  <1>4. QED
    BY <1>1, <1>3, SumOfNone

(* No value of a sum of natural numbers is more than the sum.               *)
LEMMA SumAtLeast ==
    ASSUME NEW S, IsFiniteSet(S), NEW f, \A y \in S : f[y] \in Nat
    PROVE  /\ SumOf(f, S) \in Nat
           /\ \A x \in S : f[x] <= SumOf(f, S)
  <1>1. ASSUME NEW T \in SUBSET S
        PROVE  SumOf(f, T) \in Nat
    <2>1. PICK zero : zero = [y \in T |-> 0]
      OBVIOUS
    <2>2. IsFiniteSet(T) /\ \A y \in T : f[y] \in Int /\ zero[y] \in Int /\ zero[y] <= f[y]
      BY <2>1, FS_Subset
    <2>3. SumOf(zero, T) <= SumOf(f, T)
      BY <2>2, SumGrows
    <2>4. SumOf(zero, T) = 0
      BY <2>1, <2>2, SumIsZero
    <2>5. SumOf(f, T) \in Int
      BY <2>2, SumIsInt
    <2>6. QED
      BY <2>3, <2>4, <2>5
  <1>2. ASSUME NEW x \in S
        PROVE  f[x] <= SumOf(f, S)
    <2>1. SumOf(f, S) = SumOf(f, S \ {x}) + f[x]
      <3>1. \A y \in S : f[y] \in Int
        OBVIOUS
      <3>2. QED
        BY <3>1, SumWithout
    <2>2. SumOf(f, S \ {x}) \in Nat /\ f[x] \in Nat
      BY <1>1
    <2>3. QED
      BY <2>1, <2>2
  <1>3. QED
    BY <1>1, <1>2
(* A part of a sum of natural numbers is no more than the sum.              *)
LEMMA SumOfPart ==
    ASSUME NEW S, IsFiniteSet(S), NEW f, \A y \in S : f[y] \in Nat,
           NEW A \in SUBSET S
    PROVE  SumOf(f, A) \in Nat /\ SumOf(f, A) <= SumOf(f, S)
  <1>1. PICK e : e = [x \in S |-> IF x \in A THEN f[x] ELSE 0]
    OBVIOUS
  <1>2. /\ \A x \in S : f[x] \in Int /\ e[x] \in Int /\ e[x] <= f[x]
        /\ \A x \in S \ A : e[x] = 0
        /\ \A x \in A : e[x] = f[x]
    BY <1>1
  <1>3. IsFiniteSet(A)
    BY FS_Subset
  <1>4. SumOf(e, S) = SumOf(e, A)
    BY <1>2, SumNarrows
  <1>5. SumOf(e, A) = SumOf(f, A)
    BY <1>2, <1>3, SumAgrees
  <1>6. SumOf(e, S) <= SumOf(f, S)
    BY <1>2, SumGrows
  <1>7. SumOf(f, A) \in Nat
    BY <1>3, SumAtLeast
  <1>8. QED
    BY <1>4, <1>5, <1>6, <1>7

(* SumFunction is the sum too.                                              *)
LEMMA SumFunctionIsSum ==
    ASSUME NEW f, NEW S, DOMAIN f = S
    PROVE  SumFunction(f) = SumOf(f, S)
  BY DEF SumFunction, SumFunctionOnSet, FoldFunctionOnSet, SumOf, MapThenSumSet

(* Members by a key: each has one, of K.                                    *)
OfKey(S, key, k) == {x \in S : key[x] = k}

(* What the members of each key add up to is what all of them add up to; a  *)
(* key that nothing has adds nothing.                                       *)
LEMMA SumByKey ==
    ASSUME NEW S, IsFiniteSet(S), NEW K, IsFiniteSet(K),
           NEW key, \A x \in S : key[x] \in K,
           NEW f, \A x \in S : f[x] \in Int,
           NEW total, \A k \in K : total[k] = SumOf(f, OfKey(S, key, k))
    PROVE  SumOf(total, K) = SumOf(f, S)
  <1> DEFINE Part(T) == [k \in K |-> SumOf(f, OfKey(T, key, k))]
             Odd == {T \in SUBSET S : SumOf(Part(T), K) # SumOf(f, T)}
  <1>1. \A T \in SUBSET S : IsFiniteSet(T) /\ \A k \in K : Part(T)[k] \in Int
    <2>1. ASSUME NEW T \in SUBSET S, NEW k \in K
          PROVE  SumOf(f, OfKey(T, key, k)) \in Int
      <3>1. OfKey(T, key, k) \in SUBSET S
        BY DEF OfKey
      <3>2. IsFiniteSet(OfKey(T, key, k)) /\ \A x \in OfKey(T, key, k) : f[x] \in Int
        BY <3>1, FS_Subset
      <3>3. QED
        BY <3>2, SumIsInt
    <2>2. QED
      BY <2>1, FS_Subset
  <1>2. SumOf(total, K) = SumOf(Part(S), K)
    BY SumAgrees
  <1>3. SUFFICES S \notin Odd
    BY <1>2
  <1>4. SUFFICES ASSUME Odd # {} PROVE FALSE
    OBVIOUS
  <1>5. PICK T \in Odd : \A U \in Odd : ~(Cardinality(U) < Cardinality(T))
    BY <1>1, <1>4, SmallestOf
  <1>6. T # {}
    <2>1. \A k \in K : OfKey({}, key, k) = {}
      BY DEF OfKey
    <2>2. PICK g : g = Part({})
      OBVIOUS
    <2>3. \A k \in K : g[k] = 0
      BY <2>1, <2>2, SumOfNone
    <2>4. SumOf(Part({}), K) = 0 /\ SumOf(f, {}) = 0
      BY <2>2, <2>3, SumIsZero, SumOfNone
    <2>5. QED
      BY <1>5, <2>4
  <1>7. PICK x \in T : TRUE
    BY <1>6
  <1>8. PICK R : R = T \ {x} /\ R \in SUBSET S
    OBVIOUS
  <1>9. SumOf(Part(R), K) = SumOf(f, R)
    BY <1>1, <1>5, <1>7, <1>8, RemovingIsSmaller
  <1>10. PICK g, h, y : g = Part(R) /\ h = Part(T) /\ y = key[x]
    OBVIOUS
  <1>11. y \in K /\ f[x] \in Int /\ IsFiniteSet(T)
    BY <1>1, <1>7, <1>10
  <1>12. h[y] = g[y] + f[x]
    <2>1. PICK A, B : A = OfKey(T, key, y) /\ B = OfKey(R, key, y)
      OBVIOUS
    <2>2. x \in A /\ A \in SUBSET S /\ B = A \ {x}
      BY <1>7, <1>8, <1>10, <2>1 DEF OfKey
    <2>3. IsFiniteSet(A) /\ \A z \in A : f[z] \in Int
      BY <2>2, FS_Subset
    <2>4. SumOf(f, A) = SumOf(f, B) + f[x]
      BY <2>2, <2>3, SumWithout
    <2>5. QED
      BY <1>10, <1>11, <2>1, <2>4
  <1>13. \A k \in K : k # y => h[k] = g[k]
    <2>1. \A k \in K : k # y => OfKey(T, key, k) = OfKey(R, key, k)
      BY <1>8, <1>10 DEF OfKey
    <2>2. QED
      BY <1>10, <2>1
  <1>14. \A k \in K : g[k] \in Int /\ h[k] \in Int
    BY <1>1, <1>8, <1>10
  <1>15. DifferAt(K, g, h, y)
    BY <1>11, <1>13, <1>14 DEF DifferAt
  <1>16. SumOf(h, K) = SumOf(g, K) - g[y] + h[y]
    BY <1>15, SumChanges
  <1>17. SumOf(f, T) = SumOf(f, R) + f[x] /\ SumOf(f, R) \in Int
    <2>1. (\A z \in T : f[z] \in Int) /\ (\A z \in R : f[z] \in Int) /\ IsFiniteSet(R)
      BY <1>1, <1>8
    <2>2. QED
      BY <1>7, <1>8, <1>11, <2>1, SumWithout, SumIsInt
  <1>18. SumOf(h, K) = SumOf(f, T)
    BY <1>9, <1>10, <1>11, <1>12, <1>14, <1>16, <1>17
  <1>19. QED
    BY <1>5, <1>10, <1>18

(* The number of members is the sum of one for each.                        *)
LEMMA CountIsSum ==
    ASSUME NEW S, IsFiniteSet(S), NEW f, \A x \in S : f[x] = 1
    PROVE  Cardinality(S) = SumOf(f, S)
  <1> DEFINE Odd == {T \in SUBSET S : Cardinality(T) # SumOf(f, T)}
  <1>1. \A T \in SUBSET S : IsFiniteSet(T) /\ Cardinality(T) \in Nat
    BY FS_Subset, FS_CardinalityType
  <1>2. SUFFICES ASSUME Odd # {} PROVE FALSE
    OBVIOUS
  <1>3. PICK T \in Odd : \A U \in Odd : ~(Cardinality(U) < Cardinality(T))
    BY <1>1, <1>2, SmallestOf
  <1>4. T # {}
    BY <1>3, SumOfNone, FS_EmptySet
  <1>5. PICK x \in T : TRUE
    BY <1>4
  <1>6. PICK R : R = T \ {x} /\ R \in SUBSET S
    OBVIOUS
  <1>7. Cardinality(R) = SumOf(f, R) /\ Cardinality(R) = Cardinality(T) - 1
    BY <1>1, <1>3, <1>5, <1>6, RemovingIsSmaller, FS_RemoveElement
  <1>8. SumOf(f, T) = SumOf(f, R) + f[x]
    <2>1. IsFiniteSet(T) /\ \A z \in T : f[z] \in Int
      BY <1>1
    <2>2. QED
      BY <1>5, <1>6, <2>1, SumWithout
  <1>9. f[x] = 1 /\ Cardinality(T) \in Nat
    BY <1>1, <1>5
  <1>10. QED
    BY <1>3, <1>7, <1>8, <1>9

(* Two sets that have nothing in common.                                    *)
LEMMA CountOfBoth ==
    ASSUME NEW A, IsFiniteSet(A), NEW B, IsFiniteSet(B), A \cap B = {}
    PROVE  /\ Cardinality(A) \in Nat /\ Cardinality(B) \in Nat
           /\ Cardinality(A \cup B) = Cardinality(A) + Cardinality(B)
  <1>1. Cardinality(A) \in Nat /\ Cardinality(B) \in Nat
    BY FS_CardinalityType
  <1>2. Cardinality(A \cup B) = Cardinality(A) + Cardinality(B) - Cardinality(A \cap B)
    BY FS_Union
  <1>3. Cardinality(A \cap B) = 0
    BY FS_EmptySet
  <1>4. QED
    BY <1>1, <1>2, <1>3

-----------------------------------------------------------------------------
(* Remainders.                                                              *)

(* A number has one remainder only. *)
LEMMA OneRemainder ==
    ASSUME NEW T \in Nat \ {0}, NEW n \in Int, NEW q \in Int, NEW r \in 0..(T - 1),
           n = T * q + r
    PROVE  n % T = r
  OBVIOUS

LEMMA Division ==
    ASSUME NEW T \in Nat \ {0}, NEW n \in Int
    PROVE  n \div T \in Int /\ n % T \in 0..(T - 1) /\ n = T * (n \div T) + (n % T)
  <1>1. n % T \in 0..(T - 1)
    OBVIOUS
  <1>2. n = T * (n \div T) + (n % T)
    OBVIOUS
  <1>3. QED
    BY <1>1, <1>2

(* Going on from n by less than a round.                                    *)
LEMMA TurnsAround ==
    ASSUME NEW T \in Nat \ {0}, NEW n \in Nat, NEW i \in 0..(T - 1)
    PROVE  /\ n % T \in 0..(T - 1)
           /\ (n + i) % T = IF (n % T) + i < T THEN (n % T) + i ELSE (n % T) + i - T
  <1>1. PICK q, r : q = n \div T /\ r = n % T
    OBVIOUS
  <1>2. q \in Int /\ r \in 0..(T - 1) /\ n = T * q + r
    BY <1>1, Division
  <1>3. CASE r + i < T
    <2>1. n + i = T * q + (r + i) /\ r + i \in 0..(T - 1)
      BY <1>2, <1>3
    <2>2. n + i \in Int
      BY <1>2
    <2>3. (n + i) % T = r + i
      BY <1>2, <2>1, <2>2, OneRemainder
    <2>4. (n % T) + i = r + i
      BY <1>1
    <2>5. QED
      BY <1>1, <1>2, <1>3, <2>3, <2>4
  <1>4. CASE ~(r + i < T)
    <2>1. n + i = T * (q + 1) + (r + i - T) /\ r + i - T \in 0..(T - 1)
      BY <1>2, <1>4
    <2>2. q + 1 \in Int /\ n + i \in Int
      BY <1>2
    <2>3. (n + i) % T = r + i - T
      BY <2>1, <2>2, OneRemainder
    <2>4. (n % T) + i = r + i
      BY <1>1
    <2>5. QED
      BY <1>1, <1>2, <1>4, <2>3, <2>4
  <1>5. QED
    BY <1>3, <1>4

-----------------------------------------------------------------------------
(* Products. *)

LEMMA Products ==
    ASSUME NEW a \in Nat, NEW b \in Nat, NEW p \in Nat, a <= b
    PROVE  a * p \in Nat /\ b * p \in Nat /\ a * p <= b * p
  OBVIOUS

LEMMA Distributes ==
    ASSUME NEW u \in Int, NEW a \in Int, NEW b \in Int
    PROVE  u * (a + b) = u * a + u * b /\ u * a \in Int /\ u * b \in Int
  OBVIOUS

LEMMA ProductsGrow ==
    ASSUME NEW a \in Int, NEW b \in Int, NEW p \in Nat, a <= b
    PROVE  a * p \in Int /\ b * p \in Int /\ a * p <= b * p
  <1>1. PICK d : d = b - a
    OBVIOUS
  <1>2. d \in Nat /\ b = a + d
    BY <1>1
  <1>3. p * (a + d) = p * a + p * d /\ p * a \in Int
    BY <1>2, Distributes
  <1>4. d * p \in Nat
    BY <1>2, Products
  <1>5. p * d = d * p /\ p * a = a * p /\ p * (a + d) = b * p
    BY <1>2
  <1>6. QED
    BY <1>3, <1>4, <1>5

(* The multiples of a number are what it divides.                           *)
LEMMA Multiples ==
    ASSUME NEW u \in Nat \ {0}, NEW k \in Int
    PROVE  u * k \in Int /\ (u * k) % u = 0
  <1>1. u * k \in Int
    BY Distributes
  <1>2. PICK n : n = u * k
    OBVIOUS
  <1>3. n \in Int /\ n = u * k + 0 /\ 0 \in 0..(u - 1)
    BY <1>1, <1>2
  <1>4. n % u = 0
    BY <1>3, OneRemainder
  <1>5. QED
    BY <1>1, <1>2, <1>4

LEMMA OnMultiple ==
    ASSUME NEW u \in Nat \ {0}, NEW n \in Int, n % u = 0
    PROVE  n \div u \in Int /\ n = u * (n \div u)
  <1>1. n % u \in 0..(u - 1) /\ n = u * (n \div u) + (n % u) /\ n \div u \in Int
    BY Division
  <1>2. u * (n \div u) \in Int
    BY <1>1, Distributes
  <1>3. QED
    BY <1>1, <1>2

(* Division by a positive number keeps the order.                           *)
LEMMA QuotientGrows ==
    ASSUME NEW u \in Nat \ {0}, NEW x \in Int, NEW y \in Int, x <= y
    PROVE  x \div u \in Int /\ y \div u \in Int /\ x \div u <= y \div u
  <1>1. /\ x \div u \in Int /\ x % u \in 0..(u - 1) /\ x = u * (x \div u) + (x % u)
        /\ y \div u \in Int /\ y % u \in 0..(u - 1) /\ y = u * (y \div u) + (y % u)
    BY Division
  <1>2. PICK p, q, r, s : p = x \div u /\ q = y \div u /\ r = x % u /\ s = y % u
    OBVIOUS
  <1>3. ~(q + 1 <= p)
    <2> SUFFICES ASSUME q + 1 <= p PROVE FALSE
      OBVIOUS
    <2>1. PICK d : d = p - q - 1
      OBVIOUS
    <2>2. p \in Int /\ q \in Int /\ d \in Nat /\ p = q + 1 + d
      <3>1. p \in Int /\ q \in Int
        BY <1>1, <1>2
      <3>2. QED
        BY <2>1, <3>1
    <2>3. u * (q + 1 + d) = u * q + u + u * d /\ u * d \in Nat /\ u * q \in Int
      <3>1. q + 1 + d = q + (1 + d) /\ 1 + d \in Int
        BY <2>2
      <3>2. u * (q + (1 + d)) = u * q + u * (1 + d) /\ u * q \in Int
        BY <2>2, <3>1, Distributes
      <3>3. u * (1 + d) = u * 1 + u * d
        BY <2>2, Distributes
      <3>4. u * 1 = u /\ u * d \in Nat
        BY <2>2, Products
      <3>5. QED
        BY <2>2, <3>1, <3>2, <3>3, <3>4
    <2>4. u * p = u * q + u + u * d
      BY <2>2, <2>3
    <2>5. x = u * p + r /\ y = u * q + s /\ r \in 0..(u - 1) /\ s \in 0..(u - 1)
      BY <1>1, <1>2
    <2>6. QED
      BY <2>3, <2>4, <2>5
  <1>4. QED
    BY <1>1, <1>2, <1>3

-----------------------------------------------------------------------------
(* Folds in order.  A fold is a table of the sets of numbers, as of the     *)
(* indices of a sequence: what it has for a set comes from what it has for  *)
(* the set without its greatest number.                                     *)

StepTable(op, base, S, g) ==
    g = [T \in SUBSET S |-> IF T = {} THEN base ELSE op[<<g[T \ {Max(T)}], Max(T)>>]]

LEMMA GreatestTaken ==
    ASSUME NEW S \in SUBSET Int, IsFiniteSet(S), NEW T \in SUBSET S, T # {}
    PROVE  Max(T) \in T /\ T \ {Max(T)} \in SUBSET S
  <1>1. IsFiniteSet(T) /\ T \in SUBSET Int
    BY FS_Subset
  <1>2. QED
    BY <1>1, MaxOfInts

(* The table exists, for steps that are given as a function: it is filled   *)
(* by size.                                                                 *)
LEMMA StepsTable ==
    ASSUME NEW A, NEW D \in SUBSET Int, IsFiniteSet(D),
           NEW op \in [A \X D -> A], NEW base \in A
    PROVE  \E g \in [SUBSET D -> A] : StepTable(op, base, D, g)
  <1> DEFINE Upto(n) == {T \in SUBSET D : Cardinality(T) <= n}
             Filled(n, g) == /\ g \in [Upto(n) -> A]
                             /\ \A T \in Upto(n) : g[T] = IF T = {} THEN base
                                   ELSE op[<<g[T \ {Max(T)}], Max(T)>>]
             Missing == {n \in Nat : ~\E g : Filled(n, g)}
  <1>1. \A T \in SUBSET D : IsFiniteSet(T) /\ Cardinality(T) \in Nat
    BY FS_Subset, FS_CardinalityType
  <1>2. \A T \in SUBSET D : T # {} => /\ Max(T) \in D
                                      /\ T \ {Max(T)} \in SUBSET D
                                      /\ Cardinality(T \ {Max(T)}) = Cardinality(T) - 1
    <2>1. \A T \in SUBSET D : T # {} => Max(T) \in T
      BY GreatestTaken
    <2>2. ASSUME NEW T \in SUBSET D, T # {}
          PROVE  Cardinality(T \ {Max(T)}) = Cardinality(T) - 1
      BY <1>1, <2>1, <2>2, FS_RemoveElement
    <2>3. QED
      BY <2>1, <2>2
  <1>3. \E g : Filled(0, g)
    <2>1. \A T \in Upto(0) : T = {}
      BY <1>1, FS_EmptySet
    <2>2. Filled(0, [T \in Upto(0) |-> base])
      BY <2>1
    <2>3. QED
      BY <2>2
  <1>4. ASSUME NEW n \in Nat, \E g : Filled(n, g)
        PROVE  \E g : Filled(n + 1, g)
    <2>1. PICK g : Filled(n, g)
      BY <1>4
    <2> DEFINE h == [T \in Upto(n + 1) |-> IF T = {} THEN base
                        ELSE op[<<g[T \ {Max(T)}], Max(T)>>]]
    <2>2. Upto(n) \subseteq Upto(n + 1)
      BY <1>1
    <2>3. \A T \in Upto(n + 1) : T # {} => T \ {Max(T)} \in Upto(n)
      <3>1. ASSUME NEW T \in Upto(n + 1), T # {}
            PROVE  T \ {Max(T)} \in SUBSET D /\ Cardinality(T \ {Max(T)}) <= n
        <4>1. T \in SUBSET D /\ Cardinality(T) <= n + 1 /\ Cardinality(T) \in Nat
          BY <1>1
        <4>2. /\ T \ {Max(T)} \in SUBSET D
              /\ Cardinality(T \ {Max(T)}) = Cardinality(T) - 1
          BY <1>2, <3>1, <4>1
        <4>3. QED
          BY <4>1, <4>2
      <3>2. QED
        BY <3>1
    <2>4. \A T \in Upto(n) : h[T] = g[T]
      BY <2>1, <2>2
    <2>5. h \in [Upto(n + 1) -> A]
      <3>1. ASSUME NEW T \in Upto(n + 1)
            PROVE  (IF T = {} THEN base ELSE op[<<g[T \ {Max(T)}], Max(T)>>]) \in A
        <4>1. CASE T = {}
          BY <4>1
        <4>2. CASE T # {}
          <5>1. g[T \ {Max(T)}] \in A /\ Max(T) \in D
            BY <1>2, <2>1, <2>3, <4>2
          <5>2. QED
            BY <4>2, <5>1
        <4>3. QED
          BY <4>1, <4>2
      <3>2. QED
        BY <3>1
    <2>6. \A T \in Upto(n + 1) : h[T] = IF T = {} THEN base
                                       ELSE op[<<h[T \ {Max(T)}], Max(T)>>]
      BY <2>3, <2>4
    <2>7. Filled(n + 1, h)
      BY <2>5, <2>6
    <2>8. QED
      BY <2>7
  <1>5. Missing = {}
    <2>1. SUFFICES ASSUME Missing # {} PROVE FALSE
      OBVIOUS
    <2>2. PICK n \in Missing : \A m \in Missing : n <= m
      BY <2>1, LeastElement
    <2> HIDE DEF Filled
    <2>3. n # 0
      BY <1>3
    <2>4. PICK m \in Nat : n = m + 1 /\ ~(n <= m)
      <3>1. n - 1 \in Nat /\ n = (n - 1) + 1 /\ ~(n <= n - 1)
        BY <2>3
      <3>2. QED
        BY <3>1
    <2>5. \E g : Filled(m, g)
      BY <2>2, <2>4
    <2>6. \E g : Filled(m + 1, g)
      BY <1>4, <2>5
    <2>7. QED
      BY <2>2, <2>4, <2>6
  <1>6. Cardinality(D) \in Nat
    BY <1>1
  <1>7. PICK g : Filled(Cardinality(D), g)
    BY <1>5, <1>6
  <1>8. Upto(Cardinality(D)) = SUBSET D
    BY FS_Subset
  <1>9. g \in [SUBSET D -> A]
    BY <1>7, <1>8
  <1>10. \A T \in SUBSET D : g[T] = IF T = {} THEN base
                                   ELSE op[<<g[T \ {Max(T)}], Max(T)>>]
    BY <1>7, <1>8
  <1>11. g = [T \in SUBSET D |->
                IF T = {} THEN base ELSE op[<<g[T \ {Max(T)}], Max(T)>>]]
    BY <1>9, <1>10
  <1>12. QED
    BY <1>9, <1>11 DEF StepTable

(* What holds of the empty set, and of a set if it does without its         *)
(* greatest number, holds of the whole set.                                 *)
LEMMA StepsStay ==
    ASSUME NEW S \in SUBSET Int, IsFiniteSet(S), NEW Good, {} \in Good,
           \A T \in SUBSET S : T # {} /\ T \ {Max(T)} \in Good => T \in Good
    PROVE  S \in Good
  <1> DEFINE Odd == (SUBSET S) \ Good
  <1>1. \A T \in SUBSET S : IsFiniteSet(T)
    BY FS_Subset
  <1>2. SUFFICES ASSUME Odd # {} PROVE FALSE
    OBVIOUS
  <1>3. PICK T \in Odd : \A U \in Odd : ~(Cardinality(U) < Cardinality(T))
    BY <1>1, <1>2, SmallestOf
  <1>4. T # {} /\ T \in SUBSET S
    OBVIOUS
  <1>5. Max(T) \in T /\ T \ {Max(T)} \in SUBSET S
    BY <1>4, GreatestTaken
  <1>6. Cardinality(T \ {Max(T)}) < Cardinality(T)
    BY <1>1, <1>4, <1>5, RemovingIsSmaller
  <1>7. T \ {Max(T)} \notin Odd
    BY <1>3, <1>6
  <1>8. QED
    BY <1>4, <1>5, <1>7

LEMMA IndexesTaken ==
    ASSUME NEW B, NEW s \in Seq(B)
    PROVE  /\ DOMAIN s \in SUBSET Int /\ IsFiniteSet(DOMAIN s)
           /\ \A i \in DOMAIN s : s[i] \in B
  <1>1. DOMAIN s = 1..Len(s) /\ Len(s) \in Nat /\ \A i \in DOMAIN s : s[i] \in B
    OBVIOUS
  <1>2. IsFiniteSet(1..Len(s)) /\ 1..Len(s) \subseteq Int
    BY <1>1, FS_Interval
  <1>3. QED
    BY <1>1, <1>2

-----------------------------------------------------------------------------
(* Arrangements of a finite set.                                            *)

(* An arrangement of a set, and those that come before one of it.           *)
Arranged(S, order, i, B) ==
    /\ order \in [1..Cardinality(S) -> S]
    /\ \A k, l \in 1..Cardinality(S) : k # l => order[k] # order[l]
    /\ i \in S /\ B \in SUBSET S /\ i \notin B
    /\ \A k, l \in 1..Cardinality(S) : order[k] = i => (order[l] \in B <=> l < k)

(* The place of a member counts those that come before it.                  *)
LEMMA PlaceCounts ==
    ASSUME NEW S, IsFiniteSet(S), NEW order, NEW i, NEW B, Arranged(S, order, i, B)
    PROVE  \E k \in 1..Cardinality(S) : order[k] = i /\ Cardinality(B) = k - 1
  <1> DEFINE n == Cardinality(S)
             Reached == {order[k] : k \in 1..n}
  <1> USE DEF Arranged
  <1>1. n \in Nat
    BY FS_CardinalityType
  <1> HIDE DEF n
  <1>2. IsFiniteSet(1..n) /\ Cardinality(1..n) = n
    BY <1>1, FS_Interval
  <1>3. order \in Bijection(1..n, Reached)
    BY DEF Bijection, Injection, Surjection, IsInjective, n
  <1> HIDE DEF Reached
  <1>4. IsFiniteSet(Reached) /\ Cardinality(Reached) = n
    BY <1>2, <1>3, FS_Bijection DEF ExistsBijection
  <1>5. Reached \subseteq S
    BY DEF n, Reached
  <1>6. Reached = S
    BY <1>4, <1>5, FS_Subset DEF n
  <1>7. PICK k \in 1..n : order[k] = i
    BY <1>6 DEF Reached
  <1>8. \A l \in 1..n : order[l] \in B <=> l < k
    BY <1>7 DEF n
  <1> DEFINE before == [l \in 1..(k - 1) |-> order[l]]
  <1>9. B = {order[l] : l \in 1..(k - 1)}
    <2>1. \A l \in 1..n : l < k <=> l \in 1..(k - 1)
      BY <1>7
    <2>2. 1..(k - 1) \subseteq 1..n
      BY <1>1
    <2>3. \A x \in B : \E l \in 1..n : order[l] = x
      BY <1>6 DEF Reached
    <2>4. QED
      BY <1>8, <2>1, <2>2, <2>3
  <1>10. before \in Bijection(1..(k - 1), B)
    <2>1. 1..(k - 1) \subseteq 1..n
      BY <1>1
    <2>2. QED
      BY <1>9, <2>1 DEF before, Bijection, Injection, Surjection, IsInjective, n
  <1> HIDE DEF before
  <1>11. IsFiniteSet(1..(k - 1)) /\ Cardinality(1..(k - 1)) = k - 1
    BY <1>1, FS_Interval
  <1>12. Cardinality(B) = k - 1
    BY <1>10, <1>11, FS_Bijection DEF ExistsBijection
  <1>13. QED
    BY <1>7, <1>12 DEF n

(* A finite set can be arranged by the numbers its members have: take one   *)
(* with the greatest away, arrange the others, and put it behind them.      *)
Sorted(S, f, s) ==
    /\ s \in [1..Cardinality(S) -> S]
    /\ \A i, j \in 1..Cardinality(S) : i # j => s[i] # s[j]
    /\ \A i, j \in 1..Cardinality(S) : i < j => f[s[i]] <= f[s[j]]

LEMMA GreatestBy ==
    ASSUME NEW S, IsFiniteSet(S), S # {}, NEW f, \A x \in S : f[x] \in Int
    PROVE  \E x \in S : \A y \in S : f[y] <= f[x]
  <1> DEFINE V == {f[x] : x \in S}
  <1>1. IsFiniteSet(V)
    BY FiniteImage
  <1>2. V \in SUBSET Int /\ V # {}
    OBVIOUS
  <1> HIDE DEF V
  <1>3. PICK v \in V : \A u \in V : u <= v
    BY <1>1, <1>2, GreatestOfInts
  <1>4. QED
    BY <1>3 DEF V

LEMMA SortedWithOneMore ==
    ASSUME NEW S, IsFiniteSet(S), NEW f, \A x \in S : f[x] \in Int,
           NEW x \in S, \A y \in S : f[y] <= f[x],
           NEW s, Sorted(S \ {x}, f, s)
    PROVE  \E t : Sorted(S, f, t)
  <1> DEFINE n == Cardinality(S)
             m == Cardinality(S \ {x})
             t == [i \in 1..n |-> IF i = n THEN x ELSE s[i]]
  <1>1. n \in Nat /\ m \in Nat /\ n = m + 1
    <2>1. IsFiniteSet(S \ {x}) /\ m = n - 1
      BY FS_RemoveElement
    <2>2. m \in Nat /\ n \in Nat
      BY <2>1, FS_CardinalityType
    <2>3. QED
      BY <2>1, <2>2
  <1>2. /\ s \in [1..m -> S \ {x}]
        /\ \A i, j \in 1..m : i # j => s[i] # s[j]
        /\ \A i, j \in 1..m : i < j => f[s[i]] <= f[s[j]]
    BY DEF Sorted
  <1> HIDE DEF n, m
  <1>3. \A i \in 1..n : i # n => i \in 1..m /\ t[i] = s[i] /\ t[i] \in S \ {x}
    BY <1>1, <1>2
  <1>4. n \in 1..n /\ t[n] = x
    BY <1>1
  <1>5. t \in [1..n -> S]
    BY <1>3, <1>4
  <1>6. ASSUME NEW i \in 1..n, NEW j \in 1..n, i # j
        PROVE  t[i] # t[j]
    <2>1. CASE i = n
      BY <1>3, <1>4, <1>6, <2>1
    <2>2. CASE j = n
      BY <1>3, <1>4, <1>6, <2>2
    <2>3. CASE i # n /\ j # n
      BY <1>2, <1>3, <1>6, <2>3
    <2>4. QED
      BY <2>1, <2>2, <2>3
  <1>7. ASSUME NEW i \in 1..n, NEW j \in 1..n, i < j
        PROVE  f[t[i]] <= f[t[j]]
    <2>1. i # n
      BY <1>1, <1>7
    <2>2. CASE j = n
      BY <1>3, <1>4, <2>1, <2>2
    <2>3. CASE j # n
      BY <1>2, <1>3, <1>7, <2>1, <2>3
    <2>4. QED
      BY <2>2, <2>3
  <1> HIDE DEF t
  <1>8. Sorted(S, f, t)
    BY <1>5, <1>6, <1>7 DEF Sorted, n
  <1>9. QED
    BY <1>8

LEMMA SortedExists ==
    ASSUME NEW S, IsFiniteSet(S), NEW f, \A x \in S : f[x] \in Int
    PROVE  \E s : Sorted(S, f, s)
  <1> DEFINE Unsorted == {k \in Nat : \E T \in SUBSET S :
                             Cardinality(T) = k /\ ~\E s : Sorted(T, f, s)}
  <1>1. SUFFICES Unsorted = {}
    BY FS_CardinalityType
  <1>2. SUFFICES ASSUME Unsorted # {} PROVE FALSE
    OBVIOUS
  <1>3. PICK k \in Unsorted : \A l \in Unsorted : k <= l
    BY <1>2, LeastElement
  <1>4. PICK T \in SUBSET S : Cardinality(T) = k /\ ~\E s : Sorted(T, f, s)
    BY <1>3
  <1>5. IsFiniteSet(T)
    BY FS_Subset
  <1>6. T # {}
    <2>1. SUFFICES ASSUME T = {} PROVE FALSE
      OBVIOUS
    <2>2. Cardinality(T) = 0
      BY <2>1, FS_EmptySet
    <2>3. Sorted(T, f, [i \in 1..0 |-> 0])
      BY <2>2 DEF Sorted
    <2>4. QED
      BY <1>4, <2>3
  <1>7. PICK x \in T : \A y \in T : f[y] <= f[x]
    BY <1>5, <1>6, GreatestBy
  <1>8. /\ Cardinality(T \ {x}) = k - 1 /\ k - 1 \in Nat /\ T \ {x} \in SUBSET S
    <2>1. IsFiniteSet(T \ {x}) /\ Cardinality(T \ {x}) = k - 1
      BY <1>4, <1>5, FS_RemoveElement
    <2>2. QED
      BY <2>1, FS_CardinalityType
  <1>9. \E s : Sorted(T \ {x}, f, s)
    <2>1. k - 1 \notin Unsorted
      BY <1>3
    <2>2. QED
      BY <1>8, <2>1
  <1>10. QED
    BY <1>4, <1>5, <1>7, <1>9, SortedWithOneMore

(* An arrangement has everything in it. *)
Arrangement(S, s) ==
    /\ s \in [1..Cardinality(S) -> S]
    /\ \A i, j \in 1..Cardinality(S) : i # j => s[i] # s[j]

LEMMA ArrangedAll ==
    ASSUME NEW S, IsFiniteSet(S), NEW s, Arrangement(S, s)
    PROVE  \A x \in S : \E i \in 1..Cardinality(S) : s[i] = x
  <1> DEFINE n == Cardinality(S)
             Reached == {s[i] : i \in 1..n}
  <1>1. n \in Nat
    BY FS_CardinalityType
  <1>2. s \in Bijection(1..n, Reached)
    BY DEF Arrangement, Bijection, Injection, Surjection, IsInjective
  <1>3. Reached \subseteq S
    BY DEF Arrangement
  <1> HIDE DEF Reached
  <1>4. IsFiniteSet(Reached) /\ Cardinality(Reached) = n
    <2> HIDE DEF n
    <2>1. IsFiniteSet(1..n) /\ Cardinality(1..n) = n
      BY <1>1, FS_Interval
    <2>2. QED
      BY <1>2, <2>1, FS_Bijection DEF ExistsBijection
  <1>5. Reached = S
    BY <1>3, <1>4, FS_Subset
  <1>6. QED
    BY <1>5 DEF Reached

(* Numbers that climb from one to the next and leave none out are 1, 2, ... *)
Climbs(n, top, at) ==
    /\ at \in [1..n -> 1..top]
    /\ \A i, j \in 1..n : i < j => at[i] < at[j]
    /\ \A p \in 1..top : \E i \in 1..n : at[i] = p

LEMMA ClimbIsCount ==
    ASSUME NEW n \in Nat, NEW top \in Nat, NEW at, Climbs(n, top, at)
    PROVE  n = top /\ \A i \in 1..n : at[i] = i
  <1> DEFINE Odd == {i \in 1..n : at[i] # i}
  <1> USE DEF Climbs
  <1>1. Odd = {}
    <2>1. SUFFICES ASSUME Odd # {} PROVE FALSE
      OBVIOUS
    <2>2. PICK i \in Odd : \A j \in Odd : i <= j
      <3>1. Odd \in SUBSET Nat
        OBVIOUS
      <3>2. QED
        BY <2>1, <3>1, LeastElement
    <2>3. i \in 1..n /\ at[i] # i /\ at[i] \in 1..top
      OBVIOUS
    <2>4. \A j \in 1..n : j < i => at[j] = j
      BY <2>2, <2>3
    <2>5. at[i] > i
      <3>1. SUFFICES ASSUME at[i] < i PROVE FALSE
        BY <2>3
      <3>2. at[i] \in 1..n
        BY <2>3, <3>1
      <3>3. at[at[i]] = at[i] /\ at[at[i]] < at[i]
        BY <2>3, <2>4, <3>1, <3>2
      <3>4. QED
        BY <2>3, <3>2, <3>3
    <2>6. i \in 1..top
      BY <2>3, <2>5
    <2>7. PICK k \in 1..n : at[k] = i
      BY <2>6
    <2>8. ~(k < i)
      BY <2>4, <2>7, <2>3
    <2>9. ~(i < k)
      BY <2>3, <2>5, <2>7
    <2>10. QED
      BY <2>3, <2>7, <2>8, <2>9
  <1>2. \A i \in 1..n : at[i] = i
    BY <1>1
  <1>3. n <= top
    <2>1. CASE n = 0
      BY <2>1
    <2>2. CASE n # 0
      BY <1>2, <2>2
    <2>3. QED
      BY <2>1, <2>2
  <1>4. top <= n
    <2>1. CASE top = 0
      BY <2>1
    <2>2. CASE top # 0
      BY <1>2, <2>2
    <2>3. QED
      BY <2>1, <2>2
  <1>5. QED
    BY <1>2, <1>3, <1>4

-----------------------------------------------------------------------------
(* Sequences, and folds over them in their order. *)

(* What holds of the empty sequence, and of each that is one longer than    *)
(* one of which it holds, holds of all.                                     *)
LEMMA SequencesStay ==
    ASSUME NEW A, NEW Good, <<>> \in Good,
           \A s \in Seq(A), x \in A : s \in Good => Append(s, x) \in Good
    PROVE  Seq(A) \subseteq Good
  <1> DEFINE Odd == {n \in Nat : \E s \in Seq(A) : Len(s) = n /\ s \notin Good}
  <1>1. SUFFICES Odd = {}
    OBVIOUS
  <1>2. SUFFICES ASSUME Odd # {} PROVE FALSE
    OBVIOUS
  <1>3. PICK n \in Odd : \A m \in Odd : n <= m
    BY <1>2, LeastElement
  <1>4. PICK s \in Seq(A) : Len(s) = n /\ s \notin Good
    BY <1>3
  <1>5. s # <<>>
    BY <1>4
  <1>6. PICK t \in Seq(A), x \in A : s = Append(t, x)
    BY <1>5, SequenceEmptyOrAppend
  <1>7. Len(t) = n - 1 /\ Len(t) \in Nat
    BY <1>4, <1>6
  <1>8. t \in Good
    BY <1>3, <1>7
  <1>9. QED
    BY <1>4, <1>6, <1>8

(* A fold from the left over a sequence, for steps that are given as a      *)
(* function.                                                                *)
OnIndexes(op, A, s) == [x \in A \X DOMAIN s |-> op[<<x[1], s[x[2]]>>]]
StepsOf(op, base, A, s) ==
    (CHOOSE g : StepTable(OnIndexes(op, A, s), base, DOMAIN s, g))[DOMAIN s]

TablesMatch(S, f, g) ==
    /\ f[{}] = g[{}]
    /\ \A T \in SUBSET S : T # {} /\ f[T \ {Max(T)}] = g[T \ {Max(T)}] => f[T] = g[T]
EntriesMatch(S, f, g) == \A T \in SUBSET S : f[T] = g[T]

(* Two tables that say the same of a set if they do of the set without its  *)
(* greatest number say the same of the whole.                               *)
LEMMA StepsAlike ==
    ASSUME NEW S \in SUBSET Int, IsFiniteSet(S), NEW f, NEW g, TablesMatch(S, f, g)
    PROVE  EntriesMatch(S, f, g)
  <1>1. ASSUME NEW D \in SUBSET S PROVE f[D] = g[D]
    <2> DEFINE Good == {T \in SUBSET D : f[T] = g[T]}
    <2>1. D \in SUBSET Int /\ IsFiniteSet(D)
      BY FS_Subset
    <2>2. {} \in Good
      BY DEF TablesMatch
    <2>3. ASSUME NEW T \in SUBSET D, T # {}, T \ {Max(T)} \in Good PROVE T \in Good
      BY <2>3 DEF TablesMatch
    <2> HIDE DEF Good
    <2>4. D \in Good
      BY <2>1, <2>2, <2>3, StepsStay
    <2>5. QED
      BY <2>4 DEF Good
  <1>2. QED
    BY <1>1 DEF EntriesMatch

(* What such a fold has for every set of indices.                           *)
Folded(op, base, A, s, g) ==
    /\ g \in [SUBSET DOMAIN s -> A] /\ g[{}] = base
    /\ \A T \in SUBSET DOMAIN s : T # {} => g[T] = op[<<g[T \ {Max(T)}], s[Max(T)]>>]
    /\ StepsOf(op, base, A, s) = g[DOMAIN s]

LEMMA StepsChosen ==
    ASSUME NEW A, NEW B, NEW op \in [A \X B -> A], NEW base \in A, NEW s \in Seq(B)
    PROVE  \E g : Folded(op, base, A, s, g)
  <1> DEFINE D == DOMAIN s
             at == OnIndexes(op, A, s)
  <1>1. D \in SUBSET Int /\ IsFiniteSet(D) /\ \A i \in D : s[i] \in B
    BY IndexesTaken
  <1>2. at \in [A \X D -> A]
    <2>1. ASSUME NEW x \in A \X D PROVE op[<<x[1], s[x[2]]>>] \in A
      <3>1. <<x[1], s[x[2]]>> \in A \X B
        BY <1>1
      <3>2. QED
        BY <3>1
    <2>2. QED
      BY <2>1 DEF OnIndexes
  <1>3. \A a \in A, i \in D : at[<<a, i>>] = op[<<a, s[i]>>]
    BY DEF OnIndexes
  <1> HIDE DEF D, at
  <1>4. \A T \in SUBSET D : T # {} => Max(T) \in D /\ T \ {Max(T)} \in SUBSET D
    BY <1>1, GreatestTaken
  <1>5. PICK h \in [SUBSET D -> A] : StepTable(at, base, D, h)
    BY <1>1, <1>2, StepsTable
  <1>6. PICK g : g = CHOOSE x : StepTable(at, base, D, x)
    OBVIOUS
  <1>7. StepTable(at, base, D, g)
    BY <1>5, <1>6
  <1>8. /\ g[{}] = base /\ h[{}] = base
        /\ \A T \in SUBSET D : T # {} =>
              /\ g[T] = at[<<g[T \ {Max(T)}], Max(T)>>]
              /\ h[T] = at[<<h[T \ {Max(T)}], Max(T)>>]
    BY <1>5, <1>7 DEF StepTable
  <1>9. \A T \in SUBSET D : g[T] = h[T]
    <2>1. g[{}] = h[{}]
      BY <1>8
    <2>2. ASSUME NEW T \in SUBSET D, T # {}, g[T \ {Max(T)}] = h[T \ {Max(T)}] PROVE g[T] = h[T]
      BY <1>8, <2>2
    <2>3. TablesMatch(D, g, h)
      BY <2>1, <2>2 DEF TablesMatch
    <2>4. EntriesMatch(D, g, h)
      BY <1>1, <2>3, StepsAlike
    <2>5. QED
      BY <2>4 DEF EntriesMatch
  <1>10. \A T \in SUBSET D : g[T] \in A
    BY <1>5, <1>9
  <1>11. g \in [SUBSET D -> A]
    BY <1>7, <1>10 DEF StepTable
  <1>12. \A T \in SUBSET D : T # {} => g[T] = op[<<g[T \ {Max(T)}], s[Max(T)]>>]
    BY <1>3, <1>4, <1>8, <1>10
  <1>13. StepsOf(op, base, A, s) = g[D]
    BY <1>6 DEF StepsOf, D, at
  <1>14. Folded(op, base, A, s, g)
    BY <1>8, <1>11, <1>12, <1>13 DEF Folded, D
  <1>15. QED
    BY <1>14

WellFolded(op, base, A, s) ==
    /\ StepsOf(op, base, A, s) \in A
    /\ s = <<>> => StepsOf(op, base, A, s) = base

(* A fold stays among what its steps return.                                *)
LEMMA StepsTyped ==
    ASSUME NEW A, NEW B, NEW op \in [A \X B -> A], NEW base \in A, NEW s \in Seq(B)
    PROVE  WellFolded(op, base, A, s)
  <1>1. PICK g : Folded(op, base, A, s, g)
    BY StepsChosen
  <1>2. s = <<>> => DOMAIN s = {}
    OBVIOUS
  <1>3. QED
    BY <1>1, <1>2 DEF Folded, WellFolded

(* One step more.                                                           *)
StepTaken(op, base, A, s, x) ==
    /\ StepsOf(op, base, A, <<>>) = base
    /\ StepsOf(op, base, A, s) \in A
    /\ StepsOf(op, base, A, Append(s, x)) = op[<<StepsOf(op, base, A, s), x>>]

(* The fold of a sequence that is one longer takes one step more.           *)
LEMMA StepsUnfold ==
    ASSUME NEW A, NEW B, NEW op \in [A \X B -> A], NEW base \in A, NEW s \in Seq(B), NEW x \in B
    PROVE  StepTaken(op, base, A, s, x)
  <1>1. StepsOf(op, base, A, <<>>) = base
    <2>1. <<>> \in Seq(B) /\ DOMAIN <<>> = {}
      OBVIOUS
    <2>2. PICK e : e = <<>>
      OBVIOUS
    <2>3. e \in Seq(B) /\ DOMAIN e = {}
      BY <2>1, <2>2
    <2>4. PICK g : Folded(op, base, A, e, g)
      BY <2>3, StepsChosen
    <2>5. QED
      BY <2>2, <2>3, <2>4 DEF Folded
  <1>2. PICK t : t = Append(s, x)
    OBVIOUS
  <1>3. /\ t \in Seq(B) /\ DOMAIN s = 1 .. Len(s) /\ Len(s) \in Nat
        /\ DOMAIN t = 1 .. (Len(s) + 1)
        /\ \A i \in DOMAIN s : t[i] = s[i]
        /\ t[Len(s) + 1] = x
    BY <1>2
  <1>4. PICK g : Folded(op, base, A, s, g)
    BY StepsChosen
  <1>5. PICK h : Folded(op, base, A, t, h)
    BY <1>3, StepsChosen
  <1>6. DOMAIN s \in SUBSET Int /\ IsFiniteSet(DOMAIN s) /\ DOMAIN s \in SUBSET DOMAIN t
    BY <1>3, IndexesTaken
  <1>7. \A T \in SUBSET DOMAIN s : T # {} => Max(T) \in DOMAIN s /\ T \ {Max(T)} \in SUBSET DOMAIN s
    BY <1>6, GreatestTaken
  <1>8. ASSUME NEW T \in SUBSET DOMAIN s, T # {}, h[T \ {Max(T)}] = g[T \ {Max(T)}]
        PROVE  h[T] = g[T]
    <2>1. Max(T) \in DOMAIN s /\ T \in SUBSET DOMAIN t
      BY <1>6, <1>7, <1>8
    <2>2. g[T] = op[<<g[T \ {Max(T)}], s[Max(T)]>>]
      BY <1>4, <1>8 DEF Folded
    <2>3. h[T] = op[<<h[T \ {Max(T)}], t[Max(T)]>>]
      BY <1>5, <1>8, <2>1 DEF Folded
    <2>4. QED
      BY <1>3, <1>8, <2>1, <2>2, <2>3
  <1>9. h[DOMAIN s] = g[DOMAIN s]
    <2>1. h[{}] = g[{}]
      BY <1>4, <1>5 DEF Folded
    <2>2. TablesMatch(DOMAIN s, h, g)
      BY <1>8, <2>1 DEF TablesMatch
    <2>3. QED
      BY <1>6, <2>2, StepsAlike DEF EntriesMatch
  <1>10. PICK D : D = DOMAIN t
    OBVIOUS
  <1>11. D \in SUBSET Int /\ IsFiniteSet(D) /\ D # {} /\ D \in SUBSET D
    BY <1>3, <1>10, IndexesTaken
  <1>12. Max(D) = Len(s) + 1
    <2>1. \A n \in D : n <= Len(s) + 1
      BY <1>3, <1>10
    <2>2. Len(s) + 1 \in D
      BY <1>3, <1>10
    <2>3. Max(D) \in D /\ \A n \in D : n <= Max(D)
      BY <1>11, MaxOfInts
    <2>4. PICK m \in Int : m = Max(D)
      BY <1>11, <2>3
    <2>5. m <= Len(s) + 1 /\ Len(s) + 1 <= m
      BY <2>1, <2>2, <2>3, <2>4
    <2>6. QED
      BY <1>3, <2>4, <2>5
  <1>13. D \ {Max(D)} = DOMAIN s
    BY <1>3, <1>10, <1>12
  <1>14. h[D] = op[<<h[DOMAIN s], x>>]
    <2>1. h[D] = op[<<h[D \ {Max(D)}], t[Max(D)]>>]
      BY <1>5, <1>10, <1>11 DEF Folded
    <2>2. QED
      BY <1>3, <1>12, <1>13, <2>1
  <1>15. StepsOf(op, base, A, s) \in A
    BY <1>4 DEF Folded
  <1>16. StepsOf(op, base, A, s) = g[DOMAIN s] /\ StepsOf(op, base, A, t) = h[DOMAIN t]
    BY <1>4, <1>5 DEF Folded
  <1>17. QED
    BY <1>1, <1>2, <1>9, <1>10, <1>14, <1>15, <1>16 DEF StepTaken
=============================================================================
