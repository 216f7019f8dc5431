-------------------------------- MODULE Sums --------------------------------
(***************************************************************************)
(* Lemmas about the sum of a function over a finite set, which the         *)
(* community modules define by a fold that takes the elements in an order  *)
(* of its own: it exists, and the order does not matter.  They rest on the *)
(* induction over the subsets of a finite set that comes first.  At the    *)
(* end, folds with other steps, and those of a sequence from left to right;*)
(* and quotients.                                                          *)
(***************************************************************************)
EXTENDS Integers, Sequences, Functions, WellFoundedInduction, FiniteSetTheorems, TLAPS

(* A set of numbers has a least one.                                       *)
LEMMA LeastNumber ==
    ASSUME NEW T \in SUBSET Nat, T # {}
    PROVE  \E x \in T : \A y \in T : x <= y
<1>1. PICK x \in T : \A y \in T : ~ (<<y, x>> \in OpToRel(<, Nat))
  BY NatLessThanWellFounded, WFMin
<1>2. ASSUME NEW y \in T PROVE x <= y
  <2>1. ~ (y < x)
    BY <1>1 DEF OpToRel
  <2> QED
    BY <2>1
<1> QED
  BY <1>2

(* Removing an element of a finite set leaves one element less.            *)
LEMMA OneLess ==
    ASSUME NEW T, IsFiniteSet(T), NEW x \in T
    PROVE  /\ IsFiniteSet(T \ {x})
           /\ Cardinality(T) \in Nat \ {0}
           /\ Cardinality(T \ {x}) = Cardinality(T) - 1
<1>1. IsFiniteSet(T \ {x}) /\ Cardinality(T \ {x}) = Cardinality(T) - 1
  BY FS_RemoveElement
<1>2. Cardinality(T) \in Nat /\ Cardinality(T \ {x}) \in Nat
  BY <1>1, FS_CardinalityType
<1> QED
  BY <1>1, <1>2

(* Induction over the subsets of a finite set: Q has the set if it has a   *)
(* subset whenever it has what is left of it without any one element.      *)
LEMMA SubsetInduction ==
    ASSUME NEW S, IsFiniteSet(S), NEW Q,
           \A T \in SUBSET S : (\A x \in T : T \ {x} \in Q) => T \in Q
    PROVE  S \in Q
<1> DEFINE Sizes == {Cardinality(T) : T \in (SUBSET S) \ Q}
<1> SUFFICES ASSUME S \notin Q PROVE FALSE
  OBVIOUS
<1>1. \A T \in SUBSET S : IsFiniteSet(T) /\ Cardinality(T) \in Nat
  BY FS_Subset, FS_CardinalityType
<1>2. Sizes \in SUBSET Nat /\ Sizes # {}
  BY <1>1
<1>3. PICK n \in Sizes : \A m \in Sizes : n <= m
  <2> HIDE DEF Sizes
  <2> QED
    BY <1>2, LeastNumber
<1>4. PICK T \in (SUBSET S) \ Q : n = Cardinality(T)
  OBVIOUS
<1>5. PICK x \in T : T \ {x} \notin Q
  OBVIOUS
<1>6. Cardinality(T \ {x}) = n - 1 /\ n \in Nat
  BY <1>1, <1>4, OneLess
<1>7. Cardinality(T \ {x}) \in Sizes
  BY <1>5
<1> HIDE DEF Sizes
<1> QED
  BY <1>3, <1>6, <1>7

(* A finite set of numbers has a last one.                                 *)
LEMMA LastNumber ==
    ASSUME NEW S \in SUBSET Nat, IsFiniteSet(S), S # {}
    PROVE  \E x \in S : \A y \in S : y <= x
<1> DEFINE Q == {T \in SUBSET S : T = {} \/ \E x \in T : \A y \in T : y <= x}
<1>1. ASSUME NEW T \in SUBSET S, \A x \in T : T \ {x} \in Q
      PROVE  T \in Q
  <2> SUFFICES ASSUME T # {} PROVE \E z \in T : \A y \in T : y <= z
    OBVIOUS
  <2>1. PICK x \in T : TRUE
    OBVIOUS
  <2>2. CASE T \ {x} = {}
    BY <2>2
  <2>3. CASE T \ {x} # {}
    <3>1. PICK z \in T \ {x} : \A y \in T \ {x} : y <= z
      BY <1>1, <2>3
    <3>2. x \in Nat /\ z \in Nat
      OBVIOUS
    <3>3. CASE x <= z
      BY <3>1, <3>3
    <3>4. CASE ~ (x <= z)
      <4>1. \A y \in T : y <= x
        BY <3>1, <3>2, <3>4
      <4> QED
        BY <4>1
    <3> QED
      BY <3>3, <3>4
  <2> QED
    BY <2>2, <2>3
<1>2. S \in Q
  <2> HIDE DEF Q
  <2> QED
    BY <1>1, SubsetInduction
<1> QED
  BY <1>2

-----------------------------------------------------------------------------
(* The sum of a set is that of one of its elements and the others.         *)
OneOf(T) == CHOOSE x \in T : TRUE

AddsUp(val, S, f) ==
    f = [T \in SUBSET S |-> IF T = {} THEN 0 ELSE val[OneOf(T)] + f[T \ {OneOf(T)}]]

LEMMA SumForm ==
    ASSUME NEW val, NEW S
    PROVE  SumFunctionOnSet(val, S) = (CHOOSE f : AddsUp(val, S, f))[S]
BY DEF SumFunctionOnSet, FoldFunctionOnSet, MapThenFoldSet, AddsUp, OneOf

LEMMA OneOfIsMember ==
    ASSUME NEW T, T # {}
    PROVE  OneOf(T) \in T
BY DEF OneOf

(* Two functions that add up agree on the subsets they have in common, so  *)
(* that the sum of a set does not depend on the set it is a subset of.     *)
LEMMA SumsAgree ==
    ASSUME NEW val, NEW S, IsFiniteSet(S), NEW f, AddsUp(val, S, f),
           NEW R \in SUBSET S, NEW g, AddsUp(val, R, g)
    PROVE  f[R] = g[R]
<1> DEFINE Q == {T \in SUBSET R : f[T] = g[T]}
<1>1. ASSUME NEW T \in SUBSET R, \A x \in T : T \ {x} \in Q
      PROVE  T \in Q
  <2>1. T \in SUBSET S
    OBVIOUS
  <2>2. /\ f[T] = IF T = {} THEN 0 ELSE val[OneOf(T)] + f[T \ {OneOf(T)}]
        /\ g[T] = IF T = {} THEN 0 ELSE val[OneOf(T)] + g[T \ {OneOf(T)}]
    BY <2>1 DEF AddsUp
  <2>3. T # {} => f[T \ {OneOf(T)}] = g[T \ {OneOf(T)}]
    BY <1>1, OneOfIsMember
  <2> QED
    BY <2>2, <2>3
<1>2. IsFiniteSet(R)
  BY FS_Subset
<1>3. R \in Q
  <2> HIDE DEF Q
  <2> QED
    BY <1>1, <1>2, SubsetInduction
<1> QED
  BY <1>3

(* Such a function exists: those of the smaller subsets together make one. *)
LEMMA SumsExist ==
    ASSUME NEW val, NEW S, IsFiniteSet(S)
    PROVE  \E f : AddsUp(val, S, f)
<1> DEFINE Summed(T) == \E f : AddsUp(val, T, f)
           of(T) == CHOOSE f : AddsUp(val, T, f)
           Q == {R \in SUBSET S : \A T \in SUBSET R : Summed(T)}
<1>1. ASSUME NEW R \in SUBSET S, \A x \in R : R \ {x} \in Q
      PROVE  R \in Q
  <2>1. ASSUME NEW T \in SUBSET R, T # R PROVE Summed(T)
    <3>1. PICK x \in R : x \notin T
      BY <2>1
    <3>2. T \in SUBSET (R \ {x})
      BY <3>1
    <3> QED
      BY <1>1, <3>2
  <2>2. ASSUME NEW T \in SUBSET R, T # R
        PROVE  AddsUp(val, T, of(T)) /\ IsFiniteSet(T)
    <3>1. Summed(T)
      BY <2>1, <2>2
    <3>2. IsFiniteSet(T)
      BY FS_Subset
    <3> QED
      BY <3>1, <3>2
  <2>3. PICK g : g = [T \in SUBSET R |->
                        IF T = {} THEN 0
                        ELSE val[OneOf(T)] + of(T \ {OneOf(T)})[T \ {OneOf(T)}]]
    OBVIOUS
  <2>4. ASSUME NEW T \in SUBSET R, T # R PROVE g[T] = of(T)[T]
    <3>1. AddsUp(val, T, of(T)) /\ IsFiniteSet(T)
      BY <2>2, <2>4
    <3>2. of(T)[T] = IF T = {} THEN 0 ELSE val[OneOf(T)] + of(T)[T \ {OneOf(T)}]
      <4>1. PICK f : f = of(T)
        OBVIOUS
      <4>2. f[T] = IF T = {} THEN 0 ELSE val[OneOf(T)] + f[T \ {OneOf(T)}]
        BY <3>1, <4>1 DEF AddsUp
      <4> QED
        BY <4>1, <4>2
    <3>3. CASE T = {}
      BY <2>3, <3>2, <3>3
    <3>4. CASE T # {}
      <4>1. PICK U : U = T \ {OneOf(T)}
        OBVIOUS
      <4>2. U \in SUBSET T /\ U \in SUBSET R /\ U # R
        BY <3>4, <4>1, OneOfIsMember
      <4>3. AddsUp(val, U, of(U))
        BY <2>2, <4>2
      <4>4. PICK h : h = of(T)
        OBVIOUS
      <4>5. PICK k : k = of(U)
        OBVIOUS
      <4>6. h[U] = k[U]
        BY <3>1, <4>2, <4>3, <4>4, <4>5, SumsAgree
      <4>7. g[T] = val[OneOf(T)] + k[U]
        BY <2>3, <3>4, <4>1, <4>5
      <4>8. h[T] = val[OneOf(T)] + h[U]
        BY <3>2, <3>4, <4>1, <4>4
      <4> QED
        BY <4>4, <4>6, <4>7, <4>8
    <3> QED
      BY <3>3, <3>4
  <2>5. AddsUp(val, R, g)
    <3>1. ASSUME NEW T \in SUBSET R
          PROVE  g[T] = IF T = {} THEN 0 ELSE val[OneOf(T)] + g[T \ {OneOf(T)}]
      <4>1. CASE T = {}
        BY <2>3, <4>1
      <4>2. CASE T # {}
        <5>1. PICK U : U = T \ {OneOf(T)}
          OBVIOUS
        <5>2. U \in SUBSET R /\ U # R
          BY <4>2, <5>1, OneOfIsMember
        <5>3. g[U] = of(U)[U]
          BY <2>4, <5>2
        <5>4. g[T] = val[OneOf(T)] + of(U)[U]
          BY <2>3, <4>2, <5>1
        <5> QED
          BY <4>2, <5>1, <5>3, <5>4
      <4> QED
        BY <4>1, <4>2
    <3>2. g = [T \in SUBSET R |-> g[T]]
      BY <2>3
    <3> HIDE DEF of
    <3> QED
      BY <3>1, <3>2 DEF AddsUp
  <2>6. Summed(R)
    BY <2>5
  <2> HIDE DEF Summed
  <2> QED
    BY <2>1, <2>6
<1>2. S \in Q
  <2> HIDE DEF Q
  <2> QED
    BY <1>1, SubsetInduction
<1> QED
  BY <1>2

LEMMA SumOfNone == ASSUME NEW val PROVE SumFunctionOnSet(val, {}) = 0
<1>1. IsFiniteSet({})
  BY FS_EmptySet
<1>2. PICK f : f = (CHOOSE h : AddsUp(val, {}, h))
  OBVIOUS
<1>3. AddsUp(val, {}, f)
  BY <1>1, <1>2, SumsExist
<1>4. f[{}] = 0
  BY <1>3 DEF AddsUp
<1> QED
  BY <1>2, <1>4, SumForm

LEMMA SumOfSome ==
    ASSUME NEW val, NEW S, IsFiniteSet(S), S # {}
    PROVE  SumFunctionOnSet(val, S) = val[OneOf(S)] + SumFunctionOnSet(val, S \ {OneOf(S)})
<1>1. PICK R : R = S \ {OneOf(S)}
  OBVIOUS
<1>2. IsFiniteSet(R) /\ R \in SUBSET S
  BY <1>1, FS_Subset
<1>3. PICK f : f = (CHOOSE h : AddsUp(val, S, h))
  OBVIOUS
<1>4. PICK g : g = (CHOOSE h : AddsUp(val, R, h))
  OBVIOUS
<1>5. AddsUp(val, S, f) /\ AddsUp(val, R, g)
  BY <1>2, <1>3, <1>4, SumsExist
<1>6. f[R] = g[R]
  BY <1>2, <1>5, SumsAgree
<1>7. f[S] = val[OneOf(S)] + f[R]
  BY <1>1, <1>5 DEF AddsUp
<1> QED
  BY <1>1, <1>3, <1>4, <1>6, <1>7, SumForm

(* A sum of integers is one, and of natural numbers.                       *)
LEMMA SumIsInt ==
    ASSUME NEW val, NEW S, IsFiniteSet(S), \A x \in S : val[x] \in Int
    PROVE  SumFunctionOnSet(val, S) \in Int
<1> DEFINE Q == {T \in SUBSET S : SumFunctionOnSet(val, T) \in Int}
<1>1. ASSUME NEW T \in SUBSET S, \A x \in T : T \ {x} \in Q
      PROVE  T \in Q
  <2>1. CASE T = {}
    BY <2>1, SumOfNone
  <2>2. CASE T # {}
    <3>1. IsFiniteSet(T) /\ OneOf(T) \in T
      BY <2>2, FS_Subset, OneOfIsMember
    <3>2. SumFunctionOnSet(val, T) = val[OneOf(T)] + SumFunctionOnSet(val, T \ {OneOf(T)})
      BY <2>2, <3>1, SumOfSome
    <3>3. SumFunctionOnSet(val, T \ {OneOf(T)}) \in Int
      BY <1>1, <3>1
    <3> QED
      BY <3>1, <3>2, <3>3
  <2> QED
    BY <2>1, <2>2
<1>2. S \in Q
  <2> HIDE DEF Q
  <2> QED
    BY <1>1, SubsetInduction
<1> QED
  BY <1>2

LEMMA SumIsNat ==
    ASSUME NEW val, NEW S, IsFiniteSet(S), \A x \in S : val[x] \in Nat
    PROVE  SumFunctionOnSet(val, S) \in Nat
<1> DEFINE Q == {T \in SUBSET S : SumFunctionOnSet(val, T) \in Nat}
<1>1. ASSUME NEW T \in SUBSET S, \A x \in T : T \ {x} \in Q
      PROVE  T \in Q
  <2>1. CASE T = {}
    BY <2>1, SumOfNone
  <2>2. CASE T # {}
    <3>1. IsFiniteSet(T) /\ OneOf(T) \in T
      BY <2>2, FS_Subset, OneOfIsMember
    <3>2. SumFunctionOnSet(val, T) = val[OneOf(T)] + SumFunctionOnSet(val, T \ {OneOf(T)})
      BY <2>2, <3>1, SumOfSome
    <3>3. SumFunctionOnSet(val, T \ {OneOf(T)}) \in Nat
      BY <1>1, <3>1
    <3> QED
      BY <3>1, <3>2, <3>3
  <2> QED
    BY <2>1, <2>2
<1>2. S \in Q
  <2> HIDE DEF Q
  <2> QED
    BY <1>1, SubsetInduction
<1> QED
  BY <1>2

(* Any element may be taken out first.                                     *)
LEMMA SumWithout ==
    ASSUME NEW val, NEW S, IsFiniteSet(S), \A x \in S : val[x] \in Int, NEW r \in S
    PROVE  SumFunctionOnSet(val, S) = val[r] + SumFunctionOnSet(val, S \ {r})
<1> DEFINE sum(T) == SumFunctionOnSet(val, T)
           Q == {T \in SUBSET S : \A y \in T : sum(T) = val[y] + sum(T \ {y})}
<1>1. ASSUME NEW T \in SUBSET S, \A x \in T : T \ {x} \in Q
      PROVE  T \in Q
  <2> SUFFICES ASSUME NEW y \in T PROVE sum(T) = val[y] + sum(T \ {y})
    OBVIOUS
  <2>1. IsFiniteSet(T)
    BY FS_Subset
  <2>2. PICK x \in T : x = OneOf(T)
    BY OneOfIsMember
  <2>3. sum(T) = val[x] + sum(T \ {x})
    BY <2>1, <2>2, SumOfSome
  <2>4. CASE x = y
    BY <2>3, <2>4
  <2>5. CASE x # y
    <3>1. PICK R : R = (T \ {x}) \ {y}
      OBVIOUS
    <3>2. R = (T \ {y}) \ {x} /\ y \in T \ {x} /\ x \in T \ {y}
      BY <2>5, <3>1
    <3>3. sum(T \ {x}) = val[y] + sum(R)
      BY <1>1, <3>1, <3>2
    <3>4. sum(T \ {y}) = val[x] + sum(R)
      BY <1>1, <3>2
    <3>5. R \in SUBSET S /\ IsFiniteSet(R) /\ \A z \in R : val[z] \in Int
      BY <3>1, FS_Subset
    <3>6. sum(R) \in Int /\ val[x] \in Int /\ val[y] \in Int
      BY <3>5, SumIsInt
    <3> HIDE DEF sum
    <3> QED
      BY <2>3, <3>3, <3>4, <3>6
  <2> QED
    BY <2>4, <2>5
<1>2. S \in Q
  <2> HIDE DEF Q
  <2> QED
    BY <1>1, SubsetInduction
<1> QED
  BY <1>2

(* A set that is split is worth what its parts are worth.                  *)
LEMMA SumOfParts ==
    ASSUME NEW val, NEW S, IsFiniteSet(S), \A x \in S : val[x] \in Int, NEW D \in SUBSET S
    PROVE  SumFunctionOnSet(val, S) = SumFunctionOnSet(val, D) + SumFunctionOnSet(val, S \ D)
<1> DEFINE sum(T) == SumFunctionOnSet(val, T)
           Q == {T \in SUBSET D : sum(S) = sum(T) + sum(S \ T)}
<1>1. \A T \in SUBSET S : IsFiniteSet(T) /\ sum(T) \in Int
  <2> SUFFICES ASSUME NEW T \in SUBSET S PROVE IsFiniteSet(T) /\ sum(T) \in Int
    OBVIOUS
  <2>1. IsFiniteSet(T) /\ \A x \in T : val[x] \in Int
    BY FS_Subset
  <2> QED
    BY <2>1, SumIsInt
<1>2. ASSUME NEW T \in SUBSET D, \A x \in T : T \ {x} \in Q
      PROVE  T \in Q
  <2>1. CASE T = {}
    <3>1. S \ T = S /\ sum(T) = 0
      BY <2>1, SumOfNone
    <3>2. PICK n \in Int : n = sum(S)
      BY <1>1
    <3>3. sum(S \ T) = n
      BY <3>1, <3>2
    <3>4. n = 0 + n
      OBVIOUS
    <3>5. sum(S) = sum(T) + sum(S \ T)
      BY <3>1, <3>2, <3>3, <3>4
    <3> QED
      BY <3>5
  <2>2. CASE T # {}
    <3>1. PICK x \in T : TRUE
      BY <2>2
    <3>2. PICK R : R = T \ {x}
      OBVIOUS
    <3>3. sum(S) = sum(R) + sum(S \ R)
      BY <1>2, <3>2
    <3>4. T \in SUBSET S /\ R \in SUBSET S /\ S \ R \in SUBSET S /\ S \ T \in SUBSET S
      BY <3>2
    <3>5. sum(T) = val[x] + sum(R)
      BY <1>1, <3>2, <3>4, SumWithout
    <3>6. sum(S \ R) = val[x] + sum(S \ T)
      <4>1. x \in S \ R /\ (S \ R) \ {x} = S \ T
        BY <3>2
      <4> QED
        BY <1>1, <3>4, <4>1, SumWithout
    <3>7. sum(R) \in Int /\ sum(S \ T) \in Int /\ val[x] \in Int
      BY <1>1, <3>4
    <3> HIDE DEF sum
    <3> QED
      BY <3>3, <3>5, <3>6, <3>7
  <2> QED
    BY <2>1, <2>2
<1>3. IsFiniteSet(D)
  BY FS_Subset
<1>4. D \in Q
  <2> HIDE DEF Q
  <2> QED
    BY <1>2, <1>3, SubsetInduction
<1> QED
  BY <1>4

(* Where two values make a third, their sums make its sum.                 *)
LEMMA SumOfSums ==
    ASSUME NEW S, IsFiniteSet(S), NEW a, NEW b, NEW c,
           \A x \in S : a[x] \in Int /\ b[x] \in Int /\ c[x] = a[x] + b[x]
    PROVE  SumFunctionOnSet(c, S) = SumFunctionOnSet(a, S) + SumFunctionOnSet(b, S)
<1> DEFINE sum(val, T) == SumFunctionOnSet(val, T)
           Q == {T \in SUBSET S : sum(c, T) = sum(a, T) + sum(b, T)}
<1>1. ASSUME NEW T \in SUBSET S, \A x \in T : T \ {x} \in Q
      PROVE  T \in Q
  <2>1. CASE T = {}
    BY <2>1, SumOfNone
  <2>2. CASE T # {}
    <3>1. PICK x \in T : x = OneOf(T)
      BY <2>2, OneOfIsMember
    <3>2. PICK R : R = T \ {x}
      OBVIOUS
    <3>3. IsFiniteSet(T) /\ IsFiniteSet(R) /\ R \in SUBSET S
      BY <3>2, FS_Subset
    <3>4. sum(c, R) = sum(a, R) + sum(b, R)
      BY <1>1, <3>2
    <3>5. /\ sum(a, T) = a[x] + sum(a, R) /\ sum(b, T) = b[x] + sum(b, R)
          /\ sum(c, T) = c[x] + sum(c, R)
      BY <2>2, <3>1, <3>2, <3>3, SumOfSome
    <3>6. sum(a, R) \in Int /\ sum(b, R) \in Int
      BY <3>3, SumIsInt
    <3>7. a[x] \in Int /\ b[x] \in Int /\ c[x] = a[x] + b[x]
      OBVIOUS
    <3> HIDE DEF sum
    <3> QED
      BY <3>4, <3>5, <3>6, <3>7
  <2> QED
    BY <2>1, <2>2
<1>2. S \in Q
  <2> HIDE DEF Q
  <2> QED
    BY <1>1, SubsetInduction
<1> QED
  BY <1>2

(* Functions that agree on a set have the same sum over it.                *)
LEMMA SumsSame ==
    ASSUME NEW S, IsFiniteSet(S), NEW a, NEW b, \A x \in S : a[x] = b[x] /\ a[x] \in Int
    PROVE  SumFunctionOnSet(a, S) = SumFunctionOnSet(b, S)
<1>1. PICK zero : zero = [x \in S |-> 0]
  OBVIOUS
<1>2. \A x \in S : b[x] \in Int /\ zero[x] \in Int /\ a[x] = b[x] + zero[x]
  BY <1>1
<1>3. SumFunctionOnSet(a, S) = SumFunctionOnSet(b, S) + SumFunctionOnSet(zero, S)
  BY <1>2, SumOfSums
<1>4. \A x \in S : zero[x] = zero[x] + zero[x] /\ zero[x] \in Int
  BY <1>1
<1>5. SumFunctionOnSet(zero, S) = SumFunctionOnSet(zero, S) + SumFunctionOnSet(zero, S)
  BY <1>4, SumOfSums
<1>6. SumFunctionOnSet(b, S) \in Int /\ SumFunctionOnSet(zero, S) \in Int
  BY <1>2, SumIsInt
<1>7. PICK m \in Int, n \in Int : m = SumFunctionOnSet(b, S) /\ n = SumFunctionOnSet(zero, S)
  BY <1>6
<1>8. n = n + n
  BY <1>5, <1>7
<1>9. m + n = m
  BY <1>8
<1> QED
  BY <1>3, <1>7, <1>9

(* What is not less anywhere has no smaller sum.                           *)
LEMMA SumBounds ==
    ASSUME NEW S, IsFiniteSet(S), NEW a, NEW b,
           \A x \in S : a[x] \in Int /\ b[x] \in Int /\ a[x] <= b[x]
    PROVE  SumFunctionOnSet(a, S) <= SumFunctionOnSet(b, S)
<1>1. PICK rest : rest = [x \in S |-> b[x] - a[x]]
  OBVIOUS
<1>2. \A x \in S : a[x] \in Int /\ rest[x] \in Int /\ b[x] = a[x] + rest[x] /\ rest[x] \in Nat
  BY <1>1
<1>3. SumFunctionOnSet(b, S) = SumFunctionOnSet(a, S) + SumFunctionOnSet(rest, S)
  BY <1>2, SumOfSums
<1>4. SumFunctionOnSet(a, S) \in Int
  BY <1>2, SumIsInt
<1>5. SumFunctionOnSet(rest, S) \in Nat
  BY <1>2, SumIsNat
<1>6. PICK m \in Int, n \in Nat :
              m = SumFunctionOnSet(a, S) /\ n = SumFunctionOnSet(rest, S)
  BY <1>4, <1>5
<1>7. m <= m + n
  OBVIOUS
<1> QED
  BY <1>3, <1>6, <1>7

(* The sum of a set is that of its classes.                                *)
Classes(S, class, val, C, total) ==
    /\ \A x \in S : class[x] \in C /\ val[x] \in Int
    /\ \A c \in C : total[c] = SumFunctionOnSet(val, {x \in S : class[x] = c})

LEMMA SumOfClasses ==
    ASSUME NEW S, IsFiniteSet(S), NEW C, IsFiniteSet(C), NEW class, NEW val, NEW total,
           Classes(S, class, val, C, total)
    PROVE  SumFunctionOnSet(total, C) = SumFunctionOnSet(val, S)
<1> DEFINE sum(f, T) == SumFunctionOnSet(f, T)
           In(D) == {x \in S : class[x] \in D}
           Q == {D \in SUBSET C : sum(total, D) = sum(val, In(D))}
<1>1. ASSUME NEW T \in SUBSET S
      PROVE  IsFiniteSet(T) /\ (\A x \in T : val[x] \in Int) /\ sum(val, T) \in Int
  <2>1. IsFiniteSet(T) /\ \A x \in T : val[x] \in Int
    BY FS_Subset DEF Classes
  <2> QED
    BY <2>1, SumIsInt
<1>2. \A c \in C : total[c] \in Int /\ total[c] = sum(val, {x \in S : class[x] = c})
  BY <1>1 DEF Classes
<1>3. ASSUME NEW D \in SUBSET C, \A c \in D : D \ {c} \in Q
      PROVE  D \in Q
  <2>1. CASE D = {}
    <3>1. In(D) = {}
      BY <2>1
    <3> QED
      BY <2>1, <3>1, SumOfNone
  <2>2. CASE D # {}
    <3>1. PICK c \in D : TRUE
      BY <2>2
    <3>2. PICK E : E = D \ {c}
      OBVIOUS
    <3>3. sum(total, E) = sum(val, In(E))
      BY <1>3, <3>2
    <3>4. IsFiniteSet(D) /\ \A d \in D : total[d] \in Int
      BY <1>2, FS_Subset
    <3>5. sum(total, D) = total[c] + sum(total, E)
      BY <3>2, <3>4, SumWithout
    <3>6. PICK own : own = {x \in S : class[x] = c}
      OBVIOUS
    <3>7. PICK all : all = In(D)
      OBVIOUS
    <3>8. own \in SUBSET all /\ all \in SUBSET S /\ all \ own = In(E)
      BY <3>2, <3>6, <3>7
    <3>9. IsFiniteSet(all) /\ \A x \in all : val[x] \in Int
      BY <1>1, <3>8
    <3>10. sum(val, all) = sum(val, own) + sum(val, all \ own)
      BY <3>8, <3>9, SumOfParts
    <3>11. total[c] = sum(val, own)
      BY <1>2, <3>6
    <3>12. sum(total, D) = sum(val, all)
      BY <3>3, <3>5, <3>8, <3>10, <3>11
    <3> QED
      BY <3>7, <3>12
  <2> QED
    BY <2>1, <2>2
<1>4. C \in Q
  <2> HIDE DEF Q
  <2> QED
    BY <1>3, SubsetInduction
<1>5. In(C) = S
  BY DEF Classes
<1> QED
  BY <1>4, <1>5

(* A number appended is added.                                             *)
LEMMA SumAppended ==
    ASSUME NEW s \in Seq(Int), NEW x \in Int
    PROVE  SumFunction(Append(s, x)) = SumFunction(s) + x
<1>1. PICK n \in Nat : n = Len(s) /\ DOMAIN s = 1..n
  OBVIOUS
<1>2. PICK t : t = Append(s, x)
  OBVIOUS
<1>3. PICK m \in Nat : m = n + 1
  BY <1>1
<1>4. DOMAIN t = 1..m /\ t[m] = x /\ \A i \in 1..n : t[i] = s[i] /\ t[i] \in Int
  BY <1>1, <1>2, <1>3
<1>5. PICK S : S = 1..m
  OBVIOUS
<1>6. PICK R : R = 1..n
  OBVIOUS
<1>7. IsFiniteSet(S) /\ IsFiniteSet(R)
  BY <1>5, <1>6, FS_Interval
<1>8. m \in S /\ S \ {m} = R
  BY <1>3, <1>5, <1>6
<1>9. \A i \in S : t[i] \in Int
  <2> SUFFICES ASSUME NEW i \in S PROVE t[i] \in Int
    OBVIOUS
  <2>1. i = m \/ i \in 1..n
    BY <1>3, <1>5
  <2> QED
    BY <1>4, <2>1
<1>10. SumFunctionOnSet(t, S) = t[m] + SumFunctionOnSet(t, R)
  <2>1. PICK y : y = m
    OBVIOUS
  <2>2. y \in S /\ S \ {y} = R
    BY <1>8, <2>1
  <2>3. SumFunctionOnSet(t, S) = t[y] + SumFunctionOnSet(t, S \ {y})
    BY ONLY <1>7, <1>9, <2>2, SumWithout
  <2> QED
    BY <2>1, <2>2, <2>3
<1>11. \A i \in R : t[i] = s[i] /\ t[i] \in Int /\ s[i] \in Int
  BY <1>4, <1>6
<1>12. SumFunctionOnSet(t, R) = SumFunctionOnSet(s, R)
  BY <1>7, <1>11, SumsSame
<1>13. SumFunctionOnSet(s, R) \in Int
  BY <1>7, <1>11, SumIsInt
<1>14. SumFunction(t) = x + SumFunctionOnSet(s, R)
  BY <1>4, <1>5, <1>10, <1>12 DEF SumFunction
<1>15. SumFunction(s) = SumFunctionOnSet(s, R)
  BY <1>1, <1>6 DEF SumFunction
<1>16. PICK k \in Int : k = SumFunctionOnSet(s, R)
  BY <1>13
<1>17. x + k = k + x
  OBVIOUS
<1> QED
  BY <1>2, <1>14, <1>15, <1>16, <1>17

-----------------------------------------------------------------------------
(* Folds in general: `top' says which element of a set is taken last, and  *)
(* `step' what it makes of the result for the others.                      *)
Folded(base, top, step, S, f) ==
    f = [T \in SUBSET S |-> IF T = {} THEN base ELSE step[top[T]][f[T \ {top[T]}]]]

LEMMA FoldsAgree ==
    ASSUME NEW base, NEW top, NEW step, NEW S, IsFiniteSet(S),
           \A T \in SUBSET S : T # {} => top[T] \in T,
           NEW f, Folded(base, top, step, S, f),
           NEW R \in SUBSET S, NEW g, Folded(base, top, step, R, g)
    PROVE  f[R] = g[R]
<1> DEFINE Q == {T \in SUBSET R : f[T] = g[T]}
<1>1. ASSUME NEW T \in SUBSET R, \A x \in T : T \ {x} \in Q
      PROVE  T \in Q
  <2>1. T \in SUBSET S
    OBVIOUS
  <2>2. /\ f[T] = IF T = {} THEN base ELSE step[top[T]][f[T \ {top[T]}]]
        /\ g[T] = IF T = {} THEN base ELSE step[top[T]][g[T \ {top[T]}]]
    BY <2>1 DEF Folded
  <2>3. T # {} => f[T \ {top[T]}] = g[T \ {top[T]}]
    BY <1>1, <2>1
  <2> QED
    BY <2>2, <2>3
<1>2. IsFiniteSet(R)
  BY FS_Subset
<1>3. R \in Q
  <2> HIDE DEF Q
  <2> QED
    BY <1>1, <1>2, SubsetInduction
<1> QED
  BY <1>3

(* A fold exists when every step leads from a value in A to one in A.      *)
LEMMA FoldsExist ==
    ASSUME NEW A, NEW base \in A, NEW S, IsFiniteSet(S),
           NEW top, \A T \in SUBSET S : T # {} => top[T] \in T,
           NEW step, \A x \in S : \A a \in A : step[x][a] \in A
    PROVE  \E f : Folded(base, top, step, S, f) /\ f \in [SUBSET S -> A]
<1> DEFINE Has(T) == \E f : Folded(base, top, step, T, f) /\ f \in [SUBSET T -> A]
           of(T) == CHOOSE f : Folded(base, top, step, T, f) /\ f \in [SUBSET T -> A]
           Q == {R \in SUBSET S : \A T \in SUBSET R : Has(T)}
<1>1. ASSUME NEW R \in SUBSET S, \A x \in R : R \ {x} \in Q
      PROVE  R \in Q
  <2>1. ASSUME NEW T \in SUBSET R, T # R PROVE Has(T)
    <3>1. PICK x \in R : x \notin T
      BY <2>1
    <3>2. T \in SUBSET (R \ {x})
      BY <3>1
    <3> QED
      BY <1>1, <3>2
  <2>2. ASSUME NEW T \in SUBSET R, T # R
        PROVE  Folded(base, top, step, T, of(T)) /\ of(T) \in [SUBSET T -> A] /\ IsFiniteSet(T)
    <3>1. Has(T)
      BY <2>1, <2>2
    <3>2. IsFiniteSet(T)
      BY FS_Subset
    <3> QED
      BY <3>1, <3>2
  <2>3. PICK g : g = [T \in SUBSET R |->
                        IF T = {} THEN base
                        ELSE step[top[T]][of(T \ {top[T]})[T \ {top[T]}]]]
    OBVIOUS
  <2>4. ASSUME NEW T \in SUBSET R, T # R PROVE g[T] = of(T)[T]
    <3>1. Folded(base, top, step, T, of(T)) /\ IsFiniteSet(T)
      BY <2>2, <2>4
    <3>2. PICK h : h = of(T)
      OBVIOUS
    <3>3. h[T] = IF T = {} THEN base ELSE step[top[T]][h[T \ {top[T]}]]
      <4>1. Folded(base, top, step, T, h)
        BY <3>1, <3>2
      <4> QED
        BY ONLY <4>1 DEF Folded
    <3>4. CASE T = {}
      BY <2>3, <3>2, <3>3, <3>4
    <3>5. CASE T # {}
      <4>1. PICK U : U = T \ {top[T]}
        OBVIOUS
      <4>2. U \in SUBSET T /\ U \in SUBSET R /\ U # R /\ T \in SUBSET S
        BY <3>5, <4>1
      <4>3. Folded(base, top, step, U, of(U))
        BY <2>2, <4>2
      <4>4. PICK k : k = of(U)
        OBVIOUS
      <4>5. \A V \in SUBSET T : V # {} => top[V] \in V
        BY <4>2
      <4>6. Folded(base, top, step, T, h) /\ Folded(base, top, step, U, k)
        BY <3>1, <3>2, <4>3, <4>4
      <4>7. h[U] = k[U]
        BY <3>1, <4>2, <4>5, <4>6, FoldsAgree
      <4>8. g[T] = step[top[T]][k[U]]
        BY <2>3, <3>5, <4>1, <4>4
      <4> QED
        BY <3>2, <3>3, <3>5, <4>1, <4>7, <4>8
    <3> QED
      BY <3>4, <3>5
  <2>5. ASSUME NEW T \in SUBSET R
        PROVE  /\ g[T] = IF T = {} THEN base ELSE step[top[T]][g[T \ {top[T]}]]
               /\ g[T] \in A
    <3>1. CASE T = {}
      BY <2>3, <3>1
    <3>2. CASE T # {}
      <4>1. PICK U : U = T \ {top[T]}
        OBVIOUS
      <4>2. U \in SUBSET R /\ U # R /\ top[T] \in S
        BY <3>2, <4>1
      <4>3. g[U] = of(U)[U]
        BY <2>4, <4>2
      <4>4. of(U)[U] \in A
        <5>1. PICK k : k = of(U)
          OBVIOUS
        <5>2. k \in [SUBSET U -> A]
          BY <2>2, <4>2, <5>1
        <5> QED
          BY <5>1, <5>2
      <4>5. g[T] = step[top[T]][of(U)[U]]
        BY <2>3, <3>2, <4>1
      <4> HIDE DEF of
      <4> QED
        BY <3>2, <4>1, <4>2, <4>3, <4>4, <4>5
    <3> QED
      BY <3>1, <3>2
  <2>6. Folded(base, top, step, R, g) /\ g \in [SUBSET R -> A]
    <3>1. g = [T \in SUBSET R |-> g[T]]
      BY <2>3
    <3> HIDE DEF of
    <3> QED
      BY <2>5, <3>1 DEF Folded
  <2>7. Has(R)
    BY <2>6
  <2> HIDE DEF Has
  <2> QED
    BY <2>1, <2>7
<1>2. S \in Q
  <2> HIDE DEF Q
  <2> QED
    BY <1>1, SubsetInduction
<1> QED
  BY <1>2

(* Induction over the numbers up to n.                                     *)
LEMMA NumberInduction ==
    ASSUME NEW n \in Nat, NEW Q, 0 \in Q, \A k \in 1..n : k - 1 \in Q => k \in Q
    PROVE  \A k \in 0..n : k \in Q
<1> DEFINE T == {k \in 0..n : k \notin Q}
<1> SUFFICES ASSUME T # {} PROVE FALSE
  OBVIOUS
<1>1. PICK x \in T : \A y \in T : x <= y
  <2>1. T \in SUBSET Nat
    OBVIOUS
  <2> HIDE DEF T
  <2> QED
    BY <2>1, LeastNumber
<1>2. x \in 1..n /\ x - 1 \in 0..n
  OBVIOUS
<1>3. x - 1 \in Q
  BY <1>1, <1>2
<1> QED
  BY <1>2, <1>3

(* A sequence is folded from left to right: its last element comes last.   *)
Greatest(T) == CHOOSE x \in T : \A y \in T : x >= y

LEMMA GreatestUpTo ==
    ASSUME NEW k \in Nat \ {0}
    PROVE  Greatest(1..k) = k /\ (1..k) \ {k} = 1..(k - 1)
<1>1. k \in 1..k /\ \A y \in 1..k : k >= y
  OBVIOUS
<1>2. \A x \in 1..k : (\A y \in 1..k : x >= y) => x = k
  <2> SUFFICES ASSUME NEW x \in 1..k, \A y \in 1..k : x >= y PROVE x = k
    OBVIOUS
  <2>1. x >= k /\ k >= x
    BY <1>1
  <2> QED
    BY <2>1
<1>3. Greatest(1..k) = k
  BY <1>1, <1>2 DEF Greatest
<1>4. (1..k) \ {k} = 1..(k - 1)
  OBVIOUS
<1> QED
  BY <1>3, <1>4

LEMMA GreatestIsMember ==
    ASSUME NEW n \in Nat, NEW T \in SUBSET (1..n), T # {}
    PROVE  Greatest(T) \in T
<1>1. PICK S : S = 1..n
  OBVIOUS
<1>2. IsFiniteSet(S) /\ S \in SUBSET Nat
  BY <1>1, FS_Interval
<1>3. IsFiniteSet(T) /\ T \in SUBSET Nat
  BY <1>1, <1>2, FS_Subset
<1>4. PICK x \in T : \A y \in T : y <= x
  BY <1>3, LastNumber
<1>5. \A y \in T : x >= y
  BY <1>3, <1>4
<1> QED
  BY <1>5 DEF Greatest

(* A fold of n elements from the left, and its values on the way from the  *)
(* first element to the last.                                              *)
StepsIn(A, step, n) == \A k \in 1..n : \A a \in A : step[k][a] \in A

LeftFold(A, base, step, n, f) ==
    /\ f \in [SUBSET (1..n) -> A] /\ f[{}] = base
    /\ \A T \in SUBSET (1..n) :
          T # {} => /\ Greatest(T) \in 1..n
                    /\ f[T \ {Greatest(T)}] \in A
                    /\ f[T] = step[Greatest(T)][f[T \ {Greatest(T)}]]

ValueOf(A, step, T, f) ==
    f[T \ {Greatest(T)}] \in A => f[T] = step[Greatest(T)][f[T \ {Greatest(T)}]]

Leads(A, base, step, n, v, result) ==
    /\ v \in [0..n -> A] /\ v[0] = base /\ v[n] = result
    /\ \A k \in 1..n : v[k] = step[k][v[k - 1]]

(* Such a fold exists too.                                                 *)
LEMMA LeftFoldsExist ==
    ASSUME NEW n \in Nat, NEW A, NEW base \in A, NEW step, StepsIn(A, step, n)
    PROVE  \E f : LeftFold(A, base, step, n, f)
<1>1. PICK S : S = 1..n
  OBVIOUS
<1>2. IsFiniteSet(S)
  BY <1>1, FS_Interval
<1>3. PICK top : top = [T \in SUBSET S |-> Greatest(T)]
  OBVIOUS
<1>4. \A T \in SUBSET S : T # {} => top[T] \in T
  BY <1>1, <1>3, GreatestIsMember
<1>5. \A k \in S : \A a \in A : step[k][a] \in A
  BY <1>1 DEF StepsIn
<1>6. PICK f : Folded(base, top, step, S, f) /\ f \in [SUBSET S -> A]
  BY <1>2, <1>4, <1>5, FoldsExist
<1>7. f[{}] = base
  BY <1>6 DEF Folded
<1>8. ASSUME NEW T \in SUBSET S, T # {}
      PROVE  /\ Greatest(T) \in S
             /\ f[T \ {Greatest(T)}] \in A
             /\ f[T] = step[Greatest(T)][f[T \ {Greatest(T)}]]
  <2>1. top[T] = Greatest(T) /\ top[T] \in T
    BY <1>3, <1>4, <1>8
  <2>2. f[T] = step[top[T]][f[T \ {top[T]}]]
    BY <1>6, <1>8 DEF Folded
  <2>3. f[T \ {top[T]}] \in A
    BY <1>6
  <2> QED
    BY <2>1, <2>2, <2>3
<1> QED
  BY <1>1, <1>6, <1>7, <1>8 DEF LeftFold

LEMMA LeftFoldRuns ==
    ASSUME NEW n \in Nat, NEW A, NEW base \in A, NEW step, StepsIn(A, step, n),
           NEW f, f[{}] = base,
           \A T \in SUBSET (1..n) : T # {} => ValueOf(A, step, T, f)
    PROVE  \E v : Leads(A, base, step, n, v, f[1..n])
<1> DEFINE Q == {k \in 0..n : f[1..k] \in A}
<1>1. 0 \in Q /\ f[1..0] = base
  <2>1. 1..0 = {} /\ 0 \in 0..n
    OBVIOUS
  <2> QED
    BY <2>1
<1>2. ASSUME NEW k \in 1..n, f[1..(k - 1)] \in A
      PROVE  f[1..k] = step[k][f[1..(k - 1)]] /\ f[1..k] \in A
  <2>1. PICK T : T = 1..k
    OBVIOUS
  <2>2. T \in SUBSET (1..n) /\ T # {}
    BY <2>1
  <2>3. Greatest(T) = k /\ T \ {k} = 1..(k - 1)
    <3>1. k \in Nat \ {0}
      OBVIOUS
    <3> QED
      BY <2>1, <3>1, GreatestUpTo
  <2>4. f[T] = step[k][f[1..(k - 1)]]
    BY <1>2, <2>2, <2>3 DEF ValueOf
  <2> QED
    BY <1>2, <2>1, <2>4 DEF StepsIn
<1>3. \A k \in 1..n : k - 1 \in Q => k \in Q
  BY <1>2
<1>4. \A k \in 0..n : k \in Q
  <2> HIDE DEF Q
  <2> QED
    BY <1>1, <1>3, NumberInduction
<1>5. PICK v : v = [k \in 0..n |-> f[1..k]]
  OBVIOUS
<1>6. v \in [0..n -> A]
  BY <1>4, <1>5
<1>7. v[0] = base /\ v[n] = f[1..n]
  BY <1>1, <1>5
<1>8. ASSUME NEW k \in 1..n PROVE v[k] = step[k][v[k - 1]]
  <2>1. k \in 0..n /\ k - 1 \in 0..n
    OBVIOUS
  <2>2. f[1..(k - 1)] \in A
    BY <1>4, <2>1
  <2> QED
    BY <1>2, <1>5, <2>1, <2>2
<1> QED
  BY <1>6, <1>7, <1>8 DEF Leads

-----------------------------------------------------------------------------
(* Quotients of integers, as the code rounds them.                         *)
LEMMA Product ==
    ASSUME NEW x \in Int, NEW y \in Int, NEW b \in Nat, x <= y
    PROVE  x * b <= y * b
OBVIOUS

LEMMA Divide ==
    ASSUME NEW a \in Int, NEW b \in Nat \ {0}
    PROVE  /\ a \div b \in Int
           /\ (a \div b) * b <= a /\ a < (a \div b + 1) * b
OBVIOUS

LEMMA Quotient ==
    ASSUME NEW a \in Int, NEW b \in Nat \ {0}, NEW low \in Int, NEW high \in Int,
           low * b <= a, a <= high * b
    PROVE  a \div b \in Int /\ low <= a \div b /\ a \div b <= high
<1>1. PICK q \in Int : q = a \div b /\ q * b <= a /\ a < (q + 1) * b
  BY Divide
<1>2. ASSUME ~ (low <= q) PROVE FALSE
  <2>1. q + 1 <= low
    BY <1>2
  <2>2. (q + 1) * b <= low * b
    BY <2>1, Product
  <2> QED
    BY <1>1, <2>2
<1>3. ASSUME ~ (q <= high) PROVE FALSE
  <2>1. high + 1 <= q
    BY <1>3
  <2>2. (high + 1) * b <= q * b
    BY <2>1, Product
  <2>3. (high + 1) * b = high * b + b
    OBVIOUS
  <2> QED
    BY <1>1, <2>2, <2>3
<1> QED
  BY <1>1, <1>2, <1>3
=============================================================================
