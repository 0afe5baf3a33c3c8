-------------------------------- MODULE Sums --------------------------------
(***************************************************************************)
(* Sums over finite sets, as the ledgers' properties use them: SumFunction *)
(* of the community module Functions.                                      *)
(*                                                                         *)
(* Induction is stated over a set of good values and not over a predicate, *)
(* so that first-order provers can use it.                                 *)
(***************************************************************************)
EXTENDS Integers, Functions, FiniteSetTheorems, WellFoundedInduction, TLAPS

-----------------------------------------------------------------------------
(* Induction *)

\* Induction over the natural numbers.
LEMMA NatSetInduction ==
    ASSUME NEW Good, 0 \in Good, \A n \in Nat : n \in Good => n + 1 \in Good
    PROVE  \A n \in Nat : n \in Good
<1> DEFINE Bad == {n \in Nat : n \notin Good}
<1> SUFFICES ASSUME Bad # {} PROVE FALSE
  OBVIOUS
<1>1. PICK m \in Bad : \A k \in Bad : ~(<<k, m>> \in OpToRel(<, Nat))
  <2>1. Bad \subseteq Nat
    OBVIOUS
  <2> HIDE DEF Bad
  <2> QED
    BY <2>1, NatLessThanWellFounded, WFMin
<1>2. \A k \in Bad : ~(k < m)
  BY <1>1 DEF OpToRel
<1>3. m \in Nat /\ m \notin Good /\ m # 0
  OBVIOUS
<1>4. m - 1 \in Nat /\ m - 1 < m /\ (m - 1) + 1 = m
  BY <1>3
<1> QED
  BY <1>2, <1>3, <1>4

\* Induction over the subsets of a finite set: a set is good if it is so
\* without one of its elements.
LEMMA SubsetInduction ==
    ASSUME NEW S, IsFiniteSet(S), NEW Good, {} \in Good,
           \A s \in SUBSET S : s # {} => \E x \in s : s \ {x} \in Good => s \in Good
    PROVE  S \in Good
<1> DEFINE Bad == {s \in SUBSET S : s \notin Good}
           R == StrictSubsetOrdering(S)
<1> SUFFICES ASSUME Bad # {} PROVE FALSE
  OBVIOUS
<1>1. IsWellFoundedOn(R, FiniteSubsetsOf(S))
  BY FS_StrictSubsetOrderingWellFounded
<1>2. Bad \subseteq FiniteSubsetsOf(S)
  BY FS_Subset DEF FiniteSubsetsOf
<1>3. PICK m \in Bad : \A k \in Bad : ~(<<k, m>> \in R)
  <2> HIDE DEF Bad, R
  <2> QED
    BY <1>1, <1>2, WFMin
<1>4. PICK x \in m : m \ {x} \notin Good
  BY <1>3
<1>5. m \ {x} \in Bad /\ <<m \ {x}, m>> \in R
  BY <1>3, <1>4 DEF StrictSubsetOrdering
<1> QED
  BY <1>3, <1>5

-----------------------------------------------------------------------------
(* SumFunction, unfolded *)

Pick(s) == CHOOSE x \in s : TRUE

\* g gives the sums of f over the sets in D, by the recursion of MapThenFoldSet.
Sums(f, D, g) ==
    g = [s \in D |-> IF s = {} THEN 0 ELSE f[Pick(s)] + g[s \ {Pick(s)}]]

LEMMA PickIn ==
    ASSUME NEW s, s # {} PROVE Pick(s) \in s
BY DEF Pick

\* The recursion has a solution: on the sets of at most n elements, for every n.
LEMMA SumsExist ==
    ASSUME NEW f, NEW S, IsFiniteSet(S)
    PROVE  \E g : Sums(f, SUBSET S, g)
<1> DEFINE D(n) == {s \in SUBSET S : Cardinality(s) <= n}
           Good == {n \in Nat : \E g : Sums(f, D(n), g)}
<1>1. \A s \in SUBSET S :
         /\ IsFiniteSet(s) /\ Cardinality(s) \in Nat /\ Cardinality(s) <= Cardinality(S)
         /\ Cardinality(s) = 0 <=> s = {}
  BY FS_Subset, FS_CardinalityType, FS_EmptySet
<1>2. \A s \in SUBSET S : s # {} =>
         s \ {Pick(s)} \in SUBSET S /\ Cardinality(s \ {Pick(s)}) = Cardinality(s) - 1
  BY <1>1, PickIn, FS_RemoveElement
<1>3. 0 \in Good
  <2> DEFINE g == [s \in D(0) |-> 0]
  <2>1. \A s \in D(0) : s = {}
    BY <1>1
  <2>2. Sums(f, D(0), g)
    BY <2>1 DEF Sums
  <2> QED
    BY <2>2
<1>4. ASSUME NEW n \in Nat, n \in Good PROVE n + 1 \in Good
  <2>1. PICK g : Sums(f, D(n), g)
    BY <1>4
  <2> DEFINE h == [s \in D(n + 1) |-> IF s = {} THEN 0 ELSE f[Pick(s)] + g[s \ {Pick(s)}]]
  <2>2. \A s \in D(n + 1) : s # {} => s \ {Pick(s)} \in D(n)
    BY <1>1, <1>2
  <2>3. D(n) \subseteq D(n + 1)
    BY <1>1
  <2>4. \A s \in D(n) : h[s] = g[s]
    <3> HIDE DEF D
    <3> QED
      BY <2>1, <2>3 DEF Sums
  <2>5. Sums(f, D(n + 1), h)
    BY <2>2, <2>4 DEF Sums
  <2> HIDE DEF h, D
  <2>6. \E k : Sums(f, D(n + 1), k)
    BY <2>5
  <2> QED
    BY <2>6
<1>5. \A n \in Nat : n \in Good
  <2> HIDE DEF Good
  <2> QED
    BY <1>3, <1>4, NatSetInduction
<1>6. PICK g : Sums(f, D(Cardinality(S)), g)
  BY <1>5, FS_CardinalityType
<1>7. D(Cardinality(S)) = SUBSET S
  BY <1>1
<1> QED
  BY <1>6, <1>7

\* SumFunction is the last value of the recursion.
LEMMA SumUnfolds ==
    ASSUME NEW S, IsFiniteSet(S), NEW f, DOMAIN f = S
    PROVE  \E g : Sums(f, SUBSET S, g) /\ SumFunction(f) = g[S]
<1>1. SumFunction(f) = (CHOOSE g : Sums(f, SUBSET S, g))[S]
  BY Zenon DEF SumFunction, SumFunctionOnSet, FoldFunctionOnSet, MapThenFoldSet, Sums, Pick
<1>2. Sums(f, SUBSET S, CHOOSE g : Sums(f, SUBSET S, g))
  BY SumsExist
<1> QED
  BY <1>1, <1>2

-----------------------------------------------------------------------------
(* What the ledgers need to know of sums *)

\* Where one addend changes, the sum changes by as much.
LEMMA SumChanges ==
    ASSUME NEW S, IsFiniteSet(S), NEW f \in [S -> Int], NEW h \in [S -> Int],
           NEW x \in S, \A y \in S \ {x} : h[y] = f[y]
    PROVE  /\ SumFunction(f) \in Int /\ SumFunction(h) \in Int
           /\ SumFunction(h) = SumFunction(f) + h[x] - f[x]
<1>1. PICK F : Sums(f, SUBSET S, F) /\ SumFunction(f) = F[S]
  BY SumUnfolds
<1>2. PICK H : Sums(h, SUBSET S, H) /\ SumFunction(h) = H[S]
  BY SumUnfolds
<1> DEFINE Good == {s \in SUBSET S : /\ F[s] \in Int /\ H[s] \in Int
                                     /\ H[s] = F[s] + (IF x \in s THEN h[x] - f[x] ELSE 0)}
<1>3. {} \in Good
  BY <1>1, <1>2 DEF Sums
<1>4. ASSUME NEW s \in SUBSET S, s # {} PROVE \E y \in s : s \ {y} \in Good => s \in Good
  <2> DEFINE y == Pick(s)
             r == s \ {y}
  <2>1. y \in s /\ y \in S /\ r \in SUBSET S
    BY <1>4, PickIn
  <2>2. F[s] = f[y] + F[r] /\ H[s] = h[y] + H[r]
    BY <1>1, <1>2, <1>4 DEF Sums
  <2>3. x \in r <=> x \in s /\ x # y
    OBVIOUS
  <2> HIDE DEF y, r
  <2>4. r \in Good => s \in Good
    BY <2>1, <2>2, <2>3
  <2> QED
    BY <2>1, <2>4 DEF r
<1>5. S \in Good
  <2> HIDE DEF Good
  <2> QED
    BY <1>3, <1>4, SubsetInduction
<1> QED
  BY <1>1, <1>2, <1>5

\* A sum of natural numbers is one, and at least each of them.
LEMMA SumIsNat ==
    ASSUME NEW S, IsFiniteSet(S), NEW f \in [S -> Nat]
    PROVE  SumFunction(f) \in Nat /\ \A x \in S : f[x] <= SumFunction(f)
<1>1. PICK F : Sums(f, SUBSET S, F) /\ SumFunction(f) = F[S]
  BY SumUnfolds
<1> DEFINE Good == {s \in SUBSET S : F[s] \in Nat /\ \A x \in s : f[x] <= F[s]}
<1>2. {} \in Good
  BY <1>1 DEF Sums
<1>3. ASSUME NEW s \in SUBSET S, s # {} PROVE \E y \in s : s \ {y} \in Good => s \in Good
  <2> DEFINE y == Pick(s)
  <2>1. y \in s /\ y \in S /\ s \ {y} \in SUBSET S
    BY <1>3, PickIn
  <2>2. F[s] = f[y] + F[s \ {y}]
    BY <1>1, <1>3 DEF Sums
  <2> HIDE DEF y
  <2>3. ASSUME s \ {y} \in Good PROVE s \in Good
    <3>1. F[s \ {y}] \in Nat /\ f[y] \in Nat /\ \A x \in s \ {y} : f[x] <= F[s \ {y}] /\ f[x] \in Nat
      BY <2>1, <2>3
    <3> QED
      BY <2>2, <3>1
  <2> QED
    BY <2>1, <2>3
<1>4. S \in Good
  <2> HIDE DEF Good
  <2> QED
    BY <1>2, <1>3, SubsetInduction
<1> QED
  BY <1>1, <1>4

\* The sum of zeros.
LEMMA SumOfZeros ==
    ASSUME NEW S, IsFiniteSet(S), NEW f, DOMAIN f = S, \A x \in S : f[x] = 0
    PROVE  SumFunction(f) = 0
<1>1. PICK F : Sums(f, SUBSET S, F) /\ SumFunction(f) = F[S]
  BY SumUnfolds
<1> DEFINE Good == {s \in SUBSET S : F[s] = 0}
<1>2. {} \in Good
  BY <1>1 DEF Sums
<1>3. ASSUME NEW s \in SUBSET S, s # {} PROVE \E y \in s : s \ {y} \in Good => s \in Good
  <2> DEFINE y == Pick(s)
  <2>1. y \in s /\ y \in S /\ s \ {y} \in SUBSET S
    BY <1>3, PickIn
  <2>2. F[s] = f[y] + F[s \ {y}]
    BY <1>1, <1>3 DEF Sums
  <2> HIDE DEF y
  <2> QED
    BY <2>1, <2>2
<1>4. S \in Good
  <2> HIDE DEF Good
  <2> QED
    BY <1>2, <1>3, SubsetInduction
<1> QED
  BY <1>1, <1>4

\* Sums of sums.
LEMMA SumAdds ==
    ASSUME NEW S, IsFiniteSet(S), NEW f \in [S -> Int], NEW h \in [S -> Int], NEW k \in [S -> Int],
           \A x \in S : k[x] = f[x] + h[x]
    PROVE  /\ SumFunction(f) \in Int /\ SumFunction(h) \in Int
           /\ SumFunction(k) = SumFunction(f) + SumFunction(h)
<1>1. PICK F : Sums(f, SUBSET S, F) /\ SumFunction(f) = F[S]
  BY SumUnfolds
<1>2. PICK H : Sums(h, SUBSET S, H) /\ SumFunction(h) = H[S]
  BY SumUnfolds
<1>3. PICK K : Sums(k, SUBSET S, K) /\ SumFunction(k) = K[S]
  BY SumUnfolds
<1> DEFINE Good == {s \in SUBSET S : F[s] \in Int /\ H[s] \in Int /\ K[s] = F[s] + H[s]}
<1>4. {} \in Good
  BY <1>1, <1>2, <1>3 DEF Sums
<1>5. ASSUME NEW s \in SUBSET S, s # {} PROVE \E y \in s : s \ {y} \in Good => s \in Good
  <2> DEFINE y == Pick(s)
             r == s \ {y}
  <2>1. y \in s /\ y \in S /\ r \in SUBSET S
    BY <1>5, PickIn
  <2>2. F[s] = f[y] + F[r] /\ H[s] = h[y] + H[r] /\ K[s] = k[y] + K[r]
    BY <1>1, <1>2, <1>3, <1>5 DEF Sums
  <2> HIDE DEF y, r
  <2>3. r \in Good => s \in Good
    BY <2>1, <2>2
  <2> QED
    BY <2>1, <2>3 DEF r
<1>6. S \in Good
  <2> HIDE DEF Good
  <2> QED
    BY <1>4, <1>5, SubsetInduction
<1> QED
  BY <1>1, <1>2, <1>3, <1>6

\* Addends in a proportion that m and n bound have sums that m and n bound.
LEMMA SumCompares ==
    ASSUME NEW S, IsFiniteSet(S), NEW f \in [S -> Nat], NEW h \in [S -> Nat],
           NEW m \in Nat, NEW n \in Nat, \A x \in S : m * f[x] <= n * h[x]
    PROVE  m * SumFunction(f) <= n * SumFunction(h)
<1>1. PICK F : Sums(f, SUBSET S, F) /\ SumFunction(f) = F[S]
  BY SumUnfolds
<1>2. PICK H : Sums(h, SUBSET S, H) /\ SumFunction(h) = H[S]
  BY SumUnfolds
<1> DEFINE Good == {s \in SUBSET S : F[s] \in Nat /\ H[s] \in Nat /\ m * F[s] <= n * H[s]}
<1>3. {} \in Good
  BY <1>1, <1>2 DEF Sums
<1>4. ASSUME NEW s \in SUBSET S, s # {} PROVE \E y \in s : s \ {y} \in Good => s \in Good
  <2> DEFINE y == Pick(s)
             r == s \ {y}
  <2>1. y \in s /\ y \in S /\ r \in SUBSET S
    BY <1>4, PickIn
  <2>2. F[s] = f[y] + F[r] /\ H[s] = h[y] + H[r]
    BY <1>1, <1>2, <1>4 DEF Sums
  <2> HIDE DEF y, r
  <2>3. ASSUME r \in Good PROVE s \in Good
    <3>1. /\ f[y] \in Nat /\ h[y] \in Nat /\ F[r] \in Nat /\ H[r] \in Nat
          /\ m * f[y] <= n * h[y] /\ m * F[r] <= n * H[r]
      BY <2>1, <2>3
    <3>2. ASSUME NEW a \in Nat, NEW b \in Nat, NEW c \in Nat, NEW d \in Nat,
                 m * a <= n * b, m * c <= n * d
          PROVE  m * (a + c) <= n * (b + d)
      <4>1. m * (a + c) = m * a + m * c /\ n * (b + d) = n * b + n * d
        BY SMT
      <4>2. m * a \in Nat /\ m * c \in Nat /\ n * b \in Nat /\ n * d \in Nat
        BY SMT
      <4> QED
        BY <3>2, <4>1, <4>2
    <3>3. m * (f[y] + F[r]) <= n * (h[y] + H[r])
      BY <3>1, <3>2
    <3> QED
      BY <2>1, <2>2, <3>1, <3>3
  <2> QED
    BY <2>1, <2>3 DEF r
<1>5. S \in Good
  <2> HIDE DEF Good
  <2> QED
    BY <1>3, <1>4, SubsetInduction
<1> QED
  BY <1>1, <1>2, <1>5

\* Addends that are zero may be left out.
LEMMA SumRestricts ==
    ASSUME NEW S, IsFiniteSet(S), NEW f \in [S -> Int], NEW T \in SUBSET S, NEW h,
           h = [x \in T |-> f[x]], \A x \in S \ T : f[x] = 0
    PROVE  SumFunction(f) \in Int /\ SumFunction(h) = SumFunction(f)
<1> DEFINE Z(s) == [x \in S |-> IF x \in s THEN f[x] ELSE 0]
<1>0. IsFiniteSet(T) /\ DOMAIN h = T
  BY FS_Subset
<1>1. PICK H : Sums(h, SUBSET T, H) /\ SumFunction(h) = H[T]
  BY <1>0, SumUnfolds
<1> DEFINE Good == {s \in SUBSET T : H[s] = SumFunction(Z(s)) /\ SumFunction(Z(s)) \in Int}
<1>2. {} \in Good
  <2>1. SumFunction(Z({})) = 0
    <3>1. DOMAIN Z({}) = S /\ \A x \in S : Z({})[x] = 0
      OBVIOUS
    <3> HIDE DEF Z
    <3> QED
      BY <3>1, SumOfZeros
  <2>2. H[{}] = 0
    BY <1>1 DEF Sums
  <2> QED
    BY <2>1, <2>2
<1>3. ASSUME NEW s \in SUBSET T, s # {} PROVE \E y \in s : s \ {y} \in Good => s \in Good
  <2> DEFINE y == Pick(s)
             r == s \ {y}
  <2>1. y \in s /\ y \in T /\ y \in S /\ r \in SUBSET T
    BY <1>3, PickIn
  <2>2. H[s] = f[y] + H[r]
    BY <1>1, <1>3, <2>1 DEF Sums
  <2> HIDE DEF y
  <2>3. /\ Z(r) \in [S -> Int] /\ Z(s) \in [S -> Int]
        /\ \A x \in S \ {y} : Z(s)[x] = Z(r)[x]
        /\ Z(r)[y] = 0 /\ Z(s)[y] = f[y] /\ f[y] \in Int
    BY <2>1
  <2> HIDE DEF Z, r
  <2>4. SumFunction(Z(r)) \in Int /\ SumFunction(Z(s)) \in Int
        /\ SumFunction(Z(s)) = SumFunction(Z(r)) + Z(s)[y] - Z(r)[y]
    BY <2>1, <2>3, SumChanges
  <2>5. r \in Good => s \in Good
    BY <2>2, <2>3, <2>4
  <2> QED
    BY <2>1, <2>5 DEF r
<1>4. T \in Good
  <2> HIDE DEF Good
  <2> QED
    BY <1>0, <1>2, <1>3, SubsetInduction
<1>5. Z(T) = f
  OBVIOUS
<1> HIDE DEF Z
<1> QED
  BY <1>1, <1>4, <1>5

\* One addend more.
LEMMA SumExtends ==
    ASSUME NEW T, IsFiniteSet(T), NEW h \in [T -> Int], NEW x \in T
    PROVE  LET f == [y \in T \ {x} |-> h[y]]
           IN SumFunction(f) \in Int /\ SumFunction(h) = SumFunction(f) + h[x]
<1> DEFINE S == T \ {x}
           f == [y \in S |-> h[y]]
           z == [y \in T |-> IF y = x THEN 0 ELSE h[y]]
<1>1. z \in [T -> Int] /\ z[x] = 0 /\ \A y \in T \ {x} : h[y] = z[y]
  OBVIOUS
<1>2. f = [y \in S |-> z[y]] /\ (\A y \in T \ S : z[y] = 0) /\ S \in SUBSET T /\ h[x] \in Int
  OBVIOUS
<1> HIDE DEF z, f, S
<1>3. SumFunction(z) \in Int /\ SumFunction(h) = SumFunction(z) + h[x] - z[x]
  BY <1>1, SumChanges
<1>4. SumFunction(f) = SumFunction(z)
  BY <1>1, <1>2, SumRestricts
<1>5. SumFunction(f) \in Int /\ SumFunction(h) = SumFunction(f) + h[x]
  BY <1>1, <1>2, <1>3, <1>4
<1> QED
  BY <1>5 DEF f, S

\* What integer division leaves out is not negative.
LEMMA Divides ==
    ASSUME NEW a \in Nat, NEW b \in Nat, b > 0
    PROVE  a \div b \in Nat /\ b * (a \div b) <= a
<1>1. a \div b \in Int /\ a % b \in 0 .. b - 1 /\ a = b * (a \div b) + (a % b)
  BY SMT
<1>2. ASSUME NEW q \in Int, NEW r \in 0 .. b - 1, a = b * q + r PROVE q \in Nat /\ b * q <= a
  <2>1. CASE q >= 0
    BY <1>2, <2>1, SMT
  <2>2. CASE q <= -1
    BY <1>2, <2>2, SMT
  <2> QED
    BY <2>1, <2>2
<1> QED
  BY <1>1, <1>2

\* The part g of t of an amount
LEMMA DividesPart ==
    ASSUME NEW b \in Nat, NEW g \in Nat, NEW t \in Nat, t > 0, g <= t
    PROVE  (b * g) \div t \in Nat /\ (b * g) \div t <= b
<1>1. b * g \in Nat /\ b * g <= b * t
  BY SMT
<1> DEFINE q == (b * g) \div t
<1>2. q \in Nat /\ t * q <= b * g
  BY <1>1, Divides
<1> HIDE DEF q
<1>3. ASSUME q > b PROVE FALSE
  <2>1. t * q >= t * (b + 1)
    BY <1>2, <1>3, SMT
  <2>2. t * (b + 1) = b * t + t
    BY SMT
  <2> QED
    BY <1>1, <1>2, <2>1, <2>2, SMT
<1>4. q \in Nat /\ q <= b
  BY <1>2, <1>3
<1> QED
  BY <1>4 DEF q
=============================================================================
