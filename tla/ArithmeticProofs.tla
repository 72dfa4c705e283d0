--------------------------- MODULE ArithmeticProofs ---------------------------
(***************************************************************************)
(* What the proofs know of numbers, for all of them.                       *)
(*                                                                         *)
(* The rounding divisions of FixedPoint: what pools, queues and throttles  *)
(* need of a quotient.                                                     *)
(*                                                                         *)
(* Sums over finite sets, as SumFunction of the community modules defines  *)
(* them: what the ledgers of balances, drafts and liabilities are compared *)
(* with.  SumFunction takes the elements in an order of CHOOSE's and is    *)
(* defined by recursion.  Shown here is that the recursion defines a       *)
(* function, that the order does not matter, and what a change of one      *)
(* element, or a greater function, does to the sum.                        *)
(*                                                                         *)
(* The library's induction theorems take an operator as a parameter.  The  *)
(* two inductions used here are stated of sets instead, and follow from    *)
(* WFMin, which says that a well-founded relation has minimal elements.    *)
(***************************************************************************)
EXTENDS FixedPoint, Functions, FiniteSetTheorems, TLAPS

(***************************************************************************)
(* Rounding divisions                                                      *)
(***************************************************************************)

\* Rounding down: the quotient is the greatest number whose product with the
\* divisor does not exceed the numerator.
LEMMA FloorBounds ==
  ASSUME NEW n \in Nat, NEW d \in Nat \ {0}
  PROVE  /\ n \div d \in Nat
         /\ d * (n \div d) <= n
         /\ n < d * (n \div d) + d
  OBVIOUS

\* Rounding up: the quotient is the least number whose product with the
\* divisor is not below the numerator.
LEMMA CeilBounds ==
  ASSUME NEW n \in Nat, NEW d \in Nat \ {0}
  PROVE  /\ CeilDiv(n, d) \in Nat
         /\ n <= d * CeilDiv(n, d)
         /\ d * CeilDiv(n, d) < n + d
<1> DEFINE m == n + (d - 1)
<1>1. m \in Nat
  OBVIOUS
<1>2. /\ m \div d \in Nat
      /\ d * (m \div d) <= m
      /\ m < d * (m \div d) + d
  BY <1>1, FloorBounds
<1> QED
  BY <1>2 DEF CeilDiv

\* The order of products is the order of their factors.
LEMMA CancelFactor ==
  ASSUME NEW a \in Nat, NEW b \in Nat, NEW d \in Nat \ {0}, d * a < d * b
  PROVE  a < b
<1>1. SUFFICES ASSUME b <= a PROVE FALSE
  OBVIOUS
<1>2. d * b <= d * a
  BY <1>1
<1> QED
  BY <1>2

\* A greater factor makes a product no smaller.
LEMMA ProductMono ==
  ASSUME NEW a \in Nat, NEW b \in Nat, NEW c \in Nat, a <= b
  PROVE  /\ a * c \in Nat /\ b * c \in Nat /\ c * a \in Nat /\ c * b \in Nat
         /\ a * c <= b * c
         /\ c * a <= c * b
  OBVIOUS

\* Rounding up gives the least number whose product covers the numerator.
LEMMA CeilLeast ==
  ASSUME NEW n \in Nat, NEW d \in Nat \ {0}, NEW k \in Nat, n <= d * k
  PROVE  CeilDiv(n, d) <= k
<1>1. d * CeilDiv(n, d) < d * (k + 1)
  <2>1. d * CeilDiv(n, d) < n + d /\ CeilDiv(n, d) \in Nat
    BY CeilBounds
  <2>2. n + d <= d * (k + 1)
    OBVIOUS
  <2> QED
    BY <2>1, <2>2
<1>2. CeilDiv(n, d) < k + 1
  BY <1>1, CeilBounds, CancelFactor
<1> QED
  BY <1>2, CeilBounds

\* Rounding down gives the greatest number whose product is covered.
LEMMA FloorGreatest ==
  ASSUME NEW n \in Nat, NEW d \in Nat \ {0}, NEW k \in Nat, d * k <= n
  PROVE  k <= n \div d
<1>1. n \div d \in Nat /\ n < d * (n \div d) + d
  BY FloorBounds
<1>2. d * k < d * ((n \div d) + 1)
  BY <1>1
<1>3. k < (n \div d) + 1
  BY <1>1, <1>2, CancelFactor
<1> QED
  BY <1>1, <1>3

\* A greater numerator makes the quotient no smaller.
LEMMA FloorMono ==
  ASSUME NEW m \in Nat, NEW n \in Nat, NEW d \in Nat \ {0}, m <= n
  PROVE  m \div d <= n \div d
<1>1. m \div d \in Nat /\ d * (m \div d) <= m
  BY FloorBounds
<1>2. d * (m \div d) <= n
  BY <1>1
<1> QED
  BY <1>1, <1>2, FloorGreatest

\* A share of a part of the balance is at most that part.
LEMMA ShareBounds ==
  ASSUME NEW rsr \in Nat, NEW r \in Nat, NEW b \in Nat \ {0}, r <= b
  PROVE  /\ CeilDiv(rsr * r, b) \in Nat
         /\ CeilDiv(rsr * r, b) <= rsr
<1>1. rsr * r \in Nat /\ rsr * r <= b * rsr
  BY ProductMono
<1> QED
  BY <1>1, CeilBounds, CeilLeast

\* The order of products is that of their factors, also when they may be equal.
LEMMA CancelLeq ==
  ASSUME NEW a \in Nat, NEW b \in Nat, NEW d \in Nat \ {0}, d * a <= d * b
  PROVE  a <= b
<1>1. d * a < d * (b + 1)
  <2>1. d * (b + 1) = d * b + d /\ d * a \in Nat /\ d * b \in Nat
    OBVIOUS
  <2> QED
    BY <2>1
<1>2. a < b + 1
  BY <1>1, CancelFactor
<1> QED
  BY <1>2

\* The share a / s of a balance b, by way of a quotient with the scale f: both
\* divisions round down, so that it is at most that share, and at most all.
LEMMA ProrateBounds ==
  ASSUME NEW a \in Nat, NEW s \in Nat \ {0}, NEW b \in Nat, NEW f \in Nat \ {0},
         a <= s, NEW x, x = (((f * a) \div s) * b) \div f
  PROVE  /\ x \in Nat
         /\ s * x <= a * b
         /\ x <= b
<1> DEFINE p == (f * a) \div s
<1>1. f * a \in Nat
  OBVIOUS
<1>2. p \in Nat /\ s * p <= f * a
  BY <1>1, FloorBounds
<1> HIDE DEF p
<1>3. p * b \in Nat
  BY <1>2
<1>4. x \in Nat /\ f * x <= p * b
  <2>1. x = (p * b) \div f
    BY DEF p
  <2> QED
    BY <1>3, <2>1, FloorBounds
<1>5. f * (s * x) <= f * (a * b)
  <2>1. s * (f * x) <= s * (p * b)
    BY <1>3, <1>4, ProductMono
  <2>2. (s * p) * b <= (f * a) * b
    BY <1>1, <1>2, ProductMono
  <2>3. /\ s * (f * x) = f * (s * x) /\ s * (p * b) = (s * p) * b
        /\ (f * a) * b = f * (a * b)
        /\ s * (f * x) \in Nat /\ (s * p) * b \in Nat /\ (f * a) * b \in Nat
    BY <1>2, <1>4
  <2> HIDE DEF p
  <2> QED
    BY <2>1, <2>2, <2>3
<1>6. s * x <= a * b /\ s * x \in Nat /\ a * b \in Nat
  <2>1. s * x \in Nat /\ a * b \in Nat
    BY <1>4
  <2> QED
    BY <1>5, <2>1, CancelLeq
<1>7. s * x <= s * b
  <2>1. a * b <= s * b /\ s * b \in Nat
    BY ProductMono
  <2> QED
    BY <1>6, <2>1
<1>8. x <= b
  BY <1>4, <1>7, CancelLeq
<1> QED
  BY <1>4, <1>6, <1>8

\* Two parts of a balance b that lose their shares of r, rounded up, keep their
\* proportion to within a unit of the one that lost less by rounding.
LEMMA SharesUniform ==
  ASSUME NEW s \in Nat, NEW d \in Nat, NEW r \in Nat, NEW b \in Nat \ {0}
  PROVE  s * CeilDiv(d * r, b) <= d * CeilDiv(s * r, b) + s
<1> DEFINE x == CeilDiv(s * r, b)
           y == CeilDiv(d * r, b)
<1>1. s * r \in Nat /\ d * r \in Nat
  OBVIOUS
<1>2. x \in Nat /\ y \in Nat /\ s * r <= b * x /\ b * y <= d * r + b
  <2>1. x \in Nat /\ s * r <= b * x
    BY <1>1, CeilBounds
  <2>2. y \in Nat /\ b * y < d * r + b
    BY <1>1, CeilBounds
  <2> QED
    BY <1>1, <2>1, <2>2
<1> HIDE DEF x, y
<1>3. s * (b * y) <= s * (d * r + b)
  BY <1>1, <1>2, ProductMono
<1>4. d * (s * r) <= d * (b * x)
  BY <1>1, <1>2, ProductMono
<1>5. /\ s * (b * y) = b * (s * y)
      /\ s * (d * r + b) = d * (s * r) + b * s
      /\ d * (b * x) + b * s = b * (d * x + s)
      /\ s * y \in Nat /\ d * x + s \in Nat
      /\ d * (s * r) \in Nat /\ d * (b * x) \in Nat /\ b * s \in Nat
  BY <1>2
<1>6. b * (s * y) <= b * (d * x + s)
  BY <1>3, <1>4, <1>5
<1>7. b * (s * y) < b * (d * x + s + 1)
  BY <1>5, <1>6
<1>8. s * y < d * x + s + 1
  BY <1>5, <1>7, CancelFactor
<1> QED
  BY <1>5, <1>8 DEF x, y

(***************************************************************************)
(* Induction                                                               *)
(***************************************************************************)

\* Every set of natural numbers that is not empty has a least element.
LEMMA LeastNumber ==
  ASSUME NEW X, X \subseteq Nat, X # {}
  PROVE  \E m \in X : \A n \in X : m <= n
<1> DEFINE R == {ss \in Nat \X Nat : ss[1] < ss[2]}
<1>1. IsWellFoundedOn(R, Nat)
  BY NatLessThanWellFounded DEF OpToRel
<1>2. \A m, n \in Nat : n < m => <<n, m>> \in R
  OBVIOUS
<1> HIDE DEF R
<1>3. PICK m \in X : \A n \in X : <<n, m>> \notin R
  BY <1>1, WFMin
<1>4. ASSUME NEW n \in X PROVE m <= n
  <2>1. m \in Nat /\ n \in Nat
    OBVIOUS
  <2>2. ~(n < m)
    BY <1>2, <1>3, <2>1
  <2> QED
    BY <2>1, <2>2
<1> QED
  BY <1>4

\* A set that 0 is in, and with each number the next, has all numbers.
LEMMA NumbersByInduction ==
  ASSUME NEW X, 0 \in X, \A n \in Nat : n \in X => n + 1 \in X
  PROVE  \A n \in Nat : n \in X
<1> SUFFICES ASSUME NEW k \in Nat, k \notin X PROVE FALSE
  OBVIOUS
<1> DEFINE Y == {n \in Nat : n \notin X}
<1>1. Y \subseteq Nat /\ Y # {}
  OBVIOUS
<1> HIDE DEF Y
<1>2. PICK m \in Y : \A n \in Y : m <= n
  BY <1>1, LeastNumber
<1>3. m \in Nat /\ m \notin X /\ m # 0
  BY DEF Y
<1>4. m - 1 \in Nat /\ ~(m <= m - 1) /\ (m - 1) + 1 = m
  BY <1>3
<1>5. m - 1 \in X
  BY <1>2, <1>4 DEF Y
<1> QED
  BY <1>3, <1>4, <1>5

\* A set of subsets of S that has the empty one, and with each subset all
\* those with one more element, has all of them.
LEMMA SubsetsByInduction ==
  ASSUME NEW S, IsFiniteSet(S), NEW X, {} \in X,
         \A T \in SUBSET S : \A x \in S \ T : T \in X => T \cup {x} \in X
  PROVE  \A T \in SUBSET S : T \in X
<1> DEFINE Y == {n \in Nat : \A T \in SUBSET S : Cardinality(T) = n => T \in X}
<1>1. 0 \in Y
  <2>1. ASSUME NEW T \in SUBSET S, Cardinality(T) = 0 PROVE T \in X
    <3>1. T = {}
      BY <2>1, FS_Subset, FS_EmptySet
    <3> QED
      BY <3>1
  <2> QED
    BY <2>1
<1>2. ASSUME NEW n \in Nat, n \in Y PROVE n + 1 \in Y
  <2>1. ASSUME NEW T \in SUBSET S, Cardinality(T) = n + 1 PROVE T \in X
    <3>1. IsFiniteSet(T) /\ T # {}
      BY <2>1, FS_Subset, FS_EmptySet
    <3>2. PICK x : x \in T
      BY <3>1
    <3> DEFINE U == T \ {x}
    <3>3. U \in SUBSET S /\ x \in S \ U /\ T = U \cup {x}
      BY <3>2
    <3>4. Cardinality(U) = n
      <4>1. Cardinality(T \ {x}) = Cardinality(T) - 1
        BY <3>1, <3>2, FS_RemoveElement
      <4> QED
        BY <2>1, <4>1
    <3> HIDE DEF U
    <3>5. U \in X
      BY <1>2, <3>3, <3>4
    <3> QED
      BY <3>3, <3>5
  <2> QED
    BY <2>1
<1> HIDE DEF Y
<1>3. \A n \in Nat : n \in Y
  BY <1>1, <1>2, NumbersByInduction
<1>4. ASSUME NEW T \in SUBSET S PROVE T \in X
  <2>1. Cardinality(T) \in Nat
    BY FS_Subset, FS_CardinalityType
  <2> QED
    BY <1>3, <2>1 DEF Y
<1> QED
  BY <1>4

\* Every finite set of natural numbers that is not empty has a greatest element.
LEMMA GreatestNumber ==
  ASSUME NEW S, IsFiniteSet(S), S \subseteq Nat, S # {}
  PROVE  \E m \in S : \A n \in S : n <= m
<1> DEFINE X == {T \in SUBSET S : T # {} => \E m \in T : \A n \in T : n <= m}
<1>1. {} \in X
  OBVIOUS
<1>2. ASSUME NEW T \in SUBSET S, NEW y \in S \ T, T \in X
      PROVE  T \cup {y} \in X
  <2>1. CASE T = {}
    <3>1. T \cup {y} = {y} /\ y <= y
      BY <2>1
    <3> QED
      BY <3>1
  <2>2. CASE T # {}
    <3>1. PICK m \in T : \A n \in T : n <= m
      BY <1>2, <2>2
    <3>2. CASE y <= m
      BY <3>1, <3>2
    <3>3. CASE m < y
      <4>1. \A n \in T : n <= y
        BY <3>1, <3>3
      <4> QED
        BY <4>1
    <3>4. y <= m \/ m < y
      OBVIOUS
    <3> QED
      BY <3>2, <3>3, <3>4
  <2> QED
    BY <2>1, <2>2
<1> HIDE DEF X
<1>3. S \in X
  BY <1>1, <1>2, SubsetsByInduction
<1> QED
  BY <1>3 DEF X

(***************************************************************************)
(* The recursion                                                           *)
(***************************************************************************)

\* The sum over s, given a function F that has the sums over smaller sets.
Term(F, f, s) == IF s = {} THEN 0
                 ELSE LET x == CHOOSE y \in s : TRUE IN f[x] + F[s \ {x}]

\* F has the sums of f over the subsets of S.
IsSum(F, f, S) == F = [s \in SUBSET S |-> Term(F, f, s)]

\* Such a function exists: it is built up by the size of the subsets.
LEMMA SumExists ==
  ASSUME NEW f, NEW S, IsFiniteSet(S)
  PROVE  \E F : IsSum(F, f, S)
<1> DEFINE D(n) == {s \in SUBSET S : Cardinality(s) <= n}
           X == {n \in Nat : \E F : F = [s \in D(n) |-> Term(F, f, s)]}
<1>0. ASSUME NEW s \in SUBSET S
      PROVE  IsFiniteSet(s) /\ Cardinality(s) \in Nat /\ Cardinality(s) <= Cardinality(S)
  BY FS_Subset, FS_CardinalityType
<1>1. 0 \in X
  <2>1. \A s \in D(0) : s = {}
    BY <1>0, FS_EmptySet
  <2> DEFINE F == [s \in D(0) |-> 0]
  <2>2. \A G : \A s \in D(0) : Term(G, f, s) = 0
    BY <2>1 DEF Term
  <2>3. F = [s \in D(0) |-> Term(F, f, s)]
    BY <2>2
  <2> QED
    BY <2>3
<1>2. ASSUME NEW n \in Nat, n \in X PROVE n + 1 \in X
  <2>1. PICK F : F = [s \in D(n) |-> Term(F, f, s)]
    BY <1>2
  <2> DEFINE G == [s \in D(n + 1) |-> Term(F, f, s)]
  <2>2. \A s \in D(n) : s \in D(n + 1)
    BY <1>0
  <2>3. \A s \in D(n) : G[s] = F[s]
    <3>1. \A s \in D(n) : F[s] = Term(F, f, s)
      BY <2>1
    <3> HIDE DEF D
    <3> QED
      BY <2>2, <3>1
  <2>4. ASSUME NEW s \in D(n + 1), NEW x \in s PROVE s \ {x} \in D(n)
    BY <1>0, FS_RemoveElement
  <2>5. ASSUME NEW s \in D(n + 1) PROVE Term(F, f, s) = Term(G, f, s)
    <3>1. CASE s = {}
      BY <3>1 DEF Term
    <3>2. CASE s # {}
      <4> DEFINE x == CHOOSE y \in s : TRUE
      <4>1. x \in s
        BY <3>2
      <4>2. G[s \ {x}] = F[s \ {x}]
        BY <2>3, <2>4, <4>1
      <4> HIDE DEF G, D
      <4> QED
        BY <3>2, <4>2 DEF Term
    <3> QED
      BY <3>1, <3>2
  <2> HIDE DEF D
  <2>6. G = [s \in D(n + 1) |-> Term(G, f, s)]
    BY <2>5
  <2> HIDE DEF G
  <2> QED
    BY <2>6
<1> HIDE DEF X
<1>3. Cardinality(S) \in X
  BY <1>1, <1>2, NumbersByInduction, FS_CardinalityType
<1>4. D(Cardinality(S)) = SUBSET S
  BY <1>0
<1> QED
  BY <1>3, <1>4 DEF X, IsSum

\* SumFunction is the value of such a function.
LEMMA SumIsSum ==
  ASSUME NEW S, IsFiniteSet(S), NEW f, DOMAIN f = S
  PROVE  \E F : IsSum(F, f, S) /\ SumFunction(f) = F[S]
<1>1. SumFunction(f) = SumFunctionOnSet(f, S)
  BY DEF SumFunction
<1>2. PICK F : F = [s \in SUBSET S |-> Term(F, f, s)]
  <2>1. \E F : IsSum(F, f, S)
    BY SumExists
  <2> QED
    BY <2>1 DEF IsSum
<1>3. \E G : /\ G = [s \in SUBSET S |-> Term(G, f, s)]
             /\ SumFunctionOnSet(f, S) = G[S]
  BY <1>2 DEF SumFunctionOnSet, FoldFunctionOnSet, MapThenFoldSet, Term
<1> QED
  BY <1>1, <1>3 DEF IsSum

\* Any element may be taken out of a sum: the order is immaterial.
SumsInAnyOrder(F, f, S) ==
  /\ F[{}] = 0
  /\ \A T \in SUBSET S :
       /\ F[T] \in Int
       /\ \A y \in T : F[T \ {y}] \in Int /\ F[T] = f[y] + F[T \ {y}]

\* The recursion, which takes out the elements in one order, does so in any.
LEMMA SumRemove ==
  ASSUME NEW S, IsFiniteSet(S), NEW f \in [S -> Int], NEW F, IsSum(F, f, S)
  PROVE  SumsInAnyOrder(F, f, S)
<1> DEFINE Good(T) ==
             /\ F[T] \in Int
             /\ \A y \in T : F[T \ {y}] \in Int /\ F[T] = f[y] + F[T \ {y}]
           X == {n \in Nat : \A T \in SUBSET S : Cardinality(T) = n => Good(T)}
<1>1. \A T \in SUBSET S : F[T] = Term(F, f, T)
  BY DEF IsSum
<1>2. F[{}] = 0
  BY <1>1 DEF Term
<1>3. 0 \in X
  <2>1. ASSUME NEW T \in SUBSET S, Cardinality(T) = 0 PROVE Good(T)
    <3>1. T = {}
      BY <2>1, FS_Subset, FS_EmptySet
    <3> QED
      BY <1>2, <3>1
  <2> HIDE DEF Good
  <2> QED
    BY <2>1
<1>4. ASSUME NEW n \in Nat, n \in X PROVE n + 1 \in X
  <2>1. ASSUME NEW T \in SUBSET S, Cardinality(T) = n + 1 PROVE Good(T)
    <3>1. IsFiniteSet(T) /\ T # {}
      BY <2>1, FS_Subset, FS_EmptySet
    <3>2. ASSUME NEW y \in T PROVE T \ {y} \in SUBSET S /\ Good(T \ {y})
      <4>1. Cardinality(T \ {y}) = Cardinality(T) - 1
        BY <3>1, FS_RemoveElement
      <4>2. Cardinality(T \ {y}) = n
        BY <2>1, <4>1
      <4> HIDE DEF Good
      <4> QED
        BY <1>4, <4>2
    <3> DEFINE x == CHOOSE y \in T : TRUE
    <3>3. x \in T
      BY <3>1
    <3>4. F[T] = f[x] + F[T \ {x}]
      BY <1>1, <3>1 DEF Term
    <3> HIDE DEF x
    <3>5. F[T] \in Int
      BY <3>2, <3>3, <3>4
    <3>6. ASSUME NEW y \in T, y # x PROVE F[T] = f[y] + F[T \ {y}]
      <4>1. y \in T \ {x} /\ x \in T \ {y}
        BY <3>3, <3>6
      <4>2. /\ F[(T \ {x}) \ {y}] \in Int
            /\ F[T \ {x}] = f[y] + F[(T \ {x}) \ {y}]
        BY <3>2, <3>3, <4>1
      <4>3. F[T \ {y}] = f[x] + F[(T \ {y}) \ {x}]
        BY <3>2, <4>1
      <4>4. (T \ {x}) \ {y} = (T \ {y}) \ {x}
        OBVIOUS
      <4>5. f[x] \in Int /\ f[y] \in Int
        BY <3>3
      <4>6. F[T \ {y}] = f[x] + F[(T \ {x}) \ {y}]
        BY <4>3, <4>4, Zenon
      <4>7. \A a, b, c \in Int : a + (b + c) = b + (a + c)
        OBVIOUS
      <4>8. F[T] = f[x] + (f[y] + F[(T \ {x}) \ {y}])
        BY <3>4, <4>2, Zenon
      <4>9. F[T] = f[y] + (f[x] + F[(T \ {x}) \ {y}])
        BY <4>2, <4>5, <4>7, <4>8, Zenon
      <4> QED
        BY <4>6, <4>9, Zenon
    <3> QED
      BY <3>2, <3>4, <3>5, <3>6
  <2> HIDE DEF Good
  <2> QED
    BY <2>1
<1> HIDE DEF X
<1>5. \A n \in Nat : n \in X
  BY <1>3, <1>4, NumbersByInduction
<1>6. ASSUME NEW T \in SUBSET S PROVE Good(T)
  <2>1. Cardinality(T) \in Nat
    BY FS_Subset, FS_CardinalityType
  <2> HIDE DEF Good
  <2> QED
    BY <1>5, <2>1 DEF X
<1> QED
  BY <1>2, <1>6 DEF SumsInAnyOrder

\* The sum over a subset on which one function is not above the other.
LEMMA SumBelow ==
  ASSUME NEW S, IsFiniteSet(S), NEW f \in [S -> Int], NEW g \in [S -> Int],
         NEW F, IsSum(F, f, S), NEW G, IsSum(G, g, S),
         NEW T \in SUBSET S, \A x \in T : f[x] <= g[x]
  PROVE  F[T] <= G[T]
<1> DEFINE X == {U \in SUBSET S : (\A x \in U : f[x] <= g[x]) => F[U] <= G[U]}
<1>3. SumsInAnyOrder(F, f, S) /\ SumsInAnyOrder(G, g, S)
  BY SumRemove
<1>1. {} \in X
  BY <1>3 DEF SumsInAnyOrder
<1>2. ASSUME NEW U \in SUBSET S, NEW y \in S \ U, U \in X
      PROVE  U \cup {y} \in X
  <2>1. ASSUME \A x \in U \cup {y} : f[x] <= g[x]
        PROVE  F[U \cup {y}] <= G[U \cup {y}]
    <3>1. (U \cup {y}) \ {y} = U
      OBVIOUS
    <3>2. /\ F[U \cup {y}] = f[y] + F[(U \cup {y}) \ {y}]
          /\ G[U \cup {y}] = g[y] + G[(U \cup {y}) \ {y}]
          /\ F[U] \in Int /\ G[U] \in Int
      BY <1>3 DEF SumsInAnyOrder
    <3>3. F[U \cup {y}] = f[y] + F[U] /\ G[U \cup {y}] = g[y] + G[U]
      BY <3>1, <3>2, Zenon
    <3>4. F[U] <= G[U] /\ f[y] <= g[y] /\ f[y] \in Int /\ g[y] \in Int
      BY <1>2, <2>1
    <3> QED
      BY <3>2, <3>3, <3>4
  <2> QED
    BY <2>1
<1> HIDE DEF X
<1>5. T \in X
  BY <1>1, <1>2, SubsetsByInduction
<1> QED
  BY <1>5 DEF X

(***************************************************************************)
(* Sums                                                                    *)
(***************************************************************************)

\* A sum of integers is an integer, and one of numbers is a number.
LEMMA SumType ==
  ASSUME NEW S, IsFiniteSet(S), NEW f \in [S -> Int]
  PROVE  /\ SumFunction(f) \in Int
         /\ f \in [S -> Nat] => SumFunction(f) \in Nat
<1>1. PICK F : IsSum(F, f, S) /\ SumFunction(f) = F[S]
  BY SumIsSum
<1>a. SumsInAnyOrder(F, f, S)
  BY <1>1, SumRemove
<1>2. F[S] \in Int
  BY <1>a DEF SumsInAnyOrder
<1>3. ASSUME f \in [S -> Nat] PROVE F[S] \in Nat
  <2> DEFINE X == {U \in SUBSET S : F[U] \in Nat}
  <2>1. {} \in X
    BY <1>a DEF SumsInAnyOrder
  <2>2. ASSUME NEW U \in SUBSET S, NEW y \in S \ U, U \in X
        PROVE  U \cup {y} \in X
    <3>1. (U \cup {y}) \ {y} = U
      OBVIOUS
    <3>2. F[U \cup {y}] = f[y] + F[(U \cup {y}) \ {y}]
      BY <1>a DEF SumsInAnyOrder
    <3>3. F[U \cup {y}] = f[y] + F[U]
      BY <3>1, <3>2, Zenon
    <3> QED
      BY <1>3, <2>2, <3>3
  <2> HIDE DEF X
  <2>3. S \in X
    BY <2>1, <2>2, SubsetsByInduction
  <2> QED
    BY <2>3 DEF X
<1> QED
  BY <1>1, <1>2, <1>3

\* The sum of zeros is zero.
LEMMA SumZero ==
  ASSUME NEW S, IsFiniteSet(S)
  PROVE  SumFunction([x \in S |-> 0]) = 0
<1> DEFINE f == [x \in S |-> 0]
<1>1. f \in [S -> Int] /\ DOMAIN f = S /\ \A x \in S : f[x] = 0
  OBVIOUS
<1> HIDE DEF f
<1>2. PICK F : IsSum(F, f, S) /\ SumFunction(f) = F[S]
  BY <1>1, SumIsSum
<1>a. SumsInAnyOrder(F, f, S)
  BY <1>1, <1>2, SumRemove
<1> DEFINE X == {U \in SUBSET S : F[U] = 0}
<1>3. {} \in X
  BY <1>a DEF SumsInAnyOrder
<1>4. ASSUME NEW U \in SUBSET S, NEW y \in S \ U, U \in X
      PROVE  U \cup {y} \in X
  <2>1. (U \cup {y}) \ {y} = U
    OBVIOUS
  <2>2. F[U \cup {y}] = f[y] + F[(U \cup {y}) \ {y}]
    BY <1>a DEF SumsInAnyOrder
  <2>3. F[U \cup {y}] = f[y] + F[U]
    BY <2>1, <2>2, Zenon
  <2> QED
    BY <1>1, <1>4, <2>3
<1> HIDE DEF X
<1>5. S \in X
  BY <1>3, <1>4, SubsetsByInduction
<1> QED
  BY <1>2, <1>5 DEF X, f

\* A function that is nowhere above another has no greater sum.
LEMMA SumMono ==
  ASSUME NEW S, IsFiniteSet(S), NEW f \in [S -> Int], NEW g \in [S -> Int],
         \A x \in S : f[x] <= g[x]
  PROVE  SumFunction(f) <= SumFunction(g)
<1>1. PICK F : IsSum(F, f, S) /\ SumFunction(f) = F[S]
  BY SumIsSum
<1>2. PICK G : IsSum(G, g, S) /\ SumFunction(g) = G[S]
  BY SumIsSum
<1> QED
  BY <1>1, <1>2, SumBelow

\* A change of one element changes the sum by as much.
LEMMA SumChange ==
  ASSUME NEW S, IsFiniteSet(S), NEW f \in [S -> Int], NEW g \in [S -> Int],
         NEW a \in S, \A x \in S \ {a} : f[x] = g[x]
  PROVE  SumFunction(g) = SumFunction(f) + (g[a] - f[a])
<1>1. PICK F : IsSum(F, f, S) /\ SumFunction(f) = F[S]
  BY SumIsSum
<1>2. PICK G : IsSum(G, g, S) /\ SumFunction(g) = G[S]
  BY SumIsSum
<1> DEFINE T == S \ {a}
<1>3. F[S] = f[a] + F[T] /\ F[T] \in Int
  <2>1. SumsInAnyOrder(F, f, S)
    BY <1>1, SumRemove
  <2> QED
    BY <2>1 DEF SumsInAnyOrder
<1>4. G[S] = g[a] + G[T] /\ G[T] \in Int
  <2>1. SumsInAnyOrder(G, g, S)
    BY <1>2, SumRemove
  <2> QED
    BY <2>1 DEF SumsInAnyOrder
<1>6. F[T] = G[T]
  <2>1. \A x \in T : f[x] \in Int /\ g[x] \in Int /\ f[x] <= g[x] /\ g[x] <= f[x]
    OBVIOUS
  <2>2. T \in SUBSET S
    OBVIOUS
  <2> HIDE DEF T
  <2>3. F[T] <= G[T]
    BY <1>1, <1>2, <2>1, <2>2, SumBelow
  <2>4. G[T] <= F[T]
    BY <1>1, <1>2, <2>1, <2>2, SumBelow
  <2> QED
    BY <1>3, <1>4, <2>3, <2>4
<1>5. f[a] \in Int /\ g[a] \in Int
  OBVIOUS
<1> HIDE DEF T
<1> QED
  BY <1>1, <1>2, <1>3, <1>4, <1>5, <1>6

\* The same for a change of two elements.
LEMMA SumChangeTwo ==
  ASSUME NEW S, IsFiniteSet(S), NEW f \in [S -> Int], NEW g \in [S -> Int],
         NEW a \in S, NEW b \in S, a # b,
         \A x \in S \ {a, b} : f[x] = g[x]
  PROVE  SumFunction(g) = SumFunction(f) + (g[a] - f[a]) + (g[b] - f[b])
<1> DEFINE h == [f EXCEPT ![a] = g[a]]
<1>1. /\ h \in [S -> Int] /\ h[a] = g[a] /\ h[b] = f[b]
      /\ \A x \in S \ {a} : f[x] = h[x]
      /\ \A x \in S \ {b} : h[x] = g[x]
  OBVIOUS
<1> HIDE DEF h
<1>2. SumFunction(h) = SumFunction(f) + (h[a] - f[a])
  BY <1>1, SumChange
<1>3. SumFunction(g) = SumFunction(h) + (g[b] - h[b])
  BY <1>1, SumChange
<1>4. /\ SumFunction(f) \in Int /\ SumFunction(h) \in Int
      /\ f[a] \in Int /\ g[a] \in Int /\ f[b] \in Int /\ g[b] \in Int
  BY <1>1, SumType
<1> QED
  BY <1>1, <1>2, <1>3, <1>4

\* No element of a sum of numbers exceeds the sum.
LEMMA SumAtLeast ==
  ASSUME NEW S, IsFiniteSet(S), NEW f \in [S -> Nat], NEW a \in S
  PROVE  f[a] <= SumFunction(f)
<1> DEFINE g == [f EXCEPT ![a] = 0]
<1>1. /\ g \in [S -> Nat] /\ g \in [S -> Int] /\ f \in [S -> Int]
      /\ g[a] = 0 /\ \A x \in S \ {a} : g[x] = f[x]
  OBVIOUS
<1> HIDE DEF g
<1>2. SumFunction(g) \in Nat
  BY <1>1, SumType
<1>3. SumFunction(f) = SumFunction(g) + (f[a] - g[a])
  BY <1>1, SumChange
<1> QED
  BY <1>1, <1>2, <1>3
\* A sum of the differences along a list of numbers.
LEMMA SumTelescopes ==
  ASSUME NEW n \in Nat, NEW f \in [1..n -> Int], NEW g \in [0..n -> Int],
         \A i \in 1..n : f[i] = g[i] - g[i - 1]
  PROVE  SumFunction(f) = g[n] - g[0]
<1>1. IsFiniteSet(1..n) /\ DOMAIN f = 1..n
  BY FS_Interval
<1>2. PICK F : IsSum(F, f, 1..n) /\ SumFunction(f) = F[1..n]
  BY <1>1, SumIsSum
<1>3. SumsInAnyOrder(F, f, 1..n)
  BY <1>1, <1>2, SumRemove
<1> DEFINE X == {m \in Nat : m <= n => F[1..m] = g[m] - g[0]}
<1>4. 0 \in X
  <2>1. F[1..0] = 0
    <3>1. 1..0 = {} /\ F[{}] = 0
      BY <1>3 DEF SumsInAnyOrder
    <3> QED
      BY <3>1, Zenon
  <2>2. g[0] \in Int
    OBVIOUS
  <2> QED
    BY <2>1, <2>2
<1>5. ASSUME NEW m \in Nat, m \in X PROVE m + 1 \in X
  <2>1. SUFFICES ASSUME m + 1 <= n PROVE F[1..(m + 1)] = g[m + 1] - g[0]
    OBVIOUS
  <2>2. F[1..m] = g[m] - g[0]
    BY <1>5, <2>1
  <2>3. /\ 1..(m + 1) \in SUBSET (1..n) /\ m + 1 \in 1..(m + 1)
        /\ (1..(m + 1)) \ {m + 1} = 1..m
    <3>1. \A i : /\ i \in 1..m <=> i \in Int /\ 1 <= i /\ i <= m
                 /\ i \in 1..(m + 1) <=> i \in Int /\ 1 <= i /\ i <= m + 1
                 /\ i \in 1..n <=> i \in Int /\ 1 <= i /\ i <= n
      OBVIOUS
    <3>2. \A i \in Int : i <= m + 1 /\ i # m + 1 <=> i <= m
      OBVIOUS
    <3>3. m + 1 \in Int /\ 1 <= m + 1 /\ \A i \in Int : i <= m + 1 => i <= n
      BY <2>1
    <3>4. 1..(m + 1) \in SUBSET (1..n)
      BY <3>1, <3>3
    <3>5. \A i : i \in (1..(m + 1)) \ {m + 1} <=> i \in 1..m
      BY <3>1, <3>2
    <3>6. m + 1 \in 1..(m + 1)
      BY <3>1, <3>3
    <3>7. (1..(m + 1)) \ {m + 1} = 1..m
      BY <3>5, Zenon
    <3> QED
      BY <3>4, <3>6, <3>7, Zenon
  <2>4. F[1..(m + 1)] = f[m + 1] + F[(1..(m + 1)) \ {m + 1}]
    BY <1>3, <2>3 DEF SumsInAnyOrder
  <2>5. F[1..(m + 1)] = f[m + 1] + F[1..m]
    BY <2>3, <2>4, Zenon
  <2>6. f[m + 1] = g[m + 1] - g[m] /\ g[m + 1] \in Int /\ g[m] \in Int /\ g[0] \in Int
    <3>1. m + 1 \in 1..n /\ (m + 1) - 1 = m /\ m \in 0..n /\ m + 1 \in 0..n /\ 0 \in 0..n
      BY <2>1
    <3>2. f[m + 1] = g[m + 1] - g[(m + 1) - 1]
      BY <3>1
    <3> QED
      BY <3>1, <3>2
  <2> QED
    BY <2>2, <2>5, <2>6
<1> HIDE DEF X
<1>6. n \in X
  BY <1>4, <1>5, NumbersByInduction
<1> QED
  BY <1>2, <1>6 DEF X

\* What is added to the elements of a subset is added to the sum.
LEMMA SumSpread ==
  ASSUME NEW S, IsFiniteSet(S), NEW T \in SUBSET S, NEW f \in [S -> Int],
         NEW g \in [S -> Int], NEW h \in [T -> Int],
         \A x \in T : g[x] = f[x] + h[x], \A x \in S \ T : g[x] = f[x]
  PROVE  SumFunction(g) = SumFunction(f) + SumFunction(h)
<1>1. IsFiniteSet(T) /\ DOMAIN h = T
  BY FS_Subset
<1>2. PICK H : IsSum(H, h, T) /\ SumFunction(h) = H[T]
  BY <1>1, SumIsSum
<1>3. SumsInAnyOrder(H, h, T)
  BY <1>1, <1>2, SumRemove
<1> DEFINE G(U) == [x \in S |-> IF x \in U THEN g[x] ELSE f[x]]
           X == {U \in SUBSET T : SumFunction(G(U)) = SumFunction(f) + H[U]}
<1>4. SumFunction(f) \in Int
  BY SumType
<1>9. ASSUME NEW p \in [S -> Int], NEW q \in [S -> Int], NEW a \in S,
             \A x \in S \ {a} : p[x] = q[x]
      PROVE  SumFunction(q) = SumFunction(p) + (q[a] - p[a])
  BY <1>9, SumChange
<1>5. {} \in X
  <2>1. G({}) = f
    OBVIOUS
  <2>2. H[{}] = 0
    BY <1>3 DEF SumsInAnyOrder
  <2> QED
    BY <1>4, <2>1, <2>2
<1>6. ASSUME NEW U \in SUBSET T, NEW y \in T \ U, U \in X
      PROVE  U \cup {y} \in X
  <2>1. /\ G(U) \in [S -> Int] /\ G(U \cup {y}) \in [S -> Int] /\ y \in S
        /\ \A x \in S \ {y} : G(U)[x] = G(U \cup {y})[x]
        /\ G(U)[y] = f[y] /\ G(U \cup {y})[y] = g[y]
    OBVIOUS
  <2>2. SumFunction(G(U)) = SumFunction(f) + H[U]
    BY <1>6
  <2>3. SumFunction(G(U \cup {y})) = SumFunction(G(U)) + (g[y] - f[y])
    <3> DEFINE old == G(U)
               new == G(U \cup {y})
    <3>1. /\ old \in [S -> Int] /\ new \in [S -> Int] /\ y \in S
          /\ \A x \in S \ {y} : old[x] = new[x]
          /\ old[y] = f[y] /\ new[y] = g[y]
      BY <2>1
    <3> HIDE DEF old, new, X, G
    <3>2. SumFunction(new) = SumFunction(old) + (new[y] - old[y])
      BY <1>9, <3>1, Zenon
    <3> QED
      BY <3>1, <3>2 DEF old, new
  <2> HIDE DEF G
  <2>4. (U \cup {y}) \ {y} = U
    OBVIOUS
  <2>5. H[U \cup {y}] = h[y] + H[(U \cup {y}) \ {y}] /\ H[U] \in Int
    BY <1>3 DEF SumsInAnyOrder
  <2>6. H[U \cup {y}] = h[y] + H[U]
    BY <2>4, <2>5, Zenon
  <2>7. g[y] = f[y] + h[y] /\ f[y] \in Int /\ h[y] \in Int
    BY <2>1
  <2>8. SumFunction(G(U \cup {y})) = SumFunction(f) + H[U \cup {y}]
    BY <1>4, <2>2, <2>3, <2>5, <2>6, <2>7
  <2> QED
    BY <2>8
<1> HIDE DEF X
<1>7. T \in X
  <2>1. \A V \in SUBSET T : V \in X
    BY <1>1, <1>5, <1>6, SubsetsByInduction
  <2> QED
    BY <2>1
<1>8. G(T) = g
  OBVIOUS
<1> QED
  BY <1>2, <1>7, <1>8 DEF X

\* g has h added to f on a part of S; f is part on T and rest on the rest of S.
Spreads(S, T, f, g, h) ==
  /\ IsFiniteSet(S) /\ T \in SUBSET S
  /\ f \in [S -> Int] /\ g \in [S -> Int] /\ h \in [T -> Int]
  /\ \A x \in T : g[x] = f[x] + h[x]
  /\ \A x \in S \ T : g[x] = f[x]
Splits(S, T, f, part, rest) ==
  /\ IsFiniteSet(S) /\ T \in SUBSET S /\ f \in [S -> Int]
  /\ part \in [T -> Int] /\ \A x \in T : part[x] = f[x]
  /\ rest \in [S \ T -> Int] /\ \A x \in S \ T : rest[x] = f[x]

\* The same as SumSpread, for the provers to find its variables.
LEMMA SumSpreads ==
  ASSUME NEW S, NEW T, NEW f, NEW g, NEW h, Spreads(S, T, f, g, h)
  PROVE  SumFunction(g) = SumFunction(f) + SumFunction(h)
BY SumSpread DEF Spreads

\* Zeros may be left out of a sum.
LEMMA SumOfPart ==
  ASSUME NEW S, IsFiniteSet(S), NEW T \in SUBSET S, NEW f \in [T -> Int],
         NEW g \in [S -> Int], \A x \in T : g[x] = f[x], \A x \in S \ T : g[x] = 0
  PROVE  SumFunction(g) = SumFunction(f)
<1> DEFINE zero == [x \in S |-> 0]
<1>1. Spreads(S, T, zero, g, f)
  BY DEF Spreads
<1>2. SumFunction(zero) = 0
  BY SumZero
<1>3. SumFunction(f) \in Int
  BY FS_Subset, SumType
<1> HIDE DEF zero
<1>4. SumFunction(g) = SumFunction(zero) + SumFunction(f)
  BY <1>1, SumSpreads
<1> QED
  BY <1>2, <1>3, <1>4

\* A sum is the sum over a part and over the rest.
LEMMA SumSplits ==
  ASSUME NEW S, NEW T, NEW f, NEW part, NEW rest, Splits(S, T, f, part, rest)
  PROVE  SumFunction(f) = SumFunction(part) + SumFunction(rest)
<1> DEFINE masked == [x \in S |-> IF x \in T THEN 0 ELSE f[x]]
           R == S \ T
<1>1. /\ R \in SUBSET S /\ IsFiniteSet(S) /\ IsFiniteSet(R) /\ IsFiniteSet(T)
      /\ masked \in [S -> Int] /\ rest \in [R -> Int] /\ part \in [T -> Int]
      /\ \A x \in R : masked[x] = rest[x]
      /\ \A x \in S \ R : masked[x] = 0
  BY FS_Subset DEF Splits
<1>2. Spreads(S, T, masked, f, part)
  BY DEF Splits, Spreads
<1>3. SumFunction(part) \in Int /\ SumFunction(rest) \in Int
  BY <1>1, SumType
<1> HIDE DEF masked, R
<1>4. SumFunction(masked) = SumFunction(rest)
  BY <1>1, SumOfPart
<1>5. SumFunction(f) = SumFunction(masked) + SumFunction(part)
  BY <1>2, SumSpreads
<1> QED
  BY <1>3, <1>4, <1>5

\* What is added to every element is added to the sum.
LEMMA SumAdds ==
  ASSUME NEW S, IsFiniteSet(S), NEW f \in [S -> Int], NEW h \in [S -> Int],
         NEW g \in [S -> Int], \A x \in S : g[x] = f[x] + h[x]
  PROVE  SumFunction(g) = SumFunction(f) + SumFunction(h)
<1>1. S \in SUBSET S /\ \A x \in S \ S : g[x] = f[x]
  OBVIOUS
<1> QED
  BY <1>1, SumSpread

\* A factor of all elements is a factor of the sum.
LEMMA SumScales ==
  ASSUME NEW S, IsFiniteSet(S), NEW k \in Nat, NEW f \in [S -> Nat],
         NEW g \in [S -> Nat], \A x \in S : g[x] = k * f[x]
  PROVE  SumFunction(g) = k * SumFunction(f)
<1>1. f \in [S -> Int] /\ g \in [S -> Int] /\ DOMAIN f = S /\ DOMAIN g = S
  OBVIOUS
<1>2. PICK F : IsSum(F, f, S) /\ SumFunction(f) = F[S]
  BY <1>1, SumIsSum
<1>3. PICK G : IsSum(G, g, S) /\ SumFunction(g) = G[S]
  BY <1>1, SumIsSum
<1>4. SumsInAnyOrder(F, f, S) /\ SumsInAnyOrder(G, g, S)
  BY <1>1, <1>2, <1>3, SumRemove
<1> DEFINE X == {U \in SUBSET S : G[U] = k * F[U]}
<1>5. {} \in X
  BY <1>4 DEF SumsInAnyOrder
<1>6. ASSUME NEW U \in SUBSET S, NEW y \in S \ U, U \in X
      PROVE  U \cup {y} \in X
  <2> DEFINE V == U \cup {y}
  <2>1. V \in SUBSET S /\ y \in V /\ V \ {y} = U
    OBVIOUS
  <2> HIDE DEF V
  <2>2. /\ F[V] = f[y] + F[V \ {y}] /\ F[U] \in Int
        /\ G[V] = g[y] + G[V \ {y}] /\ G[U] \in Int
    BY <1>4, <2>1 DEF SumsInAnyOrder
  <2>3. g[y] = k * f[y] /\ f[y] \in Int /\ G[U] = k * F[U]
    BY <1>6
  <2>4. \A a, b \in Int : k * (a + b) = k * a + k * b
    OBVIOUS
  <2>5. G[V] = k * F[V]
    BY <2>1, <2>2, <2>3, <2>4
  <2> QED
    BY <2>1, <2>5 DEF V
<1> HIDE DEF X
<1>7. \A V \in SUBSET S : V \in X
  BY <1>5, <1>6, SubsetsByInduction
<1>8. S \in X
  BY <1>7
<1> QED
  BY <1>2, <1>3, <1>8 DEF X

\* The sum of equal elements.
LEMMA SumOfEqual ==
  ASSUME NEW S, IsFiniteSet(S), NEW k \in Nat
  PROVE  SumFunction([x \in S |-> k]) = Cardinality(S) * k
<1> DEFINE f == [x \in S |-> k]
<1>1. f \in [S -> Int] /\ DOMAIN f = S /\ \A x \in S : f[x] = k
  OBVIOUS
<1> HIDE DEF f
<1>2. PICK F : IsSum(F, f, S) /\ SumFunction(f) = F[S]
  BY <1>1, SumIsSum
<1>3. SumsInAnyOrder(F, f, S)
  BY <1>1, <1>2, SumRemove
<1> DEFINE X == {U \in SUBSET S : F[U] = Cardinality(U) * k}
<1>4. {} \in X
  BY <1>3, FS_EmptySet DEF SumsInAnyOrder
<1>5. ASSUME NEW U \in SUBSET S, NEW y \in S \ U, U \in X
      PROVE  U \cup {y} \in X
  <2> DEFINE V == U \cup {y}
  <2>1. V \in SUBSET S /\ y \in V /\ V \ {y} = U
    OBVIOUS
  <2>2. F[V] = f[y] + F[U] /\ f[y] = k
    BY <1>1, <1>3, <2>1 DEF SumsInAnyOrder
  <2>3. IsFiniteSet(U)
    BY FS_Subset
  <2>4. Cardinality(V) = Cardinality(U) + 1 /\ Cardinality(U) \in Nat
    BY <2>3, FS_AddElement, FS_CardinalityType
  <2>5. F[U] = Cardinality(U) * k
    BY <1>5
  <2>6. \A n \in Nat : (n + 1) * k = n * k + k /\ n * k \in Nat
    OBVIOUS
  <2>7. F[V] = Cardinality(V) * k
    BY <2>2, <2>4, <2>5, <2>6
  <2> QED
    BY <2>1, <2>7
<1> HIDE DEF X
<1>6. \A V \in SUBSET S : V \in X
  BY <1>4, <1>5, SubsetsByInduction
<1>7. S \in X
  BY <1>6
<1> QED
  BY <1>2, <1>7 DEF X, f

\* What is left out of a sum of numbers makes it no greater.
LEMMA SumOfSubset ==
  ASSUME NEW S, IsFiniteSet(S), NEW T \in SUBSET S, NEW f \in [T -> Nat],
         NEW g \in [S -> Nat], \A x \in T : f[x] = g[x]
  PROVE  SumFunction(f) <= SumFunction(g)
<1> DEFINE h == [x \in S |-> IF x \in T THEN f[x] ELSE 0]
<1>1. /\ h \in [S -> Int] /\ g \in [S -> Int] /\ f \in [T -> Int]
      /\ \A x \in S : h[x] <= g[x]
      /\ \A x \in T : h[x] = f[x]
      /\ \A x \in S \ T : h[x] = 0
  OBVIOUS
<1> HIDE DEF h
<1>2. SumFunction(h) <= SumFunction(g)
  BY <1>1, SumMono
<1>3. SumFunction(h) = SumFunction(f)
  BY <1>1, SumOfPart
<1> QED
  BY <1>2, <1>3

\* Amounts times one, each divided by a price of its own and rounded up: at the same
\* prices they are worth no less than before, and more by less than one price each.
LEMMA RoundedUp ==
  ASSUME NEW S, IsFiniteSet(S), NEW one \in Nat, NEW a \in [S -> Nat],
         NEW p \in [S -> Nat \ {0}], NEW h \in [S -> Nat],
         \A x \in S : h[x] = p[x] * CeilDiv(a[x] * one, p[x])
  PROVE  /\ one * SumFunction(a) <= SumFunction(h)
         /\ SumFunction(h) <= one * SumFunction(a) + SumFunction(p)
<1> DEFINE w == [x \in S |-> one * a[x]]
           u == [x \in S |-> w[x] + p[x]]
<1>1. ASSUME NEW x \in S
      PROVE  /\ one * a[x] \in Nat
             /\ one * a[x] <= h[x] /\ h[x] <= one * a[x] + p[x]
  <2>1. a[x] \in Nat /\ p[x] \in Nat \ {0}
    OBVIOUS
  <2>2. \A m, n \in Nat : m * n \in Nat /\ m * n = n * m
    OBVIOUS
  <2> DEFINE n == a[x] * one
  <2>3. n \in Nat /\ n = one * a[x]
    BY <2>1, <2>2
  <2> HIDE DEF n
  <2>4. n <= p[x] * CeilDiv(n, p[x]) /\ p[x] * CeilDiv(n, p[x]) < n + p[x]
        /\ p[x] * CeilDiv(n, p[x]) \in Nat
    BY <2>1, <2>2, <2>3, CeilBounds
  <2>5. h[x] = p[x] * CeilDiv(n, p[x])
    BY DEF n
  <2> QED
    BY <2>1, <2>3, <2>4, <2>5
<1>2. /\ w \in [S -> Nat] /\ \A x \in S : w[x] = one * a[x]
      /\ u \in [S -> Nat] /\ \A x \in S : u[x] = w[x] + p[x]
  BY <1>1
<1>3. \A x \in S : w[x] <= h[x] /\ h[x] <= u[x]
  BY <1>1
<1> HIDE DEF w, u
<1>4. /\ w \in [S -> Int] /\ u \in [S -> Int] /\ h \in [S -> Int] /\ p \in [S -> Int]
      /\ \A x \in S : u[x] = w[x] + p[x]
  BY <1>2
<1>5. SumFunction(w) = one * SumFunction(a)
  BY <1>2, SumScales
<1>6. SumFunction(u) = SumFunction(w) + SumFunction(p)
  <2>1. ASSUME NEW f \in [S -> Int], NEW r \in [S -> Int], NEW g \in [S -> Int],
               \A x \in S : g[x] = f[x] + r[x]
        PROVE  SumFunction(g) = SumFunction(f) + SumFunction(r)
    BY <2>1, SumAdds
  <2> QED
    BY <1>4, <2>1, Zenon
<1>7. SumFunction(w) <= SumFunction(h)
  BY <1>3, <1>4, SumMono
<1>8. SumFunction(h) <= SumFunction(u)
  BY <1>3, <1>4, SumMono
<1> QED
  BY <1>5, <1>6, <1>7, <1>8

\* An amount divided equally among the members of a set, each share by a price of its
\* own and rounded up: at the same prices the shares are worth the amount together, and
\* more by less than one price each.
LEMMA SharedOut ==
  ASSUME NEW S, IsFiniteSet(S), S # {}, NEW amount \in Nat,
         NEW p \in [S -> Nat \ {0}], NEW h \in [S -> Nat],
         \A x \in S : h[x] = p[x] * CeilDiv(amount, p[x] * Cardinality(S))
  PROVE  /\ amount <= SumFunction(h)
         /\ SumFunction(h) <= amount + SumFunction(p)
<1> DEFINE n == Cardinality(S)
           w == [x \in S |-> amount]
           m == [x \in S |-> n * h[x]]
           q == [x \in S |-> n * p[x]]
           u == [x \in S |-> w[x] + q[x]]
<1>1. n \in Nat \ {0}
  BY FS_CardinalityType, FS_EmptySet
<1>2. \A x, y, z \in Nat : /\ x * y \in Nat /\ x * (y * z) = (y * x) * z
                           /\ x * y = y * x /\ (y # 0 /\ x # 0 => x * y # 0)
  OBVIOUS
<1> HIDE DEF n
<1>3. ASSUME NEW x \in S
      PROVE  /\ n * h[x] \in Nat /\ n * p[x] \in Nat
             /\ amount <= n * h[x] /\ n * h[x] <= amount + n * p[x]
  <2>1. p[x] \in Nat \ {0} /\ h[x] \in Nat
    OBVIOUS
  <2> DEFINE d == p[x] * n
             c == CeilDiv(amount, d)
  <2>2. d \in Nat \ {0} /\ d = n * p[x]
    BY <1>1, <1>2, <2>1
  <2>3. h[x] = p[x] * c
    BY DEF n
  <2> HIDE DEF d
  <2>4. c \in Nat /\ amount <= d * c /\ d * c < amount + d
    BY <2>2, CeilBounds
  <2> HIDE DEF c
  <2>5. n * h[x] = d * c
    BY <1>1, <1>2, <2>1, <2>3, <2>4 DEF d
  <2>6. n * h[x] \in Nat
    BY <1>1, <1>2, <2>1
  <2> QED
    BY <2>2, <2>4, <2>5, <2>6
<1>4. /\ w \in [S -> Nat] /\ m \in [S -> Nat] /\ q \in [S -> Nat] /\ u \in [S -> Nat]
      /\ \A x \in S : m[x] = n * h[x]
      /\ \A x \in S : q[x] = n * p[x]
      /\ \A x \in S : u[x] = w[x] + q[x]
      /\ \A x \in S : w[x] <= m[x] /\ m[x] <= u[x]
  BY <1>3
<1>5. SumFunction(w) = n * amount
  BY SumOfEqual DEF n
<1> HIDE DEF w, m, q, u
<1>6. /\ w \in [S -> Int] /\ m \in [S -> Int] /\ q \in [S -> Int] /\ u \in [S -> Int]
      /\ h \in [S -> Int] /\ p \in [S -> Nat] /\ p \in [S -> Int]
  BY <1>4
<1>7. SumFunction(m) = n * SumFunction(h)
  BY <1>1, <1>4, SumScales
<1>8. SumFunction(q) = n * SumFunction(p)
  BY <1>1, <1>4, <1>6, SumScales
<1>9. SumFunction(u) = SumFunction(w) + SumFunction(q)
  BY <1>4, <1>6, SumAdds
<1>10. SumFunction(w) <= SumFunction(m)
  BY <1>4, <1>6, SumMono
<1>11. SumFunction(m) <= SumFunction(u)
  BY <1>4, <1>6, SumMono
<1>12. SumFunction(h) \in Nat /\ SumFunction(p) \in Nat
  BY <1>6, SumType
<1>13. n * amount <= n * SumFunction(h)
  BY <1>5, <1>7, <1>10
<1>14. n * SumFunction(h) <= n * (amount + SumFunction(p))
  <2>1. \A x, y, z \in Nat : x * (y + z) = x * y + x * z
    OBVIOUS
  <2>2. n * (amount + SumFunction(p)) = n * amount + n * SumFunction(p)
    BY <1>1, <1>12, <2>1
  <2> QED
    BY <1>5, <1>7, <1>8, <1>9, <1>11, <2>2
<1>15. amount <= SumFunction(h)
  BY <1>1, <1>12, <1>13, CancelLeq
<1>16. SumFunction(h) <= amount + SumFunction(p)
  <2> DEFINE k == amount + SumFunction(p)
  <2>1. k \in Nat
    BY <1>12
  <2> HIDE DEF k
  <2>2. SumFunction(h) <= k
    BY <1>1, <1>12, <1>14, <2>1, CancelLeq DEF k
  <2> QED
    BY <2>2 DEF k
<1> QED
  BY <1>15, <1>16

(***************************************************************************)
(* Powers                                                                  *)
(***************************************************************************)

\* One round of the loop of powu, when F is what the rounds after it do.
PowTerm(F, one, y) ==
  [result \in 0..one |-> [x \in 0..one |->
     LET result2 == IF y % 2 = 1 THEN RoundDiv(result * x, one) ELSE result
     IN  IF y <= 1 THEN result2
         ELSE F[y \div 2][result2][RoundDiv(x * x, one)]]]

\* F is the loop for the exponents up to n, or for all of them.
IsPowUpTo(F, one, n) == F = [y \in 0..n |-> PowTerm(F, one, y)]
IsPow(F, one) == F = [y \in Nat |-> PowTerm(F, one, y)]

LEMMA HalfIsLess ==
  ASSUME NEW y \in Nat, y > 1 PROVE y \div 2 \in Nat /\ y \div 2 < y
OBVIOUS

\* A round looks at the exponent's half only.
LEMMA PowTermDepends ==
  ASSUME NEW F, NEW G, NEW one, NEW y \in Nat, y > 1 => F[y \div 2] = G[y \div 2]
  PROVE  PowTerm(F, one, y) = PowTerm(G, one, y)
<1>1. CASE y <= 1
  BY <1>1 DEF PowTerm
<1>2. CASE y > 1
  BY <1>2 DEF PowTerm
<1> QED
  BY <1>1, <1>2

\* For every bound on the exponents there is a loop.
LEMMA PowUpToExists ==
  ASSUME NEW one PROVE \A n \in Nat : \E F : IsPowUpTo(F, one, n)
<1> DEFINE X == {n \in Nat : \E F : IsPowUpTo(F, one, n)}
<1>1. 0 \in X
  <2> DEFINE F == [y \in 0..0 |-> PowTerm(0, one, y)]
  <2>1. \A y \in 0..0 : PowTerm(0, one, y) = PowTerm(F, one, y)
    <3> HIDE DEF F
    <3> QED
      BY PowTermDepends
  <2>2. F = [y \in 0..0 |-> PowTerm(F, one, y)]
    BY <2>1
  <2> QED
    BY <2>2 DEF IsPowUpTo
<1>2. ASSUME NEW n \in Nat, n \in X PROVE n + 1 \in X
  <2>1. PICK F : IsPowUpTo(F, one, n)
    BY <1>2
  <2> DEFINE G == [y \in 0..(n + 1) |-> PowTerm(F, one, y)]
  <2>2. \A y \in 0..n : G[y] = F[y]
    <3>1. \A y \in 0..n : F[y] = PowTerm(F, one, y)
      BY <2>1 DEF IsPowUpTo
    <3>2. \A y \in 0..n : y \in 0..(n + 1)
      OBVIOUS
    <3> QED
      BY <3>1, <3>2
  <2> HIDE DEF G
  <2>3. ASSUME NEW y \in 0..(n + 1) PROVE PowTerm(F, one, y) = PowTerm(G, one, y)
    <3>1. y \in Nat
      OBVIOUS
    <3>2. y > 1 => y \div 2 \in 0..n
      BY HalfIsLess
    <3>3. y > 1 => F[y \div 2] = G[y \div 2]
      BY <2>2, <3>2
    <3> QED
      BY <3>1, <3>3, PowTermDepends
  <2>4. G = [y \in 0..(n + 1) |-> PowTerm(G, one, y)]
    BY <2>3 DEF G
  <2> QED
    BY <2>4 DEF IsPowUpTo
<1> HIDE DEF X
<1>3. \A n \in Nat : n \in X
  BY <1>1, <1>2, NumbersByInduction
<1> QED
  BY <1>3 DEF X

\* Two loops agree where both are defined.
LEMMA PowUpToAgree ==
  ASSUME NEW one, NEW m \in Nat, NEW n \in Nat, m <= n,
         NEW F, IsPowUpTo(F, one, m), NEW G, IsPowUpTo(G, one, n)
  PROVE  F[m] = G[m]
<1> DEFINE X == {k \in Nat : \A y \in 0..k : y <= m => F[y] = G[y]}
<1>1. ASSUME NEW y \in 0..m
      PROVE  F[y] = PowTerm(F, one, y) /\ G[y] = PowTerm(G, one, y)
  <2>1. y \in 0..n
    OBVIOUS
  <2> QED
    BY <2>1 DEF IsPowUpTo
<1>2. 0 \in X
  <2>1. PowTerm(F, one, 0) = PowTerm(G, one, 0)
    BY PowTermDepends
  <2>2. F[0] = G[0]
    BY <1>1, <2>1
  <2> QED
    BY <2>2
<1>3. ASSUME NEW k \in Nat, k \in X PROVE k + 1 \in X
  <2>1. ASSUME k + 1 <= m PROVE F[k + 1] = G[k + 1]
    <3>1. k + 1 \in 0..m /\ k + 1 \in Nat
      BY <2>1
    <3>2. k + 1 > 1 => (k + 1) \div 2 \in 0..k /\ (k + 1) \div 2 <= m
      BY <2>1, HalfIsLess
    <3>3. k + 1 > 1 => F[(k + 1) \div 2] = G[(k + 1) \div 2]
      BY <1>3, <3>2
    <3>4. PowTerm(F, one, k + 1) = PowTerm(G, one, k + 1)
      BY <3>1, <3>3, PowTermDepends
    <3> QED
      BY <1>1, <3>1, <3>4
  <2>2. \A y \in 0..(k + 1) : y = k + 1 \/ y \in 0..k
    OBVIOUS
  <2> QED
    BY <1>3, <2>1, <2>2
<1> HIDE DEF X
<1>4. m \in X
  BY <1>2, <1>3, NumbersByInduction
<1> QED
  BY <1>4 DEF X

\* The recursion defines a loop for all exponents.
LEMMA PowExists ==
  ASSUME NEW one PROVE \E F : IsPow(F, one)
<1> DEFINE part(n) == CHOOSE F : IsPowUpTo(F, one, n)
           W == [y \in Nat |-> part(y)[y]]
<1>1. ASSUME NEW n \in Nat PROVE IsPowUpTo(part(n), one, n)
  <2>1. \E F : IsPowUpTo(F, one, n)
    BY PowUpToExists
  <2> QED
    BY <2>1
<1>2. \A y \in Nat : W[y] = part(y)[y]
  OBVIOUS
<1>3. ASSUME NEW y \in Nat PROVE part(y)[y] = PowTerm(W, one, y)
  <2> HIDE DEF part, W
  <2>1. part(y)[y] = PowTerm(part(y), one, y)
    <3>1. y \in 0..y
      OBVIOUS
    <3> QED
      BY <1>1, <3>1 DEF IsPowUpTo
  <2>2. y > 1 => W[y \div 2] = part(y)[y \div 2]
    <3>1. ASSUME y > 1 PROVE W[y \div 2] = part(y)[y \div 2]
      <4>1. y \div 2 \in Nat /\ y \div 2 <= y
        BY <3>1, HalfIsLess
      <4>2. IsPowUpTo(part(y), one, y) /\ IsPowUpTo(part(y \div 2), one, y \div 2)
        BY <1>1, <4>1
      <4>3. part(y \div 2)[y \div 2] = part(y)[y \div 2]
        BY <4>1, <4>2, PowUpToAgree
      <4> QED
        BY <1>2, <4>1, <4>3
    <3> QED
      BY <3>1
  <2>3. PowTerm(part(y), one, y) = PowTerm(W, one, y)
    BY <2>2, PowTermDepends
  <2> QED
    BY <2>1, <2>3
<1>4. W = [y \in Nat |-> PowTerm(W, one, y)]
  <2> HIDE DEF part
  <2>1. W = [y \in Nat |-> part(y)[y]]
    OBVIOUS
  <2> HIDE DEF W
  <2> QED
    BY <1>3, <2>1
<1> HIDE DEF W
<1> QED
  BY <1>4 DEF IsPow

\* A product of two numbers in [0, 1] is one, rounded too.
LEMMA ProductOfFractions ==
  ASSUME NEW one \in Nat \ {0}, NEW x \in 0..one, NEW y \in 0..one
  PROVE  RoundDiv(x * y, one) \in 0..one
<1>1. x * y \in Nat /\ x * y <= one * one
  <2>1. x * y <= one * y /\ one * y <= one * one
    OBVIOUS
  <2> QED
    BY <2>1
<1> DEFINE p == x * y
           h == one \div 2
           q == (p + h) \div one
<1>2. h \in Nat /\ h < one /\ one \in Nat
  OBVIOUS
<1>3. p \in Nat /\ p <= one * one
  BY <1>1
<1> HIDE DEF p, h
<1>4. p + h \in Nat
  BY <1>2, <1>3
<1>5. q \in Nat /\ one * q <= p + h
  BY <1>4, FloorBounds
<1> HIDE DEF q
<1>6. q <= one
  <2>1. SUFFICES ASSUME q >= one + 1 PROVE FALSE
    BY <1>2, <1>5
  <2>2. one * q >= one * (one + 1)
    BY <1>2, <1>5, <2>1
  <2>3. one * (one + 1) = one * one + one
    BY <1>2
  <2> QED
    BY <1>2, <1>3, <1>5, <2>2, <2>3
<1> QED
  BY <1>5, <1>6 DEF RoundDiv, p, h, q

\* A power of a number in [0, 1] is in [0, 1].
LEMMA PowerOfFraction ==
  ASSUME NEW one \in Nat \ {0}, NEW x \in 0..one, NEW y \in Nat
  PROVE  FixPowU(one, x, y) \in 0..one
<1>1. ASSUME NEW F, IsPow(F, one), NEW k \in Nat
      PROVE  \A r, z \in 0..one : F[k][r][z] \in 0..one
  <2> DEFINE good(n) == \A r, z \in 0..one : F[n][r][z] \in 0..one
             X == {n \in Nat : \A m \in 0..n : good(m)}
  <2>1. ASSUME NEW n \in Nat, n > 1 => good(n \div 2) PROVE good(n)
    <3>1. F[n] = PowTerm(F, one, n)
      BY <1>1 DEF IsPow
    <3>2. ASSUME NEW r \in 0..one, NEW z \in 0..one PROVE F[n][r][z] \in 0..one
      <4> DEFINE r2 == IF n % 2 = 1 THEN RoundDiv(r * z, one) ELSE r
                 z2 == RoundDiv(z * z, one)
      <4>1. F[n][r][z] = IF n <= 1 THEN r2 ELSE F[n \div 2][r2][z2]
        BY <3>1 DEF PowTerm
      <4>2. r2 \in 0..one /\ z2 \in 0..one
        BY ProductOfFractions
      <4> HIDE DEF r2, z2
      <4>3. n > 1 => F[n \div 2][r2][z2] \in 0..one
        BY <2>1, <4>2
      <4> QED
        BY <4>1, <4>2, <4>3
    <3> QED
      BY <3>2
  <2>2. 0 \in X
    <3>1. 0 \in Nat /\ ~(0 > 1)
      OBVIOUS
    <3> HIDE DEF good
    <3>2. good(0)
      BY <2>1, <3>1
    <3> QED
      BY <3>2
  <2>3. ASSUME NEW n \in Nat, n \in X PROVE n + 1 \in X
    <3>1. n + 1 > 1 => (n + 1) \div 2 \in 0..n
      BY HalfIsLess
    <3>2. n + 1 > 1 => good((n + 1) \div 2)
      <4> HIDE DEF good
      <4> QED
        BY <2>3, <3>1
    <3>3. good(n + 1)
      <4>1. n + 1 \in Nat
        OBVIOUS
      <4> HIDE DEF good
      <4> QED
        BY <2>1, <3>2, <4>1
    <3>4. \A m \in 0..(n + 1) : m = n + 1 \/ m \in 0..n
      OBVIOUS
    <3> HIDE DEF good
    <3> QED
      BY <2>3, <3>3, <3>4
  <2> HIDE DEF X
  <2>4. k \in X
    BY <2>2, <2>3, NumbersByInduction
  <2>5. good(k)
    <3> HIDE DEF good
    <3> QED
      BY <2>4 DEF X
  <2> QED
    BY <2>5
<1>2. PICK G : IsPow(G, one)
  BY PowExists
<1>3. CASE y = 1 \/ x = one \/ y = 0
  BY <1>3 DEF FixPowU
<1>4. CASE ~(y = 1 \/ x = one \/ y = 0)
  <2>1. \E F : IsPow(F, one) /\ FixPowU(one, x, y) = F[y][one][x]
    BY <1>2, <1>4 DEF FixPowU, IsPow, PowTerm
  <2>2. one \in 0..one
    OBVIOUS
  <2> QED
    BY <1>1, <2>1, <2>2
<1> QED
  BY <1>3, <1>4
===============================================================================
