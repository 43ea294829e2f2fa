----------------------------- MODULE NatLemmas ------------------------------
(***************************************************************************)
(* Lemmas on products, quotients, remainders and sums of natural numbers,  *)
(* which the other proofs cite.                                            *)
(***************************************************************************)
EXTENDS Integers, Functions, FiniteSetTheorems, WellFoundedInduction, TLAPS

\* The least element of a set of naturals, which is induction for provers that
\* cannot instantiate a predicate.
LEMMA Least ==
  ASSUME NEW T, T \subseteq Nat, T # {}
  PROVE  \E x \in T : \A y \in T : x <= y
<1>1. IsWellFoundedOn(OpToRel(<, Nat), Nat)
  BY NatLessThanWellFounded
<1>2. PICK x \in T : \A y \in T : ~(<<y, x>> \in OpToRel(<, Nat))
  BY <1>1, WFMin
<1>3. \A y \in T : ~(y < x)
  BY <1>2 DEF OpToRel
<1> QED
  BY <1>3

\* Induction over the naturals, with the predicate as a set.
LEMMA Induction ==
  ASSUME NEW G, 0 \in G, \A n \in Nat : n \in G => n + 1 \in G
  PROVE  Nat \subseteq G
<1> SUFFICES ASSUME Nat \ G # {} PROVE FALSE
  OBVIOUS
<1>1. PICK n \in Nat \ G : \A y \in Nat \ G : n <= y
  BY Least
<1>2. n - 1 \in Nat
  BY <1>1
<1>3. n - 1 \in G
  BY <1>1, <1>2
<1> QED
  BY <1>1, <1>2, <1>3

-----------------------------------------------------------------------------
(* Products                                                                *)

LEMMA ProductType ==
  ASSUME NEW a \in Nat, NEW b \in Nat
  PROVE  a * b \in Nat
OBVIOUS

LEMMA ProductMonotone ==
  ASSUME NEW a \in Nat, NEW b \in Nat, NEW c \in Nat, a <= b
  PROVE  a * c <= b * c
OBVIOUS

LEMMA ProductCancel ==
  ASSUME NEW a \in Nat, NEW b \in Nat, NEW c \in Nat, a * c < b * c
  PROVE  a < b
<1>1. CASE b <= a
  <2>1. b * c <= a * c
    BY <1>1, ProductMonotone
  <2> QED
    BY <2>1, ProductType
<1> QED
  BY <1>1

LEMMA OneMore ==
  ASSUME NEW a \in Nat, NEW c \in Nat
  PROVE  (a + 1) * c = a * c + c
OBVIOUS

\* The provers know of a power only that it counts subsets.
LEMMA PowerOfTwo ==
  ASSUME NEW n \in Nat
  PROVE  2 ^ n \in Nat \ {0}
<1> DEFINE S == 1 .. n
<1>1. IsFiniteSet(S) /\ Cardinality(S) = n
  BY FS_Interval
<1>2. IsFiniteSet(SUBSET S) /\ Cardinality(SUBSET S) = 2 ^ n
  BY <1>1, FS_SUBSET
<1>3. Cardinality(SUBSET S) \in Nat /\ Cardinality(SUBSET S) # 0
  BY <1>2, FS_CardinalityType, FS_EmptySet
<1> QED
  BY <1>2, <1>3

-----------------------------------------------------------------------------
(* Quotients and remainders                                                *)

LEMMA Division ==
  ASSUME NEW R \in Nat \ {0}, NEW a \in Nat
  PROVE  a = (a \div R) * R + (a % R)
OBVIOUS

LEMMA Quotient ==
  ASSUME NEW R \in Nat \ {0}, NEW a \in Nat
  PROVE  a \div R \in Nat
OBVIOUS

LEMMA RemainderRange ==
  ASSUME NEW R \in Nat \ {0}, NEW a \in Nat
  PROVE  a % R \in 0 .. R - 1
OBVIOUS

LEMMA Remainder ==
  ASSUME NEW R \in Nat \ {0}, NEW q \in Nat, NEW r \in 0 .. R - 1
  PROVE  (q * R + r) % R = r
OBVIOUS

LEMMA QuotientUnique ==
  ASSUME NEW R \in Nat \ {0}, NEW q \in Nat, NEW r \in 0 .. R - 1
  PROVE  (q * R + r) \div R = q
OBVIOUS

\* The quotient is the number of times R fits.
LEMMA QuotientAtLeast ==
  ASSUME NEW R \in Nat \ {0}, NEW a \in Nat, NEW q \in Nat, q * R <= a
  PROVE  q <= a \div R
<1>1. a \div R \in Nat /\ a < (a \div R) * R + R
  BY Division, Quotient, RemainderRange, ProductType
<1>2. q * R < (a \div R + 1) * R
  BY <1>1, OneMore, ProductType
<1> QED
  BY <1>1, <1>2, ProductCancel

LEMMA QuotientBelow ==
  ASSUME NEW R \in Nat \ {0}, NEW a \in Nat, NEW q \in Nat, a < q * R
  PROVE  a \div R < q
<1>1. a \div R \in Nat /\ (a \div R) * R <= a
  BY Division, Quotient, RemainderRange, ProductType
<1> QED
  BY <1>1, ProductCancel, ProductType

\* It does not matter whether an operand has wrapped already.
LEMMA ModPlus ==
  ASSUME NEW R \in Nat \ {0}, NEW a \in Nat, NEW b \in Nat
  PROVE  ((a % R) + b) % R = (a + b) % R
<1> DEFINE p == a \div R
           m == a % R
           c == m + b
           q == c \div R
           r == c % R
<1>1. p \in Nat /\ m \in Nat
  BY Quotient, RemainderRange
<1>2. a = p * R + m
  BY Division
<1>3. c \in Nat /\ c = m + b
  BY <1>1
<1>4. q \in Nat /\ r \in 0 .. R - 1
  <2> HIDE DEF c
  <2> QED
    BY <1>3, Quotient, RemainderRange
<1>5. c = q * R + r
  <2> HIDE DEF c
  <2> QED
    BY <1>3, Division
<1> HIDE DEF p, m, c, q, r
<1>6. (p + q) * R = p * R + q * R /\ p * R \in Nat /\ q * R \in Nat
  BY <1>1, <1>4
<1>7. a + b = (p + q) * R + r
  <2> DEFINE pR == p * R
             qR == q * R
  <2>1. pR \in Nat /\ qR \in Nat /\ (p + q) * R = pR + qR
    BY <1>6
  <2>2. a = pR + m /\ c = qR + r
    BY <1>2, <1>5
  <2> HIDE DEF pR, qR
  <2>3. a + b = pR + qR + r
    BY <2>1, <2>2, <1>1, <1>3, <1>4
  <2> QED
    BY <2>1, <2>3
<1>8. (a + b) % R = r
  <2>1. p + q \in Nat
    BY <1>1, <1>4
  <2>2. ((p + q) * R + r) % R = r
    BY <2>1, <1>4, Remainder
  <2> QED
    BY <2>2, <1>7
<1> QED
  BY <1>8 DEF r, c, m

\* A sum of two counts has wrapped at most once.
LEMMA OneWrap ==
  ASSUME NEW R \in Nat \ {0}, NEW a \in 0 .. R - 1, NEW b \in 0 .. R - 1
  PROVE  (a + b) % R = IF a + b < R THEN a + b ELSE a + b - R
<1>1. CASE a + b < R
  BY <1>1, Remainder, 0 * R + (a + b) = a + b
<1>2. CASE R <= a + b
  <2>1. 1 * R + (a + b - R) = a + b /\ a + b - R \in 0 .. R - 1
    BY <1>2
  <2> QED
    BY <1>2, <2>1, Remainder
<1> QED
  BY <1>1, <1>2

LEMMA RemainderAtMost ==
  ASSUME NEW R \in Nat \ {0}, NEW a \in Nat
  PROVE  a % R <= a
<1>1. a \div R \in Nat /\ a = (a \div R) * R + (a % R)
  BY Quotient, Division
<1>2. (a \div R) * R \in Nat /\ a % R \in Nat
  BY <1>1, RemainderRange, ProductType
<1> QED
  BY <1>1, <1>2

\* A difference of remainders is what it was, or one period less.
LEMMA RemaindersApart ==
  ASSUME NEW R \in Nat \ {0}, NEW a \in Nat, NEW b \in Nat, b <= a,
         a - b < R
  PROVE  (a % R) - (b % R) \in {a - b, a - b - R}
<1> DEFINE p == a \div R
           q == b \div R
           x == a % R
           y == b % R
<1>1. p \in Nat /\ q \in Nat /\ x \in 0 .. R - 1 /\ y \in 0 .. R - 1
  BY Quotient, RemainderRange
<1>2. a = p * R + x /\ b = q * R + y
  BY Division
<1>3. q <= p /\ p <= q + 1
  <2>1. q * R <= a /\ q * R \in Nat
    <3> HIDE DEF p, q, x, y
    <3> QED
      BY <1>1, <1>2, ProductType
  <2>2. q <= p
    <3> HIDE DEF q
    <3> QED
      BY <1>1, <2>1, QuotientAtLeast
  <2>3. (q + 2) * R = q * R + R + R
    BY <1>1
  <2>4. a < (q + 2) * R
    <3> HIDE DEF p, q, x, y
    <3> QED
      BY <1>1, <1>2, <2>1, <2>3
  <2>5. p < q + 2
    <3>1. q + 2 \in Nat
      BY <1>1
    <3> HIDE DEF q
    <3> QED
      BY <2>4, <3>1, QuotientBelow
  <2> QED
    BY <1>1, <2>2, <2>5
<1> HIDE DEF p, q, x, y
<1>4. CASE p = q
  BY <1>1, <1>2, <1>4, ProductType
<1>5. CASE p = q + 1
  BY <1>1, <1>2, <1>5, OneMore, ProductType
<1> QED
  BY <1>1, <1>3, <1>4, <1>5 DEF x, y

\* Unsigned subtraction.
LEMMA ModMinus ==
  ASSUME NEW R \in Nat \ {0}, NEW a \in Nat, NEW b \in Nat, b <= a
  PROVE  ((a % R) - (b % R)) % R = (a - b) % R
<1> DEFINE d == a - b
           y == b % R
           z == (y + d) % R
<1>1. d \in Nat /\ y \in 0 .. R - 1 /\ y \in Nat
  BY RemainderRange
<1>2. (y + d) % R = (b + d) % R
  BY <1>1, ModPlus
<1>3. b + d = a
  OBVIOUS
<1>4. a % R = z
  BY <1>2, <1>3
<1>5. z = (y + (d % R)) % R
  <2>1. ((d % R) + y) % R = (d + y) % R
    BY <1>1, ModPlus
  <2>2. d % R \in 0 .. R - 1
    BY <1>1, RemainderRange
  <2> QED
    BY <1>1, <2>1, <2>2
<1>6. d % R \in 0 .. R - 1
  BY <1>1, RemainderRange
<1> DEFINE e == d % R
<1> HIDE DEF d, y, z, e
<1>7. e \in 0 .. R - 1 /\ z = (y + e) % R
  BY <1>5, <1>6 DEF e
<1>8. z = IF y + e < R THEN y + e ELSE y + e - R
  BY <1>1, <1>7, OneWrap
<1>9. (z - y) % R = e
  <2>1. CASE z - y = e
    BY <1>7, <2>1
  <2>2. CASE z - y = e - R
    <3>1. e - R = (0 - 1) * R + e
      BY <1>7
    <3> QED
      BY <1>7, <2>2, <3>1
  <2> QED
    BY <1>1, <1>7, <1>8, <2>1, <2>2
<1> QED
  BY <1>4, <1>9 DEF d, y, e

-----------------------------------------------------------------------------
(* Sums over finite sets, as SumFunctionOnSet and FoldFunction compute     *)
(* them: element by element, in an order of their own.                     *)

\* The element that is taken next.
Pick(s) == CHOOSE x \in s : TRUE

\* The sums of f over the subsets of S, as SumFunctionOnSet computes them.
Iterates(g, f, S) ==
  g = [s \in SUBSET S |-> IF s = {} THEN 0 ELSE f[Pick(s)] + g[s \ {Pick(s)}]]

\* The same, with the elements in any order.
SumsUp(g, f, S) ==
  /\ g \in [SUBSET S -> Nat]
  /\ g[{}] = 0
  /\ \A s \in SUBSET S : \A x \in s : g[s] = f[x] + g[s \ {x}]

Summable(f, S) == IsFiniteSet(S) /\ \A x \in S : f[x] \in Nat

\* A subset of a finite set, and one element less of it.
LEMMA OneLess ==
  ASSUME NEW S, IsFiniteSet(S), NEW s \in SUBSET S
  PROVE  /\ IsFiniteSet(s) /\ Cardinality(s) \in Nat
         /\ Cardinality(s) = 0 <=> s = {}
         /\ \A x \in s : /\ s \ {x} \in SUBSET S
                         /\ Cardinality(s \ {x}) = Cardinality(s) - 1
<1>1. IsFiniteSet(s)
  BY FS_Subset
<1> QED
  BY <1>1, FS_CardinalityType, FS_EmptySet, FS_RemoveElement

LEMMA IterationExists ==
  ASSUME NEW f, NEW S, Summable(f, S)
  PROVE  \E g : Iterates(g, f, S)
<1> DEFINE Step(g, s) == IF s = {} THEN 0 ELSE f[Pick(s)] + g[s \ {Pick(s)}]
           Small(n) == { s \in SUBSET S : Cardinality(s) <= n }
           Good == { n \in Nat : \E g \in [Small(n) -> Nat] :
                                   \A s \in Small(n) : g[s] = Step(g, s) }
<1>1. \A s \in SUBSET S : s # {} => Pick(s) \in s /\ f[Pick(s)] \in Nat
  BY DEF Summable, Pick
<1>2. IsFiniteSet(S)
  BY DEF Summable
<1>3. 0 \in Good
  <2>1. \A s \in Small(0) : s = {}
    BY <1>2, OneLess
  <2>2. [s \in Small(0) |-> 0] \in [Small(0) -> Nat]
    OBVIOUS
  <2> QED
    BY <2>1, <2>2
<1>4. ASSUME NEW n \in Nat, n \in Good PROVE n + 1 \in Good
  <2>1. PICK g \in [Small(n) -> Nat] : \A s \in Small(n) : g[s] = Step(g, s)
    BY <1>4
  <2> DEFINE h == [s \in Small(n + 1) |-> Step(g, s)]
  <2>2. ASSUME NEW s \in Small(n + 1), s # {}
        PROVE  s \ {Pick(s)} \in Small(n)
    BY <1>1, <1>2, <2>2, OneLess
  <2>3. \A s \in Small(n) : s \in Small(n + 1) /\ h[s] = g[s]
    <3>1. \A s \in Small(n) : s \in Small(n + 1)
      BY <1>2, OneLess
    <3> QED
      BY <2>1, <3>1
  <2>4. \A s \in Small(n + 1) : h[s] = Step(h, s)
    <3> SUFFICES ASSUME NEW s \in Small(n + 1) PROVE h[s] = Step(h, s)
      OBVIOUS
    <3>1. s # {} => h[s \ {Pick(s)}] = g[s \ {Pick(s)}]
      BY <2>2, <2>3
    <3>2. h[s] = Step(g, s)
      OBVIOUS
    <3> HIDE DEF h
    <3> QED
      BY <3>1, <3>2
  <2>5. h \in [Small(n + 1) -> Nat]
    <3> SUFFICES ASSUME NEW s \in Small(n + 1) PROVE Step(g, s) \in Nat
      OBVIOUS
    <3> CASE s = {}
      OBVIOUS
    <3> CASE s # {}
      <4>1. f[Pick(s)] \in Nat /\ g[s \ {Pick(s)}] \in Nat
        BY <1>1, <2>1, <2>2
      <4> QED
        BY <4>1
    <3> QED
      OBVIOUS
  <2> HIDE DEF h, Step, Small
  <2>6. \E k \in [Small(n + 1) -> Nat] :
          \A s \in Small(n + 1) : k[s] = Step(k, s)
    BY <2>4, <2>5
  <2> QED
    BY <2>6
<1>5. Cardinality(S) \in Good
  <2> HIDE DEF Good
  <2> QED
    BY <1>2, <1>3, <1>4, Induction, FS_CardinalityType
<1>6. Small(Cardinality(S)) = SUBSET S
  BY <1>2, FS_Subset
<1>7. PICK g \in [SUBSET S -> Nat] : \A s \in SUBSET S : g[s] = Step(g, s)
  BY <1>5, <1>6
<1>8. g = [s \in SUBSET S |-> Step(g, s)]
  BY <1>7
<1> QED
  BY <1>8 DEF Iterates

\* The order in which the elements are picked does not matter.
LEMMA IterationSumsUp ==
  ASSUME NEW f, NEW S, Summable(f, S), NEW g, Iterates(g, f, S)
  PROVE  SumsUp(g, f, S)
<1> DEFINE Sum(s) == g[s] \in Nat /\ \A x \in s : g[s] = f[x] + g[s \ {x}]
           Good == { n \in Nat : \A s \in SUBSET S :
                                   Cardinality(s) <= n => Sum(s) }
<1>1. /\ g[{}] = 0
      /\ \A s \in SUBSET S : s # {} =>
           Pick(s) \in s /\ g[s] = f[Pick(s)] + g[s \ {Pick(s)}]
  BY DEF Iterates, Pick
<1>2. IsFiniteSet(S) /\ \A x \in S : f[x] \in Nat
  BY DEF Summable
<1>3. 0 \in Good
  <2>1. \A s \in SUBSET S : Cardinality(s) <= 0 => s = {}
    BY <1>2, OneLess
  <2>2. Sum({})
    BY <1>1
  <2> HIDE DEF Sum
  <2> QED
    BY <2>1, <2>2
<1>4. ASSUME NEW n \in Nat, n \in Good PROVE n + 1 \in Good
  <2> SUFFICES ASSUME NEW s \in SUBSET S, Cardinality(s) <= n + 1, s # {}
               PROVE  Sum(s)
    BY <1>1
  <2> DEFINE y == Pick(s)
  <2>1. y \in s /\ g[s] = f[y] + g[s \ {y}] /\ f[y] \in Nat
    BY <1>1, <1>2
  <2> HIDE DEF y
  <2>2. \A x \in s : Sum(s \ {x})
    <3> SUFFICES ASSUME NEW x \in s PROVE Sum(s \ {x})
      OBVIOUS
    <3>1. s \ {x} \in SUBSET S /\ Cardinality(s \ {x}) <= n
      BY <1>2, OneLess
    <3> QED
      BY <1>4, <3>1
  <2>3. ASSUME NEW x \in s, x # y
        PROVE  g[s] = f[x] + g[s \ {x}]
    <3> DEFINE r == (s \ {x}) \ {y}
    <3>1. r = (s \ {y}) \ {x} /\ x \in s \ {y} /\ y \in s \ {x}
      BY <2>1, <2>3
    <3>2. g[s \ {x}] = f[y] + g[r] /\ g[s \ {x}] \in Nat
      BY <2>2, <3>1
    <3>3. g[s \ {y}] = f[x] + g[r] /\ g[s \ {y}] \in Nat
      BY <2>1, <2>2, <3>1
    <3>4. g[r] \in Nat
      <4>1. r \in SUBSET S /\ Cardinality(r) <= n
        <5>1. s \ {x} \in SUBSET S /\ Cardinality(s \ {x}) <= n
          BY <1>2, OneLess
        <5>2. /\ r \in SUBSET S /\ Cardinality(s \ {x}) \in Nat
              /\ Cardinality(r) = Cardinality(s \ {x}) - 1
          BY <1>2, <3>1, <5>1, OneLess
        <5> QED
          BY <5>1, <5>2
      <4> QED
        BY <1>4, <4>1
    <3> HIDE DEF r
    <3>5. f[x] \in Nat
      BY <1>2
    <3> QED
      BY <2>1, <3>2, <3>3, <3>4, <3>5
  <2>4. g[s] \in Nat
    BY <2>1, <2>2
  <2> QED
    BY <2>1, <2>3, <2>4
<1>5. \A s \in SUBSET S : Sum(s)
  <2> SUFFICES ASSUME NEW s \in SUBSET S PROVE Sum(s)
    OBVIOUS
  <2>1. Nat \subseteq Good
    <3> HIDE DEF Good
    <3> QED
      BY <1>3, <1>4, Induction
  <2>2. Cardinality(s) \in Good
    BY <1>2, <2>1, OneLess
  <2> QED
    BY <2>2
<1>6. g \in [SUBSET S -> Nat]
  BY <1>5 DEF Iterates
<1> QED
  BY <1>1, <1>5, <1>6 DEF SumsUp

\* A sum depends on nothing but what is summed up.
LEMMA SumsAgree ==
  ASSUME NEW S, IsFiniteSet(S), NEW f, NEW g, SumsUp(g, f, S),
         NEW T, NEW e, NEW h, SumsUp(h, e, T),
         S \subseteq T, \A x \in S : f[x] = e[x]
  PROVE  g[S] = h[S]
<1> DEFINE Good == { n \in Nat : \A s \in SUBSET S :
                                   Cardinality(s) = n => g[s] = h[s] }
<1>1. 0 \in Good
  <2>1. \A s \in SUBSET S : Cardinality(s) = 0 => s = {}
    BY OneLess
  <2> QED
    BY <2>1 DEF SumsUp
<1>2. ASSUME NEW n \in Nat, n \in Good PROVE n + 1 \in Good
  <2> SUFFICES ASSUME NEW s \in SUBSET S, Cardinality(s) = n + 1
               PROVE  g[s] = h[s]
    OBVIOUS
  <2>1. PICK x \in s : TRUE
    BY OneLess
  <2>2. g[s \ {x}] = h[s \ {x}]
    <3>1. s \ {x} \in SUBSET S /\ Cardinality(s \ {x}) = n
      BY OneLess
    <3> QED
      BY <1>2, <3>1
  <2>3. s \in SUBSET T /\ f[x] = e[x]
    OBVIOUS
  <2> QED
    BY <2>1, <2>2, <2>3 DEF SumsUp
<1> HIDE DEF Good
<1>3. Cardinality(S) \in Good
  BY <1>1, <1>2, Induction, FS_CardinalityType
<1> QED
  BY <1>3 DEF Good

LEMMA SumUnfolds ==
  ASSUME NEW f, NEW S
  PROVE  SumFunctionOnSet(f, S) = (CHOOSE g : Iterates(g, f, S))[S]
BY DEF SumFunctionOnSet, FoldFunctionOnSet, MapThenFoldSet, Iterates, Pick

\* One function holds the sums over all subsets.
LEMMA SumsExist ==
  ASSUME NEW f, NEW S, Summable(f, S)
  PROVE  \E g : /\ SumsUp(g, f, S)
                /\ \A s \in SUBSET S : SumFunctionOnSet(f, s) = g[s]
<1> DEFINE Chosen(s) == CHOOSE g : Iterates(g, f, s)
<1>1. \A s \in SUBSET S : Summable(f, s) /\ SumsUp(Chosen(s), f, s)
  <2> SUFFICES ASSUME NEW s \in SUBSET S
               PROVE  Summable(f, s) /\ SumsUp(Chosen(s), f, s)
    OBVIOUS
  <2>1. Summable(f, s)
    BY FS_Subset DEF Summable
  <2>2. Iterates(Chosen(s), f, s)
    BY <2>1, IterationExists
  <2> HIDE DEF Chosen
  <2> QED
    BY <2>1, <2>2, IterationSumsUp
<1>2. ASSUME NEW s \in SUBSET S
      PROVE  SumFunctionOnSet(f, s) = Chosen(S)[s]
  <2>1. SumFunctionOnSet(f, s) = Chosen(s)[s]
    BY SumUnfolds
  <2>2. SumsUp(Chosen(S), f, S) /\ SumsUp(Chosen(s), f, s) /\ IsFiniteSet(s)
    BY <1>1 DEF Summable
  <2> HIDE DEF Chosen
  <2> QED
    BY <2>1, <2>2, SumsAgree
<1>3. SumsUp(Chosen(S), f, S)
  BY <1>1
<1> HIDE DEF Chosen
<1> QED
  BY <1>2, <1>3

LEMMA SumType ==
  ASSUME NEW f, NEW S, Summable(f, S)
  PROVE  SumFunctionOnSet(f, S) \in Nat
<1>1. PICK g : SumsUp(g, f, S) /\ SumFunctionOnSet(f, S) = g[S]
  BY SumsExist
<1> QED
  BY <1>1 DEF SumsUp

LEMMA SumOfNone ==
  ASSUME NEW f
  PROVE  SumFunctionOnSet(f, {}) = 0
<1>1. Summable(f, {})
  BY FS_EmptySet DEF Summable
<1> QED
  BY <1>1, SumsExist DEF SumsUp

LEMMA SumOfOneMore ==
  ASSUME NEW f, NEW S, NEW x, x \notin S, Summable(f, S \cup {x})
  PROVE  SumFunctionOnSet(f, S \cup {x}) = SumFunctionOnSet(f, S) + f[x]
<1> DEFINE U == S \cup {x}
<1>1. PICK g : /\ SumsUp(g, f, U)
               /\ \A s \in SUBSET U : SumFunctionOnSet(f, s) = g[s]
  BY SumsExist
<1>2. U \ {x} = S /\ x \in U /\ S \in SUBSET U /\ U \in SUBSET U
  OBVIOUS
<1>3. f[x] \in Nat
  BY DEF Summable
<1> HIDE DEF U
<1>4. g[U] = f[x] + g[S] /\ g[S] \in Nat
  BY <1>1, <1>2 DEF SumsUp
<1> QED
  BY <1>1, <1>2, <1>3, <1>4 DEF U

LEMMA SumOfEqual ==
  ASSUME NEW f, NEW e, NEW S, Summable(f, S), \A x \in S : f[x] = e[x]
  PROVE  SumFunctionOnSet(f, S) = SumFunctionOnSet(e, S)
<1>1. Summable(e, S) /\ IsFiniteSet(S)
  BY DEF Summable
<1>2. PICK g : SumsUp(g, f, S) /\ SumFunctionOnSet(f, S) = g[S]
  BY SumsExist
<1>3. PICK h : SumsUp(h, e, S) /\ SumFunctionOnSet(e, S) = h[S]
  BY <1>1, SumsExist
<1>4. g[S] = h[S]
  BY <1>1, <1>2, <1>3, SumsAgree
<1> QED
  BY <1>2, <1>3, <1>4

LEMMA SumOfUnion ==
  ASSUME NEW f, NEW S, NEW T, S \cap T = {}, Summable(f, S \cup T)
  PROVE  SumFunctionOnSet(f, S \cup T)
           = SumFunctionOnSet(f, S) + SumFunctionOnSet(f, T)
<1> DEFINE Total(s) == SumFunctionOnSet(f, s)
           Good == { n \in Nat : \A s \in SUBSET T : Cardinality(s) = n =>
                       Total(S \cup s) = Total(S) + Total(s) }
<1>1. \A s \in SUBSET T : /\ Summable(f, S \cup s) /\ Summable(f, s)
                          /\ Summable(f, S) /\ Total(S) \in Nat
                          /\ Total(s) \in Nat
  <2> SUFFICES ASSUME NEW s \in SUBSET T
               PROVE  Summable(f, S \cup s) /\ Summable(f, s) /\ Summable(f, S)
    BY SumType
  <2>1. s \subseteq S \cup T /\ S \cup s \subseteq S \cup T
    OBVIOUS
  <2> QED
    BY <2>1, FS_Subset DEF Summable
<1>2. IsFiniteSet(T)
  BY <1>1 DEF Summable
<1>3. 0 \in Good
  <2>1. \A s \in SUBSET T : Cardinality(s) = 0 => s = {}
    BY <1>2, OneLess
  <2>2. Total({}) = 0 /\ S \cup {} = S /\ Total(S) \in Nat
    BY <1>1, SumOfNone
  <2> HIDE DEF Total
  <2> QED
    BY <2>1, <2>2
<1>4. ASSUME NEW n \in Nat, n \in Good PROVE n + 1 \in Good
  <2> SUFFICES ASSUME NEW s \in SUBSET T, Cardinality(s) = n + 1
               PROVE  Total(S \cup s) = Total(S) + Total(s)
    OBVIOUS
  <2>1. PICK x \in s : TRUE
    BY <1>2, OneLess
  <2> DEFINE r == s \ {x}
  <2>2. /\ r \in SUBSET T /\ Cardinality(r) = n
        /\ r \cup {x} = s /\ (S \cup r) \cup {x} = S \cup s
        /\ x \notin r /\ x \notin S \cup r
    BY <1>2, OneLess
  <2>3. /\ Total(S \cup r) = Total(S) + Total(r)
        /\ Total(S) \in Nat /\ Total(r) \in Nat
    BY <1>1, <1>4, <2>2
  <2>4. /\ Total(s) = Total(r) + f[x]
        /\ Total(S \cup s) = Total(S \cup r) + f[x]
        /\ f[x] \in Nat
    <3>1. Summable(f, s) /\ Summable(f, S \cup s)
      BY <1>1
    <3>2. f[x] \in Nat
      BY <3>1 DEF Summable
    <3>3. Total(s) = Total(r) + f[x]
      BY <2>2, <3>1, SumOfOneMore
    <3>4. Total(S \cup s) = Total(S \cup r) + f[x]
      BY <2>2, <3>1, SumOfOneMore
    <3> QED
      BY <3>2, <3>3, <3>4
  <2> HIDE DEF Total, r
  <2> QED
    BY <2>3, <2>4
<1> HIDE DEF Good
<1>5. Cardinality(T) \in Good
  BY <1>2, <1>3, <1>4, Induction, FS_CardinalityType
<1> QED
  BY <1>5 DEF Good

=============================================================================
