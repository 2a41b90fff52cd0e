--------------------------- MODULE Amounts_proofs ---------------------------
(***************************************************************************)
(* What amounts are, for lines of any number and size: lemmas about the    *)
(* sums over finite sets that core/money.py, the report and the order log  *)
(* are read with, and about the rounding of a discount.                    *)
(*                                                                         *)
(* SumFunction folds in the order of an unspecified choice, by recursion   *)
(* over subsets.  Induction is stated for sets, {n : P(n)} in the place of *)
(* a predicate P, and starts from the fact that every non-empty set of     *)
(* natural numbers has a least element (WFMin).                            *)
(***************************************************************************)
EXTENDS Money, FiniteSetTheorems, WellFoundedInduction, TLAPS

(* Induction on the natural numbers, for a set instead of a predicate. *)
LEMMA NatSetInduction ==
    ASSUME NEW T, T \subseteq Nat, 0 \in T, \A n \in T : n + 1 \in T
    PROVE  T = Nat
<1> DEFINE R == OpToRel(<, Nat)
           B == Nat \ T
<1> SUFFICES ASSUME B # {} PROVE FALSE
  OBVIOUS
<1>1. IsWellFoundedOn(R, Nat)
  BY NatLessThanWellFounded
<1> HIDE DEF R
<1>2. PICK x \in B : \A y \in B : ~(<<y, x>> \in R)
  BY <1>1, WFMin
<1>3. x - 1 \in Nat /\ x - 1 \in B
  BY <1>2
<1>4. <<x - 1, x>> \in R
  BY <1>3 DEF R, OpToRel
<1> QED
  BY <1>2, <1>3, <1>4

-----------------------------------------------------------------------------
Choice(s)     == CHOOSE x \in s : TRUE
Step(w, g, s) == IF s = {} THEN 0 ELSE w[Choice(s)] + g[s \ {Choice(s)}]
Sums(w)       == CHOOSE g : g = [s \in SUBSET DOMAIN w |-> Step(w, g, s)]
Small(S, n)   == {s \in SUBSET S : Cardinality(s) <= n}

LEMMA SumUnfolds == ASSUME NEW w PROVE SumFunction(w) = Sums(w)[DOMAIN w]
BY DEF SumFunction, SumFunctionOnSet, FoldFunctionOnSet, MapThenFoldSet, Choice, Step, Sums

LEMMA Chosen == ASSUME NEW s, s # {} PROVE Choice(s) \in s
BY DEF Choice

LEMMA Smaller ==
    ASSUME NEW S, IsFiniteSet(S), NEW s \in SUBSET S, NEW x \in s
    PROVE  /\ s \ {x} \in SUBSET S /\ Cardinality(s) \in Nat /\ Cardinality(s \ {x}) \in Nat
           /\ Cardinality(s) = Cardinality(s \ {x}) + 1
BY FS_Subset, FS_RemoveElement, FS_CardinalityType

(* Induction on the subsets of a finite set, one element at a time. *)
LEMMA SubsetInduction ==
    ASSUME NEW S, IsFiniteSet(S), NEW U, {} \in U,
           \A s \in SUBSET S : s # {} /\ (\A x \in s : s \ {x} \in U) => s \in U
    PROVE  SUBSET S \subseteq U
<1> DEFINE T == {n \in Nat : Small(S, n) \subseteq U}
<1>1. 0 \in T
  BY FS_EmptySet, FS_Subset, FS_CardinalityType DEF Small
<1>2. ASSUME NEW n \in T PROVE n + 1 \in T
  <2>1. ASSUME NEW s \in Small(S, n + 1) PROVE s \in U
    <3>1. \A x \in s : s \ {x} \in Small(S, n)
      BY Smaller DEF Small
    <3> QED
      BY <3>1 DEF Small
  <2> QED
    BY <2>1
<1>3. Cardinality(S) \in T
  <2> HIDE DEF T
  <2>1. T \subseteq Nat
    BY DEF T
  <2>2. T = Nat
    BY <1>1, <1>2, <2>1, NatSetInduction
  <2> QED
    BY <2>2, FS_CardinalityType
<1> QED
  BY <1>3, FS_Subset DEF Small

(* The partial sums over the sets of at most n elements, for growing n. *)
LEMMA SumsExist ==
    ASSUME NEW w, IsFiniteSet(DOMAIN w)
    PROVE  Sums(w) = [s \in SUBSET DOMAIN w |-> Step(w, Sums(w), s)]
<1> DEFINE S == DOMAIN w
           Upto(n, g) == g = [s \in Small(S, n) |-> Step(w, g, s)]
           T == {n \in Nat : \E g : Upto(n, g)}
<1>1. 0 \in T
  <2> DEFINE g == [s \in Small(S, 0) |-> 0]
  <2>1. \A s \in Small(S, 0) : s = {}
    BY FS_EmptySet, FS_Subset, FS_CardinalityType DEF Small
  <2>2. \A s \in Small(S, 0) : Step(w, g, s) = 0
    BY <2>1 DEF Step
  <2>3. Upto(0, g)
    BY <2>2
  <2> QED
    BY <2>3
<1>2. ASSUME NEW n \in T PROVE n + 1 \in T
  <2>1. PICK g : Upto(n, g)
    OBVIOUS
  <2> DEFINE h == [s \in Small(S, n + 1) |-> Step(w, g, s)]
  <2>2. ASSUME NEW s \in Small(S, n + 1) PROVE Step(w, h, s) = Step(w, g, s)
    <3>1. CASE s = {}
      BY <3>1 DEF Step
    <3>2. CASE s # {}
      <4> DEFINE r == s \ {Choice(s)}
      <4>1. r \in Small(S, n) /\ r \in Small(S, n + 1)
        BY <3>2, Chosen, Smaller DEF Small
      <4>2. g[r] = Step(w, g, r)
        BY <2>1, <4>1
      <4>3. h[r] = Step(w, g, r)
        BY <4>1
      <4> QED
        BY <3>2, <4>2, <4>3 DEF Step
    <3> QED
      BY <3>1, <3>2
  <2>3. Upto(n + 1, h)
    BY <2>2
  <2> HIDE DEF h
  <2> QED
    BY <2>3
<1>3. Cardinality(S) \in T
  <2> HIDE DEF T
  <2>1. T \subseteq Nat
    BY DEF T
  <2> QED
    BY <1>1, <1>2, <2>1, NatSetInduction, FS_CardinalityType
<1>4. Small(S, Cardinality(S)) = SUBSET S
  BY FS_Subset DEF Small
<1>5. PICK g : g = [s \in SUBSET S |-> Step(w, g, s)]
  BY <1>3, <1>4
<1> QED
  BY <1>5 DEF Sums

LEMMA SumOf ==
    ASSUME NEW w, IsFiniteSet(DOMAIN w), NEW s \in SUBSET DOMAIN w
    PROVE  /\ s = {} => Sums(w)[s] = 0
           /\ s # {} => /\ Choice(s) \in s /\ s \ {Choice(s)} \in SUBSET DOMAIN w
                       /\ Sums(w)[s] = w[Choice(s)] + Sums(w)[s \ {Choice(s)}]
BY SumsExist, Chosen DEF Step

LEMMA SumsAreIntegers ==
    ASSUME NEW S, IsFiniteSet(S), NEW w \in [S -> Int], NEW s \in SUBSET S
    PROVE  Sums(w)[s] \in Int
<1> DEFINE U == {r \in SUBSET S : Sums(w)[r] \in Int}
<1>1. DOMAIN w = S
  OBVIOUS
<1>2. {} \in U
  <2>1. Sums(w)[{}] = 0
    BY <1>1, SumOf
  <2> QED
    BY <2>1
<1>3. ASSUME NEW r \in SUBSET S, r # {}, \A x \in r : r \ {x} \in U PROVE r \in U
  <2>1. Choice(r) \in r /\ Sums(w)[r] = w[Choice(r)] + Sums(w)[r \ {Choice(r)}]
    BY <1>1, <1>3, SumOf
  <2>2. w[Choice(r)] \in Int /\ Sums(w)[r \ {Choice(r)}] \in Int
    BY <1>3, <2>1
  <2> QED
    BY <2>1, <2>2
<1> HIDE DEF U
<1>4. SUBSET S \subseteq U
  BY <1>2, <1>3, SubsetInduction
<1> QED
  BY <1>4 DEF U

LEMMA SumsAreNatural ==
    ASSUME NEW S, IsFiniteSet(S), NEW w \in [S -> Nat], NEW s \in SUBSET S
    PROVE  Sums(w)[s] \in Nat
<1> DEFINE U == {r \in SUBSET S : Sums(w)[r] \in Nat}
<1>1. DOMAIN w = S
  OBVIOUS
<1>2. {} \in U
  <2>1. Sums(w)[{}] = 0
    BY <1>1, SumOf
  <2> QED
    BY <2>1
<1>3. ASSUME NEW r \in SUBSET S, r # {}, \A x \in r : r \ {x} \in U PROVE r \in U
  <2>1. Choice(r) \in r /\ Sums(w)[r] = w[Choice(r)] + Sums(w)[r \ {Choice(r)}]
    BY <1>1, <1>3, SumOf
  <2> QED
    BY <1>3, <2>1
<1> HIDE DEF U
<1>4. SUBSET S \subseteq U
  BY <1>2, <1>3, SubsetInduction
<1> QED
  BY <1>4 DEF U

LEMMA NothingToAdd ==
    ASSUME NEW S, IsFiniteSet(S), NEW w \in [S -> Int] PROVE Sums(w)[{}] = 0
<1> DOMAIN w = S /\ {} \in SUBSET S
  OBVIOUS
<1> QED
  BY SumOf

(* Any element may be taken first. *)
LEMMA AnyFirst ==
    ASSUME NEW S, IsFiniteSet(S), NEW w \in [S -> Int], NEW s \in SUBSET S, NEW x \in s
    PROVE  Sums(w)[s] = w[x] + Sums(w)[s \ {x}]
<1> DEFINE U == {r \in SUBSET S : \A y \in r : Sums(w)[r] = w[y] + Sums(w)[r \ {y}]}
<1>1. {} \in U
  OBVIOUS
<1>2. ASSUME NEW r \in SUBSET S, r # {}, \A y \in r : r \ {y} \in U PROVE r \in U
  <2> SUFFICES ASSUME NEW y \in r PROVE Sums(w)[r] = w[y] + Sums(w)[r \ {y}]
    OBVIOUS
  <2> DEFINE c == Choice(r)
             both == r \ {c, y}
  <2>1. c \in r /\ Sums(w)[r] = w[c] + Sums(w)[r \ {c}]
    BY <1>2, SumOf
  <2> HIDE DEF c
  <2>2. CASE c = y
    BY <2>1, <2>2
  <2>3. CASE c # y
    <3>1. (r \ {c}) \ {y} = both /\ (r \ {y}) \ {c} = both
      OBVIOUS
    <3>2. Sums(w)[r \ {c}] = w[y] + Sums(w)[both]
      BY <1>2, <2>1, <2>3, <3>1
    <3>3. Sums(w)[r \ {y}] = w[c] + Sums(w)[both]
      BY <1>2, <2>1, <2>3, <3>1
    <3>4. w[y] \in Int /\ w[c] \in Int /\ Sums(w)[both] \in Int
      BY <2>1, SumsAreIntegers
    <3> QED
      BY <2>1, <3>2, <3>3, <3>4
  <2> QED
    BY <2>2, <2>3
<1> HIDE DEF U
<1>3. SUBSET S \subseteq U
  BY <1>1, <1>2, SubsetInduction
<1> QED
  BY <1>3 DEF U

(* A partial sum depends on the summands it adds up, and on no others. *)
LEMMA SameSums ==
    ASSUME NEW S, IsFiniteSet(S), NEW w \in [S -> Int],
           NEW R, IsFiniteSet(R), NEW v \in [R -> Int],
           NEW s \in SUBSET (S \cap R), \A x \in s : w[x] = v[x]
    PROVE  Sums(w)[s] = Sums(v)[s]
<1> DEFINE U == {r \in SUBSET s : Sums(w)[r] = Sums(v)[r]}
<1>1. {} \in U
  BY SumOf
<1>2. ASSUME NEW r \in SUBSET s, r # {}, \A y \in r : r \ {y} \in U PROVE r \in U
  <2>1. Choice(r) \in r /\ Sums(w)[r] = w[Choice(r)] + Sums(w)[r \ {Choice(r)}]
    BY <1>2, SumOf
  <2>2. Sums(v)[r] = v[Choice(r)] + Sums(v)[r \ {Choice(r)}]
    BY <1>2, SumOf
  <2> QED
    BY <1>2, <2>1, <2>2
<1>3. IsFiniteSet(s)
  BY FS_Subset
<1> HIDE DEF U
<1>4. SUBSET s \subseteq U
  BY <1>1, <1>2, <1>3, SubsetInduction
<1> QED
  BY <1>4 DEF U

-----------------------------------------------------------------------------
(* What the proofs use: a sum's type, and what changing one summand or     *)
(* adding one does to it.                                                  *)
LEMMA EmptySum == ASSUME NEW w, DOMAIN w = {} PROVE SumFunction(w) = 0
BY SumUnfolds, SumOf, FS_EmptySet

LEMMA NaturalSum ==
    ASSUME NEW S, IsFiniteSet(S), NEW w \in [S -> Nat] PROVE SumFunction(w) \in Nat
BY SumUnfolds, SumsAreNatural

LEMMA IntegerSum ==
    ASSUME NEW S, IsFiniteSet(S), NEW w \in [S -> Int] PROVE SumFunction(w) \in Int
BY SumUnfolds, SumsAreIntegers

LEMMA OneChanged ==
    ASSUME NEW S, IsFiniteSet(S), NEW w \in [S -> Int], NEW v \in [S -> Int],
           NEW x \in S, \A y \in S \ {x} : v[y] = w[y]
    PROVE  SumFunction(v) = SumFunction(w) + v[x] - w[x]
<1> DEFINE r == S \ {x}
<1>1. SumFunction(w) = w[x] + Sums(w)[r] /\ SumFunction(v) = v[x] + Sums(v)[r]
  <2>1. S \in SUBSET S /\ DOMAIN w = S /\ DOMAIN v = S
    OBVIOUS
  <2>2. Sums(w)[S] = w[x] + Sums(w)[r] /\ Sums(v)[S] = v[x] + Sums(v)[r]
    BY <2>1, AnyFirst
  <2> QED
    BY <2>1, <2>2, SumUnfolds
<1>2. Sums(v)[r] = Sums(w)[r]
  <2>1. r \in SUBSET (S \cap S) /\ \A y \in r : v[y] = w[y]
    OBVIOUS
  <2> HIDE DEF r
  <2> QED
    BY <2>1, SameSums
<1>3. Sums(w)[r] \in Int /\ w[x] \in Int /\ v[x] \in Int
  BY SumsAreIntegers
<1> QED
  BY <1>1, <1>2, <1>3

LEMMA OneAdded ==
    ASSUME NEW S, IsFiniteSet(S), NEW x, x \notin S, NEW w \in [S -> Int],
           NEW v \in [S \union {x} -> Int], \A y \in S : v[y] = w[y]
    PROVE  SumFunction(v) = SumFunction(w) + v[x]
<1> DEFINE R == S \union {x}
<1>1. IsFiniteSet(R) /\ R \ {x} = S
  BY FS_AddElement
<1>2. SumFunction(w) = Sums(w)[S] /\ SumFunction(v) = v[x] + Sums(v)[S]
  BY <1>1, SumUnfolds, AnyFirst
<1>3. Sums(v)[S] = Sums(w)[S]
  <2>1. S \in SUBSET (R \cap S) /\ v \in [R -> Int] /\ \A y \in S : v[y] = w[y]
    OBVIOUS
  <2> HIDE DEF R
  <2> QED
    BY <1>1, <2>1, SameSums
<1>4. Sums(w)[S] \in Int /\ v[x] \in Int
  BY SumsAreIntegers
<1> QED
  BY <1>2, <1>3, <1>4

(* One summand among zeros. *)
LEMMA ZeroSum ==
    ASSUME NEW S, IsFiniteSet(S), NEW w \in [S -> Int], \A x \in S : w[x] = 0
    PROVE  SumFunction(w) = 0
<1> DEFINE U == {r \in SUBSET S : Sums(w)[r] = 0}
<1>1. DOMAIN w = S
  OBVIOUS
<1>2. {} \in U
  <2>1. Sums(w)[{}] = 0
    BY <1>1, SumOf
  <2> QED
    BY <2>1
<1>3. ASSUME NEW r \in SUBSET S, r # {}, \A x \in r : r \ {x} \in U PROVE r \in U
  <2>1. Choice(r) \in r /\ Sums(w)[r] = w[Choice(r)] + Sums(w)[r \ {Choice(r)}]
    BY <1>1, <1>3, SumOf
  <2>2. w[Choice(r)] = 0 /\ Sums(w)[r \ {Choice(r)}] = 0
    BY <1>3, <2>1
  <2> QED
    BY <2>1, <2>2
<1> HIDE DEF U
<1>4. SUBSET S \subseteq U
  BY <1>2, <1>3, SubsetInduction
<1> QED
  BY <1>1, <1>4, SumUnfolds DEF U

LEMMA OnlyOne ==
    ASSUME NEW S, IsFiniteSet(S), NEW w \in [S -> Int], NEW x \in S,
           \A y \in S \ {x} : w[y] = 0
    PROVE  SumFunction(w) = w[x]
<1> DEFINE zero == [y \in S |-> 0]
<1>1. SumFunction(zero) = 0
  BY ZeroSum
<1>2. SumFunction(w) = SumFunction(zero) + w[x] - zero[x]
  <2>1. zero \in [S -> Int] /\ \A y \in S \ {x} : w[y] = zero[y]
    OBVIOUS
  <2> HIDE DEF zero
  <2> QED
    BY <2>1, OneChanged
<1>3. w[x] \in Int /\ zero[x] = 0
  OBVIOUS
<1> QED
  BY <1>1, <1>2, <1>3

(* The same summands under other names. *)
LEMMA Renamed ==
    ASSUME NEW S, IsFiniteSet(S), NEW w \in [S -> Int], NEW R, IsFiniteSet(R), NEW v \in [R -> Int],
           NEW f \in [S -> R], \A x, y \in S : f[x] = f[y] => x = y,
           \A z \in R : \E x \in S : f[x] = z,
           \A x \in S : w[x] = v[f[x]]
    PROVE  SumFunction(w) = SumFunction(v)
<1> DEFINE Image(s) == {f[x] : x \in s}
           U == {s \in SUBSET S : Sums(w)[s] = Sums(v)[Image(s)]}
<1>1. {} \in U
  <2>1. Image({}) = {}
    OBVIOUS
  <2>2. Sums(w)[{}] = 0 /\ Sums(v)[{}] = 0
    BY NothingToAdd
  <2> QED
    BY <2>1, <2>2
<1>2. ASSUME NEW s \in SUBSET S, s # {}, \A y \in s : s \ {y} \in U PROVE s \in U
  <2>1. PICK x \in s : TRUE
    BY <1>2
  <2>2. Sums(w)[s] = w[x] + Sums(w)[s \ {x}]
    BY <2>1, AnyFirst
  <2>3. /\ Image(s) \in SUBSET R /\ f[x] \in Image(s)
        /\ Image(s) \ {f[x]} = Image(s \ {x})
    BY <2>1
  <2>4. Sums(w)[s \ {x}] = Sums(v)[Image(s \ {x})]
    BY <1>2, <2>1
  <2> HIDE DEF Image
  <2>5. Sums(v)[Image(s)] = v[f[x]] + Sums(v)[Image(s) \ {f[x]}]
    BY <2>3, AnyFirst
  <2> QED
    BY <2>1, <2>2, <2>3, <2>4, <2>5
<1>3. Image(S) = R
  OBVIOUS
<1> HIDE DEF U
<1>4. SUBSET S \subseteq U
  BY <1>1, <1>2, SubsetInduction
<1>5. Sums(w)[S] = Sums(v)[Image(S)]
  BY <1>4 DEF U
<1> QED
  BY <1>3, <1>5, SumUnfolds

LEMMA SumOfDifferences ==
    ASSUME NEW S, IsFiniteSet(S), NEW w \in [S -> Int], NEW v \in [S -> Int], NEW d \in [S -> Int],
           \A x \in S : d[x] = w[x] - v[x]
    PROVE  SumFunction(d) = SumFunction(w) - SumFunction(v)
<1> DEFINE U == {s \in SUBSET S : Sums(d)[s] = Sums(w)[s] - Sums(v)[s]}
<1>1. {} \in U
  <2>1. Sums(d)[{}] = 0 /\ Sums(w)[{}] = 0 /\ Sums(v)[{}] = 0
    BY NothingToAdd
  <2> QED
    BY <2>1
<1>2. ASSUME NEW s \in SUBSET S, s # {}, \A y \in s : s \ {y} \in U PROVE s \in U
  <2>1. PICK x \in s : TRUE
    BY <1>2
  <2>2. \A u \in [S -> Int] : Sums(u)[s] = u[x] + Sums(u)[s \ {x}]
    BY <2>1, AnyFirst
  <2>3. /\ Sums(d)[s] = d[x] + Sums(d)[s \ {x}]
        /\ Sums(w)[s] = w[x] + Sums(w)[s \ {x}] /\ Sums(v)[s] = v[x] + Sums(v)[s \ {x}]
    BY <2>2
  <2>4. Sums(d)[s \ {x}] = Sums(w)[s \ {x}] - Sums(v)[s \ {x}] /\ d[x] = w[x] - v[x]
    BY <1>2, <2>1
  <2>5. Sums(w)[s \ {x}] \in Int /\ Sums(v)[s \ {x}] \in Int /\ w[x] \in Int /\ v[x] \in Int
    BY <2>1, SumsAreIntegers
  <2> QED
    BY <2>3, <2>4, <2>5
<1> HIDE DEF U
<1>3. SUBSET S \subseteq U
  BY <1>1, <1>2, SubsetInduction
<1> QED
  BY <1>3, SumUnfolds DEF U

-----------------------------------------------------------------------------
LEMMA GrossIsNatural ==
    ASSUME NEW lines, IsFiniteSet(DOMAIN lines),
           \A p \in DOMAIN lines : lines[p].price \in Nat /\ lines[p].quantity \in Nat
    PROVE  Gross(lines) \in Nat
<1> DEFINE w == [p \in DOMAIN lines |-> LineTotal(lines[p].price, lines[p].quantity)]
<1>1. ASSUME NEW p \in DOMAIN lines PROVE w[p] \in Nat
  <2>1. \A m, n \in Nat : m * n \in Nat
    OBVIOUS
  <2> QED
    BY <2>1 DEF LineTotal
<1>2. w \in [DOMAIN lines -> Nat]
  BY <1>1
<1> HIDE DEF w
<1>3. SumFunction(w) \in Nat
  BY <1>2, NaturalSum
<1> QED
  BY <1>3 DEF Gross, w

(* Only the product g * x is not linear; it is hidden behind its quotient  *)
(* and remainder.                                                          *)
LEMMA Percentage ==
    ASSUME NEW g \in Nat, NEW x \in 0..100
    PROVE  g * x \in Nat /\ g * x <= 100 * g
OBVIOUS

(* The discount d of an amount n / 100: within half a unit, ties even.     *)
LEMMA HalfEven ==
    ASSUME NEW g \in Nat, NEW x \in 0..100
    PROVE  LET n == g * x
               d == Discount(g, x)
           IN  /\ d \in 0..g
               /\ -50 <= 100 * d - n /\ 100 * d - n <= 50
               /\ (100 * d - n = 50 \/ 100 * d - n = -50) => d % 2 = 0
<1> DEFINE n == g * x
           q == n \div 100
           r == n % 100
<1>1. n \in Nat /\ n <= 100 * g
  BY Percentage
<1>2. RoundHalfEven(g, x) = IF r > 50 \/ (r = 50 /\ q % 2 = 1) THEN q + 1 ELSE q
  BY DEF RoundHalfEven
<1>3. Discount(g, x) = IF RoundHalfEven(g, x) < g THEN RoundHalfEven(g, x) ELSE g
  BY DEF Discount
<1> HIDE DEF n
<1>4. q \in Nat /\ r \in 0..99 /\ n = 100 * q + r
  BY <1>1
<1> HIDE DEF q, r
<1>5. Discount(g, x) = RoundHalfEven(g, x)
  BY <1>1, <1>2, <1>3, <1>4
<1>6. q % 2 \in {0, 1} /\ (q % 2 = 1 => (q + 1) % 2 = 0)
  BY <1>4
<1> QED
  BY <1>1, <1>2, <1>4, <1>5, <1>6 DEF n
=============================================================================
