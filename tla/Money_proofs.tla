---------------------------- MODULE Money_proofs ----------------------------
(***************************************************************************)
(* The discount of core/money.py for every gross and every percentage.     *)
(***************************************************************************)
EXTENDS MCMoney, Amounts_proofs

MoneyInv == gross \in Nat /\ percent \in 0..100

LEMMA MoneyInvariance == Spec => []MoneyInv
<1>1. Init => MoneyInv
  BY DEF Init, MoneyInv
<1>2. MoneyInv /\ [Next]_<<gross, percent>> => MoneyInv'
  BY DEF MoneyInv, Next, Dearer
<1> QED
  BY <1>1, <1>2, PTL DEF Spec

(***************************************************************************)
(* Rounding is half to even for amounts of any size: no whole amount is    *)
(* nearer to the exact discount, and a tie goes to the even one.           *)
(***************************************************************************)
THEOREM RoundsHalfToEven == Spec => []NearestTiesToEven
<1>1. MoneyInv => NearestTiesToEven
  <2> SUFFICES ASSUME MoneyInv, NEW d \in 0..gross
               PROVE  \/ Distance(Discount(gross, percent)) < Distance(d)
                      \/ d = Discount(gross, percent)
                      \/ Distance(Discount(gross, percent)) = Distance(d) /\ Discount(gross, percent) % 2 = 0
    BY DEF NearestTiesToEven
  <2> DEFINE n == gross * percent
             k == Discount(gross, percent)
  <2>1. n \in Nat /\ k \in Nat /\ d \in Nat
    <3>1. gross \in Nat /\ percent \in 0..100
      BY DEF MoneyInv
    <3>2. n \in Nat
      BY <3>1, Percentage
    <3>3. k \in 0..gross
      BY <3>1, HalfEven
    <3> HIDE DEF n, k
    <3> QED
      BY <3>1, <3>2, <3>3
  <2>2. /\ -50 <= 100 * k - n /\ 100 * k - n <= 50
        /\ (100 * k - n = 50 \/ 100 * k - n = -50) => k % 2 = 0
    BY HalfEven DEF MoneyInv
  <2>3. \A e : Distance(e) = IF 100 * e - n < 0 THEN -(100 * e - n) ELSE 100 * e - n
    BY DEF Distance
  <2> HIDE DEF n, k
  <2> QED
    BY <2>1, <2>2, <2>3 DEF k
<1> QED
  BY <1>1, MoneyInvariance, PTL

(***************************************************************************)
(* One unit more of gross moves the discount and the net by zero or one.   *)
(***************************************************************************)
THEOREM MoreNeverCostsLess == Spec => DearerIsNeverCheaper
<1> DEFINE Monotone == /\ Discount(gross', percent) >= Discount(gross, percent)
                       /\ Net(gross', Discount(gross', percent)) >= Net(gross, Discount(gross, percent))
<1>1. MoneyInv /\ [Next]_<<gross, percent>> => [Monotone]_<<gross, percent>>
  <2> SUFFICES ASSUME MoneyInv, Next PROVE Monotone
    OBVIOUS
  <2> DEFINE n == gross * percent
             k == Discount(gross, percent)
             m == Discount(gross + 1, percent)
  <2>1. gross' = gross + 1 /\ gross \in Nat /\ gross + 1 \in Nat /\ percent \in 0..100
    BY DEF MoneyInv, Next, Dearer
  <2>2. (gross + 1) * percent = n + percent /\ n \in Nat
    BY <2>1
  <2>3. k \in 0..gross /\ -50 <= 100 * k - n /\ 100 * k - n <= 50
        /\ ((100 * k - n = 50 \/ 100 * k - n = -50) => k % 2 = 0)
    BY <2>1, HalfEven
  <2>4. m \in 0..(gross + 1) /\ -50 <= 100 * m - (n + percent) /\ 100 * m - (n + percent) <= 50
        /\ ((100 * m - (n + percent) = 50 \/ 100 * m - (n + percent) = -50) => m % 2 = 0)
    BY <2>1, <2>2, HalfEven
  <2>5. ASSUME m >= k, gross + 1 - m >= gross - k PROVE Monotone
    <3>1. Discount(gross', percent) = m /\ Discount(gross, percent) = k
      BY <2>1
    <3>2. k \in Nat /\ m \in Nat
      BY <2>1, <2>3, <2>4
    <3> HIDE DEF n, k, m
    <3>3. Net(gross', m) = gross + 1 - m /\ Net(gross, k) = gross - k
      BY <2>1, <3>2 DEF Net
    <3> QED
      BY <2>5, <3>1, <3>3
  <2> HIDE DEF n, k, m, Monotone
  <2>6. m >= k /\ m <= k + 1
    BY <2>1, <2>2, <2>3, <2>4
  <2> QED
    BY <2>1, <2>3, <2>4, <2>5, <2>6
<1> QED
  BY <1>1, MoneyInvariance, PTL DEF Spec, DearerIsNeverCheaper
=============================================================================
