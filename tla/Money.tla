------------------------------- MODULE Money -------------------------------
(***************************************************************************)
(* core/money.py: amounts are integers in minor units, and the only        *)
(* rounding of the system is the order-level discount, half to even.       *)
(***************************************************************************)
EXTENDS Integers, Functions

LineTotal(unitPrice, quantity) == unitPrice * quantity

(* Lines map a product to its [quantity, price]. *)
Gross(lines) ==
    SumFunction([p \in DOMAIN lines |-> LineTotal(lines[p].price, lines[p].quantity)])

PercentOK(percent) == percent \in 0..100

(***************************************************************************)
(* Decimal(gross) * percent / 100 quantized to units with ROUND_HALF_EVEN, *)
(* on integers: quotient and remainder of the division by 100.             *)
(***************************************************************************)
RoundHalfUp(gross, percent) ==
    LET q == (gross * percent) \div 100
        r == (gross * percent) % 100
    IN  IF r >= 50 THEN q + 1 ELSE q

DividesFirst(gross, percent) == (gross \div 100) * percent

RoundHalfEven(gross, percent) ==
    LET q == (gross * percent) \div 100
        r == (gross * percent) % 100
    IN  IF r > 50 \/ (r = 50 /\ q % 2 = 1) THEN q + 1 ELSE q

Discount(gross, percent) ==
    IF RoundHalfEven(gross, percent) < gross THEN RoundHalfEven(gross, percent) ELSE gross

Net(gross, discount) == gross - discount
=============================================================================
