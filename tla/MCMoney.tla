------------------------------ MODULE MCMoney ------------------------------
(***************************************************************************)
(* The discount against its definition, for every gross up to MaxGross and *)
(* every legal percentage.                                                 *)
(***************************************************************************)
EXTENDS Money

CONSTANT MaxGross

VARIABLES gross, percent

Init == gross = 0 /\ percent \in 0..100
Dearer == gross < MaxGross /\ gross' = gross + 1 /\ UNCHANGED percent
Next == Dearer
Spec == Init /\ [][Next]_<<gross, percent>>

Distance(d) == LET e == 100 * d - gross * percent IN IF e < 0 THEN -e ELSE e

(***************************************************************************)
(* The discount is the amount nearest to gross * percent / 100, and of the *)
(* two nearest ones the even one (D2), so that rounding favours nobody.    *)
(***************************************************************************)
NearestTiesToEven ==
    \A d \in 0..gross :
        \/ Distance(Discount(gross, percent)) < Distance(d)
        \/ d = Discount(gross, percent)
        \/ Distance(Discount(gross, percent)) = Distance(d) /\ Discount(gross, percent) % 2 = 0

(***************************************************************************)
(* A bigger order never gets a smaller discount, nor ends up cheaper: one  *)
(* unit more of gross moves discount and net by zero or one, never back.   *)
(***************************************************************************)
DearerIsNeverCheaper ==
    [][/\ Discount(gross', percent) >= Discount(gross, percent)
       /\ Net(gross', Discount(gross', percent)) >= Net(gross, Discount(gross, percent))
      ]_<<gross, percent>>
=============================================================================
