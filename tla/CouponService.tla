--------------------------- MODULE CouponService ---------------------------
(***************************************************************************)
(* core/coupons.py: one coupon for every RewardN-th order, bound to the    *)
(* customer who placed it, and the ledger AVAILABLE -> RESERVED ->         *)
(* REDEEMED, with RESERVED -> AVAILABLE when the checkout fails.           *)
(***************************************************************************)
EXTENDS Handlers

(* What reserve_locked refuses. An unknown code and somebody else's coupon  *)
(* are refused alike.                                                       *)
ReservesAnything(code, customer) ==
    IF code = NoCoupon THEN "OK"
    ELSE IF code \notin DOMAIN coupons \/ coupons[code].owner # customer THEN "COUPON_INVALID"
    ELSE IF coupons[code].state = "RESERVED" THEN "COUPON_IN_USE"
    ELSE "OK"

CouponError(code, customer) ==
    IF code = NoCoupon THEN "OK"
    ELSE IF code \notin DOMAIN coupons THEN "COUPON_INVALID"
    ELSE IF coupons[code].owner # customer THEN "COUPON_INVALID"
    ELSE IF coupons[code].state = "REDEEMED" THEN "COUPON_ALREADY_REDEEMED"
    ELSE IF coupons[code].state = "RESERVED" THEN "COUPON_IN_USE"
    ELSE "OK"

(* The ledger cs with coupon `code`, if any, moved on. *)
WithReserved(cs, code) ==
    IF code = NoCoupon THEN cs ELSE [cs EXCEPT ![code].state = "RESERVED"]

GivenBack(cs, code, order) ==
    IF code = NoCoupon THEN cs ELSE [cs EXCEPT ![code].state = "AVAILABLE"]

WithRedeemed(cs, code, order) ==
    IF code = NoCoupon THEN cs ELSE [cs EXCEPT ![code].state = "REDEEMED", ![code].order = order]

StaysReserved(cs, code) == cs
WithReleased(cs, code) ==
    IF code = NoCoupon THEN cs ELSE [cs EXCEPT ![code].state = "AVAILABLE"]

-----------------------------------------------------------------------------
NextMilestone == lastRewarded + 1

(***************************************************************************)
(* The position in the order log of orders[k * n - 1].  Python counts a    *)
(* negative index from the end, so that n = 0 names the latest order.      *)
(***************************************************************************)
LatestOrder(k) == PlacedOrders
MilestoneOrder(k) == IF k * RewardN > 0 THEN k * RewardN ELSE PlacedOrders + k * RewardN

Minted(k) == [milestone |-> k, percent |-> RewardX, owner |-> orders[MilestoneOrder(k)].customer,
              state |-> "AVAILABLE", order |-> NoOrder]

MilestoneOnly(k) == lastRewarded' = k /\ UNCHANGED coupons
MintAgain(k) == coupons' = Append(coupons, Minted(k)) /\ UNCHANGED lastRewarded
Mint(k) == coupons' = Append(coupons, Minted(k)) /\ lastRewarded' = k

(***************************************************************************)
(* _generate_locked.  An index out of range raises before anything is      *)
(* minted, the division by n = 0 in the answer after it.                   *)
(***************************************************************************)
GenerateLocked(t, r) ==
    /\ \/ /\ PlacedOrders < NextMilestone * RewardN
          /\ Answer(t, r, "NO_ELIGIBLE_MILESTONE", NoOrder)
          /\ UNCHANGED <<coupons, lastRewarded>>
       \/ /\ PlacedOrders >= NextMilestone * RewardN
          /\ MilestoneOrder(NextMilestone) \notin DOMAIN orders
          /\ Answer(t, r, "INTERNAL_ERROR", NoOrder)
          /\ UNCHANGED <<coupons, lastRewarded>>
       \/ /\ PlacedOrders >= NextMilestone * RewardN
          /\ MilestoneOrder(NextMilestone) \in DOMAIN orders
          /\ Mint(NextMilestone)
          /\ Answer(t, r, IF RewardN = 0 THEN "INTERNAL_ERROR" ELSE "OK", NoOrder)
    /\ UNCHANGED <<price, cart, available, reserved, sold, orders>>

LedgerLocks == OrderedLocks({}, TRUE, NoCart)

GenerateRequest(t, r) ==
    /\ Idle(t) /\ r.op = "generate"
    /\ \/ Block(t, LedgerLocks) /\ Suspend(t, r) /\ UNCHANGED storeVars
       \/ Pass(t, LedgerLocks) /\ GenerateLocked(t, r)

GenerateResume(t) ==
    /\ req[t].op = "generate"
    /\ ResumePass(t) /\ GenerateLocked(t, req[t])
=============================================================================
