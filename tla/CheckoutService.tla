-------------------------- MODULE CheckoutService --------------------------
(***************************************************************************)
(* core/checkout.py.  A checkout claims its idempotency key, reads the     *)
(* cart without a lock, takes the locks of the products it saw, the coupon *)
(* ledger and the cart, verifies that what it saw still holds, reserves    *)
(* inventory and coupon, and awaits the payment with the locks held: the   *)
(* only suspension inside the critical section.  The answer of the gateway *)
(* commits everything, or gives everything back.                           *)
(***************************************************************************)
EXTENDS CartService, CouponService, Idempotency

VARIABLES
    snapshot,   \* task -> what the optimistic read saw, while it waits for locks
    held        \* task -> what its critical section has reserved and computed

NothingHeld == [lines |-> NoItems, coupon |-> NoCoupon, gross |-> 0, discount |-> 0, net |-> 0]

checkoutVars == <<snapshot, held>>

CheckoutInit == /\ snapshot = [t \in Tasks |-> NoItems]
                /\ held = [t \in Tasks |-> NothingHeld]

UnchangedButCheckout == UNCHANGED <<price, cart, orders, lastRewarded, snapshot>>

(* A task inside the critical section awaits the payment.                  *)
Charging(t) == held[t] # NothingHeld

(* The locks of a checkout that saw these items. *)
LocksTheCartOnly(r, seen) == OrderedLocks(DOMAIN seen, FALSE, r.cart)
CheckoutLocks(r, seen) == OrderedLocks(DOMAIN seen, TRUE, r.cart)

-----------------------------------------------------------------------------
(* Under the lock: the first check that refuses, in the order of the code. *)
CartCheckedLater(r, seen) ==
    LET items == cart[r.cart].items
    IN  IF ~IsOpen(r.cart) THEN "CART_ALREADY_CHECKED_OUT"
        ELSE IF items = NoItems THEN "CART_EMPTY"
        ELSE IF r.customer \notin Customers THEN "UNKNOWN_CUSTOMER"
        ELSE IF \E p \in DOMAIN items : items[p].price # price[p] THEN "PRICE_CHANGED"
        ELSE "OK"

StateNotChecked(r, seen) ==
    LET items == cart[r.cart].items
    IN  IF items = NoItems THEN "CART_EMPTY"
        ELSE IF items # seen THEN "CART_MODIFIED"
        ELSE IF r.customer \notin Customers THEN "UNKNOWN_CUSTOMER"
        ELSE IF \E p \in DOMAIN items : items[p].price # price[p] THEN "PRICE_CHANGED"
        ELSE "OK"

VerifyError(r, seen) ==
    LET items == cart[r.cart].items
    IN  IF ~IsOpen(r.cart) THEN "CART_ALREADY_CHECKED_OUT"
        ELSE IF items = NoItems THEN "CART_EMPTY"
        ELSE IF items # seen THEN "CART_MODIFIED"
        ELSE IF r.customer \notin Customers THEN "UNKNOWN_CUSTOMER"
        ELSE IF \E p \in DOMAIN items : items[p].price # price[p] THEN "PRICE_CHANGED"
        ELSE "OK"

CouponPercentOK(code) == code # NoCoupon => PercentOK(coupons[code].percent)

(* _commit_locked builds the order from what was computed before the charge. *)
RereadsThePrices(t, r) ==
    [cart |-> r.cart, customer |-> r.customer,
     lines |-> [p \in DOMAIN held[t].lines |-> [held[t].lines[p] EXCEPT !.price = price[p]]],
     gross |-> held[t].gross, discount |-> held[t].discount,
     net |-> held[t].net, coupon |-> held[t].coupon]

OrderOf(t, r) == [cart |-> r.cart, customer |-> r.customer, lines |-> held[t].lines,
                  gross |-> held[t].gross, discount |-> held[t].discount,
                  net |-> held[t].net, coupon |-> held[t].coupon]

DiscountOf(gross, code) ==
    IF code = NoCoupon THEN 0 ELSE Discount(gross, coupons[code].percent)

(* What an accepted checkout holds while its payment is pending. *)
HeldBy(r, lines) ==
    LET gross    == Gross(lines)
        discount == DiscountOf(gross, r.coupon)
    IN  [lines |-> lines, coupon |-> r.coupon, gross |-> gross,
         discount |-> discount, net |-> Net(gross, discount)]

-----------------------------------------------------------------------------
(* The claim is granted and the checkout accepted: it starts to wait for   *)
(* the gateway, everything reserved.                                       *)
Charge(t, r, seen) ==
    LET lines == cart[r.cart].items
    IN  /\ VerifyError(r, seen) = "OK"
        /\ ReserveInventory(lines)
        /\ CouponError(r.coupon, r.customer) = "OK"
        /\ CouponPercentOK(r.coupon)
        /\ coupons' = WithReserved(coupons, r.coupon)
        /\ held' = [held EXCEPT ![t] = HeldBy(r, lines)]
        /\ snapshot' = [snapshot EXCEPT ![t] = NoItems]
        /\ UNCHANGED <<price, cart, orders, lastRewarded>>
        /\ Suspend(t, r)

(* What _Held has on record once these lines and this coupon are reserved. *)
RecordsTheCouponOnly(got, code) == [lines |-> NoItems, coupon |-> code]
RecordsTheLinesOnly(got, code)  == [lines |-> got, coupon |-> NoCoupon]
Recorded(got, code) == [lines |-> got, coupon |-> code]

(* A block that reserved `got` gives back what is on record. *)
ReserveThenRelease(got, recorded) ==
    /\ InStock(got)
    /\ available' = In(Out(available, got), recorded)
    /\ reserved' = Out(In(reserved, got), recorded)
    /\ UNCHANGED sold

(***************************************************************************)
(* The synchronous part refuses with `error`, having reserved the lines    *)
(* `got` and the coupon `code` by then: the inner except clause gives back *)
(* what has been recorded, under the locks.                                *)
(***************************************************************************)
RefuseHolding(t, r, error, got, code) ==
    LET recorded == Recorded(got, code)
    IN  /\ ReserveThenRelease(got, recorded.lines)
        /\ coupons' = WithReleased(WithReserved(coupons, code), recorded.coupon)
        /\ snapshot' = [snapshot EXCEPT ![t] = NoItems]
        /\ UNCHANGED <<price, cart, orders, lastRewarded, held>>
        /\ Answer(t, r, error, NoOrder)

Refuse(t, r, seen) ==
    LET lines  == cart[r.cart].items
        verify == VerifyError(r, seen)
        coupon == CouponError(r.coupon, r.customer)
    IN  \/ verify # "OK" /\ RefuseHolding(t, r, verify, NoItems, NoCoupon)
        \/ /\ verify = "OK" /\ ~InStock(lines)
           /\ \E P \in SUBSET DOMAIN lines :      \* the lines before the refused one
                RefuseHolding(t, r, "INSUFFICIENT_INVENTORY", [p \in P |-> lines[p]], NoCoupon)
        \/ /\ verify = "OK" /\ InStock(lines) /\ coupon # "OK"
           /\ RefuseHolding(t, r, coupon, lines, NoCoupon)
        \/ /\ verify = "OK" /\ InStock(lines) /\ coupon = "OK" /\ ~CouponPercentOK(r.coupon)
           /\ RefuseHolding(t, r, "INTERNAL_ERROR", lines, r.coupon)

-----------------------------------------------------------------------------
(* A new request: everything up to its first suspension, or its end.       *)
AnsweredFromTheRecord(t, r) ==
    /\ \/ ClaimStatus(r) = "REPLAY" /\ Answer(t, r, "REPLAYED", records[KeyOf(r)].order)
       \/ ClaimStatus(r) = "IN_PROGRESS" /\ Answer(t, r, "REQUEST_IN_PROGRESS", NoOrder)
       \/ ClaimStatus(r) = "FINGERPRINT_MISMATCH" /\ Answer(t, r, "IDEMPOTENCY_KEY_REUSED", NoOrder)
    /\ UNCHANGED <<lockVars, storeVars, records, checkoutVars>>

CheckoutRequest(t, r) ==
    LET seen  == cart[r.cart].items
        locks == CheckoutLocks(r, seen)
    IN  /\ Idle(t) /\ r.op = "checkout"
        /\ \/ AnsweredFromTheRecord(t, r)
           \/ /\ ClaimStatus(r) = "GRANTED" /\ ~Exists(r.cart)
              /\ records' = Unclaimed(Claimed(records, r), r)
              /\ Answer(t, r, "CART_NOT_FOUND", NoOrder)
              /\ UNCHANGED <<lockVars, storeVars, checkoutVars>>
           \/ /\ ClaimStatus(r) = "GRANTED" /\ Exists(r.cart)
              /\ \/ /\ Block(t, locks) /\ Suspend(t, r)
                    /\ snapshot' = [snapshot EXCEPT ![t] = seen]
                    /\ records' = Claimed(records, r)
                    /\ UNCHANGED <<storeVars, held>>
                 \/ /\ Pass(t, locks) /\ Refuse(t, r, seen)
                    /\ records' = Unclaimed(Claimed(records, r), r)
                 \/ /\ Hold(t, locks) /\ Charge(t, r, seen)
                    /\ records' = Claimed(records, r)

(* The locks it waited for come free. *)
CheckoutResume(t) ==
    /\ req[t].op = "checkout"
    /\ \/ /\ ResumeBlock(t) /\ Suspend(t, req[t])
          /\ UNCHANGED <<storeVars, records, checkoutVars>>
       \/ /\ ResumePass(t) /\ Refuse(t, req[t], snapshot[t])
          /\ records' = Unclaimed(records, req[t])
       \/ /\ ResumeHold(t) /\ Charge(t, req[t], snapshot[t])
          /\ UNCHANGED records

-----------------------------------------------------------------------------
(***************************************************************************)
(* The gateway approves.  Commit, leave the locks, complete the claim: no  *)
(* suspension between them.                                                *)
(***************************************************************************)
PaymentApproved(t) ==
    LET r == req[t]
        order == Len(orders) + 1
    IN  /\ Charging(t)
        /\ ClaimIsLive(r)
        /\ CommitInventory(held[t].lines)
        /\ coupons' = WithRedeemed(coupons, held[t].coupon, order)
        /\ orders' = Append(orders, OrderOf(t, r))
        /\ cart' = [cart EXCEPT ![r.cart].state = "CHECKED_OUT"]
        /\ Release(t)
        /\ records' = Completed(records, r, order)
        /\ held' = [held EXCEPT ![t] = NothingHeld]
        /\ Answer(t, r, "CREATED", order)
        /\ UNCHANGED <<price, lastRewarded, snapshot>>

(* The charge raises: declined, or the task is cancelled while it waits.   *)
ChargeFails(t, code) ==
    LET r == req[t]
    IN  /\ Charging(t)
        /\ ReleaseInventory(held[t].lines)
        /\ coupons' = WithReleased(coupons, held[t].coupon)
        /\ Release(t)
        /\ records' = Unclaimed(records, r)
        /\ held' = [held EXCEPT ![t] = NothingHeld]
        /\ Answer(t, r, code, NoOrder)
        /\ UnchangedButCheckout

PaymentDeclined(t) == ChargeFails(t, "PAYMENT_DECLINED")

ChargeCancelled(t) == ChargeFails(t, "CANCELLED")

(***************************************************************************)
(* A task that waits for a lock is cancelled.  A checkout gives its claim  *)
(* back; a cart or coupon request has nothing but its locks.               *)
(***************************************************************************)
CancelledWaiting(t) ==
    /\ Abort(t)
    /\ records' = IF req[t].op = "checkout" THEN Unclaimed(records, req[t]) ELSE records
    /\ snapshot' = [snapshot EXCEPT ![t] = NoItems]
    /\ Answer(t, req[t], "CANCELLED", NoOrder)
    /\ UNCHANGED <<storeVars, held>>
=============================================================================
