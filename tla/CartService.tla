---------------------------- MODULE CartService ----------------------------
(***************************************************************************)
(* core/carts.py.  Every mutator checks that cart and product exist, takes *)
(* the product lock and the cart lock, and then works synchronously on the *)
(* cart.  Adding reserves nothing: the stock check is advisory.            *)
(***************************************************************************)
EXTENDS Handlers

CartOps == {"add", "set", "remove", "reprice"}

UnchangedButCarts == UNCHANGED <<price, available, reserved, sold, orders, coupons, lastRewarded>>

(* create_cart: a fresh id, no lock. *)
CreateCart(c) ==
    /\ ~Exists(c)
    /\ cart' = [cart EXCEPT ![c] = [state |-> "OPEN", items |-> NoItems]]
    /\ reply' = NoReply
    /\ UNCHANGED <<lockVars, req>>
    /\ UnchangedButCarts

-----------------------------------------------------------------------------
(* _require_cart and _require_product, before any lock.                    *)
EarlyError(r) ==
    IF ~Exists(r.cart) THEN "CART_NOT_FOUND"
    ELSE IF r.op # "reprice" /\ r.product \notin Products THEN "PRODUCT_NOT_FOUND"
    ELSE "OK"

LocksTheCartAlone(r) == OrderedLocks({}, FALSE, r.cart)
CartLocks(r) ==
    OrderedLocks(IF r.op = "reprice" THEN DOMAIN cart[r.cart].items ELSE {r.product}, FALSE, r.cart)

(* The quantity the line would have. *)
NewQuantity(r) ==
    IF r.op = "add" /\ r.product \in DOMAIN cart[r.cart].items
    THEN r.quantity + cart[r.cart].items[r.product].quantity
    ELSE r.quantity

IgnoresTheState(r) ==
    IF r.op \in {"add", "set"} /\ NewQuantity(r) > available[r.product] THEN "QUANTITY_EXCEEDS_STOCK"
    ELSE "OK"

(* What _require_open_cart_locked and _set_line_locked refuse. *)
CartError(r) ==
    IF ~IsOpen(r.cart) THEN "CART_ALREADY_CHECKED_OUT"
    ELSE IF r.op \in {"add", "set"} /\ NewQuantity(r) > available[r.product] THEN "QUANTITY_EXCEEDS_STOCK"
    ELSE "OK"

(* The items after the mutation; adding and setting re-snapshot the price. *)
NewItems(r) ==
    LET items == cart[r.cart].items
    IN  CASE r.op \in {"add", "set"} ->
               [p \in DOMAIN items \union {r.product} |->
                  IF p = r.product THEN [quantity |-> NewQuantity(r), price |-> price[p]] ELSE items[p]]
          [] r.op = "remove"  -> [p \in DOMAIN items \ {r.product} |-> items[p]]
          [] r.op = "reprice" -> [p \in DOMAIN items |-> [items[p] EXCEPT !.price = price[p]]]

(* The synchronous body under the locks. *)
MutateCart(t, r) ==
    /\ Answer(t, r, CartError(r), NoOrder)
    /\ cart' = IF CartError(r) = "OK" THEN [cart EXCEPT ![r.cart].items = NewItems(r)] ELSE cart
    /\ UnchangedButCarts

-----------------------------------------------------------------------------
CartRequest(t, r) ==
    /\ Idle(t) /\ r.op \in CartOps
    /\ \/ /\ EarlyError(r) # "OK"
          /\ Answer(t, r, EarlyError(r), NoOrder)
          /\ UNCHANGED <<lockVars, storeVars>>
       \/ /\ EarlyError(r) = "OK"
          /\ Block(t, CartLocks(r))
          /\ Suspend(t, r)
          /\ UNCHANGED storeVars
       \/ /\ EarlyError(r) = "OK"
          /\ Pass(t, CartLocks(r))
          /\ MutateCart(t, r)

CartResume(t) ==
    /\ req[t].op \in CartOps
    /\ \/ ResumeBlock(t) /\ Suspend(t, req[t]) /\ UNCHANGED storeVars
       \/ ResumePass(t) /\ MutateCart(t, req[t])
=============================================================================
