----------------------------- MODULE AtomicShop -----------------------------
(***************************************************************************)
(* What the service promises to its clients: a shop that serves one        *)
(* request at a time, at once.  There are no tasks, no locks and nothing   *)
(* pending: an item is in stock or sold, a coupon free or redeemed, a      *)
(* checkout has left a receipt or nothing.                                 *)
(*                                                                         *)
(* A refusal changes nothing and gives a reason that is true of the shop   *)
(* at that moment.  Only the answers of BusyCodes, which tell a client     *)
(* about other requests, and a cancellation, which tells it nothing, need  *)
(* no reason visible here.                                                 *)
(***************************************************************************)
EXTENDS Models, Money, Sequences

CONSTANTS Customers, StockTotal, Prices, RewardN, RewardX, Keys, Requests

VARIABLES
    price,      \* product -> live unit price
    basket,     \* cart -> [state, items]
    stock,      \* product -> unsold items
    log,        \* the orders
    vouchers,   \* the coupons
    rewarded,   \* milestones rewarded
    receipts,   \* (cart, key) -> the request that was served, and its order
    reply       \* the answer of the last step

shopVars == <<price, basket, stock, log, vouchers, rewarded, receipts>>
atomicVars == <<shopVars, reply>>

NoReceipt == [body |-> <<>>, order |-> 0]

Says(r, code, order) == reply' = [request |-> r, code |-> code, order |-> order]
SaysNothing == reply' = [request |-> [op |-> "none"], code |-> "none", order |-> 0]

AtomicInit ==
    /\ price \in [Products -> Prices]
    /\ basket = [c \in Carts |-> [state |-> "ABSENT", items |-> <<>>]]
    /\ stock = StockTotal
    /\ log = <<>> /\ vouchers = <<>> /\ rewarded = 0
    /\ receipts = [ck \in Carts \X Keys |-> NoReceipt]
    /\ reply = [request |-> [op |-> "none"], code |-> "none", order |-> 0]

-----------------------------------------------------------------------------
Items(r)   == basket[r.cart].items
Ticket(r)  == <<r.cart, r.key>>
Body(r)    == <<r.cart, r.customer, r.coupon>>
Served(r)  == receipts[Ticket(r)].body = Body(r)
HasCoupon(r) == r.coupon # 0
MilestoneReached == Len(log) >= (rewarded + 1) * RewardN

Wanted(r) == IF r.op = "add" /\ r.product \in DOMAIN Items(r)
             THEN Items(r)[r.product].quantity + r.quantity ELSE r.quantity

(* A coupon that customer may redeem. *)
Redeemable(r) == /\ r.coupon \in DOMAIN vouchers
                 /\ vouchers[r.coupon].owner = r.customer
                 /\ vouchers[r.coupon].state = "AVAILABLE"

CanBePlaced(r) ==
    /\ basket[r.cart].state = "OPEN" /\ Items(r) # <<>>
    /\ receipts[Ticket(r)] = NoReceipt
    /\ r.customer \in Customers
    /\ \A p \in DOMAIN Items(r) : Items(r)[p].quantity <= stock[p]
    /\ HasCoupon(r) => Redeemable(r) /\ PercentOK(vouchers[r.coupon].percent)

-----------------------------------------------------------------------------
NewCart(c) ==
    /\ basket[c].state = "ABSENT"
    /\ basket' = [basket EXCEPT ![c] = [state |-> "OPEN", items |-> <<>>]]
    /\ SaysNothing
    /\ UNCHANGED <<price, stock, log, vouchers, rewarded, receipts>>

NewPrice(p, amount) ==
    /\ price' = [price EXCEPT ![p] = amount]
    /\ SaysNothing
    /\ UNCHANGED <<basket, stock, log, vouchers, rewarded, receipts>>

SetsLine(r) ==
    /\ r.op \in {"add", "set"} /\ r.product \in Products /\ Wanted(r) <= stock[r.product]
    /\ basket' = [basket EXCEPT ![r.cart].items =
                    [p \in DOMAIN Items(r) \union {r.product} |->
                       IF p = r.product THEN [quantity |-> Wanted(r), price |-> price[p]]
                                        ELSE Items(r)[p]]]

DropsLine(r) ==
    /\ r.op = "remove" /\ r.product \in Products
    /\ basket' = [basket EXCEPT ![r.cart].items =
                    [p \in DOMAIN Items(r) \ {r.product} |-> Items(r)[p]]]

AcceptsPrices(r) ==
    /\ r.op = "reprice"
    /\ basket' = [basket EXCEPT ![r.cart].items =
                    [p \in DOMAIN Items(r) |-> [Items(r)[p] EXCEPT !.price = price[p]]]]

Edit(r) ==
    /\ r.op \in {"add", "set", "remove", "reprice"} /\ basket[r.cart].state = "OPEN"
    /\ SetsLine(r) \/ DropsLine(r) \/ AcceptsPrices(r)
    /\ Says(r, "OK", 0)
    /\ UNCHANGED <<price, stock, log, vouchers, rewarded, receipts>>

(* The whole checkout at once, at the prices the customer has seen. *)
PlaceOrder(r) ==
    LET order == Len(log) + 1
        gross == Gross(Items(r))
        discount == IF HasCoupon(r) THEN Discount(gross, vouchers[r.coupon].percent) ELSE 0
    IN  /\ r.op = "checkout" /\ CanBePlaced(r)
        /\ basket' = [basket EXCEPT ![r.cart].state = "CHECKED_OUT"]
        /\ stock' = [p \in Products |-> IF p \in DOMAIN Items(r)
                                        THEN stock[p] - Items(r)[p].quantity ELSE stock[p]]
        /\ log' = Append(log, [cart |-> r.cart, customer |-> r.customer, lines |-> Items(r),
                               gross |-> gross, discount |-> discount,
                               net |-> Net(gross, discount), coupon |-> r.coupon])
        /\ vouchers' = IF HasCoupon(r)
                       THEN [vouchers EXCEPT ![r.coupon].state = "REDEEMED",
                                             ![r.coupon].order = order]
                       ELSE vouchers
        /\ receipts' = [receipts EXCEPT ![Ticket(r)] = [body |-> Body(r), order |-> order]]
        /\ Says(r, "CREATED", order)
        /\ UNCHANGED <<price, rewarded>>

Replay(r) ==
    /\ r.op = "checkout" /\ Served(r)
    /\ Says(r, "REPLAYED", receipts[Ticket(r)].order)
    /\ UNCHANGED shopVars

Reward(r) ==
    LET k == rewarded + 1
    IN  /\ r.op = "generate" /\ MilestoneReached
        /\ vouchers' = Append(vouchers, [milestone |-> k, percent |-> RewardX,
                                         owner |-> log[k * RewardN].customer,
                                         state |-> "AVAILABLE", order |-> 0])
        /\ rewarded' = k
        /\ Says(r, "OK", 0)
        /\ UNCHANGED <<price, basket, stock, log, receipts>>

-----------------------------------------------------------------------------
BusyCodes == {"CART_MODIFIED", "REQUEST_IN_PROGRESS", "IDEMPOTENCY_KEY_REUSED"}

CartReason(r, code) ==
    \/ code = "CART_NOT_FOUND" /\ basket[r.cart].state = "ABSENT"
    \/ code = "CART_ALREADY_CHECKED_OUT" /\ basket[r.cart].state = "CHECKED_OUT"

EditReason(r, code) ==
    \/ code = "PRODUCT_NOT_FOUND" /\ r.op # "reprice" /\ r.product \notin Products
    \/ /\ code = "QUANTITY_EXCEEDS_STOCK" /\ r.op \in {"add", "set"} /\ r.product \in Products
       /\ Wanted(r) > stock[r.product]

CheckoutReason(r, code) ==
    \/ code = "CART_EMPTY" /\ Items(r) = <<>>
    \/ code = "UNKNOWN_CUSTOMER" /\ r.customer \notin Customers
    \/ code = "PRICE_CHANGED" /\ \E p \in DOMAIN Items(r) : Items(r)[p].price # price[p]
    \/ code = "INSUFFICIENT_INVENTORY" /\ \E p \in DOMAIN Items(r) : Items(r)[p].quantity > stock[p]
    \/ /\ code = "COUPON_INVALID" /\ HasCoupon(r)
       /\ r.coupon \in DOMAIN vouchers => vouchers[r.coupon].owner # r.customer
    \/ /\ code = "COUPON_ALREADY_REDEEMED" /\ r.coupon \in DOMAIN vouchers
       /\ vouchers[r.coupon].owner = r.customer /\ vouchers[r.coupon].state = "REDEEMED"
    \/ code = "INTERNAL_ERROR" /\ Redeemable(r) /\ ~PercentOK(vouchers[r.coupon].percent)
    \/ code = "PAYMENT_DECLINED" /\ CanBePlaced(r)

(* Nothing happens, and the client is told why.  A served checkout is       *)
(* replayed and never refused.                                              *)
Refuse(r, code) ==
    /\ \/ r.op = "generate" /\ code = "NO_ELIGIBLE_MILESTONE" /\ ~MilestoneReached
       \/ r.op \in {"add", "set", "remove", "reprice"} /\ (CartReason(r, code) \/ EditReason(r, code))
       \/ r.op = "checkout" /\ (CartReason(r, code) \/ CheckoutReason(r, code) \/ code \in BusyCodes)
       \/ code = "CANCELLED"
    /\ r.op = "checkout" => ~Served(r)
    /\ Says(r, code, 0)
    /\ UNCHANGED shopVars

(* Requests are on their way; nobody is answered. *)
Silence == SaysNothing /\ UNCHANGED shopVars

AtomicNext ==
    \/ \E c \in Carts : NewCart(c)
    \/ \E p \in Products, amount \in Prices : NewPrice(p, amount)
    \/ \E r \in Requests : \/ Edit(r) \/ PlaceOrder(r) \/ Replay(r) \/ Reward(r)
                           \/ Refuse(r, reply'.code)
    \/ Silence

AtomicSpec == AtomicInit /\ [][AtomicNext]_atomicVars
=============================================================================
