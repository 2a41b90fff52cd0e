------------------------------- MODULE Store -------------------------------
(***************************************************************************)
(* core/store.py and core/models.py: the in-memory rows, and the           *)
(* synchronous moves of inventory and coupons the services are built from. *)
(*                                                                         *)
(* Lines (of a cart, of an order) are a function from products to          *)
(* [quantity, price].  Coupons and orders are kept in creation order, and  *)
(* their opaque ids are their positions: a request naming code i before    *)
(* the i-th coupon exists is a request with an unknown code.               *)
(***************************************************************************)
EXTENDS Models, Money, Sequences

CONSTANTS
    Customers,    \* seeded customers
    StockTotal,   \* product -> its seeded stock
    Prices,       \* unit prices a product can have
    RewardN,      \* REWARD_N: one coupon for every n-th order
    RewardX       \* REWARD_X: its percentage.  config.py validates neither

ASSUME StoreAssumption == /\ StockTotal \in [Products -> Nat]
                          /\ Prices \subseteq Nat
                          /\ RewardN \in Int
                          /\ RewardX \in Int

VARIABLES
    price,        \* product -> live unit price
    cart,         \* cart id -> [state, items]
    available, reserved, sold,
    orders,       \* the append-only order log; order i has sequence i
    coupons,      \* the coupon ledger
    lastRewarded  \* last_rewarded_milestone

inventory == <<available, reserved, sold>>
storeVars == <<price, cart, available, reserved, sold, orders, coupons, lastRewarded>>

NoCoupon == 0
NoOrder  == 0
NoItems  == <<>>

(* The lines of a cart or of an order: at most one per product. *)
IsLines(f) == /\ DOMAIN f \subseteq Products
              /\ f \in [DOMAIN f -> [quantity : Nat, price : Nat]]
              /\ \A p \in DOMAIN f : f[p].quantity > 0

IsCart(row) == /\ row \in [state : {"ABSENT", "OPEN", "CHECKED_OUT"}, items : {row.items}]
               /\ IsLines(row.items)

(* The amounts of an order are the subject of OrdersAddUp. *)
IsOrder(o) == o.cart \in Carts /\ o.customer \in Customers /\ IsLines(o.lines) /\ o.coupon \in Nat

CouponRows == [milestone : Nat, percent : Int, owner : Customers,
               state : {"AVAILABLE", "RESERVED", "REDEEMED"}, order : Nat]

StoreTypeOK == /\ price \in [Products -> Nat]
               /\ DOMAIN cart = Carts
               /\ \A c \in Carts : IsCart(cart[c])
               /\ available \in [Products -> Nat]
               /\ reserved \in [Products -> Nat]
               /\ sold \in [Products -> Nat]
               /\ orders \in Seq({orders[i] : i \in DOMAIN orders})
               /\ \A i \in DOMAIN orders : IsOrder(orders[i])
               /\ coupons \in Seq(CouponRows)
               /\ lastRewarded \in Nat

StoreInit == /\ price \in [Products -> Prices]
             /\ cart = [c \in Carts |-> [state |-> "ABSENT", items |-> NoItems]]
             /\ available = StockTotal
             /\ reserved = [p \in Products |-> 0]
             /\ sold = [p \in Products |-> 0]
             /\ orders = <<>>
             /\ coupons = <<>>
             /\ lastRewarded = 0

-----------------------------------------------------------------------------
(* Inventory: the counters f after the quantities of `lines` went in or out. *)
In(f, lines)  == [p \in Products |-> IF p \in DOMAIN lines THEN f[p] + lines[p].quantity ELSE f[p]]
Out(f, lines) == [p \in Products |-> IF p \in DOMAIN lines THEN f[p] - lines[p].quantity ELSE f[p]]

(* The guards of the mutators, which refuse rather than clamp. *)
TrustsTheCart(lines) == DOMAIN lines \subseteq Products
InStock(lines)    == \A p \in DOMAIN lines : lines[p].quantity <= available[p]
IsReserved(lines) == \A p \in DOMAIN lines : lines[p].quantity <= reserved[p]

ReserveInventory(lines) ==
    /\ InStock(lines)
    /\ available' = Out(available, lines)
    /\ reserved' = In(reserved, lines)
    /\ UNCHANGED sold

CommitInventory(lines) ==
    /\ IsReserved(lines)
    /\ reserved' = Out(reserved, lines)
    /\ sold' = In(sold, lines)
    /\ UNCHANGED available

ForgetsToRestock(lines) ==
    /\ IsReserved(lines)
    /\ reserved' = Out(reserved, lines)
    /\ UNCHANGED <<available, sold>>

ReleaseInventory(lines) ==
    /\ IsReserved(lines)
    /\ reserved' = Out(reserved, lines)
    /\ available' = In(available, lines)
    /\ UNCHANGED sold

-----------------------------------------------------------------------------
(* Views over the tables. *)
Exists(c)      == cart[c].state # "ABSENT"
IsOpen(c)      == cart[c].state = "OPEN"
PlacedOrders   == Len(orders)
InState(state) == {i \in DOMAIN coupons : coupons[i].state = state}

(* Quantity of product p over the order log, as the report sums it. *)
Purchased(p) ==
    SumFunction([i \in DOMAIN orders |->
                   IF p \in DOMAIN orders[i].lines THEN orders[i].lines[p].quantity ELSE 0])
=============================================================================
