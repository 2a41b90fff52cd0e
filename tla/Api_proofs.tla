----------------------------- MODULE Api_proofs -----------------------------
(***************************************************************************)
(* Proofs about what clients read and are told: the views of Reports agree *)
(* with each other at any moment, an order reads the same for ever, and    *)
(* the status of a response and the numbers of a report follow what the    *)
(* step that sent it has done.                                             *)
(***************************************************************************)
EXTENDS Api, Refinement_proofs

(* All that is known of the service between two steps. *)
BooksInv == /\ ServiceInv /\ RecordInv /\ OrderInv /\ RedeemInv
            /\ SoldInv /\ OrdersAddUp /\ StockIsConserved

LEMMA BooksInvariance == Spec => []BooksInv
<1>1. Init => RecordInv /\ OrderInv /\ OrdersAddUp
  BY DEF Init, StoreInit, IdempotencyInit, NoRecord, RecordInv, OrderInv, OrdersOf, OrdersAddUp
<1>2. ServiceInv /\ RecordInv /\ [Next]_vars => RecordInv'
  BY RecordStep DEF ServiceInv
<1>3. ServiceInv /\ OrderInv /\ [Next]_vars => OrderInv'
  BY OrderStep DEF ServiceInv
<1>4. ServiceInv /\ RedeemInv /\ [Next]_vars => RedeemInv'
  BY RedeemStep DEF ServiceInv
<1>5. ServiceInv /\ SoldInv /\ [Next]_vars => SoldInv'
  BY SoldStep DEF ServiceInv
<1>6. ServiceInv /\ RedeemInv /\ OrdersAddUp /\ [Next]_vars => OrdersAddUp'
  BY AddUpStep DEF ServiceInv
<1> QED
  BY <1>1, <1>2, <1>3, <1>4, <1>5, <1>6, RedeemInit, SoldInit, ServiceInvariance, StockConservation, PTL
     DEF Spec, BooksInv

-----------------------------------------------------------------------------
(* Behind the door the service runs as it does without one. *)
LEMMA BehindTheDoor == ApiSpec => Spec
<1>1. ApiInit => Init
  BY DEF ApiInit
<1>2. [ApiNext]_apiVars => [Next]_vars
  BY DEF ApiNext, apiVars, Serve, TurnedAway, Read
<1> QED
  BY <1>1, <1>2, PTL DEF ApiSpec, Spec

(* An order that has been shown is in the log, and reads as it was shown.  *)
ShownInv == \A a \in shown : \E i \in DOMAIN orders : a = <<i, orders[i]>>

LEMMA LogGrows ==
    ASSUME ShopInv, [Next]_vars, NEW i \in DOMAIN orders
    PROVE  i \in DOMAIN orders' /\ orders'[i] = orders[i]
BY StoreKinds, AcceptFacts, FailFacts, PaidFacts DEF StoreKind, Quiet, CartMoves, Rewards

LEMMA ShownStep == ShopInv /\ ShownInv /\ [ApiNext]_apiVars => ShownInv'
<1> SUFFICES ASSUME ShopInv, ShownInv, [ApiNext]_apiVars PROVE ShownInv'
  OBVIOUS
<1>1. [Next]_vars
  BY DEF ApiNext, apiVars, Serve, TurnedAway, Read
<1>2. ASSUME NEW a \in shown PROVE \E i \in DOMAIN orders' : a = <<i, orders'[i]>>
  BY <1>1, LogGrows DEF ShownInv
<1>3. ASSUME shown' = shown PROVE ShownInv'
  BY <1>2, <1>3 DEF ShownInv
<1>4. ASSUME NEW i \in DOMAIN orders', shown' = shown \union {<<i, orders'[i]>>} PROVE ShownInv'
  BY <1>2, <1>4 DEF ShownInv
<1>5. CASE Serve
  BY <1>3, <1>4, <1>5 DEF Serve, OrderView
<1>6. ASSUME NEW call \in Calls, Read(call) PROVE ShownInv'
  <2> DEFINE i == call.request.order
  <2>1. orders' = orders
    BY <1>6 DEF Read, vars, storeVars
  <2>2. shown' = shown \/ (i \in DOMAIN orders /\ shown' = shown \union {<<i, orders[i]>>})
    BY <1>6 DEF Read, ReadError, OrderView
  <2> QED
    BY <1>3, <1>4, <2>1, <2>2
<1>7. ASSUME NEW call \in Calls, TurnedAway(call) PROVE ShownInv'
  BY <1>3, <1>7 DEF TurnedAway
<1> QED
  BY <1>3, <1>5, <1>6, <1>7 DEF ApiNext, apiVars

(***************************************************************************)
(* I10, D23: whoever reads an order, and whenever, reads the same.         *)
(***************************************************************************)
THEOREM OrdersAlwaysReadTheSame == ApiSpec => []AnOrderReadsTheSame
<1>1. ShownInv => AnOrderReadsTheSame
  BY DEF ShownInv, AnOrderReadsTheSame
<1>2. ApiInit => ShownInv
  BY DEF ApiInit, ShownInv
<1> QED
  BY <1>1, <1>2, ShownStep, BehindTheDoor, ShopInvariance, PTL DEF ApiSpec

-----------------------------------------------------------------------------
(***************************************************************************)
(* The views.  Each agreement is a correspondence between two tables: the  *)
(* orders and the carts that were checked out, the orders with a coupon    *)
(* and the coupons that were redeemed.                                     *)
(***************************************************************************)
Done       == {c \in Carts : cart[c].state = "CHECKED_OUT"}
WithCoupon == {i \in DOMAIN orders : orders[i].coupon # NoCoupon}

LEMMA OneToOne ==
    ASSUME NEW S, IsFiniteSet(S), NEW R, NEW f \in [S -> R],
           \A x, y \in S : f[x] = f[y] => x = y, \A z \in R : \E x \in S : f[x] = z
    PROVE  IsFiniteSet(R) /\ Cardinality(R) = Cardinality(S)
<1>1. ExistsBijection(S, R)
  BY DEF ExistsBijection, Bijection, Injection, Surjection, IsInjective
<1> QED
  BY <1>1, FS_Bijection

LEMMA UpTo == ASSUME NEW n \in Nat PROVE IsFiniteSet(1..n) /\ Cardinality(1..n) = n
<1>1. IsFiniteSet(1..n) /\ Cardinality(1..n) = IF 1 > n THEN 0 ELSE n - 1 + 1
  BY FS_Interval
<1> QED
  BY <1>1

LEMMA LogFacts ==
    ASSUME BooksInv
    PROVE  /\ Len(orders) \in Nat /\ DOMAIN orders = 1..Len(orders)
           /\ IsFiniteSet(DOMAIN orders) /\ Cardinality(DOMAIN orders) = Len(orders)
           /\ \A i \in DOMAIN orders :
                /\ IsLines(orders[i].lines) /\ orders[i].gross = Gross(orders[i].lines)
                /\ orders[i].gross \in Nat /\ orders[i].discount \in Nat /\ orders[i].net \in Int
                /\ orders[i].net = orders[i].gross - orders[i].discount
<1>1. Len(orders) \in Nat /\ DOMAIN orders = 1..Len(orders)
  BY ServiceTypes DEF BooksInv
<1>2. IsFiniteSet(DOMAIN orders) /\ Cardinality(DOMAIN orders) = Len(orders)
  BY <1>1, UpTo
<1>3. ASSUME NEW i \in DOMAIN orders
      PROVE  /\ IsLines(orders[i].lines) /\ orders[i].gross = Gross(orders[i].lines)
             /\ orders[i].gross \in Nat /\ orders[i].discount \in Nat /\ orders[i].net \in Int
             /\ orders[i].net = orders[i].gross - orders[i].discount
  <2>1. IsLines(orders[i].lines)
    BY ServiceTypes DEF BooksInv, StoreTypeOK, IsOrder
  <2>2. Gross(orders[i].lines) \in Nat
    BY <2>1, LinesCost
  <2> QED
    BY <2>1, <2>2 DEF BooksInv, OrdersAddUp
<1> QED
  BY <1>1, <1>2, <1>3

LEMMA CartsOfOrders ==
    ASSUME BooksInv
    PROVE  LET f == [i \in DOMAIN orders |-> orders[i].cart]
           IN  /\ f \in [DOMAIN orders -> Done] /\ \A i, j \in DOMAIN orders : f[i] = f[j] => i = j
               /\ \A c \in Done : \E i \in DOMAIN orders : f[i] = c
BY DEF BooksInv, OrderInv, OrdersOf, Done

LEMMA DoneIsCounted ==
    ASSUME BooksInv
    PROVE  IsFiniteSet(Done) /\ Cardinality(Done) = Len(orders)
<1> DEFINE f == [i \in DOMAIN orders |-> orders[i].cart]
<1>1. /\ f \in [DOMAIN orders -> Done] /\ \A i, j \in DOMAIN orders : f[i] = f[j] => i = j
      /\ \A c \in Done : \E i \in DOMAIN orders : f[i] = c
  BY CartsOfOrders
<1>2. IsFiniteSet(DOMAIN orders) /\ Cardinality(DOMAIN orders) = Len(orders)
  BY LogFacts
<1> HIDE DEF f
<1> QED
  BY <1>1, <1>2, OneToOne

LEMMA OrdersOfCoupons ==
    ASSUME BooksInv
    PROVE  LET f == [k \in InState("REDEEMED") |-> coupons[k].order]
           IN  /\ f \in [InState("REDEEMED") -> WithCoupon]
               /\ \A k, l \in InState("REDEEMED") : f[k] = f[l] => k = l
               /\ \A i \in WithCoupon : \E k \in InState("REDEEMED") : f[k] = i
<1>1. \A k \in DOMAIN coupons : k # NoCoupon
  BY ServiceTypes DEF BooksInv, NoCoupon
<1> QED
  BY <1>1 DEF BooksInv, RedeemInv, PaidBy, InState, WithCoupon

LEMMA DisjointUnion ==
    ASSUME NEW S, IsFiniteSet(S), NEW R, IsFiniteSet(R), S \cap R = {}
    PROVE  IsFiniteSet(S \union R) /\ Cardinality(S \union R) = Cardinality(S) + Cardinality(R)
<1>1. /\ IsFiniteSet(S \union R)
      /\ Cardinality(S \union R) = Cardinality(S) + Cardinality(R) - Cardinality(S \cap R)
  BY FS_Union
<1>2. Cardinality(S \cap R) = 0 /\ Cardinality(S) \in Nat /\ Cardinality(R) \in Nat
  BY FS_EmptySet, FS_CardinalityType
<1> QED
  BY <1>1, <1>2

LEMMA CouponStates ==
    ASSUME BooksInv
    PROVE  /\ \A st : IsFiniteSet(InState(st)) /\ Cardinality(InState(st)) \in Nat
           /\ Len(coupons) = Cardinality(InState("AVAILABLE")) + Cardinality(InState("RESERVED"))
                               + Cardinality(InState("REDEEMED"))
<1> DEFINE a == InState("AVAILABLE")
           b == InState("RESERVED")
           d == InState("REDEEMED")
<1>1. Len(coupons) \in Nat /\ DOMAIN coupons = 1..Len(coupons) /\ \A k \in DOMAIN coupons : coupons[k] \in CouponRows
  BY ServiceTypes DEF BooksInv
<1>2. IsFiniteSet(DOMAIN coupons) /\ Cardinality(DOMAIN coupons) = Len(coupons)
  BY <1>1, UpTo
<1>3. ASSUME NEW st PROVE IsFiniteSet(InState(st)) /\ Cardinality(InState(st)) \in Nat
  <2>1. InState(st) \in SUBSET DOMAIN coupons
    BY DEF InState
  <2> QED
    BY <1>2, <2>1, FS_Subset, FS_CardinalityType
<1>4. DOMAIN coupons = (a \union b) \union d /\ a \cap b = {} /\ (a \union b) \cap d = {}
  BY <1>1 DEF InState, CouponRows
<1> HIDE DEF a, b, d
<1>5. IsFiniteSet(a) /\ IsFiniteSet(b) /\ IsFiniteSet(d)
  BY <1>3 DEF a, b, d
<1>6. IsFiniteSet(a \union b) /\ Cardinality(a \union b) = Cardinality(a) + Cardinality(b)
  BY <1>4, <1>5, DisjointUnion
<1>7. Cardinality((a \union b) \union d) = Cardinality(a \union b) + Cardinality(d)
  BY <1>4, <1>5, <1>6, DisjointUnion
<1> QED
  BY <1>2, <1>3, <1>4, <1>6, <1>7 DEF a, b, d

(* The money of the report is the money of the carts that were checked out. *)
LEMMA GrossOfCarts ==
    ASSUME BooksInv
    PROVE  Report.gross_minor = SumFunction([c \in Done |-> CartView(c).gross_minor])
<1> DEFINE f == [i \in DOMAIN orders |-> orders[i].cart]
           w == [i \in DOMAIN orders |-> orders[i].gross]
           v == [c \in Done |-> CartView(c).gross_minor]
<1>1. \A i \in DOMAIN orders : f[i] \in Done /\ w[i] = v[f[i]]
  BY LogFacts, CartsOfOrders DEF BooksInv, OrderInv, CartView
<1>2. w \in [DOMAIN orders -> Int]
  BY LogFacts
<1>3. v \in [Done -> Int]
  <2>1. ASSUME NEW c \in Done PROVE Gross(cart[c].items) \in Nat
    <3>1. IsLines(cart[c].items)
      BY ServiceTypes DEF BooksInv, StoreTypeOK, IsCart, Done
    <3> QED
      BY <3>1, LinesCost
  <2> QED
    BY <2>1 DEF CartView
<1>4. /\ f \in [DOMAIN orders -> Done] /\ \A i, j \in DOMAIN orders : f[i] = f[j] => i = j
      /\ \A c \in Done : \E i \in DOMAIN orders : f[i] = c
  BY CartsOfOrders
<1> HIDE DEF f, w, v
<1>5. IsFiniteSet(DOMAIN orders) /\ IsFiniteSet(Done)
  BY LogFacts, DoneIsCounted
<1>6. SumFunction(w) = SumFunction(v)
  BY <1>1, <1>2, <1>3, <1>4, <1>5, Renamed
<1> QED
  BY <1>6 DEF Report, ReportOn, w, v

LEMMA NetOfOrders ==
    ASSUME BooksInv
    PROVE  Report.net_minor = Report.gross_minor - Report.discount_minor
<1> DEFINE g == [i \in DOMAIN orders |-> orders[i].gross]
           d == [i \in DOMAIN orders |-> orders[i].discount]
           n == [i \in DOMAIN orders |-> orders[i].net]
<1>1. /\ IsFiniteSet(DOMAIN orders) /\ \A i \in DOMAIN orders : n[i] = g[i] - d[i]
      /\ g \in [DOMAIN orders -> Int] /\ d \in [DOMAIN orders -> Int] /\ n \in [DOMAIN orders -> Int]
  BY LogFacts
<1>2. Report.gross_minor = SumFunction(g) /\ Report.discount_minor = SumFunction(d)
      /\ Report.net_minor = SumFunction(n)
  BY DEF Report, ReportOn
<1> HIDE DEF g, d, n
<1> QED
  BY <1>1, <1>2, SumOfDifferences

LEMMA LinesOfOrders ==
    ASSUME BooksInv, NEW i \in DOMAIN orders
    PROVE  OrderView(i).gross = SumFunction([p \in DOMAIN OrderView(i).lines |->
                                  CartView(OrderView(i).cart).lines[p].line_total_minor])
<1> DEFINE lines == orders[i].lines
           c == orders[i].cart
<1>1. orders[i].gross = Gross(lines) /\ cart[c].items = lines
  BY LogFacts DEF BooksInv, OrderInv
<1>2. \A p \in DOMAIN lines : CartView(c).lines[p].line_total_minor = LineTotal(lines[p].price, lines[p].quantity)
  BY <1>1 DEF CartView, LineView
<1>3. [p \in DOMAIN lines |-> CartView(c).lines[p].line_total_minor]
        = [p \in DOMAIN lines |-> LineTotal(lines[p].price, lines[p].quantity)]
  BY <1>2
<1> QED
  BY <1>1, <1>3 DEF OrderView, Gross

LEMMA ItemsSold ==
    ASSUME BooksInv, NEW p \in Products
    PROVE  Catalogue[p].sold = IF p \in DOMAIN Report.items_purchased THEN Report.items_purchased[p] ELSE 0
<1>1. sold[p] = Purchased(p) /\ sold[p] \in Nat
  BY ServiceTypes DEF BooksInv, SoldInv, StoreTypeOK
<1>2. Report.items_purchased = [q \in {x \in Products : Purchased(x) > 0} |-> Purchased(q)]
  BY DEF Report, ReportOn, ProductsIn
<1> QED
  BY <1>1, <1>2 DEF Catalogue

(***************************************************************************)
(* I10, I11, I12, I15: at any moment, with any number of checkouts in      *)
(* flight, the report, the carts, the catalogue, the orders and the        *)
(* coupons tell the same story.                                            *)
(***************************************************************************)
THEOREM ViewsAlwaysAgree == ApiSpec => []ViewsAgree
<1>1. ASSUME BooksInv PROVE ViewsAgree
  <2>1. {c \in Carts : CartView(c).state = "CHECKED_OUT"} = Done
    BY DEF CartView, Done
  <2>2. Report.orders_placed = Cardinality(Done)
    BY <1>1, DoneIsCounted DEF Report, ReportOn, PlacedOrders
  <2>3. Report.coupons_redeemed = Cardinality({i \in DOMAIN orders : OrderView(i).coupon # NoCoupon})
    <3>1. Cardinality(WithCoupon) = Cardinality(InState("REDEEMED"))
      BY <1>1, CouponStates, OrdersOfCoupons, OneToOne
    <3> QED
      BY <3>1 DEF Report, ReportOn, OrderView, WithCoupon
  <2>4. Report.coupons_generated =
          Report.coupons_available + Report.coupons_reserved + Report.coupons_redeemed
    BY <1>1, CouponStates DEF Report, ReportOn
  <2> QED
    BY <1>1, <2>1, <2>2, <2>3, <2>4, GrossOfCarts, NetOfOrders, LinesOfOrders, ItemsSold DEF ViewsAgree
<1> QED
  BY <1>1, BehindTheDoor, BooksInvariance, PTL

-----------------------------------------------------------------------------
(***************************************************************************)
(* What a step of the service has done, by what it answers.  The answers   *)
(* come from the refinement: whatever the step was, to its client it was   *)
(* one of the sequential shop.                                             *)
(***************************************************************************)
CountsInv == /\ Len(orders) \in Nat /\ DOMAIN orders = 1..Len(orders)
             /\ Len(coupons) \in Nat /\ DOMAIN coupons = 1..Len(coupons)
             /\ \A i \in DOMAIN orders : orders[i].gross \in Nat
             /\ Cardinality(InState("REDEEMED")) = Cardinality(WithCoupon)

LEMMA CountsInvariance == Spec => [](BooksInv /\ CountsInv)
<1>1. ASSUME BooksInv PROVE CountsInv
  <2>1. Len(coupons) \in Nat /\ DOMAIN coupons = 1..Len(coupons)
    BY <1>1, ServiceTypes DEF BooksInv
  <2>2. Cardinality(WithCoupon) = Cardinality(InState("REDEEMED"))
    BY <1>1, CouponStates, OrdersOfCoupons, OneToOne
  <2> QED
    BY <1>1, <2>1, <2>2, LogFacts DEF CountsInv
<1> QED
  BY <1>1, BooksInvariance, PTL

RefusalCodes ==
    {"NO_ELIGIBLE_MILESTONE", "CART_NOT_FOUND", "CART_ALREADY_CHECKED_OUT", "PRODUCT_NOT_FOUND",
     "QUANTITY_EXCEEDS_STOCK", "CART_EMPTY", "UNKNOWN_CUSTOMER", "PRICE_CHANGED",
     "INSUFFICIENT_INVENTORY", "COUPON_INVALID", "COUPON_ALREADY_REDEEMED", "INTERNAL_ERROR",
     "PAYMENT_DECLINED", "CART_MODIFIED", "REQUEST_IN_PROGRESS", "IDEMPOTENCY_KEY_REUSED", "CANCELLED"}

Tells(r, code) == reply'.request = r /\ reply'.code = code
SameLedgers    == orders' = orders /\ Len(coupons') = Len(coupons)

Logs(o)        == orders' = Append(orders, o)

Unheard       == reply' = NoReply /\ SameLedgers
Edited(r)     == Tells(r, "OK") /\ r.op \in CartOps /\ SameLedgers
Repeated(r)   == Tells(r, "REPLAYED") /\ r.op = "checkout" /\ OrdersOf(r.cart) # {} /\ SameLedgers
TurnedDown(r) == NothingShows /\ SameLedgers /\ \E code \in RefusalCodes : Tells(r, code)
Created(r)    == /\ Tells(r, "CREATED") /\ r.op = "checkout" /\ Len(coupons') = Len(coupons)
                 /\ \E o : Logs(o) /\ o.coupon = r.coupon /\ o.gross = CartView(r.cart).gross_minor
Earned(r)     == /\ Tells(r, "OK") /\ r.op = "generate"
                 /\ orders' = orders /\ Len(coupons') = Len(coupons) + 1

Outcome == Unheard \/ \E r \in Requests : \/ Edited(r) \/ Repeated(r) \/ TurnedDown(r)
                                         \/ Created(r) \/ Earned(r)

LEMMA SameLedger ==
    ASSUME CountsInv, CountsInv', VouchersNow' = VouchersNow
    PROVE  Len(coupons') = Len(coupons)
<1>1. 1..Len(coupons') = 1..Len(coupons)
  BY DEF CountsInv, VouchersNow
<1> QED
  BY <1>1, SameLength DEF CountsInv

(* The answer to a coupon request.                                         *)
LEMMA GenerateOutcome ==
    ASSUME RewardN # 0, BooksInv, CountsInv, CountsInv', GeneratesNow
    PROVE  Outcome
<1>1. PICK t \in Tasks, r \in Requests : r.op = "generate" /\ GenerateLocked(t, r) /\ UnchangedCheckouts
  BY DEF GeneratesNow
<1>2. ASSUME UNCHANGED <<coupons, lastRewarded>>, NEW code \in RefusalCodes, Answer(t, r, code, NoOrder)
      PROVE  TurnedDown(r)
  <2>1. UNCHANGED storeVars
    BY <1>1, <1>2 DEF GenerateLocked, storeVars
  <2>2. NothingShows
    BY <1>1, <2>1, SameReceipts, SameShop DEF UnchangedCheckouts
  <2> QED
    BY <1>2, <2>1, <2>2 DEF TurnedDown, Tells, SameLedgers, Answer, storeVars
<1>3. ASSUME Mint(NextMilestone), Answer(t, r, "OK", NoOrder) PROVE Earned(r)
  <2>1. coupons' = Append(coupons, Minted(NextMilestone)) /\ orders' = orders
    BY <1>1, <1>3 DEF Mint, GenerateLocked
  <2>2. Len(coupons') = Len(coupons) + 1
    BY <2>1, ServiceTypes, LongerByOne DEF BooksInv
  <2> QED
    BY <1>1, <1>3, <2>1, <2>2 DEF Earned, Tells, Answer
<1> QED
  BY <1>1, <1>2, <1>3 DEF GenerateLocked, Outcome, RefusalCodes

(* Every other answer.                                                     *)
LEMMA AtomicOutcome ==
    ASSUME BooksInv, CountsInv, CountsInv', Promise!AtomicNext
    PROVE  Outcome
<1>1. ASSUME VouchersNow' = VouchersNow PROVE Len(coupons') = Len(coupons)
  BY <1>1, SameLedger
<1>2. ASSUME NEW r \in Requests, Promise!Edit(r) PROVE Edited(r)
  BY <1>1, <1>2 DEF Promise!Edit, Promise!Says, Edited, Tells, SameLedgers, CartOps
<1>3. ASSUME NEW r \in Requests, Promise!PlaceOrder(r) PROVE Created(r)
  <2>1. PICK o : orders' = Append(orders, o) /\ o.coupon = r.coupon /\ o.gross = Promise!Gross(cart[r.cart].items)
    BY <1>3 DEF Promise!PlaceOrder, Promise!Items
  <2>2. o.gross = CartView(r.cart).gross_minor
    BY <2>1, SameGross DEF CartView
  <2>3. DOMAIN VouchersNow' = DOMAIN VouchersNow /\ r.op = "checkout" /\ Tells(r, "CREATED")
    BY <1>3 DEF Promise!PlaceOrder, Promise!Says, Tells
  <2>4. 1..Len(coupons') = 1..Len(coupons)
    BY <2>3 DEF CountsInv, VouchersNow
  <2> QED
    BY <2>1, <2>2, <2>3, <2>4, SameLength DEF CountsInv, Created, Logs
<1>4. ASSUME NEW r \in Requests, Promise!Replay(r) PROVE Repeated(r)
  <2>1. r.op = "checkout" /\ Promise!Served(r) /\ Tells(r, "REPLAYED") /\ SameLedgers
    BY <1>1, <1>4 DEF Promise!Replay, Promise!Says, Promise!shopVars, Tells, SameLedgers
  <2>2. KeyOf(r) \in Carts \X Keys /\ records[KeyOf(r)].state = "COMPLETED"
    BY <2>1, NotServed, RequestFacts
  <2>3. PICK i \in DOMAIN orders : orders[i].cart = r.cart
    BY <2>2 DEF BooksInv, RecordInv, KeyOf
  <2> QED
    BY <2>1, <2>3 DEF Repeated, OrdersOf
<1>5. ASSUME NEW r \in Requests, Promise!Reward(r) PROVE Earned(r)
  <2>1. PICK row : VouchersNow' = Append(VouchersNow, row)
    BY <1>5 DEF Promise!Reward
  <2>2. Len(coupons') = Len(coupons) + 1
    BY <2>1, LongerLedger DEF CountsInv
  <2> QED
    BY <1>5, <2>2 DEF Promise!Reward, Promise!Says, Earned, Tells
<1>6. ASSUME NEW r \in Requests, Promise!Refuse(r, reply'.code) PROVE TurnedDown(r)
  <2>1. NothingShows /\ VouchersNow' = VouchersNow /\ orders' = orders /\ reply'.request = r
    BY <1>6 DEF Promise!Refuse, Promise!Says, Promise!shopVars, NothingShows
  <2>2. reply'.code \in RefusalCodes
    BY <1>6 DEF Promise!Refuse, Promise!CartReason, Promise!EditReason, Promise!CheckoutReason,
       Promise!BusyCodes, RefusalCodes
  <2> QED
    BY <1>1, <2>1, <2>2 DEF TurnedDown, Tells, SameLedgers
<1>7. ASSUME \/ \E c \in Carts : Promise!NewCart(c)
             \/ \E p \in Products, amount \in Prices : Promise!NewPrice(p, amount)
             \/ Promise!Silence
      PROVE  Unheard
  BY <1>1, <1>7 DEF Promise!NewCart, Promise!NewPrice, Promise!Silence, Promise!SaysNothing,
     Promise!shopVars, Unheard, SameLedgers, NoReply, NoRequest, NoOrder
<1> QED
  BY <1>2, <1>3, <1>4, <1>5, <1>6, <1>7 DEF Promise!AtomicNext, Outcome

LEMMA Outcomes ==
    ASSUME RewardN # 0, BooksInv, CountsInv, CountsInv', Next
    PROVE  Outcome
BY NextImplements, GenerateOutcome, AtomicOutcome DEF BooksInv

-----------------------------------------------------------------------------
(* The response that goes with a step.  At the door and in the reads,      *)
(* where the service takes no step, no checkout succeeds and nothing is    *)
(* said to have been generated.                                            *)
AtTheDoor == /\ UNCHANGED vars
             /\ response'.code # "CREATED"
             /\ response'.code = "OK" => response'.request.op # "generate"
             /\ response'.request.op = "checkout" => response'.status \in {400, 403, 422}

LEMMA DoorAnswers ==
    ASSUME NEW call \in Calls, TurnedAway(call) \/ Read(call)
    PROVE  AtTheDoor
<1>1. CASE TurnedAway(call)
  BY <1>1 DEF TurnedAway, Respond, DoorError, Status, ErrorStatus, AtTheDoor
<1>2. CASE Read(call)
  BY <1>2 DEF Read, Respond, ReadError, ReadOps, AtTheDoor
<1> QED
  BY <1>1, <1>2

Responds(r, code) == /\ response'.request = r /\ response'.code = code
                     /\ response'.status = Status(r, code)

LEMMA ServiceAnswers ==
    ASSUME Serve, Outcome
    PROVE  \/ Unheard /\ response' = NoResponse
           \/ \E r \in Requests :
                \/ Edited(r) /\ Responds(r, "OK")
                \/ Repeated(r) /\ Responds(r, "REPLAYED")
                \/ TurnedDown(r) /\ \E code \in RefusalCodes : Responds(r, code)
                \/ Created(r) /\ Responds(r, "CREATED")
                \/ Earned(r) /\ Responds(r, "OK")
<1>1. CASE Unheard
  BY <1>1 DEF Serve, Unheard
<1>2. ASSUME NEW r, NEW code, Tells(r, code), code # "none" PROVE Responds(r, code)
  BY <1>2 DEF Serve, Tells, NoReply, Respond, Responds
<1>3. "none" \notin RefusalCodes
  BY DEF RefusalCodes
<1>4. ASSUME NEW r \in Requests, TurnedDown(r) PROVE \E code \in RefusalCodes : Responds(r, code)
  BY <1>2, <1>3, <1>4 DEF TurnedDown
<1> QED
  BY <1>1, <1>2, <1>4 DEF Outcome, Edited, Repeated, Created, Earned

(* A refusal of the service is an error to HTTP, or nothing at all when    *)
(* the client has gone.                                                    *)
LEMMA RefusalStatus ==
    ASSUME NEW r, NEW code \in RefusalCodes
    PROVE  Status(r, code) \notin {200, 201}
BY DEF RefusalCodes, Status, ErrorStatus

(* What a refusal must leave alone, seen from the store itself.            *)
LEMMA NothingLost ==
    ASSUME BooksInv, BooksInv', NothingShows, Len(coupons') = Len(coupons)
    PROVE  /\ UNCHANGED <<cart, orders, sold, lastRewarded>>
           /\ \A p \in Products : available'[p] + reserved'[p] = available[p] + reserved[p]
           /\ \A k \in DOMAIN coupons : coupons'[k].state = "REDEEMED" => coupons[k].state = "REDEEMED"
<1>1. /\ available \in [Products -> Nat] /\ reserved \in [Products -> Nat] /\ sold \in [Products -> Nat]
      /\ available' \in [Products -> Nat] /\ reserved' \in [Products -> Nat] /\ sold' \in [Products -> Nat]
  BY ServiceTypes DEF BooksInv, ServiceInv, ShopInv, TypeOK, StoreTypeOK
<1>2. \A p \in Products : available'[p] + reserved'[p] = available[p] + reserved[p]
  <2>1. ASSUME NEW p \in Products PROVE available'[p] + reserved'[p] = available[p] + reserved[p]
    <3>1. StockNow'[p] = StockNow[p]
      BY DEF NothingShows
    <3> QED
      BY <3>1 DEF StockNow
  <2> QED
    BY <2>1
<1>3. \A p \in Products : sold'[p] = sold[p]
  BY <1>1, <1>2 DEF BooksInv, StockIsConserved
<1>4. sold' = sold
  BY <1>1, <1>3
<1>5. ASSUME NEW k \in DOMAIN coupons, coupons'[k].state = "REDEEMED" PROVE coupons[k].state = "REDEEMED"
  <2>1. VouchersNow' = VouchersNow /\ DOMAIN coupons' = DOMAIN VouchersNow' /\ DOMAIN coupons = DOMAIN VouchersNow
    BY DEF NothingShows, VouchersNow
  <2>2. k \in DOMAIN coupons' /\ VouchersNow'[k] = VouchersNow[k]
    BY <2>1
  <2>3. VouchersNow'[k] = coupons'[k]
    BY <1>5, <2>2 DEF VouchersNow
  <2>4. coupons[k] \in CouponRows
    BY ServiceTypes DEF BooksInv
  <2>5. VouchersNow[k].state = "REDEEMED" => coupons[k].state = "REDEEMED"
    BY <2>4 DEF VouchersNow, CouponRows
  <2> QED
    BY <1>5, <2>2, <2>3, <2>5
<1> QED
  BY <1>2, <1>4, <1>5 DEF NothingShows

(***************************************************************************)
(* TAD 7: with every REWARD_N but zero, the status says what happened.     *)
(***************************************************************************)
THEOREM StatusAlwaysTells ==
    ASSUME RewardN # 0 PROVE ApiSpec => StatusTellsTheOutcome
<1> DEFINE Harmless ==
             response'.status >= 400 =>
               /\ UNCHANGED <<cart, orders, sold, lastRewarded>>
               /\ \A p \in Products : available'[p] + reserved'[p] = available[p] + reserved[p]
               /\ Len(coupons') = Len(coupons)
               /\ \A k \in DOMAIN coupons : coupons'[k].state = "REDEEMED" => coupons[k].state = "REDEEMED"
           Truthful ==
             response'.request.op = "checkout" =>
               /\ response'.status = 201 <=> Len(orders') = Len(orders) + 1
               /\ response'.status = 200 => OrdersOf(response'.request.cart) # {}
<1>1. BooksInv /\ CountsInv /\ BooksInv' /\ CountsInv' /\ [ApiNext]_apiVars => [Harmless /\ Truthful]_apiVars
  <2> SUFFICES ASSUME BooksInv, CountsInv, BooksInv', CountsInv', ApiNext PROVE Harmless /\ Truthful
    OBVIOUS
  <2>1. orders' = orders => Len(orders') # Len(orders) + 1
    BY NotItsSuccessor DEF CountsInv
  <2>2. CASE AtTheDoor
    <3>1. UNCHANGED <<cart, orders, sold, lastRewarded, available, reserved, coupons>>
      BY <2>2 DEF AtTheDoor, vars, storeVars
    <3> QED
      BY <2>1, <2>2, <3>1 DEF AtTheDoor
  <2>3. CASE Serve
    <3>1. Outcome
      BY <2>3, Outcomes DEF Serve
    <3>2. CASE Unheard /\ response' = NoResponse
      BY <3>2 DEF NoResponse, NoRequest
    <3>3. ASSUME NEW r \in Requests, Edited(r) \/ Earned(r), Responds(r, "OK") PROVE Harmless /\ Truthful
      BY <3>3 DEF Edited, Earned, CartOps, Responds, Status, SuccessStatus, RouteStatus
    <3>4. ASSUME NEW r \in Requests, Repeated(r), Responds(r, "REPLAYED") PROVE Harmless /\ Truthful
      BY <2>1, <3>4 DEF Repeated, SameLedgers, Responds, Status, SuccessStatus
    <3>5. ASSUME NEW r \in Requests, TurnedDown(r), NEW code \in RefusalCodes, Responds(r, code)
          PROVE  Harmless /\ Truthful
      BY <2>1, <3>5, NothingLost, RefusalStatus DEF TurnedDown, SameLedgers, Responds
    <3>6. ASSUME NEW r \in Requests, Created(r), Responds(r, "CREATED") PROVE Harmless /\ Truthful
      <4>1. PICK o : orders' = Append(orders, o)
        BY <3>6 DEF Created, Logs
      <4>2. Len(orders') = Len(orders) + 1
        BY <4>1, ServiceTypes, LongerByOne DEF BooksInv, StoreTypeOK
      <4>3. response'.status = 201
        BY <3>6 DEF Created, Responds, Status, SuccessStatus, RouteStatus
      <4> QED
        BY <4>2, <4>3
    <3> QED
      BY <2>3, <3>1, <3>2, <3>3, <3>4, <3>5, <3>6, ServiceAnswers
  <2> QED
    BY <2>2, <2>3, DoorAnswers DEF ApiNext
<1> QED
  BY <1>1, BehindTheDoor, CountsInvariance, PTL DEF ApiSpec, StatusTellsTheOutcome

(* A step that places an order adds its cart to the money of the report,   *)
(* and to the redeemed coupons if it uses one.                             *)
LEMMA NewOrderCounts ==
    ASSUME BooksInv, CountsInv, CountsInv', NEW o, Logs(o)
    PROVE  /\ Len(orders') = Len(orders) + 1
           /\ Report'.gross_minor = Report.gross_minor + o.gross
           /\ Report'.coupons_redeemed =
                Report.coupons_redeemed + (IF o.coupon # NoCoupon THEN 1 ELSE 0)
<1> DEFINE n == Len(orders) + 1
           w == [i \in DOMAIN orders |-> orders[i].gross]
           v == [i \in DOMAIN orders' |-> orders'[i].gross]
           used == WithCoupon
<1>1. /\ DOMAIN orders = 1..Len(orders) /\ Len(orders) \in Nat /\ DOMAIN orders' = 1..n
      /\ orders'[n] = o /\ \A i \in DOMAIN orders : orders'[i] = orders[i]
  BY ServiceTypes, GrowingLog DEF BooksInv, StoreTypeOK, Logs
<1>2. n \notin DOMAIN orders /\ DOMAIN orders' = DOMAIN orders \union {n}
  BY <1>1
<1>3. Len(orders') = n
  BY ServiceTypes, LongerByOne DEF BooksInv, StoreTypeOK, Logs
<1>4. IsFiniteSet(DOMAIN orders) /\ IsFiniteSet(used) /\ n \notin used
  BY <1>2, LogFacts, FS_Subset DEF WithCoupon
<1>5. /\ w \in [DOMAIN orders -> Int] /\ v \in [DOMAIN orders \union {n} -> Int]
      /\ v[n] = o.gross /\ \A i \in DOMAIN orders : v[i] = w[i]
  BY <1>1, <1>2 DEF CountsInv
<1>6. Report.gross_minor = SumFunction(w) /\ Report'.gross_minor = SumFunction(v)
  BY DEF Report, ReportOn
<1>7. WithCoupon' = IF o.coupon # NoCoupon THEN used \union {n} ELSE used
  BY <1>1, <1>2 DEF WithCoupon
<1>8. Cardinality(WithCoupon') = Cardinality(used) + (IF o.coupon # NoCoupon THEN 1 ELSE 0)
  <2> HIDE DEF used, n
  <2>1. Cardinality(used) \in Nat /\ Cardinality(used \union {n}) = Cardinality(used) + 1
    BY <1>4, FS_AddElement, FS_CardinalityType
  <2> QED
    BY <1>7, <2>1
<1>9. /\ Report.coupons_redeemed = Cardinality(used)
      /\ Report'.coupons_redeemed = Cardinality(WithCoupon')
  BY DEF Report, ReportOn, CountsInv
<1> HIDE DEF n, w, v, used
<1>10. SumFunction(v) = SumFunction(w) + v[n]
  BY <1>2, <1>4, <1>5, OneAdded
<1> QED
  BY <1>3, <1>5, <1>6, <1>8, <1>9, <1>10 DEF n

LEMMA SameReport ==
    ASSUME CountsInv, CountsInv', orders' = orders
    PROVE  /\ Report'.gross_minor = Report.gross_minor /\ Report'.orders_placed = Report.orders_placed
           /\ Report'.coupons_redeemed = Report.coupons_redeemed
<1>1. WithCoupon' = WithCoupon
  BY DEF WithCoupon
<1> QED
  BY <1>1 DEF Report, ReportOn, CountsInv, PlacedOrders

(***************************************************************************)
(* I8, I11, I15: with every REWARD_N but zero, what a report adds to the   *)
(* one before is what was answered in between.                             *)
(***************************************************************************)
THEOREM ReportAlwaysFollows ==
    ASSUME RewardN # 0 PROVE ApiSpec => ReportFollowsTheAnswers
<1> DEFINE created  == response'.code = "CREATED"
           rewarded == response'.code = "OK" /\ response'.request.op = "generate"
           redeemed == created /\ response'.request.coupon # NoCoupon
           Follows ==
             /\ Report'.gross_minor = Report.gross_minor
                  + (IF created THEN CartView(response'.request.cart).gross_minor ELSE 0)
             /\ Report'.orders_placed = Report.orders_placed + (IF created THEN 1 ELSE 0)
             /\ Report'.coupons_redeemed = Report.coupons_redeemed + (IF redeemed THEN 1 ELSE 0)
             /\ Report'.coupons_generated = Report.coupons_generated + (IF rewarded THEN 1 ELSE 0)
<1>1. BooksInv /\ CountsInv /\ BooksInv' /\ CountsInv' /\ [ApiNext]_apiVars => [Follows]_apiVars
  <2> SUFFICES ASSUME BooksInv, CountsInv, BooksInv', CountsInv', ApiNext PROVE Follows
    OBVIOUS
  <2>1. /\ Report.gross_minor \in Int /\ Report.orders_placed \in Nat
        /\ Report.coupons_redeemed \in Nat /\ Report.coupons_generated \in Nat
    <3>1. Report.gross_minor \in Int
      BY LogFacts, IntegerSum DEF Report, ReportOn
    <3>2. Cardinality(InState("REDEEMED")) \in Nat
      <4>1. IsFiniteSet(WithCoupon)
        BY LogFacts, FS_Subset DEF WithCoupon
      <4> QED
        BY <4>1, FS_CardinalityType DEF CountsInv
    <3> QED
      BY <3>1, <3>2 DEF Report, ReportOn, CountsInv, PlacedOrders
  <2>2. Report.coupons_generated = Len(coupons) /\ Report'.coupons_generated = Len(coupons')
    BY DEF Report, ReportOn
  <2>3. ASSUME orders' = orders, Len(coupons') = Len(coupons), ~created, ~rewarded PROVE Follows
    BY <2>1, <2>2, <2>3, SameReport
  <2>4. CASE AtTheDoor
    BY <2>3, <2>4 DEF AtTheDoor, vars, storeVars
  <2>5. CASE Serve
    <3>1. Outcome
      BY <2>5, Outcomes DEF Serve
    <3>2. CASE Unheard /\ response' = NoResponse
      BY <2>3, <3>2 DEF NoResponse, NoRequest, Unheard, SameLedgers
    <3>3. ASSUME NEW r \in Requests, Edited(r), Responds(r, "OK") PROVE Follows
      BY <2>3, <3>3 DEF Edited, SameLedgers, CartOps, Responds
    <3>4. ASSUME NEW r \in Requests, Repeated(r), Responds(r, "REPLAYED") PROVE Follows
      BY <2>3, <3>4 DEF Repeated, SameLedgers, Responds
    <3>5. ASSUME NEW r \in Requests, TurnedDown(r), NEW code \in RefusalCodes, Responds(r, code)
          PROVE  Follows
      BY <2>3, <3>5 DEF TurnedDown, SameLedgers, Responds, RefusalCodes
    <3>6. ASSUME NEW r \in Requests, Created(r), Responds(r, "CREATED") PROVE Follows
      <4>1. PICK o : Logs(o) /\ o.coupon = r.coupon /\ o.gross = CartView(r.cart).gross_minor
        BY <3>6 DEF Created
      <4>2. Report.orders_placed = Len(orders) /\ Report'.orders_placed = Len(orders')
        BY DEF Report, ReportOn, PlacedOrders
      <4>3. created /\ ~rewarded /\ response'.request = r /\ Len(coupons') = Len(coupons)
        BY <3>6 DEF Created, Responds
      <4> QED
        BY <2>1, <2>2, <4>1, <4>2, <4>3, NewOrderCounts
    <3>7. ASSUME NEW r \in Requests, Earned(r), Responds(r, "OK") PROVE Follows
      <4>1. rewarded /\ ~created /\ orders' = orders /\ Len(coupons') = Len(coupons) + 1
        BY <3>7 DEF Earned, Responds
      <4> QED
        BY <2>1, <2>2, <4>1, SameReport
    <3> QED
      BY <2>5, <3>1, <3>2, <3>3, <3>4, <3>5, <3>6, <3>7, ServiceAnswers
  <2> QED
    BY <2>4, <2>5, DoorAnswers DEF ApiNext
<1> QED
  BY <1>1, BehindTheDoor, CountsInvariance, PTL DEF ApiSpec, ReportFollowsTheAnswers
=============================================================================
