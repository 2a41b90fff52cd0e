-------------------------- MODULE Refinement_proofs --------------------------
(***************************************************************************)
(* Proof that the concurrent service implements the sequential shop of     *)
(* AtomicShop: every step of the service is one step of the shop, or is    *)
(* invisible to it.  The locks make it true (what is reserved when a       *)
(* handler looks is not what it asks for), and the invariants of the other *)
(* modules say what a pending payment still has when it is answered.       *)
(***************************************************************************)
EXTENDS ShopRefinement, Coupons_proofs

-----------------------------------------------------------------------------
(* The cart of a running request exists: carts are never deleted.          *)
NeedsACart(r) == r.op \in CartOps \union {"checkout"}

CartsExist == \A t \in Tasks : NeedsACart(req[t]) => Exists(req[t].cart)

Enters(t, r) == Suspend(t, r) /\ (NeedsACart(r) => Exists(r.cart))
Leaves(t)    == req' = [req EXCEPT ![t] = NoRequest]
ReqKind      == req' = req \/ \E t \in Tasks : Leaves(t) \/ \E r \in Requests : Enters(t, r)

LEMMA ReceiveKinds ==
    ASSUME ShopInv, NEW t \in Tasks, NEW r \in Requests, Receive(t, r)
    PROVE  Leaves(t) \/ Enters(t, r)
<1>1. TypeOK /\ StoreTypeOK
  BY DEF ShopInv, TypeOK
<1>2. CASE CartRequest(t, r)
  BY <1>2 DEF CartRequest, EarlyError, MutateCart, Answer, Enters, Leaves
<1>3. CASE GenerateRequest(t, r)
  <2>1. ~NeedsACart(r)
    BY <1>3 DEF GenerateRequest, NeedsACart, CartOps
  <2>2. GenerateLocked(t, r) => Leaves(t)
    BY <1>1, GenerateTypes DEF Answer, Leaves
  <2> QED
    BY <1>3, <2>1, <2>2 DEF GenerateRequest, Enters
<1>4. CASE CheckoutRequest(t, r)
  <2> DEFINE seen == cart[r.cart].items
  <2>1. AnsweredFromTheRecord(t, r) => Leaves(t)
    BY DEF AnsweredFromTheRecord, Answer, Leaves
  <2>2. Answer(t, r, "CART_NOT_FOUND", NoOrder) => Leaves(t)
    BY DEF Answer, Leaves
  <2>3. Refuse(t, r, seen) => Leaves(t)
    BY <1>1, <1>4, RefuseTypes DEF Answer, Leaves, CheckoutRequest
  <2>4. Charge(t, r, seen) => Suspend(t, r)
    BY DEF Charge
  <2> QED
    BY <1>4, <2>1, <2>2, <2>3, <2>4 DEF CheckoutRequest, Enters
<1> QED
  BY <1>2, <1>3, <1>4 DEF Receive

LEMMA WakeKinds ==
    ASSUME ShopInv, NEW t \in Tasks, Wake(t)
    PROVE  req' = req \/ Leaves(t)
<1> DEFINE r == req[t]
<1>1. TypeOK /\ StoreTypeOK
  BY DEF ShopInv, TypeOK
<1>2. r \in Requests
  <2>1. Waiting(t)
    BY DEF Wake, CartResume, GenerateResume, CheckoutResume, ResumeBlock, ResumePass, ResumeHold, Woken
  <2> QED
    BY <2>1, WaitingTask
<1>3. Suspend(t, r) => req' = req
  BY <1>1 DEF Suspend, TypeOK
<1>4. MutateCart(t, r) => Leaves(t)
  BY DEF MutateCart, Answer, Leaves
<1>5. GenerateLocked(t, r) => Leaves(t)
  BY <1>1, <1>2, GenerateTypes DEF Answer, Leaves
<1>6. Refuse(t, r, snapshot[t]) /\ r.op = "checkout" => Leaves(t)
  BY <1>1, <1>2, RefuseTypes DEF Answer, Leaves
<1>7. Charge(t, r, snapshot[t]) => Suspend(t, r)
  BY DEF Charge
<1> HIDE DEF r
<1> QED
  BY <1>3, <1>4, <1>5, <1>6, <1>7 DEF Wake, CartResume, GenerateResume, CheckoutResume, r

LEMMA ReqKinds == ShopInv /\ [Next]_vars => ReqKind
<1> SUFFICES ASSUME ShopInv, [Next]_vars PROVE ReqKind
  OBVIOUS
<1>1. ASSUME NEW t \in Tasks, TaskStep(t) PROVE ReqKind
  <2>1. GatewayAnswers(t) \/ Cancel(t) => Leaves(t)
    BY DEF GatewayAnswers, Cancel, PaymentApproved, PaymentDeclined, ChargeCancelled, ChargeFails,
           CancelledWaiting, Answer, Leaves
  <2> QED
    BY <1>1, <2>1, ReceiveKinds, WakeKinds DEF TaskStep, ReqKind
<1>2. ASSUME NEW c \in Carts, CreateCart(c) PROVE req' = req
  BY <1>2 DEF CreateCart
<1>3. ASSUME NEW p \in Products, NEW amount \in Prices, ChangePrice(p, amount) PROVE req' = req
  BY <1>3 DEF ChangePrice
<1>4. ASSUME UNCHANGED vars PROVE req' = req
  BY <1>4 DEF vars, handlerVars
<1> QED
  BY <1>1, <1>2, <1>3, <1>4 DEF Next, ReqKind

LEMMA CartsStay ==
    ASSUME ShopInv, [Next]_vars, NEW c \in Carts, Exists(c)
    PROVE  Exists(c)'
<1>1. TypeOK /\ StepKind /\ StoreTypeOK
  BY StepKinds DEF ShopInv, TypeOK
<1>2. ASSUME cart' = cart PROVE Exists(c)'
  BY <1>2 DEF Exists
<1>3. ASSUME NEW t \in Tasks, NEW r \in Requests, Edits(t, r) PROVE Exists(c)'
  BY <1>1, <1>3 DEF Edits, MutateCart, Exists, StoreTypeOK, IsCart
<1>4. ASSUME NEW t \in Tasks, PaymentApproved(t) PROVE Exists(c)'
  BY <1>4, PaidFacts DEF Exists
<1>5. ASSUME NEW d \in Carts, CreateCart(d) PROVE Exists(c)'
  BY <1>1, <1>5 DEF CreateCart, Exists, StoreTypeOK
<1>6. ASSUME NEW t \in Tasks, NEW r \in Requests, Still(t, r) \/ Generates(t, r) PROVE cart' = cart
  BY <1>6 DEF Still, Generates, GenerateLocked, storeVars
<1>7. ASSUME NEW t \in Tasks, NEW r \in Requests, Refuses(t, r) \/ Charges(t, r) PROVE cart' = cart
  BY <1>1, <1>7, RefusalLeavesNoTrace DEF Refuses, Charges, Charge, storeVars
<1>8. ASSUME NEW t \in Tasks, NEW code, ChargeFails(t, code) PROVE cart' = cart
  BY <1>8 DEF ChargeFails, UnchangedButCheckout
<1>9. ASSUME NEW p \in Products, NEW amount \in Prices, ChangePrice(p, amount) PROVE cart' = cart
  BY <1>9 DEF ChangePrice
<1>10. ASSUME UNCHANGED vars PROVE cart' = cart
  BY <1>10 DEF vars, storeVars
<1> QED
  BY <1>1, <1>2, <1>3, <1>4, <1>5, <1>6, <1>7, <1>8, <1>9, <1>10 DEF StepKind

LEMMA CartsExistStep == ShopInv /\ CartsExist /\ [Next]_vars => CartsExist'
<1> SUFFICES ASSUME ShopInv, CartsExist, [Next]_vars, NEW t \in Tasks, NeedsACart(req'[t])
             PROVE  cart'[req'[t].cart].state # "ABSENT"
  BY DEF CartsExist, NeedsACart, Exists
<1>1. ReqKind /\ TypeOK /\ ~NeedsACart(NoRequest)
  BY ReqKinds DEF ShopInv, NeedsACart, NoRequest, CartOps
<1>2. req'[t] \in Requests /\ Exists(req'[t].cart)
  BY <1>1 DEF ReqKind, Leaves, Enters, Suspend, CartsExist, TypeOK
<1>3. req'[t].cart \in Carts
  BY <1>2, RequestFacts DEF NeedsACart
<1> QED
  BY <1>2, <1>3, CartsStay DEF Exists
-----------------------------------------------------------------------------
(* What the shop of AtomicShop sees of a step. *)
NothingShows ==
    UNCHANGED <<price, cart, StockNow, orders, VouchersNow, lastRewarded, ReceiptsNow>>

VoucherOf(row) == IF row.state = "RESERVED" THEN [row EXCEPT !.state = "AVAILABLE"] ELSE row

LEMMA SameStock ==
    ASSUME \A p \in Products : available'[p] + reserved'[p] = available[p] + reserved[p]
    PROVE  StockNow' = StockNow
BY DEF StockNow

LEMMA SameVouchers ==
    ASSUME DOMAIN coupons' = DOMAIN coupons,
           \A k \in DOMAIN coupons : VoucherOf(coupons'[k]) = VoucherOf(coupons[k])
    PROVE  VouchersNow' = VouchersNow
BY DEF VouchersNow, VoucherOf

LEMMA SameReceipts ==
    ASSUME \A ck \in Carts \X Keys : \/ records'[ck] = records[ck]
                                     \/ /\ records[ck].state # "COMPLETED"
                                        /\ records'[ck].state # "COMPLETED"
    PROVE  ReceiptsNow' = ReceiptsNow
<1>1. ASSUME NEW ck \in Carts \X Keys PROVE ReceiptsNow'[ck] = ReceiptsNow[ck]
  BY DEF ReceiptsNow
<1> QED
  BY <1>1 DEF ReceiptsNow

LEMMA SameShop ==
    ASSUME UNCHANGED storeVars, ReceiptsNow' = ReceiptsNow
    PROVE  NothingShows
BY SameStock, SameVouchers DEF storeVars, NothingShows

(* A claim that is not settled leaves no receipt. *)
LEMMA NotServed ==
    ASSUME NEW r \in Requests, r.op = "checkout", records[KeyOf(r)].state # "COMPLETED"
    PROVE  ~ Promise!Served(r) /\ ReceiptsNow[KeyOf(r)] = [body |-> <<>>, order |-> 0]
<1>1. KeyOf(r) \in Carts \X Keys
  BY RequestFacts
<1>2. ReceiptsNow[KeyOf(r)] = [body |-> <<>>, order |-> 0]
  BY <1>1 DEF ReceiptsNow, NoOrder
<1>3. <<>> # <<r.cart, r.customer, r.coupon>>
  <2>1. Len(<<>>) = 0 /\ Len(<<r.cart, r.customer, r.coupon>>) = 3
    OBVIOUS
  <2> QED
    BY <2>1
<1> QED
  BY <1>2, <1>3 DEF Promise!Served, Promise!Ticket, Promise!Body, KeyOf

(* The registry entries that come and go without leaving a receipt. *)
LEMMA ClaimsDoNotShow ==
    ASSUME records \in [Carts \X Keys -> Records], NEW r \in Requests, r.op = "checkout",
           records[KeyOf(r)].state # "COMPLETED",
           records' \in {Claimed(records, r), Unclaimed(records, r), Unclaimed(Claimed(records, r), r)}
    PROVE  ReceiptsNow' = ReceiptsNow
<1>1. KeyOf(r) \in Carts \X Keys
  BY RequestFacts
<1>2. /\ records'[KeyOf(r)].state # "COMPLETED"
      /\ \A ck \in Carts \X Keys : ck # KeyOf(r) => records'[ck] = records[ck]
  BY <1>1 DEF Claimed, Unclaimed, NoRecord
<1> QED
  BY <1>2, SameReceipts

LEMMA Unseen ==
    ASSUME NothingShows, reply' = NoReply
    PROVE  Promise!AtomicNext
BY DEF NothingShows, NoReply, NoRequest, NoOrder, Promise!AtomicNext, Promise!Silence,
       Promise!SaysNothing, Promise!shopVars

LEMMA Refused ==
    ASSUME NEW r \in Requests, NEW code, NothingShows,
           reply' = [request |-> r, code |-> code, order |-> NoOrder],
           \/ r.op = "generate" /\ code = "NO_ELIGIBLE_MILESTONE" /\ ~ Promise!MilestoneReached
           \/ r.op \in CartOps /\ (Promise!CartReason(r, code) \/ Promise!EditReason(r, code))
           \/ r.op = "checkout" /\ \/ Promise!CartReason(r, code) \/ Promise!CheckoutReason(r, code)
                                   \/ code \in Promise!BusyCodes
           \/ code = "CANCELLED",
           r.op = "checkout" => ~ Promise!Served(r)
    PROVE  Promise!AtomicNext
<1>1. Promise!Refuse(r, code)
  BY DEF NothingShows, CartOps, NoOrder, Promise!Refuse, Promise!Says, Promise!shopVars
<1>2. reply'.code = code
  OBVIOUS
<1> QED
  BY <1>1, <1>2 DEF Promise!AtomicNext

-----------------------------------------------------------------------------
(* What holds of the service while it implements the shop. *)
ServiceInv == /\ ShopInv /\ ClaimInv /\ PaymentInv /\ LedgerInv
              /\ Frozen /\ AmountsInv /\ CartsExist

LEMMA ServiceTypes ==
    ASSUME ServiceInv
    PROVE  /\ TypeOK /\ StoreTypeOK /\ coupons \in Seq(CouponRows) /\ Len(coupons) \in Nat
           /\ DOMAIN coupons = 1..Len(coupons) /\ records \in [Carts \X Keys -> Records]
           /\ available \in [Products -> Nat] /\ reserved \in [Products -> Nat]
           /\ Len(orders) \in Nat /\ DOMAIN orders = 1..Len(orders) /\ lastRewarded \in Nat
           /\ \A k \in DOMAIN coupons : coupons[k] \in CouponRows
BY LenProperties, ElementOfSeq DEF ServiceInv, ShopInv, TypeOK, StoreTypeOK

(* The product whose lock a handler owns has nothing reserved, for what is *)
(* reserved belongs to the one pending payment, which owns its products.   *)
LEMMA NothingReserved ==
    ASSUME ServiceInv, NEW p \in Products, \A u \in Tasks : Charging(u) => owner[ProductLock(p)] # u
    PROVE  reserved[p] = 0
<1>1. CASE NobodyCharges
  BY <1>1 DEF ServiceInv, PaymentInv
<1>2. ASSUME NEW u \in Tasks, Charging(u) PROVE reserved[p] = 0
  <2>1. p \notin DOMAIN held[u].lines
    BY <1>2, ChargingOwns DEF ServiceInv
  <2> QED
    BY <1>2, <2>1 DEF ServiceInv, PaymentInv, HasWhatItPays, HeldQuantity
<1> QED
  BY <1>1, <1>2 DEF NobodyCharges

(* A cart request, once its locks are taken. *)
LEMMA EditImplements ==
    ASSUME ServiceInv, NEW t \in Tasks, NEW r \in Requests, r.op \in CartOps, Exists(r.cart),
           r.op # "reprice" => /\ r.product \in Products
                               /\ \A u \in Tasks : Charging(u) => owner[ProductLock(r.product)] # u,
           MutateCart(t, r), UnchangedCheckouts
    PROVE  Promise!AtomicNext
<1>1. /\ r.cart \in Carts /\ (r.op \in {"add", "set"} => r.quantity \in Nat)
      /\ available \in [Products -> Nat] /\ cart[r.cart].state \in {"OPEN", "CHECKED_OUT"}
  BY ServiceTypes, RequestFacts DEF StoreTypeOK, IsCart, Exists
<1>2. r.op # "reprice" => reserved[r.product] = 0
  BY NothingReserved
<1>3. r.op \in {"add", "set"} => /\ StockNow[r.product] = available[r.product]
                                /\ Promise!Wanted(r) = NewQuantity(r)
  <2>1. IsLines(cart[r.cart].items)
    BY <1>1, ServiceTypes DEF StoreTypeOK, IsCart
  <2>2. \A p \in DOMAIN cart[r.cart].items : cart[r.cart].items[p].quantity \in Nat
    BY <2>1 DEF IsLines
  <2>3. r.op # "reprice" => r.product \in Products
    OBVIOUS
  <2> QED
    BY <1>1, <1>2, <2>2, <2>3 DEF StockNow, Promise!Wanted, Promise!Items, NewQuantity
<1>4. /\ reply' = [request |-> r, code |-> CartError(r), order |-> NoOrder]
      /\ UNCHANGED <<price, StockNow, orders, VouchersNow, lastRewarded, ReceiptsNow>>
  <2>1. /\ UNCHANGED <<price, available, reserved, orders, coupons, lastRewarded, records>>
        /\ reply' = [request |-> r, code |-> CartError(r), order |-> NoOrder]
    BY DEF MutateCart, UnchangedButCarts, UnchangedCheckouts, Answer
  <2> QED
    BY <2>1, SameStock, SameVouchers, SameReceipts
<1>5. CASE CartError(r) # "OK"
  <2>1. NothingShows
    BY <1>4, <1>5 DEF MutateCart, NothingShows
  <2>2. Promise!CartReason(r, CartError(r)) \/ Promise!EditReason(r, CartError(r))
    BY <1>1, <1>3, <1>5 DEF CartError, IsOpen, Promise!CartReason, Promise!EditReason
  <2>3. r.op # "checkout"
    BY DEF CartOps
  <2> QED
    BY <1>4, <2>1, <2>2, <2>3, Refused
<1>6. CASE CartError(r) = "OK"
  <2>1. cart' = [cart EXCEPT ![r.cart].items = NewItems(r)] /\ cart[r.cart].state = "OPEN"
    BY <1>6 DEF MutateCart, CartError, IsOpen
  <2>2. CASE r.op \in {"add", "set"}
    <3>1. ~(NewQuantity(r) > available[r.product])
      BY <1>6, <2>2 DEF CartError
    <3>2. NewQuantity(r) \in Nat
      <4>1. IsLines(cart[r.cart].items)
        BY <1>1, ServiceTypes DEF StoreTypeOK, IsCart
      <4> QED
        BY <1>1, <2>2, <4>1 DEF NewQuantity, IsLines
    <3>3. Promise!Wanted(r) <= StockNow[r.product] /\ r.product \in Products
      BY <1>1, <1>3, <2>2, <3>1, <3>2
    <3>4. Promise!SetsLine(r)
      BY <1>3, <2>1, <2>2, <3>3 DEF Promise!SetsLine, Promise!Items, NewItems
    <3> QED
      BY <1>4, <1>6, <2>1, <2>2, <3>4 DEF NoOrder, Promise!AtomicNext, Promise!Edit, Promise!Says
  <2>3. CASE r.op = "remove"
    <3>1. Promise!DropsLine(r)
      BY <2>1, <2>3 DEF Promise!DropsLine, Promise!Items, NewItems
    <3> QED
      BY <1>4, <1>6, <2>1, <2>3, <3>1 DEF NoOrder, Promise!AtomicNext, Promise!Edit, Promise!Says
  <2>4. CASE r.op = "reprice"
    <3>1. Promise!AcceptsPrices(r)
      BY <2>1, <2>4 DEF Promise!AcceptsPrices, Promise!Items, NewItems
    <3> QED
      BY <1>4, <1>6, <2>1, <2>4, <3>1 DEF NoOrder, Promise!AtomicNext, Promise!Edit, Promise!Says
  <2> QED
    BY <2>2, <2>3, <2>4 DEF CartOps
<1> QED
  BY <1>5, <1>6
-----------------------------------------------------------------------------
(* A coupon request.  For RewardN <= 0 the code pays out other milestones  *)
(* than the shop promises, and fails at zero.                              *)
LEMMA GrownVouchers ==
    ASSUME ServiceInv, NEW row, row.state = "AVAILABLE", coupons' = Append(coupons, row)
    PROVE  VouchersNow' = Append(VouchersNow, row)
<1> DEFINE n == Len(coupons)
           v == VouchersNow
           w == Append(v, row)
<1>1. n \in Nat /\ DOMAIN coupons = 1..n /\ coupons \in Seq(CouponRows)
  BY ServiceTypes
<1>2. coupons \in Seq({coupons[i] : i \in DOMAIN coupons})
  BY <1>1, IsASeq
<1>3. /\ DOMAIN coupons' = 1..(n + 1) /\ coupons'[n + 1] = row
      /\ \A i \in 1..n : coupons'[i] = coupons[i]
  BY <1>1, <1>2, GrowingLog
<1>4. v \in Seq({v[i] : i \in DOMAIN v}) /\ DOMAIN v = 1..n
  <2>1. DOMAIN v = 1..n /\ v = [i \in 1..n |-> v[i]]
    BY <1>1 DEF VouchersNow
  <2>2. \A i \in 1..n : v[i] \in {v[j] : j \in DOMAIN v}
    BY <2>1
  <2> HIDE DEF v
  <2> QED
    BY <1>1, <2>1, <2>2, IsASeq
<1>5. Len(v) = n
  BY <1>1, <1>4, LenProperties
<1> HIDE DEF v
<1>6. /\ w \in Seq({w[i] : i \in DOMAIN w}) /\ DOMAIN w = 1..(n + 1)
      /\ w[n + 1] = row /\ \A i \in 1..n : w[i] = v[i]
  BY <1>4, <1>5, GrowingLog
<1>7. Len(w) = n + 1
  BY <1>1, <1>6, LenProperties
<1> HIDE DEF w
<1>8. w = [i \in 1..(n + 1) |-> w[i]]
  BY <1>6, <1>7, LenProperties
<1>9. VouchersNow' = [i \in 1..(n + 1) |-> VoucherOf(coupons'[i])]
  BY <1>3 DEF VouchersNow, VoucherOf
<1>10. \A i \in 1..(n + 1) : VoucherOf(coupons'[i]) = w[i]
  <2>1. \A i \in 1..n : v[i] = VoucherOf(coupons[i])
    BY <1>1 DEF v, VouchersNow, VoucherOf
  <2>2. \A i \in 1..(n + 1) : i \in 1..n \/ i = n + 1
    BY <1>1
  <2>3. VoucherOf(row) = row
    BY DEF VoucherOf
  <2> QED
    BY <1>3, <1>6, <2>1, <2>2, <2>3
<1> QED
  BY <1>8, <1>9, <1>10 DEF w, v

LEMMA GenerateImplements ==
    ASSUME ServiceInv, RewardN > 0, NEW t \in Tasks, NEW r \in Requests, r.op = "generate",
           GenerateLocked(t, r), UnchangedCheckouts
    PROVE  Promise!AtomicNext
<1> DEFINE k == NextMilestone
<1>1. /\ Len(orders) \in Nat /\ DOMAIN orders = 1..Len(orders) /\ k = lastRewarded + 1
      /\ k * RewardN \in Int /\ k * RewardN > 0
  <2>1. \A m, n \in Nat \ {0} : m * n \in Int /\ m * n > 0
    OBVIOUS
  <2>2. RewardN \in Nat \ {0} /\ k \in Nat \ {0}
    BY ServiceTypes, StoreAssumption DEF NextMilestone
  <2> QED
    BY <2>1, <2>2, ServiceTypes DEF NextMilestone
<1>2. MilestoneOrder(k) = k * RewardN
  BY <1>1 DEF MilestoneOrder
<1>3. /\ UNCHANGED <<price, cart, available, reserved, orders, records>>
  BY DEF GenerateLocked, UnchangedCheckouts
<1>4. StockNow' = StockNow /\ ReceiptsNow' = ReceiptsNow
  BY <1>3, SameStock, SameReceipts
<1>5. CASE /\ PlacedOrders < NextMilestone * RewardN
           /\ Answer(t, r, "NO_ELIGIBLE_MILESTONE", NoOrder) /\ UNCHANGED <<coupons, lastRewarded>>
  <2>1. NothingShows
    BY <1>3, <1>4, <1>5, SameVouchers DEF NothingShows
  <2>2. ~ Promise!MilestoneReached
    BY <1>1, <1>5 DEF PlacedOrders, NextMilestone, Promise!MilestoneReached
  <2> QED
    BY <1>5, <2>1, <2>2, Refused DEF Answer
<1>6. CASE /\ PlacedOrders >= NextMilestone * RewardN /\ Mint(NextMilestone)
           /\ Answer(t, r, IF RewardN = 0 THEN "INTERNAL_ERROR" ELSE "OK", NoOrder)
  <2> DEFINE row == [milestone |-> k, percent |-> RewardX, owner |-> orders[k * RewardN].customer,
                     state |-> "AVAILABLE", order |-> 0]
  <2>1. row = Minted(k)
    BY <1>2 DEF Minted, NoOrder
  <2>2. coupons' = Append(coupons, row) /\ lastRewarded' = k
    BY <1>6, <2>1 DEF Mint
  <2>3. row.state = "AVAILABLE"
    OBVIOUS
  <2> HIDE DEF row
  <2>4. VouchersNow' = Append(VouchersNow, row)
    BY <2>2, <2>3, GrownVouchers
  <2>5. reply' = [request |-> r, code |-> "OK", order |-> 0]
    BY <1>6 DEF Answer, NoOrder
  <2>6. Promise!MilestoneReached
    BY <1>6 DEF PlacedOrders, NextMilestone, Promise!MilestoneReached
  <2>7. Promise!Reward(r)
    BY <1>1, <1>3, <1>4, <2>2, <2>4, <2>5, <2>6 DEF row, Promise!Reward, Promise!Says
  <2> QED
    BY <2>7 DEF Promise!AtomicNext
<1>7. PlacedOrders >= NextMilestone * RewardN => MilestoneOrder(NextMilestone) \in DOMAIN orders
  BY <1>1, <1>2 DEF PlacedOrders
<1> QED
  BY <1>5, <1>6, <1>7 DEF GenerateLocked

-----------------------------------------------------------------------------
(* A checkout refused under its locks. *)
LEMMA RefuseImplements ==
    ASSUME ServiceInv, NEW t \in Tasks, NEW r \in Requests, r.op = "checkout", NEW seen,
           Refuse(t, r, seen), NobodyCharges, Exists(r.cart),
           records[KeyOf(r)].state # "COMPLETED", ReceiptsNow' = ReceiptsNow
    PROVE  Promise!AtomicNext
<1> DEFINE lines == cart[r.cart].items
           verify == VerifyError(r, seen)
           coupon == CouponError(r.coupon, r.customer)
<1>1. NothingShows
  BY ServiceTypes, RefusalLeavesNoTrace, SameShop
<1>2. /\ r.cart \in Carts /\ cart[r.cart].state \in {"OPEN", "CHECKED_OUT"}
      /\ IsLines(lines) /\ r.coupon \in Nat
  BY ServiceTypes, RequestFacts DEF StoreTypeOK, IsCart, Exists
<1>3. ~ Promise!Served(r)
  BY NotServed
<1>4. \A error, some, code : RefuseHolding(t, r, error, some, code) =>
        reply' = [request |-> r, code |-> error, order |-> NoOrder]
  BY DEF RefuseHolding, Answer
<1>5. \A p \in Products : StockNow[p] = available[p]
  BY ServiceTypes, NothingReserved DEF NobodyCharges, StockNow
<1>6. CASE verify # "OK" /\ reply' = [request |-> r, code |-> verify, order |-> NoOrder]
  <2>1. \/ Promise!CartReason(r, verify) \/ Promise!CheckoutReason(r, verify)
        \/ verify \in Promise!BusyCodes
    BY <1>2, <1>6 DEF VerifyError, IsOpen, NoItems, Promise!Items, Promise!CartReason,
                      Promise!CheckoutReason, Promise!BusyCodes
  <2> QED
    BY <1>1, <1>3, <1>6, <2>1, Refused
<1>7. CASE ~InStock(lines) /\ reply' = [request |-> r, code |-> "INSUFFICIENT_INVENTORY", order |-> NoOrder]
  <2>1. PICK p \in DOMAIN lines : ~(lines[p].quantity <= available[p])
    BY <1>7 DEF InStock
  <2>2. p \in Products /\ lines[p].quantity \in Nat /\ available[p] \in Nat
    BY <1>2, <2>1, ServiceTypes DEF IsLines
  <2>3. Promise!CheckoutReason(r, "INSUFFICIENT_INVENTORY")
    BY <1>5, <2>1, <2>2 DEF Promise!Items, Promise!CheckoutReason
  <2> QED
    BY <1>1, <1>3, <1>7, <2>3, Refused
<1>8. /\ DOMAIN VouchersNow = DOMAIN coupons
      /\ \A k \in DOMAIN coupons : /\ VouchersNow[k].owner = coupons[k].owner
                                   /\ VouchersNow[k].percent = coupons[k].percent
                                   /\ coupons[k].state # "RESERVED" => VouchersNow[k] = coupons[k]
  BY ServiceTypes DEF VouchersNow, CouponRows
<1>9. \A k \in DOMAIN coupons : coupons[k].state # "RESERVED"
  BY DEF ServiceInv, LedgerInv, ReservedByACharge, NobodyCharges
<1>10. CASE coupon # "OK" /\ reply' = [request |-> r, code |-> coupon, order |-> NoOrder]
  <2>1. Promise!CheckoutReason(r, coupon)
    BY <1>2, <1>8, <1>9, <1>10 DEF CouponError, NoCoupon, Promise!HasCoupon, Promise!CheckoutReason
  <2> QED
    BY <1>1, <1>3, <1>10, <2>1, Refused
<1>11. CASE /\ coupon = "OK" /\ ~CouponPercentOK(r.coupon)
            /\ reply' = [request |-> r, code |-> "INTERNAL_ERROR", order |-> NoOrder]
  <2>1. /\ r.coupon # NoCoupon /\ r.coupon \in DOMAIN coupons /\ coupons[r.coupon].owner = r.customer
        /\ coupons[r.coupon].state = "AVAILABLE"
    BY <1>2, <1>11, ServiceTypes, AcceptedIsAvailable DEF CouponPercentOK
  <2>2. Promise!CheckoutReason(r, "INTERNAL_ERROR")
    BY <1>8, <1>11, <2>1 DEF CouponPercentOK, PercentOK, Promise!PercentOK, Promise!Redeemable,
                             Promise!CheckoutReason
  <2> QED
    BY <1>1, <1>3, <1>11, <2>2, Refused
<1> HIDE DEF lines, verify, coupon
<1>12. Refuse(t, r, seen) =>
         \/ verify # "OK" /\ \E some, code : RefuseHolding(t, r, verify, some, code)
         \/ ~InStock(lines) /\ \E some, code : RefuseHolding(t, r, "INSUFFICIENT_INVENTORY", some, code)
         \/ coupon # "OK" /\ \E some, code : RefuseHolding(t, r, coupon, some, code)
         \/ /\ coupon = "OK" /\ ~CouponPercentOK(r.coupon)
            /\ \E some, code : RefuseHolding(t, r, "INTERNAL_ERROR", some, code)
  BY DEF Refuse, lines, verify, coupon
<1> QED
  BY <1>4, <1>6, <1>7, <1>10, <1>11, <1>12
-----------------------------------------------------------------------------
(* A payment is asked for: the shop sees nothing of it yet. *)
LEMMA SameRow ==
    ASSUME coupons \in Seq(CouponRows), NEW code \in 0..Len(coupons)
    PROVE  /\ (code # NoCoupon => coupons[code].state = "AVAILABLE") =>
                \A k \in DOMAIN coupons : VoucherOf(WithReserved(coupons, code)[k]) = VoucherOf(coupons[k])
           /\ (code # NoCoupon => coupons[code].state = "RESERVED") =>
                \A k \in DOMAIN coupons : VoucherOf(WithReleased(coupons, code)[k]) = VoucherOf(coupons[k])
           /\ DOMAIN WithReserved(coupons, code) = DOMAIN coupons
           /\ DOMAIN WithReleased(coupons, code) = DOMAIN coupons
<1>1. /\ \A k \in DOMAIN coupons : coupons[k] \in CouponRows
      /\ code # NoCoupon => code \in DOMAIN coupons
  BY LenProperties, ElementOfSeq DEF NoCoupon
<1>2. \A row \in CouponRows :
        /\ row.state = "AVAILABLE" => VoucherOf([row EXCEPT !.state = "RESERVED"]) = VoucherOf(row)
        /\ row.state = "RESERVED" => VoucherOf([row EXCEPT !.state = "AVAILABLE"]) = VoucherOf(row)
  BY DEF CouponRows, VoucherOf
<1>3. CASE code = NoCoupon
  BY <1>3 DEF WithReserved, WithReleased
<1>4. CASE code # NoCoupon
  <2>1. /\ WithReserved(coupons, code)[code] = [coupons[code] EXCEPT !.state = "RESERVED"]
        /\ WithReleased(coupons, code)[code] = [coupons[code] EXCEPT !.state = "AVAILABLE"]
        /\ \A k \in DOMAIN coupons : k # code => /\ WithReserved(coupons, code)[k] = coupons[k]
                                                 /\ WithReleased(coupons, code)[k] = coupons[k]
        /\ DOMAIN WithReserved(coupons, code) = DOMAIN coupons
        /\ DOMAIN WithReleased(coupons, code) = DOMAIN coupons
    BY <1>1, <1>4 DEF WithReserved, WithReleased
  <2> QED
    BY <1>1, <1>2, <1>4, <2>1
<1> QED
  BY <1>3, <1>4

LEMMA ChargeImplements ==
    ASSUME ServiceInv, NEW t \in Tasks, NEW r \in Requests, r.op = "checkout", NEW seen,
           Charge(t, r, seen), NobodyCharges, ReceiptsNow' = ReceiptsNow
    PROVE  Promise!AtomicNext
<1> DEFINE lines == cart[r.cart].items
<1>1. Accepts(t, r) /\ reply' = NoReply
  BY DEF Accepts, NobodyCharges, Charge, Suspend
<1>2. /\ IsLines(lines) /\ ReserveInventory(lines) /\ r.coupon \in 0..Len(coupons)
      /\ coupons' = WithReserved(coupons, r.coupon)
      /\ r.coupon # NoCoupon => coupons[r.coupon].state = "AVAILABLE"
      /\ UNCHANGED <<price, cart, orders, lastRewarded>>
  BY <1>1, AcceptFacts DEF ServiceInv
<1>3. VouchersNow' = VouchersNow
  BY <1>2, ServiceTypes, SameRow, SameVouchers
<1>4. StockNow' = StockNow
  <2>1. \A p \in Products : available'[p] + reserved'[p] = available[p] + reserved[p]
    BY <1>2, ServiceTypes DEF ReserveInventory, In, Out, IsLines
  <2> QED
    BY <2>1, SameStock
<1> QED
  BY <1>1, <1>2, <1>3, <1>4, Unseen DEF NothingShows

-----------------------------------------------------------------------------
(* A pending payment, as the shop sees it: an order that can be placed. *)
LEMMA PendingCanBePlaced ==
    ASSUME ServiceInv, NEW t \in Tasks, Charging(t)
    PROVE  /\ req[t] \in Requests /\ req[t].op = "checkout" /\ KeyOf(req[t]) \in Carts \X Keys
           /\ records[KeyOf(req[t])].state = "IN_PROGRESS"
           /\ records[KeyOf(req[t])].fingerprint = Fingerprint(req[t])
           /\ cart[req[t].cart].state = "OPEN" /\ cart[req[t].cart].items = held[t].lines
           /\ IsLines(held[t].lines) /\ HasWhatItPays(t) /\ Priced(t)
           /\ Promise!CanBePlaced(req[t])
<1> DEFINE r == req[t]
<1>1. /\ r \in Requests /\ r.op = "checkout" /\ r.customer \in Customers
      /\ IsLines(held[t].lines) /\ held[t].coupon \in 0..Len(coupons)
      /\ HasWhatItPays(t) /\ Priced(t) /\ held[t].coupon = r.coupon
      /\ cart[r.cart].state = "OPEN" /\ cart[r.cart].items = held[t].lines
  BY ChargingFacts DEF ServiceInv, PaymentInv, HasWhatItPays, AmountsInv, Frozen, IsFrozen
<1>2. KeyOf(r) \in Carts \X Keys
  BY <1>1, RequestFacts
<1>3. records[KeyOf(r)].state = "IN_PROGRESS" /\ records[KeyOf(r)].fingerprint = Fingerprint(r)
  BY <1>1 DEF ServiceInv, ClaimInv, Works, Checkouts
<1>4. ReceiptsNow[KeyOf(r)] = [body |-> <<>>, order |-> 0]
  BY <1>1, <1>3, NotServed
<1>5. \A p \in DOMAIN held[t].lines : held[t].lines[p].quantity <= StockNow[p]
  <2> SUFFICES ASSUME NEW p \in DOMAIN held[t].lines PROVE held[t].lines[p].quantity <= StockNow[p]
    OBVIOUS
  <2>1. p \in Products /\ held[t].lines[p].quantity \in Nat
    BY <1>1 DEF IsLines
  <2>2. reserved[p] = held[t].lines[p].quantity
    BY <1>1, <2>1 DEF HasWhatItPays, HeldQuantity
  <2> QED
    BY <2>1, <2>2, ServiceTypes DEF StockNow
<1>6. r.coupon # NoCoupon => /\ r.coupon \in DOMAIN coupons /\ coupons[r.coupon].state = "RESERVED"
                             /\ coupons[r.coupon].owner = r.customer /\ PercentOK(coupons[r.coupon].percent)
  BY <1>1, ServiceTypes DEF HasWhatItPays, Priced, CouponPercentOK, NoCoupon
<1>7. r.coupon # NoCoupon => Promise!Redeemable(r) /\ Promise!PercentOK(VouchersNow[r.coupon].percent)
  BY <1>6, ServiceTypes DEF VouchersNow, CouponRows, PercentOK, Promise!PercentOK, Promise!Redeemable
<1> HIDE DEF r
<1>8. Promise!CanBePlaced(r)
  BY <1>1, <1>4, <1>5, <1>7 DEF HasWhatItPays, KeyOf, NoItems, NoCoupon, Promise!CanBePlaced,
     Promise!Items, Promise!Ticket, Promise!NoReceipt, Promise!HasCoupon
<1> QED
  BY <1>1, <1>2, <1>3, <1>8 DEF r

(* The payment fails, or nobody waits for it any more: all is given back.  *)
LEMMA FailImplements ==
    ASSUME ServiceInv, NEW t \in Tasks, NEW code \in {"PAYMENT_DECLINED", "CANCELLED"}, ChargeFails(t, code)
    PROVE  Promise!AtomicNext
<1> DEFINE r == req[t]
<1>1. /\ Charging(t) /\ ReleaseInventory(held[t].lines) /\ coupons' = WithReleased(coupons, held[t].coupon)
      /\ held[t].coupon \in 0..Len(coupons) /\ UNCHANGED <<price, cart, orders, lastRewarded>>
      /\ records' = Unclaimed(records, r) /\ reply' = [request |-> r, code |-> code, order |-> NoOrder]
  BY FailFacts DEF ServiceInv, ChargeFails, Answer
<1>2. /\ r \in Requests /\ r.op = "checkout" /\ records[KeyOf(r)].state = "IN_PROGRESS"
      /\ IsLines(held[t].lines) /\ HasWhatItPays(t) /\ Promise!CanBePlaced(r)
  BY <1>1, PendingCanBePlaced
<1> HIDE DEF r
<1>3. ReceiptsNow' = ReceiptsNow
  BY <1>1, <1>2, ServiceTypes, ClaimsDoNotShow
<1>4. StockNow' = StockNow
  <2>1. \A p \in Products : available'[p] + reserved'[p] = available[p] + reserved[p]
    BY <1>1, <1>2, ServiceTypes DEF ReleaseInventory, IsReserved, In, Out, IsLines
  <2> QED
    BY <2>1, SameStock
<1>5. VouchersNow' = VouchersNow
  BY <1>1, <1>2, ServiceTypes, SameRow, SameVouchers DEF HasWhatItPays
<1>6. NothingShows
  BY <1>1, <1>3, <1>4, <1>5 DEF NothingShows
<1>7. code = "CANCELLED" \/ Promise!CheckoutReason(r, code)
  BY <1>2 DEF Promise!CheckoutReason
<1> QED
  BY <1>1, <1>2, <1>6, <1>7, NotServed, Refused

LEMMA SameGross == ASSUME NEW lines PROVE Promise!Gross(lines) = Gross(lines)
BY DEF Gross, LineTotal, SumFunction, SumFunctionOnSet, FoldFunctionOnSet, MapThenFoldSet,
       Promise!Gross, Promise!LineTotal, Promise!SumFunction, Promise!SumFunctionOnSet,
       Promise!FoldFunctionOnSet, Promise!MapThenFoldSet

(* The payment is approved: the order is placed, all of it at once.        *)
LEMMA PaidImplements ==
    ASSUME ServiceInv, NEW t \in Tasks, PaymentApproved(t)
    PROVE  Promise!AtomicNext
<1> DEFINE r == req[t]
           n == Len(orders) + 1
           lines == held[t].lines
           code == held[t].coupon
<1>1. /\ Charging(t) /\ CommitInventory(lines) /\ coupons' = WithRedeemed(coupons, code, n)
      /\ orders' = Append(orders, OrderOf(t, r)) /\ cart' = [cart EXCEPT ![r.cart].state = "CHECKED_OUT"]
      /\ records' = Completed(records, r, n) /\ UNCHANGED <<price, lastRewarded>>
      /\ reply' = [request |-> r, code |-> "CREATED", order |-> n]
  BY DEF PaymentApproved, Answer
<1>2. /\ r \in Requests /\ r.op = "checkout" /\ KeyOf(r) \in Carts \X Keys
      /\ records[KeyOf(r)].state = "IN_PROGRESS" /\ records[KeyOf(r)].fingerprint = Fingerprint(r)
      /\ cart[r.cart].items = lines /\ IsLines(lines) /\ HasWhatItPays(t) /\ Priced(t)
      /\ Promise!CanBePlaced(r) /\ code = r.coupon /\ code \in 0..Len(coupons)
  BY <1>1, PendingCanBePlaced, ChargingFacts DEF ServiceInv, HasWhatItPays
<1>3. code # NoCoupon => /\ code \in DOMAIN coupons /\ coupons[code] \in CouponRows
                         /\ coupons[code].state = "RESERVED"
  BY <1>2, ServiceTypes DEF HasWhatItPays, NoCoupon
<1>4. StockNow' = [p \in Products |-> IF p \in DOMAIN lines THEN StockNow[p] - lines[p].quantity ELSE StockNow[p]]
  BY <1>1, <1>2, ServiceTypes DEF StockNow, CommitInventory, Out, IsLines
<1>5. VouchersNow' = IF code # 0 THEN [VouchersNow EXCEPT ![code].state = "REDEEMED", ![code].order = n]
                                 ELSE VouchersNow
  <2>1. CASE code = 0
    BY <1>1, <2>1, SameVouchers DEF WithRedeemed, NoCoupon
  <2>2. CASE code # 0
    <3> DEFINE row == coupons[code]
    <3>1. /\ coupons' = [coupons EXCEPT ![code] = [row EXCEPT !.state = "REDEEMED", !.order = n]]
          /\ code \in DOMAIN coupons /\ row \in CouponRows /\ row.state = "RESERVED"
      BY <1>1, <1>3, <2>2 DEF WithRedeemed, NoCoupon
    <3>2. /\ VoucherOf([row EXCEPT !.state = "REDEEMED", !.order = n])
               = [row EXCEPT !.state = "REDEEMED", !.order = n]
          /\ [VoucherOf(row) EXCEPT !.state = "REDEEMED", !.order = n]
               = [row EXCEPT !.state = "REDEEMED", !.order = n]
      BY <3>1 DEF VoucherOf, CouponRows
    <3>3. VouchersNow = [k \in DOMAIN coupons |-> VoucherOf(coupons[k])]
          /\ VouchersNow' = [k \in DOMAIN coupons' |-> VoucherOf(coupons'[k])]
      BY DEF VouchersNow, VoucherOf
    <3> HIDE DEF row, code, n
    <3>4. VouchersNow' = [VouchersNow EXCEPT ![code] = [VoucherOf(row) EXCEPT !.state = "REDEEMED", !.order = n]]
      BY <3>1, <3>2, <3>3
    <3>5. VouchersNow[code] = VoucherOf(row)
      BY <3>1, <3>3 DEF row
    <3> QED
      BY <2>2, <3>1, <3>3, <3>4, <3>5
  <2> QED
    BY <2>1, <2>2
<1>6. ReceiptsNow' = [ReceiptsNow EXCEPT ![KeyOf(r)] = [body |-> Fingerprint(r), order |-> n]]
  <2>1. /\ records'[KeyOf(r)].state = "COMPLETED" /\ records'[KeyOf(r)].order = n
        /\ records'[KeyOf(r)].fingerprint = Fingerprint(r)
        /\ \A ck \in Carts \X Keys : ck # KeyOf(r) => records'[ck] = records[ck]
    BY <1>1, <1>2, ServiceTypes DEF Completed, Records
  <2> QED
    BY <1>2, <2>1 DEF ReceiptsNow
<1>7. OrderOf(t, r) =
        LET gross == Promise!Gross(lines)
            discount == IF code # 0 THEN Promise!Discount(gross, VouchersNow[code].percent) ELSE 0
        IN  [cart |-> r.cart, customer |-> r.customer, lines |-> lines, gross |-> gross,
             discount |-> discount, net |-> Promise!Net(gross, discount), coupon |-> code]
  <2>1. Promise!Gross(lines) = Gross(lines)
    BY SameGross
  <2>2. code # 0 => VouchersNow[code].percent = coupons[code].percent
    BY <1>3 DEF VouchersNow, CouponRows, NoCoupon
  <2>3. \A g, x : Promise!Discount(g, x) = Discount(g, x) /\ Promise!Net(g, x) = Net(g, x)
    BY DEF Discount, RoundHalfEven, Net, Promise!Discount, Promise!RoundHalfEven, Promise!Net
  <2>4. held[t].gross = Gross(lines)
        /\ held[t].discount = (IF code # 0 THEN Discount(Gross(lines), coupons[code].percent) ELSE 0)
        /\ held[t].net = Net(Gross(lines), held[t].discount)
    BY <1>2 DEF Priced, DiscountOf, NoCoupon
  <2> HIDE DEF code, lines
  <2> QED
    BY <2>1, <2>2, <2>3, <2>4 DEF OrderOf, code, lines
<1> HIDE DEF r, n, lines, code
<1>8. Promise!PlaceOrder(r)
  BY <1>1, <1>2, <1>4, <1>5, <1>6, <1>7 DEF n, KeyOf, Fingerprint, Promise!PlaceOrder, Promise!Items,
     Promise!Ticket, Promise!Body, Promise!HasCoupon, Promise!Says
<1> QED
  BY <1>2, <1>8 DEF Promise!AtomicNext
-----------------------------------------------------------------------------
(* A checkout request that needs no lock, or waits, or is served at once.  *)
LEMMA NobodyInside ==
    ASSUME ServiceInv, NEW t \in Tasks, NEW L, LedgerLock \in L,
           Pass(t, L) \/ Hold(t, L) \/ ((ResumePass(t) \/ ResumeHold(t)) /\ L = asked[t])
    PROVE  NobodyCharges
<1>1. \A u \in Tasks : Charging(u) => owner[LedgerLock] # u
  BY BodyRunsAlone DEF ServiceInv
<1> QED
  BY <1>1, ChargingOwns DEF ServiceInv, NobodyCharges

LEMMA RecordImplements ==
    ASSUME ServiceInv, NEW t \in Tasks, NEW r \in Requests, r.op = "checkout", AnsweredFromTheRecord(t, r)
    PROVE  Promise!AtomicNext
<1>1. KeyOf(r) \in Carts \X Keys /\ records[KeyOf(r)] \in Records
  BY RequestFacts, ServiceTypes
<1>2. NothingShows
  BY SameReceipts, SameShop DEF AnsweredFromTheRecord
<1>3. CASE ClaimStatus(r) = "REPLAY" /\ Answer(t, r, "REPLAYED", records[KeyOf(r)].order)
  <2>1. records[KeyOf(r)].state = "COMPLETED" /\ records[KeyOf(r)].fingerprint = Fingerprint(r)
    BY <1>1, <1>3 DEF ClaimStatus, Records
  <2>2. ReceiptsNow[KeyOf(r)] = [body |-> Fingerprint(r), order |-> records[KeyOf(r)].order]
    BY <1>1, <2>1 DEF ReceiptsNow
  <2>3. Promise!Replay(r)
    BY <1>2, <1>3, <2>2 DEF NothingShows, Answer, KeyOf, Fingerprint, Promise!Replay, Promise!Served,
       Promise!Ticket, Promise!Body, Promise!Says, Promise!shopVars
  <2> QED
    BY <2>3 DEF Promise!AtomicNext
<1>4. CASE ClaimStatus(r) = "IN_PROGRESS" /\ Answer(t, r, "REQUEST_IN_PROGRESS", NoOrder)
  <2>1. records[KeyOf(r)].state # "COMPLETED"
    BY <1>1, <1>4 DEF ClaimStatus, Records
  <2> QED
    BY <1>2, <1>4, <2>1, NotServed, Refused DEF Answer, Promise!BusyCodes
<1>5. CASE ClaimStatus(r) = "FINGERPRINT_MISMATCH" /\ Answer(t, r, "IDEMPOTENCY_KEY_REUSED", NoOrder)
  <2>1. records[KeyOf(r)].fingerprint # Fingerprint(r)
    BY <1>1, <1>5 DEF ClaimStatus, Records
  <2>2. records[KeyOf(r)].state = "COMPLETED" => ~ Promise!Served(r)
    BY <1>1, <2>1 DEF ReceiptsNow, KeyOf, Fingerprint, Promise!Served, Promise!Ticket, Promise!Body
  <2>3. ~ Promise!Served(r)
    BY <2>2, NotServed
  <2> QED
    BY <1>2, <1>5, <2>3, Refused DEF Answer, Promise!BusyCodes
<1> QED
  BY <1>3, <1>4, <1>5 DEF AnsweredFromTheRecord

LEMMA CheckoutRequestImplements ==
    ASSUME ServiceInv, NEW t \in Tasks, NEW r \in Requests, CheckoutRequest(t, r)
    PROVE  Promise!AtomicNext
<1> DEFINE seen == cart[r.cart].items
           locks == CheckoutLocks(r, seen)
<1>1. r.op = "checkout" /\ r.cart \in Carts /\ KeyOf(r) \in Carts \X Keys
  BY RequestFacts DEF CheckoutRequest
<1>2. LedgerLock \in locks
  BY <1>1, ServiceTypes, CheckoutList DEF StoreTypeOK, IsCart
<1>3. ASSUME ClaimStatus(r) = "GRANTED",
             records' \in {Claimed(records, r), Unclaimed(Claimed(records, r), r)}
      PROVE  records[KeyOf(r)].state # "COMPLETED" /\ ReceiptsNow' = ReceiptsNow
  <2>1. records[KeyOf(r)].state # "COMPLETED"
    BY <1>1, <1>3, ServiceTypes DEF ClaimStatus, Records
  <2> QED
    BY <1>1, <1>3, <2>1, ServiceTypes, ClaimsDoNotShow
<1> HIDE DEF seen, locks
<1>4. CASE AnsweredFromTheRecord(t, r)
  BY <1>1, <1>4, RecordImplements
<1>5. CASE /\ ClaimStatus(r) = "GRANTED" /\ ~Exists(r.cart) /\ records' = Unclaimed(Claimed(records, r), r)
           /\ Answer(t, r, "CART_NOT_FOUND", NoOrder) /\ UNCHANGED storeVars
  <2>1. NothingShows /\ ~ Promise!Served(r)
    BY <1>1, <1>3, <1>5, SameShop, NotServed
  <2>2. Promise!CartReason(r, "CART_NOT_FOUND")
    BY <1>5 DEF Exists, Promise!CartReason
  <2> QED
    BY <1>1, <1>5, <2>1, <2>2, Refused DEF Answer
<1>6. CASE /\ ClaimStatus(r) = "GRANTED" /\ Suspend(t, r) /\ records' = Claimed(records, r)
           /\ UNCHANGED storeVars
  BY <1>3, <1>6, SameShop, Unseen DEF Suspend
<1>7. CASE /\ ClaimStatus(r) = "GRANTED" /\ Exists(r.cart) /\ Pass(t, locks) /\ Refuse(t, r, seen)
           /\ records' = Unclaimed(Claimed(records, r), r)
  BY <1>1, <1>2, <1>3, <1>7, NobodyInside, RefuseImplements
<1>8. CASE /\ ClaimStatus(r) = "GRANTED" /\ Hold(t, locks) /\ Charge(t, r, seen)
           /\ records' = Claimed(records, r)
  BY <1>1, <1>2, <1>3, <1>8, NobodyInside, ChargeImplements
<1> QED
  BY <1>4, <1>5, <1>6, <1>7, <1>8 DEF CheckoutRequest, seen, locks

LEMMA CheckoutResumeImplements ==
    ASSUME ServiceInv, NEW t \in Tasks, CheckoutResume(t)
    PROVE  Promise!AtomicNext
<1> DEFINE r == req[t]
<1>1. Waiting(t) /\ r.op = "checkout"
  BY DEF CheckoutResume, ResumeBlock, ResumePass, ResumeHold, Woken
<1>2. r \in Requests /\ asked[t] = CheckoutLocks(r, snapshot[t]) /\ IsLines(snapshot[t])
  BY <1>1, WaitingTask DEF ServiceInv, ShopInv, TasksOK, TaskOK, TypeOK
<1>3. LedgerLock \in asked[t]
  BY <1>1, <1>2, RequestFacts, CheckoutList
<1>4. records[KeyOf(r)].state = "IN_PROGRESS" /\ Exists(r.cart)
  BY <1>1 DEF ServiceInv, ClaimInv, Works, Checkouts, CartsExist, NeedsACart
<1> HIDE DEF r
<1>5. CASE Suspend(t, r) /\ UNCHANGED <<storeVars, records>>
  BY <1>5, SameReceipts, SameShop, Unseen DEF Suspend
<1>6. CASE ResumePass(t) /\ Refuse(t, r, snapshot[t]) /\ records' = Unclaimed(records, r)
  <2>1. NobodyCharges
    BY <1>3, <1>6, NobodyInside
  <2>2. ReceiptsNow' = ReceiptsNow
    BY <1>1, <1>2, <1>4, <1>6, ServiceTypes, ClaimsDoNotShow
  <2> QED
    BY <1>1, <1>2, <1>4, <1>6, <2>1, <2>2, RefuseImplements
<1>7. CASE ResumeHold(t) /\ Charge(t, r, snapshot[t]) /\ UNCHANGED records
  <2>1. NobodyCharges
    BY <1>3, <1>7, NobodyInside
  <2> QED
    BY <1>1, <1>2, <1>7, <2>1, SameReceipts, ChargeImplements
<1> QED
  BY <1>5, <1>6, <1>7 DEF CheckoutResume, r

LEMMA CartImplements ==
    ASSUME ServiceInv, NEW t \in Tasks, NEW r \in Requests, UnchangedCheckouts,
           CartRequest(t, r) \/ (CartResume(t) /\ r = req[t])
    PROVE  Promise!AtomicNext
<1>1. r.op \in CartOps /\ r.op # "checkout"
  BY DEF CartRequest, CartResume, CartOps
<1>2. UNCHANGED storeVars => NothingShows
  BY SameReceipts, SameShop DEF UnchangedCheckouts
<1>3. CASE UNCHANGED storeVars /\ Suspend(t, r)
  BY <1>2, <1>3, Unseen DEF Suspend
<1>4. CASE EarlyError(r) # "OK" /\ Answer(t, r, EarlyError(r), NoOrder) /\ UNCHANGED storeVars
  <2>1. Promise!CartReason(r, EarlyError(r)) \/ Promise!EditReason(r, EarlyError(r))
    BY <1>4 DEF EarlyError, Exists, Promise!CartReason, Promise!EditReason
  <2> QED
    BY <1>1, <1>2, <1>4, <2>1, Refused DEF Answer
<1>5. CASE EarlyError(r) = "OK" /\ Pass(t, CartLocks(r)) /\ MutateCart(t, r)
  <2>1. r.op # "reprice" => r.product \in Products /\ ProductLock(r.product) \in CartLocks(r)
    BY <1>1, <1>5, ServiceTypes, CartList
  <2>2. r.op # "reprice" => \A u \in Tasks : Charging(u) => owner[ProductLock(r.product)] # u
    BY <1>5, <2>1, BodyRunsAlone DEF ServiceInv
  <2>3. Exists(r.cart)
    BY <1>5 DEF EarlyError
  <2> QED
    BY <1>1, <1>5, <2>1, <2>2, <2>3, EditImplements
<1>6. CASE r = req[t] /\ ResumePass(t) /\ MutateCart(t, r)
  <2>1. Waiting(t)
    BY <1>6 DEF ResumePass, Woken
  <2>2. r.op # "reprice" => r.product \in Products /\ ProductLock(r.product) \in asked[t]
    BY <1>1, <1>6, <2>1 DEF ServiceInv, ShopInv, TasksOK, TaskOK
  <2>3. r.op # "reprice" => \A u \in Tasks : Charging(u) => owner[ProductLock(r.product)] # u
    BY <1>6, <2>2, BodyRunsAlone DEF ServiceInv
  <2>4. Exists(r.cart)
    BY <1>1, <1>6 DEF ServiceInv, CartsExist, NeedsACart
  <2> QED
    BY <1>1, <1>6, <2>2, <2>3, <2>4, EditImplements
<1> QED
  BY <1>3, <1>4, <1>5, <1>6 DEF CartRequest, CartResume

(* A coupon request that answers: the one step that depends on RewardN.    *)
GeneratesNow == \E t \in Tasks, r \in Requests :
                   r.op = "generate" /\ GenerateLocked(t, r) /\ UnchangedCheckouts

LEMMA GenerateStepsImplement ==
    ASSUME ServiceInv, NEW t \in Tasks, NEW r \in Requests, UnchangedCheckouts,
           GenerateRequest(t, r) \/ (GenerateResume(t) /\ r = req[t])
    PROVE  Promise!AtomicNext \/ GeneratesNow
<1>1. r.op = "generate" /\ (GenerateLocked(t, r) \/ (Suspend(t, r) /\ UNCHANGED storeVars))
  BY DEF GenerateRequest, GenerateResume
<1>2. CASE Suspend(t, r) /\ UNCHANGED storeVars
  BY <1>2, SameReceipts, SameShop, Unseen DEF Suspend, UnchangedCheckouts
<1> QED
  BY <1>1, <1>2 DEF GeneratesNow

LEMMA CancelImplements ==
    ASSUME ServiceInv, NEW t \in Tasks, CancelledWaiting(t)
    PROVE  Promise!AtomicNext
<1> DEFINE r == req[t]
<1>1. Waiting(t) /\ r \in Requests
  BY WaitingTask DEF ServiceInv, CancelledWaiting, Abort
<1>2. /\ UNCHANGED storeVars /\ reply' = [request |-> r, code |-> "CANCELLED", order |-> NoOrder]
      /\ records' = IF r.op = "checkout" THEN Unclaimed(records, r) ELSE records
  BY DEF CancelledWaiting, Answer
<1>3. r.op = "checkout" => records[KeyOf(r)].state = "IN_PROGRESS"
  BY DEF ServiceInv, ClaimInv, Works, Checkouts
<1> HIDE DEF r
<1>4. ReceiptsNow' = ReceiptsNow
  BY <1>1, <1>2, <1>3, ServiceTypes, ClaimsDoNotShow, SameReceipts
<1>5. NothingShows
  BY <1>2, <1>4, SameShop
<1> QED
  BY <1>1, <1>2, <1>3, <1>5, NotServed, Refused

LEMMA WorldImplements ==
    ASSUME ServiceInv,
           \/ \E c \in Carts : CreateCart(c) /\ UnchangedCheckouts
           \/ \E p \in Products, amount \in Prices : ChangePrice(p, amount)
    PROVE  Promise!AtomicNext
<1>1. ASSUME NEW c \in Carts, CreateCart(c), UnchangedCheckouts PROVE Promise!AtomicNext
  <2>1. UNCHANGED <<StockNow, VouchersNow, ReceiptsNow>>
    BY <1>1, SameStock, SameVouchers, SameReceipts DEF CreateCart, UnchangedButCarts, UnchangedCheckouts
  <2>2. Promise!NewCart(c)
    BY <1>1, <2>1 DEF CreateCart, UnchangedButCarts, Exists, NoItems, NoReply, NoRequest, NoOrder,
       Promise!NewCart, Promise!SaysNothing
  <2> QED
    BY <2>2 DEF Promise!AtomicNext
<1>2. ASSUME NEW p \in Products, NEW amount \in Prices, ChangePrice(p, amount) PROVE Promise!AtomicNext
  <2>1. UNCHANGED <<StockNow, VouchersNow, ReceiptsNow>>
    BY <1>2, SameStock, SameVouchers, SameReceipts DEF ChangePrice
  <2>2. Promise!NewPrice(p, amount)
    BY <1>2, <2>1 DEF ChangePrice, NoReply, NoRequest, NoOrder, Promise!NewPrice, Promise!SaysNothing
  <2> QED
    BY <2>2 DEF Promise!AtomicNext
<1> QED
  BY <1>1, <1>2

LEMMA NextImplements ==
    ASSUME ServiceInv, Next
    PROVE  Promise!AtomicNext \/ GeneratesNow
<1>1. ASSUME NEW t \in Tasks, TaskStep(t) PROVE Promise!AtomicNext \/ GeneratesNow
  <2>1. ASSUME NEW r \in Requests, Receive(t, r) PROVE Promise!AtomicNext \/ GeneratesNow
    BY <2>1, CartImplements, GenerateStepsImplement, CheckoutRequestImplements DEF Receive
  <2>2. CASE Wake(t)
    <3>1. Waiting(t)
      BY <2>2 DEF Wake, CartResume, GenerateResume, CheckoutResume, ResumeBlock, ResumePass,
                  ResumeHold, Woken
    <3>2. req[t] \in Requests
      BY <3>1, WaitingTask DEF ServiceInv
    <3> QED
      BY <2>2, <3>2, CartImplements, GenerateStepsImplement, CheckoutResumeImplements DEF Wake
  <2>3. CASE GatewayAnswers(t)
    BY <2>3, PaidImplements, FailImplements DEF GatewayAnswers, PaymentDeclined
  <2>4. CASE Cancel(t)
    BY <2>4, FailImplements, CancelImplements DEF Cancel, ChargeCancelled
  <2> QED
    BY <1>1, <2>1, <2>2, <2>3, <2>4 DEF TaskStep
<1> QED
  BY <1>1, WorldImplements DEF Next

LEMMA StepImplements ==
    ASSUME ServiceInv, [Next]_vars
    PROVE  [Promise!AtomicNext]_(Promise!atomicVars) \/ GeneratesNow
<1>1. CASE UNCHANGED vars
  <2>1. UNCHANGED storeVars /\ records' = records /\ reply' = reply
    BY <1>1 DEF vars, handlerVars
  <2>2. NothingShows
    BY <2>1, SameReceipts, SameShop
  <2> QED
    BY <2>1, <2>2 DEF NothingShows, Promise!atomicVars, Promise!shopVars
<1> QED
  BY <1>1, NextImplements

LEMMA ServiceInvariance == Spec => []ServiceInv
<1>1. Init => LedgerInv /\ Frozen /\ AmountsInv /\ CartsExist
  BY DEF Init, StoreInit, HandlersInit, CheckoutInit, NoReply, NoRequest, LedgerInv, Frozen, IsFrozen,
     AmountsInv, Charging, CartsExist, NeedsACart, CartOps
<1>2. ShopInv /\ Frozen /\ [Next]_vars => Frozen'
  BY FrozenStep
<1>3. ShopInv /\ LedgerInv /\ [Next]_vars => LedgerInv'
  BY LedgerStep
<1> QED
  BY <1>1, <1>2, <1>3, ClaimInit, ClaimStep, PaymentInit, PaymentStep, AmountsStep, CartsExistStep,
     ShopInvariance, PTL DEF Spec, ServiceInv

(***************************************************************************)
(* The concurrent service implements the sequential shop, for any tasks,   *)
(* products, carts, customers, keys, coupons and prices: with every        *)
(* positive REWARD_N, whatever clients see could have been answered by a   *)
(* shop that serves one request at a time.                                 *)
(***************************************************************************)
THEOREM ServiceImplementsTheShop ==
    ASSUME RewardN > 0 PROVE Spec => ImplementsAtomicShop
<1>1. Init => Promise!AtomicInit
  <2>1. ASSUME Init PROVE StockNow = StockTotal
    <3>1. StockTotal \in [Products -> Nat]
      BY StoreAssumption
    <3> QED
      BY <2>1, <3>1 DEF Init, StoreInit, StockNow
  <2>2. ASSUME Init PROVE VouchersNow = <<>>
    BY <2>2 DEF Init, StoreInit, VouchersNow
  <2>3. ASSUME Init PROVE ReceiptsNow = [ck \in Carts \X Keys |-> [body |-> <<>>, order |-> 0]]
    BY <2>3 DEF Init, IdempotencyInit, NoRecord, NoOrder, ReceiptsNow
  <2> QED
    BY <2>1, <2>2, <2>3 DEF Init, StoreInit, HandlersInit, NoReply, NoRequest, NoOrder, NoItems,
       Promise!AtomicInit, Promise!NoReceipt
<1>2. ServiceInv /\ [Next]_vars => [Promise!AtomicNext]_(Promise!atomicVars)
  BY StepImplements, GenerateImplements DEF GeneratesNow
<1> QED
  BY <1>1, <1>2, ServiceInvariance, PTL DEF Spec, ImplementsAtomicShop, Promise!AtomicSpec

-----------------------------------------------------------------------------
(* What the last answer promised its client is in the order log.           *)
AnswerInv == reply.code \in {"CREATED", "REPLAYED"} =>
    /\ reply.order \in DOMAIN orders
    /\ LET o == orders[reply.order]
       IN  <<o.cart, o.customer, o.coupon>> = Fingerprint(reply.request)

LEMMA AnswerStep == ServiceInv /\ RecordInv /\ AnswerInv /\ [Next]_vars => AnswerInv'
<1> SUFFICES ASSUME ServiceInv, RecordInv, AnswerInv, [Next]_vars PROVE AnswerInv'
  OBVIOUS
<1>1. [Promise!AtomicNext]_(Promise!atomicVars) \/ GeneratesNow
  BY StepImplements
<1>2. reply'.code \notin {"CREATED", "REPLAYED"} => AnswerInv'
  BY DEF AnswerInv
<1>3. CASE GeneratesNow
  <2>1. PICK t \in Tasks, r \in Requests : GenerateLocked(t, r)
    BY <1>3 DEF GeneratesNow
  <2> QED
    BY <1>2, <2>1 DEF GenerateLocked, Answer
<1>4. CASE UNCHANGED Promise!atomicVars
  BY <1>4 DEF Promise!atomicVars, Promise!shopVars, AnswerInv, Fingerprint
<1>5. ASSUME NEW r \in Requests, Promise!PlaceOrder(r) PROVE AnswerInv'
  <2> DEFINE n == Len(orders) + 1
             gross == Promise!Gross(Promise!Items(r))
             discount == IF Promise!HasCoupon(r)
                         THEN Promise!Discount(gross, VouchersNow[r.coupon].percent) ELSE 0
             o == [cart |-> r.cart, customer |-> r.customer, lines |-> Promise!Items(r), gross |-> gross,
                   discount |-> discount, net |-> Promise!Net(gross, discount), coupon |-> r.coupon]
  <2>1. orders' = Append(orders, o) /\ reply' = [request |-> r, code |-> "CREATED", order |-> n]
    BY <1>5 DEF Promise!PlaceOrder, Promise!Says
  <2>2. <<o.cart, o.customer, o.coupon>> = Fingerprint(r)
    BY DEF Fingerprint
  <2> HIDE DEF o
  <2>3. orders \in Seq({orders[i] : i \in DOMAIN orders})
    BY ServiceTypes DEF StoreTypeOK
  <2>4. n \in DOMAIN orders' /\ orders'[n] = o
    BY <2>1, <2>3, GrowingLog
  <2>5. reply'.order = n /\ reply'.request = r
    BY <2>1
  <2> HIDE DEF n
  <2> QED
    BY <2>2, <2>4, <2>5 DEF AnswerInv, Fingerprint
<1>6. ASSUME NEW r \in Requests, Promise!Replay(r) PROVE AnswerInv'
  <2>1. /\ r.op = "checkout" /\ orders' = orders /\ Promise!Served(r)
        /\ reply' = [request |-> r, code |-> "REPLAYED", order |-> ReceiptsNow[KeyOf(r)].order]
    BY <1>6 DEF Promise!Replay, Promise!Says, Promise!shopVars, Promise!Ticket, KeyOf
  <2>2. KeyOf(r) \in Carts \X Keys /\ records[KeyOf(r)].state = "COMPLETED"
    BY <2>1, NotServed, RequestFacts
  <2>3. ReceiptsNow[KeyOf(r)] = [body |-> records[KeyOf(r)].fingerprint, order |-> records[KeyOf(r)].order]
    BY <2>2 DEF ReceiptsNow
  <2>4. records[KeyOf(r)].fingerprint = Fingerprint(r)
    BY <2>1, <2>3 DEF Promise!Served, Promise!Ticket, Promise!Body, KeyOf, Fingerprint
  <2>5. /\ reply'.request = r /\ reply'.order = records[KeyOf(r)].order
    BY <2>1, <2>3
  <2> QED
    BY <2>1, <2>2, <2>4, <2>5 DEF RecordInv, AnswerInv, Fingerprint
<1>7. ASSUME NEW r \in Requests, Promise!Refuse(r, reply'.code) PROVE AnswerInv'
  BY <1>2, <1>7 DEF Promise!Refuse, Promise!CartReason, Promise!EditReason, Promise!CheckoutReason,
     Promise!BusyCodes
<1>8. ASSUME NEW r \in Requests, Promise!Edit(r) \/ Promise!Reward(r) PROVE AnswerInv'
  BY <1>2, <1>8 DEF Promise!Edit, Promise!Reward, Promise!Says
<1>9. ASSUME \/ \E c \in Carts : Promise!NewCart(c)
             \/ \E p \in Products, amount \in Prices : Promise!NewPrice(p, amount)
             \/ Promise!Silence
      PROVE  AnswerInv'
  BY <1>2, <1>9 DEF Promise!NewCart, Promise!NewPrice, Promise!Silence, Promise!SaysNothing
<1> QED
  BY <1>1, <1>3, <1>4, <1>5, <1>6, <1>7, <1>8, <1>9 DEF Promise!AtomicNext

(***************************************************************************)
(* D20, D23: a creation returns the order just placed for that cart,       *)
(* customer and coupon, and a replay the one that request had produced.    *)
(***************************************************************************)
THEOREM AnswersAlwaysMatch == Spec => []AnswersMatchTheRequest
<1>1. AnswerInv => AnswersMatchTheRequest
  BY DEF AnswerInv, AnswersMatchTheRequest
<1>2. Init => RecordInv /\ AnswerInv
  BY DEF Init, StoreInit, HandlersInit, IdempotencyInit, NoRecord, NoReply, RecordInv, AnswerInv
<1>3. ServiceInv /\ RecordInv /\ [Next]_vars => RecordInv'
  BY RecordStep DEF ServiceInv
<1> QED
  BY <1>1, <1>2, <1>3, AnswerStep, ServiceInvariance, PTL DEF Spec
-----------------------------------------------------------------------------
LEMMA SameLength == ASSUME NEW a \in Nat, NEW b \in Nat, 1..a = 1..b PROVE a = b
<1>1. CASE a < b
  <2>1. b \in 1..b /\ b \notin 1..a
    BY <1>1
  <2> QED
    BY <2>1
<1>2. CASE b < a
  <2>1. a \in 1..a /\ a \notin 1..b
    BY <1>2
  <2> QED
    BY <2>1
<1> QED
  BY <1>1, <1>2

LEMMA NotItsSuccessor == ASSUME NEW a \in Nat PROVE a # a + 1
OBVIOUS

LEMMA LongerByOne ==
    ASSUME NEW S, NEW s \in Seq(S), NEW e, NEW r, r = Append(s, e)
    PROVE  Len(r) = Len(s) + 1
BY AppendProperties, s \in Seq(S \union {e}), e \in S \union {e}

(* A ledger that clients see one voucher longer has one more coupon. *)
LEMMA LongerLedger ==
    ASSUME Len(coupons) \in Nat, DOMAIN coupons = 1..Len(coupons),
           Len(coupons') \in Nat, DOMAIN coupons' = 1..Len(coupons'),
           NEW row, VouchersNow' = Append(VouchersNow, row)
    PROVE  Len(coupons') = Len(coupons) + 1
<1> DEFINE v == VouchersNow
<1>1. DOMAIN VouchersNow = 1..Len(coupons) /\ DOMAIN VouchersNow' = 1..Len(coupons')
  BY DEF VouchersNow
<1>2. v \in Seq({v[i] : i \in DOMAIN v})
  <2>1. v = [i \in 1..Len(coupons) |-> v[i]] /\ \A i \in 1..Len(coupons) : v[i] \in {v[j] : j \in DOMAIN v}
    BY DEF VouchersNow
  <2> HIDE DEF v
  <2> QED
    BY <2>1, IsASeq
<1>3. DOMAIN VouchersNow' = 1..(Len(v) + 1) /\ DOMAIN v = 1..Len(v) /\ Len(v) \in Nat
  BY <1>2, GrowingLog
<1>4. Len(v) + 1 \in Nat
  BY <1>3
<1>5. 1..Len(v) = 1..Len(coupons) /\ 1..Len(coupons') = 1..(Len(v) + 1)
  BY <1>1, <1>3 DEF v
<1> QED
  BY <1>3, <1>4, <1>5, SameLength

(***************************************************************************)
(* A generation tells the truth with every REWARD_N but zero: it says OK   *)
(* exactly when it has minted a coupon.                                    *)
(***************************************************************************)
THEOREM GenerationsTellTheTruth ==
    ASSUME RewardN # 0 PROVE Spec => GenerateTellsTheTruth
<1> DEFINE Truth == reply'.request.op = "generate" =>
                      (Len(coupons') = Len(coupons) + 1 <=> reply'.code = "OK")
<1>1. ServiceInv /\ ServiceInv' /\ [Next]_vars => [Truth]_vars
  <2> SUFFICES ASSUME ServiceInv, ServiceInv', Next PROVE Truth
    OBVIOUS
  <2>1. /\ Len(coupons) \in Nat /\ DOMAIN coupons = 1..Len(coupons) /\ coupons \in Seq(CouponRows)
        /\ Len(coupons') \in Nat /\ DOMAIN coupons' = 1..Len(coupons')
    BY ServiceTypes, LenProperties DEF ServiceInv, ShopInv, TypeOK, StoreTypeOK
  <2>2. CASE GeneratesNow
    <3>1. PICK t \in Tasks, r \in Requests : GenerateLocked(t, r)
      BY <2>2 DEF GeneratesNow
    <3>2. CASE UNCHANGED coupons /\ reply'.code # "OK"
      <4>1. Len(coupons') # Len(coupons) + 1
        BY <2>1, <3>2, NotItsSuccessor
      <4> QED
        BY <3>2, <4>1
    <3>3. CASE Mint(NextMilestone) /\ reply'.code = "OK"
      <4>1. coupons' = Append(coupons, Minted(NextMilestone))
        BY <3>3 DEF Mint
      <4>2. Len(coupons') = Len(coupons) + 1
        BY <2>1, <4>1, LongerByOne
      <4> QED
        BY <3>3, <4>2
    <3> QED
      BY <3>1, <3>2, <3>3 DEF GenerateLocked, Answer
  <2>3. CASE Promise!AtomicNext
    <3>1. ASSUME NEW r \in Requests, Promise!Reward(r) PROVE Truth
      <4> DEFINE row == [milestone |-> lastRewarded + 1, percent |-> RewardX,
                         owner |-> orders[(lastRewarded + 1) * RewardN].customer,
                         state |-> "AVAILABLE", order |-> 0]
      <4>1. VouchersNow' = Append(VouchersNow, row) /\ reply'.code = "OK"
        BY <3>1 DEF Promise!Reward, Promise!Says
      <4> HIDE DEF row
      <4> QED
        BY <2>1, <4>1, LongerLedger
    <3>2. ASSUME NEW r \in Requests, Promise!Refuse(r, reply'.code), r.op = "generate"
          PROVE  Truth
      <4>1. reply'.code # "OK" /\ VouchersNow' = VouchersNow
        BY <3>2 DEF Promise!Refuse, Promise!shopVars
      <4>2. DOMAIN VouchersNow = DOMAIN coupons /\ DOMAIN VouchersNow' = DOMAIN coupons'
        BY DEF VouchersNow
      <4>3. 1..Len(coupons) = 1..Len(coupons')
        BY <2>1, <4>1, <4>2
      <4>4. Len(coupons') = Len(coupons)
        BY <2>1, <4>3, SameLength
      <4>5. Len(coupons') # Len(coupons) + 1
        BY <2>1, <4>4, NotItsSuccessor
      <4> QED
        BY <4>1, <4>5
    <3>3. ASSUME NEW r \in Requests, Promise!Refuse(r, reply'.code) PROVE reply'.request = r
      BY <3>3 DEF Promise!Refuse, Promise!Says
    <3>4. ASSUME NEW r \in Requests, Promise!Edit(r) \/ Promise!PlaceOrder(r) \/ Promise!Replay(r)
          PROVE  reply'.request.op # "generate"
      BY <3>4 DEF Promise!Edit, Promise!PlaceOrder, Promise!Replay, Promise!Says
    <3>5. ASSUME \/ \E c \in Carts : Promise!NewCart(c)
                 \/ \E p \in Products, amount \in Prices : Promise!NewPrice(p, amount)
                 \/ Promise!Silence
          PROVE  reply'.request.op # "generate"
      BY <3>5 DEF Promise!NewCart, Promise!NewPrice, Promise!Silence, Promise!SaysNothing
    <3> QED
      BY <2>3, <3>1, <3>2, <3>3, <3>4, <3>5 DEF Promise!AtomicNext
  <2> QED
    BY <2>2, <2>3, NextImplements
<1> QED
  BY <1>1, ServiceInvariance, PTL DEF Spec, GenerateTellsTheTruth
=============================================================================
