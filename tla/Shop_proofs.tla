---------------------------- MODULE Shop_proofs ----------------------------
(***************************************************************************)
(* Proofs about Shop, for any tasks, products, carts, customers, requests, *)
(* prices and stock.                                                       *)
(*                                                                         *)
(* ShopInv is the inductive invariant the other theorems build on: the     *)
(* types, the invariant of the locks, and TasksOK, which ties what a task  *)
(* is doing to the locks it has asked for.                                 *)
(***************************************************************************)
EXTENDS Shop, LockManager_proofs

(* What a task is doing, and the locks it has asked for to do it. *)
TaskOK(t) ==
    /\ Idle(t) => asked[t] = {} /\ ~Charging(t)
    /\ Charging(t) => /\ ~Waiting(t)
                      /\ req[t] \in CheckoutRequests
                      /\ req[t].customer \in Customers
                      /\ asked[t] = CheckoutLocks(req[t], held[t].lines)
    /\ Waiting(t) => /\ req[t].op \in CartOps =>
                          /\ CartLock(req[t].cart) \in asked[t]
                          /\ req[t].op # "reprice" => /\ req[t].product \in Products
                                                      /\ ProductLock(req[t].product) \in asked[t]
                     /\ req[t].op = "checkout" => asked[t] = CheckoutLocks(req[t], snapshot[t])

TasksOK == \A t \in Tasks : TaskOK(t)

ShopInv == TypeOK /\ LockInv /\ TasksOK

-----------------------------------------------------------------------------
(* Requests and the lists of locks they lead to. *)
LEMMA RequestFacts ==
    ASSUME NEW r \in Requests
    PROVE  /\ r # NoRequest /\ r.op # "none"
           /\ r.op \in CartOps => r.cart \in Carts
           /\ r.op \in {"add", "set"} => r.quantity \in Nat \ {0}
           /\ r.op = "checkout" => /\ r.cart \in Carts /\ r.coupon \in Nat
                                   /\ KeyOf(r) \in Carts \X Keys /\ r \in CheckoutRequests
<1>1. r.op # "none" /\ NoRequest.op = "none"
  BY RequestsAreWellFormed DEF NoRequest
<1> QED
  BY <1>1, RequestsAreWellFormed DEF CartOps, KeyOf, CheckoutRequests

LEMMA AList ==
    ASSUME NEW P \in SUBSET Products, NEW ledger \in BOOLEAN, NEW c \in Carts \union {NoCart}
    PROVE  OrderedLocks(P, ledger, c) \in LockLists
<1>1. \E Q \in SUBSET Products, b \in BOOLEAN, d \in Carts \union {NoCart} :
        OrderedLocks(P, ledger, c) = OrderedLocks(Q, b, d)
  BY Zenon
<1> QED
  BY <1>1 DEF LockLists

LEMMA CheckoutList ==
    ASSUME NEW r, r.cart \in Carts, NEW seen, IsLines(seen)
    PROVE  /\ CheckoutLocks(r, seen) \in LockLists
           /\ LedgerLock \in CheckoutLocks(r, seen)
           /\ CartLock(r.cart) \in CheckoutLocks(r, seen)
           /\ \A p \in DOMAIN seen : ProductLock(p) \in CheckoutLocks(r, seen)
<1>1. CheckoutLocks(r, seen) \in LockLists
  BY AList DEF CheckoutLocks, IsLines
<1> QED
  BY <1>1, NullsAreFresh DEF CheckoutLocks, OrderedLocks

LEMMA CartList ==
    ASSUME TypeOK, NEW r \in Requests, r.op \in CartOps, EarlyError(r) = "OK"
    PROVE  /\ CartLocks(r) \in LockLists
           /\ CartLock(r.cart) \in CartLocks(r)
           /\ r.op # "reprice" => r.product \in Products /\ ProductLock(r.product) \in CartLocks(r)
<1>1. r.cart \in Carts
  BY RequestFacts
<1>2. r.op # "reprice" => r.product \in Products
  BY DEF EarlyError
<1>3. DOMAIN cart[r.cart].items \in SUBSET Products
  BY <1>1 DEF TypeOK, StoreTypeOK, IsCart, IsLines
<1>4. CartLocks(r) \in LockLists
  BY <1>1, <1>2, <1>3, AList DEF CartLocks
<1> QED
  BY <1>1, <1>2, <1>4, NullsAreFresh DEF CartLocks, OrderedLocks

LEMMA LedgerList == LedgerLocks \in LockLists /\ LedgerLock \in LedgerLocks
<1>1. LedgerLocks \in LockLists
  BY AList DEF LedgerLocks
<1> QED
  BY <1>1 DEF LedgerLocks, OrderedLocks

-----------------------------------------------------------------------------
(* What the lock operations of task t leave in the rows of asked and at. *)
LEMMA LockRows ==
    ASSUME LockInv, NEW t \in Tasks
    PROVE  /\ LockStep(t) => \A u \in Tasks : u # t => asked'[u] = asked[u] /\ at'[u] = at[u]
           /\ \A L : Block(t, L) /\ L \in LockLists => asked'[t] = L /\ at'[t] # NoLock
           /\ \A L : Hold(t, L) => asked'[t] = L /\ at'[t] = NoLock
           /\ ResumeBlock(t) => asked'[t] = asked[t] /\ at'[t] # NoLock /\ Waiting(t)
           /\ ResumeHold(t) => asked'[t] = asked[t] /\ at'[t] = NoLock /\ Waiting(t)
           /\ ResumePass(t) \/ Abort(t) => asked'[t] = {} /\ at'[t] = NoLock /\ Waiting(t)
           /\ Release(t) => asked'[t] = {} /\ at'[t] = NoLock
<1> USE DEF LockInv, LockTypeOK
<1>1. ASSUME LockStep(t), NEW u \in Tasks, u # t PROVE asked'[u] = asked[u] /\ at'[u] = at[u]
  BY <1>1 DEF LockStep, Block, Hold, Pass, Resume, ResumeBlock, ResumeHold, ResumePass,
              Release, Abort, lockVars
<1>2. ASSUME NEW L \in LockLists, Block(t, L) PROVE asked'[t] = L /\ at'[t] # NoLock
  <2>1. L \subseteq Locks
    BY ListsAreOrdered
  <2> QED
    BY <1>2, <2>1, NoLockIsFresh DEF Block
<1>3. ASSUME NEW L, Hold(t, L) PROVE asked'[t] = L /\ at'[t] = NoLock
  BY <1>3, OutsideOwnsNothing DEF Hold
<1>4. ResumeBlock(t) => asked'[t] = asked[t] /\ at'[t] # NoLock /\ Waiting(t)
  BY NoLockIsFresh DEF ResumeBlock, Rest, Woken
<1>5. ResumeHold(t) => asked'[t] = asked[t] /\ at'[t] = NoLock /\ Waiting(t)
  BY DEF ResumeHold, Woken
<1>6. ResumePass(t) \/ Abort(t) => asked'[t] = {} /\ at'[t] = NoLock /\ Waiting(t)
  BY DEF ResumePass, Woken, Abort
<1>7. Release(t) => asked'[t] = {} /\ at'[t] = NoLock
  BY DEF Release, Waiting
<1> QED
  BY <1>1, <1>2, <1>3, <1>4, <1>5, <1>6, <1>7

(* A step that moves the rows of task t only. *)
LEMMA OneRowMoves ==
    ASSUME TasksOK, NEW t \in Tasks, TaskOK(t)',
           \A u \in Tasks : u # t => /\ req'[u] = req[u] /\ asked'[u] = asked[u] /\ at'[u] = at[u]
                                     /\ held'[u] = held[u] /\ snapshot'[u] = snapshot[u]
    PROVE  TasksOK'
BY DEF TasksOK, TaskOK, Idle, Charging, Waiting, CheckoutLocks, CheckoutRequests

-----------------------------------------------------------------------------
(* What the moves of the store do to its types. *)
InventoryTypeOK == /\ available \in [Products -> Nat]
                   /\ reserved \in [Products -> Nat]
                   /\ sold \in [Products -> Nat]

InventoryMoves(lines) == \/ ReserveInventory(lines) \/ CommitInventory(lines)
                         \/ ReleaseInventory(lines) \/ ReserveThenRelease(lines, lines)

LEMMA InventoryMovesConserve ==
    ASSUME InventoryTypeOK, NEW lines, IsLines(lines), InventoryMoves(lines)
    PROVE  /\ InventoryTypeOK'
           /\ \A p \in Products : available'[p] + reserved'[p] + sold'[p]
                                    = available[p] + reserved[p] + sold[p]
<1> USE DEF InventoryTypeOK, IsLines
<1>1. CASE ReserveInventory(lines)
  BY <1>1 DEF ReserveInventory, InStock, In, Out
<1>2. CASE CommitInventory(lines)
  BY <1>2 DEF CommitInventory, IsReserved, In, Out
<1>3. CASE ReleaseInventory(lines)
  BY <1>3 DEF ReleaseInventory, IsReserved, In, Out
<1>4. CASE ReserveThenRelease(lines, lines)
  BY <1>4 DEF ReserveThenRelease, InStock, In, Out
<1> QED
  BY <1>1, <1>2, <1>3, <1>4 DEF InventoryMoves

(* A sequence grows by one. *)
LEMMA GrowingLog ==
    ASSUME NEW s, s \in Seq({s[i] : i \in DOMAIN s}), NEW e
    PROVE  LET r == Append(s, e)
           IN  /\ r \in Seq({r[i] : i \in DOMAIN r})
               /\ Len(s) \in Nat /\ DOMAIN s = 1..Len(s) /\ DOMAIN r = 1..(Len(s) + 1)
               /\ r[Len(s) + 1] = e /\ \A i \in DOMAIN s : r[i] = s[i]
<1> DEFINE S == {s[i] : i \in DOMAIN s} \union {e}
           r == Append(s, e)
<1>1. Len(s) \in Nat /\ DOMAIN s = 1..Len(s)
  BY LenProperties
<1>2. s \in Seq(S)
  <2>1. \A i \in 1..Len(s) : s[i] \in S
    BY <1>1
  <2> QED
    BY <2>1, <1>1, IsASeq
<1>3. /\ r \in Seq(S) /\ Len(r) = Len(s) + 1 /\ r[Len(s) + 1] = e
      /\ \A i \in 1..Len(s) : r[i] = s[i]
  BY <1>2, AppendProperties
<1> HIDE DEF r
<1>4. DOMAIN r = 1..(Len(s) + 1) /\ r = [i \in 1..Len(r) |-> r[i]]
  BY <1>3, <1>1, LenProperties
<1>5. r \in Seq({r[i] : i \in DOMAIN r})
  BY <1>3, <1>4, <1>1, IsASeq
<1> QED
  BY <1>1, <1>3, <1>4, <1>5 DEF r

(* The moves of the coupon ledger. *)
LEMMA CouponMoves ==
    ASSUME coupons \in Seq(CouponRows), NEW code \in 0..Len(coupons), NEW order \in Nat
    PROVE  /\ WithReserved(coupons, code) \in Seq(CouponRows)
           /\ WithRedeemed(coupons, code, order) \in Seq(CouponRows)
           /\ WithReleased(coupons, code) \in Seq(CouponRows)
           /\ Len(WithReserved(coupons, code)) = Len(coupons)
           /\ Len(WithRedeemed(coupons, code, order)) = Len(coupons)
           /\ Len(WithReleased(coupons, code)) = Len(coupons)
<1>1. CASE code = NoCoupon
  BY <1>1 DEF WithReserved, WithRedeemed, WithReleased
<1>2. CASE code # NoCoupon
  <2>1. code \in 1..Len(coupons) /\ code \in DOMAIN coupons /\ coupons[code] \in CouponRows
    BY <1>2, LenProperties, ElementOfSeq DEF NoCoupon
  <2>2. \A row \in CouponRows : /\ [coupons EXCEPT ![code] = row] \in Seq(CouponRows)
                                /\ Len([coupons EXCEPT ![code] = row]) = Len(coupons)
    BY <2>1, ExceptSeq
  <2>3. /\ [coupons[code] EXCEPT !.state = "RESERVED"] \in CouponRows
        /\ [coupons[code] EXCEPT !.state = "AVAILABLE"] \in CouponRows
        /\ [coupons[code] EXCEPT !.state = "REDEEMED", !.order = order] \in CouponRows
    BY <2>1 DEF CouponRows
  <2>4. WithReserved(coupons, code) = [coupons EXCEPT ![code] = [coupons[code] EXCEPT !.state = "RESERVED"]]
    BY <1>2 DEF WithReserved
  <2>5. WithReleased(coupons, code) = [coupons EXCEPT ![code] = [coupons[code] EXCEPT !.state = "AVAILABLE"]]
    BY <1>2 DEF WithReleased
  <2>6. WithRedeemed(coupons, code, order)
          = [coupons EXCEPT ![code] = [coupons[code] EXCEPT !.state = "REDEEMED", !.order = order]]
    BY <1>2, <2>1 DEF WithRedeemed
  <2> QED
    BY <2>2, <2>3, <2>4, <2>5, <2>6
<1> QED
  BY <1>1, <1>2

-----------------------------------------------------------------------------
(* What each action has to show. *)
Keeps == ShopInv' /\ [LockNext]_lockVars

LEMMA LockStepKeeps ==
    ASSUME LockInv, NEW t \in Tasks, LockStep(t) \/ UNCHANGED lockVars
    PROVE  LockInv' /\ LockTypeOK' /\ [LockNext]_lockVars
<1>1. [LockNext]_lockVars
  BY DEF LockNext
<1> QED
  BY <1>1, LockStepInv DEF LockInv

LEMMA LocksUntouched ==
    ASSUME LockInv, UNCHANGED lockVars
    PROVE  LockInv' /\ LockTypeOK' /\ [LockNext]_lockVars
BY LockStepInv DEF LockInv

(* A handler that keeps its request, or answers it. *)
LEMMA HandlerMoves ==
    ASSUME TypeOK, NEW t \in Tasks, NEW r \in Requests
    PROVE  /\ Suspend(t, r) => /\ req' \in [Tasks -> Requests \union {NoRequest}] /\ req'[t] = r
                               /\ \A u \in Tasks : u # t => req'[u] = req[u]
           /\ \A code, order : Answer(t, r, code, order) =>
                 /\ req' \in [Tasks -> Requests \union {NoRequest}] /\ req'[t] = NoRequest
                 /\ \A u \in Tasks : u # t => req'[u] = req[u]
BY DEF TypeOK, Suspend, Answer

(* The task of a request that moves only itself and the locks. *)
LEMMA SameStore ==
    ASSUME StoreTypeOK, UNCHANGED storeVars
    PROVE  StoreTypeOK'
BY DEF StoreTypeOK, storeVars, IsCart, IsLines, IsOrder

LEMMA SameCheckouts ==
    ASSUME TypeOK, UnchangedCheckouts, Len(coupons') >= Len(coupons), Len(coupons') \in Nat, Len(coupons) \in Nat
    PROVE  /\ records' \in [Carts \X Keys -> Records]
           /\ DOMAIN snapshot' = Tasks /\ DOMAIN held' = Tasks
           /\ \A t \in Tasks : /\ IsLines(snapshot'[t]) /\ IsLines(held'[t].lines)
                               /\ held'[t].coupon \in 0..Len(coupons')
           /\ snapshot' = snapshot /\ held' = held
<1> USE DEF TypeOK
<1>1. records' = records /\ snapshot' = snapshot /\ held' = held
  BY DEF UnchangedCheckouts
<1>2. \A t \in Tasks : held[t].coupon \in 0..Len(coupons')
  OBVIOUS
<1> QED
  BY <1>1, <1>2 DEF IsLines

-----------------------------------------------------------------------------
(* Carts. *)
LEMMA NewItemsAreLines ==
    ASSUME TypeOK, NEW r \in Requests, r.op \in CartOps, r.op # "reprice" => r.product \in Products
    PROVE  IsLines(NewItems(r))
<1> DEFINE items == cart[r.cart].items
<1>1. r.cart \in Carts /\ (r.op \in {"add", "set"} => r.quantity \in Nat \ {0})
  BY RequestFacts
<1>2. IsLines(items) /\ price \in [Products -> Nat]
  BY <1>1 DEF TypeOK, StoreTypeOK, IsCart
<1> HIDE DEF items
<1>3. CASE r.op \in {"add", "set"}
  <2>1. NewQuantity(r) \in Nat \ {0}
    BY <1>1, <1>2, <1>3 DEF NewQuantity, IsLines, items
  <2>2. NewItems(r) = [p \in DOMAIN items \union {r.product} |->
                         IF p = r.product THEN [quantity |-> NewQuantity(r), price |-> price[p]] ELSE items[p]]
    BY <1>3 DEF NewItems, items
  <2> DEFINE f == NewItems(r)
  <2> HIDE DEF f
  <2>3. DOMAIN f = DOMAIN items \union {r.product} /\ f = [p \in DOMAIN f |-> f[p]]
    BY <2>2 DEF f
  <2>4. r.product \in Products
    BY <1>3
  <2>5. [quantity |-> NewQuantity(r), price |-> price[r.product]] \in [quantity : Nat, price : Nat]
    BY <2>1, <2>4, <1>2
  <2>6. \A p \in DOMAIN f : f[p] \in [quantity : Nat, price : Nat] /\ f[p].quantity > 0
    <3>1. f[r.product] = [quantity |-> NewQuantity(r), price |-> price[r.product]]
      BY <2>2 DEF f
    <3>2. \A p \in DOMAIN items : p # r.product => f[p] = items[p]
      BY <2>2 DEF f
    <3>3. \A p \in DOMAIN items : items[p] \in [quantity : Nat, price : Nat] /\ items[p].quantity > 0
      BY <1>2 DEF IsLines
    <3>4. f[r.product] \in [quantity : Nat, price : Nat] /\ f[r.product].quantity > 0
      BY <3>1, <2>1, <2>5
    <3> QED
      BY <2>3, <3>2, <3>3, <3>4
  <2>7. IsLines(f)
    BY <2>3, <2>4, <2>6, <1>2 DEF IsLines
  <2> QED
    BY <2>7 DEF f
<1>4. CASE r.op = "remove"
  <2>1. NewItems(r) = [p \in DOMAIN items \ {r.product} |-> items[p]]
    BY <1>4 DEF NewItems, items
  <2> QED
    BY <2>1, <1>2 DEF IsLines
<1>5. CASE r.op = "reprice"
  <2>1. NewItems(r) = [p \in DOMAIN items |-> [items[p] EXCEPT !.price = price[p]]]
    BY <1>5 DEF NewItems, items
  <2> QED
    BY <2>1, <1>2 DEF IsLines
<1> QED
  BY <1>3, <1>4, <1>5 DEF CartOps

LEMMA MutateCartTypes ==
    ASSUME TypeOK, NEW t \in Tasks, NEW r \in Requests, r.op \in CartOps,
           r.op # "reprice" => r.product \in Products, MutateCart(t, r)
    PROVE  StoreTypeOK' /\ coupons' = coupons
<1>1. IsLines(NewItems(r)) /\ r.cart \in Carts
  BY NewItemsAreLines, RequestFacts
<1>2. DOMAIN cart' = Carts /\ \A c \in Carts : IsCart(cart'[c])
  <2>1. CASE cart' = cart
    BY <2>1 DEF TypeOK, StoreTypeOK, IsCart, IsLines
  <2>2. CASE cart' = [cart EXCEPT ![r.cart].items = NewItems(r)]
    <3>1. cart'[r.cart].items = NewItems(r) /\ cart'[r.cart].state = cart[r.cart].state
          /\ cart'[r.cart] \in [state : {"ABSENT", "OPEN", "CHECKED_OUT"}, items : {NewItems(r)}]
      BY <2>2, <1>1 DEF TypeOK, StoreTypeOK, IsCart
    <3>2. \A c \in Carts : c # r.cart => cart'[c] = cart[c]
      BY <2>2 DEF TypeOK, StoreTypeOK
    <3> QED
      BY <3>1, <3>2, <2>2, <1>1 DEF TypeOK, StoreTypeOK, IsCart, IsLines
  <2> QED
    BY <2>1, <2>2 DEF MutateCart
<1>3. UNCHANGED <<price, available, reserved, sold, orders, coupons, lastRewarded>>
  BY DEF MutateCart, UnchangedButCarts
<1>4. (\A i \in DOMAIN orders : IsOrder(orders[i]))'
  BY <1>3 DEF TypeOK, StoreTypeOK, IsOrder, IsLines
<1>5. (orders \in Seq({orders[i] : i \in DOMAIN orders}))'
  BY <1>3 DEF TypeOK, StoreTypeOK
<1> QED
  BY <1>2, <1>3, <1>4, <1>5 DEF TypeOK, StoreTypeOK

LEMMA IdleTask ==
    ASSUME ShopInv, NEW t \in Tasks, Idle(t)
    PROVE  asked[t] = {} /\ at[t] = NoLock /\ held[t] = NothingHeld
BY OutsideOwnsNothing DEF ShopInv, TasksOK, TaskOK, Charging

LEMMA WaitingTask ==
    ASSUME ShopInv, NEW t \in Tasks, Waiting(t)
    PROVE  held[t] = NothingHeld /\ req[t] \in Requests
<1>1. ~Idle(t)
  BY IdleTask DEF Waiting
<1> QED
  BY <1>1 DEF ShopInv, TasksOK, TaskOK, Charging, Idle, TypeOK

LEMMA AnsweredTask ==
    ASSUME NEW t \in Tasks, req'[t] = NoRequest, asked'[t] = {}, at'[t] = NoLock, held'[t] = NothingHeld
    PROVE  TaskOK(t)'
BY DEF TaskOK, Idle, Charging, Waiting

(* A task with no checkout that suspends in a queue. *)
LEMMA QueuedTask ==
    ASSUME NEW t \in Tasks, NEW r \in Requests, req'[t] = r, held'[t] = NothingHeld,
           r.op \in CartOps => /\ CartLock(r.cart) \in asked'[t]
                               /\ r.op # "reprice" => /\ r.product \in Products
                                                      /\ ProductLock(r.product) \in asked'[t],
           r.op = "checkout" => asked'[t] = CheckoutLocks(r, snapshot'[t])
    PROVE  TaskOK(t)'
<1>1. r # NoRequest
  BY RequestFacts
<1> QED
  BY <1>1 DEF TaskOK, Idle, Charging, Waiting, CheckoutLocks

LEMMA CartRequestKeeps ==
    ASSUME ShopInv, NEW t \in Tasks, NEW r \in Requests, CartRequest(t, r), UnchangedCheckouts
    PROVE  Keeps
<1>1. TypeOK /\ LockInv /\ TasksOK /\ StoreTypeOK /\ Len(coupons) \in Nat
  BY LenProperties DEF ShopInv, TypeOK, StoreTypeOK
<1>2. Idle(t) /\ r.op \in CartOps /\ r.op # "checkout"
  BY DEF CartRequest, CartOps
<1>3. asked[t] = {} /\ at[t] = NoLock /\ held[t] = NothingHeld
  BY <1>2, IdleTask
<1>4. snapshot' = snapshot /\ held' = held
  BY DEF UnchangedCheckouts
<1>5. CASE Answer(t, r, EarlyError(r), NoOrder) /\ UNCHANGED <<lockVars, storeVars>>
  <2>1. LockInv' /\ LockTypeOK' /\ [LockNext]_lockVars
    BY <1>1, <1>5, LockStepKeeps
  <2>2. StoreTypeOK' /\ coupons' = coupons
    BY <1>1, <1>5, SameStore DEF storeVars
  <2>3. TypeOK'
    BY <1>1, <1>5, <2>1, <2>2, HandlerMoves, SameCheckouts DEF TypeOK
  <2>4. TaskOK(t)'
    BY <1>1, <1>3, <1>4, <1>5, HandlerMoves, AnsweredTask DEF lockVars
  <2>5. TasksOK'
    BY <1>1, <1>4, <1>5, <2>4, HandlerMoves, OneRowMoves DEF lockVars
  <2> QED
    BY <2>1, <2>3, <2>5 DEF Keeps, ShopInv
<1>6. CASE EarlyError(r) = "OK" /\ Block(t, CartLocks(r)) /\ Suspend(t, r) /\ UNCHANGED storeVars
  <2>1. CartLocks(r) \in LockLists /\ CartLock(r.cart) \in CartLocks(r)
        /\ (r.op # "reprice" => r.product \in Products /\ ProductLock(r.product) \in CartLocks(r))
    BY <1>1, <1>2, <1>6, CartList
  <2>2. LockStep(t)
    BY <1>6, <2>1 DEF LockStep
  <2>3. LockInv' /\ LockTypeOK' /\ [LockNext]_lockVars
    BY <1>1, <2>2, LockStepKeeps
  <2>4. StoreTypeOK' /\ coupons' = coupons
    BY <1>1, <1>6, SameStore DEF storeVars
  <2>5. TypeOK'
    BY <1>1, <1>6, <2>3, <2>4, HandlerMoves, SameCheckouts DEF TypeOK
  <2>6. asked'[t] = CartLocks(r) /\ \A u \in Tasks : u # t => asked'[u] = asked[u] /\ at'[u] = at[u]
    BY <1>1, <1>6, <2>1, <2>2, LockRows
  <2>7. TaskOK(t)'
    BY <1>1, <1>2, <1>3, <1>4, <1>6, <2>1, <2>6, HandlerMoves, QueuedTask
  <2>8. TasksOK'
    BY <1>1, <1>4, <1>6, <2>6, <2>7, HandlerMoves, OneRowMoves
  <2> QED
    BY <2>3, <2>5, <2>8 DEF Keeps, ShopInv
<1>7. CASE EarlyError(r) = "OK" /\ Pass(t, CartLocks(r)) /\ MutateCart(t, r)
  <2>1. UNCHANGED lockVars
    BY <1>7 DEF Pass
  <2>2. LockInv' /\ LockTypeOK' /\ [LockNext]_lockVars
    BY <1>1, <2>1, LockStepKeeps
  <2>3. StoreTypeOK' /\ coupons' = coupons
    BY <1>1, <1>2, <1>7, CartList, MutateCartTypes
  <2>4. Answer(t, r, CartError(r), NoOrder)
    BY <1>7 DEF MutateCart
  <2>5. TypeOK'
    BY <1>1, <2>2, <2>3, <2>4, HandlerMoves, SameCheckouts DEF TypeOK
  <2>6. TaskOK(t)'
    BY <1>1, <1>3, <1>4, <2>1, <2>4, HandlerMoves, AnsweredTask DEF lockVars
  <2>7. TasksOK'
    BY <1>1, <1>4, <2>1, <2>4, <2>6, HandlerMoves, OneRowMoves DEF lockVars
  <2> QED
    BY <2>2, <2>5, <2>7 DEF Keeps, ShopInv
<1> QED
  BY <1>5, <1>6, <1>7 DEF CartRequest

LEMMA CartResumeKeeps ==
    ASSUME ShopInv, NEW t \in Tasks, CartResume(t), UnchangedCheckouts
    PROVE  Keeps
<1> DEFINE r == req[t]
<1>1. TypeOK /\ LockInv /\ TasksOK /\ StoreTypeOK /\ Len(coupons) \in Nat
  BY LenProperties DEF ShopInv, TypeOK, StoreTypeOK
<1>2. r.op \in CartOps /\ r.op # "checkout"
  BY DEF CartResume, CartOps
<1>3. Resume(t) /\ LockStep(t)
  BY DEF CartResume, LockStep, Resume
<1>4. Waiting(t)
  BY <1>3 DEF Resume, ResumeBlock, ResumeHold, ResumePass, Woken
<1>5. held[t] = NothingHeld /\ r \in Requests
  BY <1>4, WaitingTask
<1>6. /\ CartLock(r.cart) \in asked[t]
      /\ r.op # "reprice" => r.product \in Products /\ ProductLock(r.product) \in asked[t]
  BY <1>1, <1>2, <1>4 DEF TasksOK, TaskOK
<1>7. snapshot' = snapshot /\ held' = held
  BY DEF UnchangedCheckouts
<1>8. LockInv' /\ LockTypeOK' /\ [LockNext]_lockVars
  BY <1>1, <1>3, LockStepKeeps
<1>9. \A u \in Tasks : u # t => asked'[u] = asked[u] /\ at'[u] = at[u]
  BY <1>1, <1>3, LockRows
<1> HIDE DEF r
<1>10. CASE ResumeBlock(t) /\ Suspend(t, r) /\ UNCHANGED storeVars
  <2>1. StoreTypeOK' /\ coupons' = coupons
    BY <1>1, <1>10, SameStore DEF storeVars
  <2>2. TypeOK'
    BY <1>1, <1>5, <1>8, <1>10, <2>1, HandlerMoves, SameCheckouts DEF TypeOK
  <2>3. asked'[t] = asked[t]
    BY <1>1, <1>10, LockRows
  <2>4. TaskOK(t)'
    BY <1>1, <1>2, <1>5, <1>6, <1>7, <1>10, <2>3, HandlerMoves, QueuedTask
  <2>5. TasksOK'
    BY <1>1, <1>5, <1>7, <1>9, <1>10, <2>4, HandlerMoves, OneRowMoves
  <2> QED
    BY <1>8, <2>2, <2>5 DEF Keeps, ShopInv
<1>11. CASE ResumePass(t) /\ MutateCart(t, r)
  <2>1. StoreTypeOK' /\ coupons' = coupons
    BY <1>1, <1>2, <1>5, <1>6, <1>11, MutateCartTypes
  <2>2. Answer(t, r, CartError(r), NoOrder)
    BY <1>11 DEF MutateCart
  <2>3. TypeOK'
    BY <1>1, <1>5, <1>8, <2>1, <2>2, HandlerMoves, SameCheckouts DEF TypeOK
  <2>4. asked'[t] = {} /\ at'[t] = NoLock
    BY <1>1, <1>11, LockRows
  <2>5. TaskOK(t)'
    BY <1>1, <1>5, <1>7, <2>2, <2>4, HandlerMoves, AnsweredTask
  <2>6. TasksOK'
    BY <1>1, <1>5, <1>7, <1>9, <2>2, <2>5, HandlerMoves, OneRowMoves
  <2> QED
    BY <1>8, <2>3, <2>6 DEF Keeps, ShopInv
<1> QED
  BY <1>10, <1>11 DEF CartResume, r

-----------------------------------------------------------------------------
(* The catalogue, new carts, and the coupon ledger. *)
LEMMA CreateCartKeeps ==
    ASSUME ShopInv, NEW c \in Carts, CreateCart(c), UnchangedCheckouts
    PROVE  Keeps
<1>1. TypeOK /\ LockInv /\ TasksOK /\ StoreTypeOK /\ Len(coupons) \in Nat
  BY LenProperties DEF ShopInv, TypeOK, StoreTypeOK
<1>2. /\ cart' = [cart EXCEPT ![c] = [state |-> "OPEN", items |-> NoItems]]
      /\ UNCHANGED <<lockVars, req>>
      /\ UNCHANGED <<price, available, reserved, sold, orders, coupons, lastRewarded>>
      /\ snapshot' = snapshot /\ held' = held
  BY DEF CreateCart, UnchangedButCarts, UnchangedCheckouts
<1>3. DOMAIN cart' = Carts /\ \A d \in Carts : IsCart(cart'[d])
  <2>1. IsCart([state |-> "OPEN", items |-> NoItems])
    BY DEF IsCart, IsLines, NoItems
  <2>2. cart'[c] = [state |-> "OPEN", items |-> NoItems] /\ \A d \in Carts : d # c => cart'[d] = cart[d]
    BY <1>1, <1>2 DEF StoreTypeOK
  <2> QED
    BY <1>1, <1>2, <2>1, <2>2 DEF StoreTypeOK, IsCart, IsLines
<1>4. (\A i \in DOMAIN orders : IsOrder(orders[i]))' /\ (orders \in Seq({orders[i] : i \in DOMAIN orders}))'
  BY <1>1, <1>2 DEF StoreTypeOK, IsOrder, IsLines
<1>5. StoreTypeOK'
  BY <1>1, <1>2, <1>3, <1>4 DEF StoreTypeOK
<1>6. LockInv' /\ LockTypeOK' /\ [LockNext]_lockVars
  BY <1>1, <1>2, LocksUntouched
<1>7. TypeOK'
  BY <1>1, <1>2, <1>5, <1>6, SameCheckouts DEF TypeOK
<1>8. TasksOK'
  BY <1>1, <1>2 DEF TasksOK, TaskOK, Idle, Charging, Waiting, CheckoutLocks, CheckoutRequests, lockVars
<1> QED
  BY <1>1, <1>6, <1>7, <1>8 DEF Keeps, ShopInv

LEMMA ChangePriceKeeps ==
    ASSUME ShopInv, NEW p \in Products, NEW amount \in Prices, ChangePrice(p, amount)
    PROVE  Keeps
<1>1. TypeOK /\ LockInv /\ TasksOK /\ StoreTypeOK /\ Len(coupons) \in Nat
  BY LenProperties DEF ShopInv, TypeOK, StoreTypeOK
<1>2. /\ price' = [price EXCEPT ![p] = amount]
      /\ UNCHANGED <<lockVars, req, cart, available, reserved, sold, orders, coupons, lastRewarded>>
      /\ UnchangedCheckouts /\ snapshot' = snapshot /\ held' = held
  BY DEF ChangePrice, UnchangedCheckouts, checkoutVars
<1>3. price' \in [Products -> Nat]
  BY <1>1, <1>2, StoreAssumption DEF StoreTypeOK
<1>4. (\A i \in DOMAIN orders : IsOrder(orders[i]))' /\ (\A c \in Carts : IsCart(cart[c]))'
  BY <1>1, <1>2 DEF StoreTypeOK, IsOrder, IsLines, IsCart
<1>5. (orders \in Seq({orders[i] : i \in DOMAIN orders}))'
  BY <1>1, <1>2 DEF StoreTypeOK
<1>6. StoreTypeOK'
  BY <1>1, <1>2, <1>3, <1>4, <1>5 DEF StoreTypeOK
<1>7. LockInv' /\ LockTypeOK' /\ [LockNext]_lockVars
  BY <1>1, <1>2, LocksUntouched
<1>8. TypeOK'
  BY <1>1, <1>2, <1>6, <1>7, SameCheckouts DEF TypeOK
<1>9. TasksOK'
  BY <1>1, <1>2 DEF TasksOK, TaskOK, Idle, Charging, Waiting, CheckoutLocks, CheckoutRequests, lockVars
<1> QED
  BY <1>7, <1>8, <1>9 DEF Keeps, ShopInv

LEMMA GenerateTypes ==
    ASSUME StoreTypeOK, NEW t \in Tasks, NEW r \in Requests, GenerateLocked(t, r)
    PROVE  StoreTypeOK' /\ Len(coupons') >= Len(coupons) /\ Len(coupons') \in Nat
           /\ \E code : Answer(t, r, code, NoOrder)
<1>1. UNCHANGED <<price, cart, available, reserved, sold, orders>>
  BY DEF GenerateLocked
<1>2. (\A i \in DOMAIN orders : IsOrder(orders[i]))' /\ (\A c \in Carts : IsCart(cart[c]))'
      /\ (orders \in Seq({orders[i] : i \in DOMAIN orders}))'
  BY <1>1 DEF StoreTypeOK, IsOrder, IsLines, IsCart
<1>3. /\ coupons' \in Seq(CouponRows) /\ lastRewarded' \in Nat
      /\ Len(coupons') >= Len(coupons) /\ Len(coupons') \in Nat
  <2>1. CASE UNCHANGED <<coupons, lastRewarded>>
    BY <2>1, LenProperties DEF StoreTypeOK
  <2>2. CASE MilestoneOrder(NextMilestone) \in DOMAIN orders /\ Mint(NextMilestone)
    <3> DEFINE i == MilestoneOrder(NextMilestone)
    <3>1. NextMilestone \in Nat
      BY DEF StoreTypeOK, NextMilestone
    <3>2. i \in DOMAIN orders /\ Mint(NextMilestone)
      BY <2>2
    <3> HIDE DEF i
    <3>3. orders[i].customer \in Customers
      BY <3>2 DEF StoreTypeOK, IsOrder
    <3>4. Minted(NextMilestone) \in CouponRows
      BY <3>1, <3>3, StoreAssumption DEF CouponRows, Minted, NoOrder, i
    <3> QED
      BY <3>1, <3>2, <3>4, AppendProperties, LenProperties DEF StoreTypeOK, Mint
  <2> QED
    BY <2>1, <2>2 DEF GenerateLocked
<1>4. \E code : Answer(t, r, code, NoOrder)
  BY DEF GenerateLocked
<1> QED
  BY <1>1, <1>2, <1>3, <1>4 DEF StoreTypeOK

LEMMA GenerateRequestKeeps ==
    ASSUME ShopInv, NEW t \in Tasks, NEW r \in Requests, GenerateRequest(t, r), UnchangedCheckouts
    PROVE  Keeps
<1>1. TypeOK /\ LockInv /\ TasksOK /\ StoreTypeOK /\ Len(coupons) \in Nat
  BY LenProperties DEF ShopInv, TypeOK, StoreTypeOK
<1>2. Idle(t) /\ r.op \notin CartOps /\ r.op # "checkout"
  BY DEF GenerateRequest, CartOps
<1>3. asked[t] = {} /\ at[t] = NoLock /\ held[t] = NothingHeld
  BY <1>2, IdleTask
<1>4. snapshot' = snapshot /\ held' = held
  BY DEF UnchangedCheckouts
<1>5. LockStep(t)
  BY LedgerList DEF GenerateRequest, LockStep
<1>6. LockInv' /\ LockTypeOK' /\ [LockNext]_lockVars
  BY <1>1, <1>5, LockStepKeeps
<1>7. \A u \in Tasks : u # t => asked'[u] = asked[u] /\ at'[u] = at[u]
  BY <1>1, <1>5, LockRows
<1>8. CASE Block(t, LedgerLocks) /\ Suspend(t, r) /\ UNCHANGED storeVars
  <2>1. StoreTypeOK' /\ coupons' = coupons
    BY <1>1, <1>8, SameStore DEF storeVars
  <2>2. TypeOK'
    BY <1>1, <1>6, <1>8, <2>1, HandlerMoves, SameCheckouts DEF TypeOK
  <2>3. TaskOK(t)'
    BY <1>1, <1>2, <1>3, <1>4, <1>8, HandlerMoves, QueuedTask
  <2>4. TasksOK'
    BY <1>1, <1>4, <1>7, <1>8, <2>3, HandlerMoves, OneRowMoves
  <2> QED
    BY <1>6, <2>2, <2>4 DEF Keeps, ShopInv
<1>9. CASE Pass(t, LedgerLocks) /\ GenerateLocked(t, r)
  <2>1. PICK code : Answer(t, r, code, NoOrder)
    BY <1>1, <1>9, GenerateTypes
  <2>2. StoreTypeOK' /\ Len(coupons') >= Len(coupons) /\ Len(coupons') \in Nat
    BY <1>1, <1>9, GenerateTypes
  <2>3. TypeOK'
    BY <1>1, <1>6, <2>1, <2>2, HandlerMoves, SameCheckouts DEF TypeOK
  <2>4. TaskOK(t)'
    BY <1>1, <1>3, <1>4, <1>9, <2>1, HandlerMoves, AnsweredTask DEF Pass, lockVars
  <2>5. TasksOK'
    BY <1>1, <1>4, <1>7, <2>1, <2>4, HandlerMoves, OneRowMoves
  <2> QED
    BY <1>6, <2>3, <2>5 DEF Keeps, ShopInv
<1> QED
  BY <1>8, <1>9 DEF GenerateRequest

LEMMA GenerateResumeKeeps ==
    ASSUME ShopInv, NEW t \in Tasks, GenerateResume(t), UnchangedCheckouts
    PROVE  Keeps
<1>1. TypeOK /\ LockInv /\ TasksOK /\ StoreTypeOK /\ Len(coupons) \in Nat
  BY LenProperties DEF ShopInv, TypeOK, StoreTypeOK
<1>2. ResumePass(t) /\ LockStep(t) /\ Waiting(t)
  BY DEF GenerateResume, LockStep, Resume, ResumePass, Woken
<1>3. held[t] = NothingHeld /\ req[t] \in Requests
  BY <1>2, WaitingTask
<1>4. snapshot' = snapshot /\ held' = held
  BY DEF UnchangedCheckouts
<1>5. LockInv' /\ LockTypeOK' /\ [LockNext]_lockVars
  BY <1>1, <1>2, LockStepKeeps
<1>6. /\ \A u \in Tasks : u # t => asked'[u] = asked[u] /\ at'[u] = at[u]
      /\ asked'[t] = {} /\ at'[t] = NoLock
  BY <1>1, <1>2, LockRows
<1>7. PICK code : Answer(t, req[t], code, NoOrder)
  BY <1>1, <1>3, GenerateTypes DEF GenerateResume
<1>8. StoreTypeOK' /\ Len(coupons') >= Len(coupons) /\ Len(coupons') \in Nat
  BY <1>1, <1>3, GenerateTypes DEF GenerateResume
<1>9. TypeOK'
  BY <1>1, <1>3, <1>5, <1>7, <1>8, HandlerMoves, SameCheckouts DEF TypeOK
<1>10. TaskOK(t)'
  BY <1>1, <1>3, <1>4, <1>6, <1>7, HandlerMoves, AnsweredTask
<1>11. TasksOK'
  BY <1>1, <1>3, <1>4, <1>6, <1>7, <1>10, HandlerMoves, OneRowMoves
<1> QED
  BY <1>5, <1>9, <1>11 DEF Keeps, ShopInv

-----------------------------------------------------------------------------
(* The parts of a checkout. *)
LEMMA SameTables ==
    ASSUME StoreTypeOK, InventoryTypeOK', coupons' \in Seq(CouponRows),
           UNCHANGED <<price, cart, orders, lastRewarded>>
    PROVE  StoreTypeOK'
<1>1. (\A i \in DOMAIN orders : IsOrder(orders[i]))' /\ (\A c \in Carts : IsCart(cart[c]))'
      /\ (orders \in Seq({orders[i] : i \in DOMAIN orders}))'
  BY DEF StoreTypeOK, IsOrder, IsLines, IsCart
<1> QED
  BY <1>1 DEF StoreTypeOK, InventoryTypeOK

LEMMA RecordMoves ==
    ASSUME records \in [Carts \X Keys -> Records], NEW r \in Requests, r.op = "checkout",
           NEW order \in Nat
    PROVE  /\ Claimed(records, r) \in [Carts \X Keys -> Records]
           /\ Unclaimed(records, r) \in [Carts \X Keys -> Records]
           /\ Unclaimed(Claimed(records, r), r) \in [Carts \X Keys -> Records]
           /\ Completed(records, r, order) \in [Carts \X Keys -> Records]
<1>1. KeyOf(r) \in Carts \X Keys /\ r \in CheckoutRequests
  BY RequestFacts
<1>2. NoRecord \in Records
  BY DEF NoRecord, Records
<1>3. [state |-> "IN_PROGRESS", fingerprint |-> Fingerprint(r), order |-> 0] \in Records
  BY <1>1 DEF Records
<1>4. [records[KeyOf(r)] EXCEPT !.state = "COMPLETED", !.order = order] \in Records
  BY <1>1 DEF Records
<1> QED
  BY <1>1, <1>2, <1>3, <1>4 DEF Claimed, Unclaimed, Completed

LEMMA AcceptedCoupon ==
    ASSUME NEW code \in Nat, NEW customer, Len(coupons) \in Nat, DOMAIN coupons = 1..Len(coupons),
           CouponError(code, customer) = "OK"
    PROVE  code \in 0..Len(coupons)
BY DEF CouponError, NoCoupon

LEMMA RefuseTypes ==
    ASSUME TypeOK, NEW t \in Tasks, NEW r \in Requests, r.op = "checkout", NEW seen, Refuse(t, r, seen)
    PROVE  /\ StoreTypeOK' /\ Len(coupons') = Len(coupons)
           /\ snapshot' = [snapshot EXCEPT ![t] = NoItems] /\ held' = held
           /\ \E lines : IsLines(lines) /\ ReserveThenRelease(lines, lines)
           /\ \E error : Answer(t, r, error, NoOrder)
<1> DEFINE lines == cart[r.cart].items
<1>1. r.cart \in Carts /\ r.coupon \in Nat /\ StoreTypeOK /\ Len(coupons) \in Nat
      /\ DOMAIN coupons = 1..Len(coupons) /\ coupons \in Seq(CouponRows) /\ InventoryTypeOK
  BY RequestFacts, LenProperties DEF TypeOK, StoreTypeOK, InventoryTypeOK
<1>2. IsLines(lines) /\ IsLines(NoItems) /\ \A P \in SUBSET DOMAIN lines : IsLines([p \in P |-> lines[p]])
  <2>1. IsLines(lines)
    BY <1>1 DEF StoreTypeOK, IsCart
  <2>2. ASSUME NEW P \in SUBSET DOMAIN lines PROVE IsLines([p \in P |-> lines[p]])
    BY <2>1 DEF IsLines
  <2>3. IsLines(NoItems)
    BY DEF IsLines, NoItems
  <2> QED
    BY <2>1, <2>2, <2>3
<1>3. PICK got, code, error :
        IsLines(got) /\ code \in 0..Len(coupons) /\ RefuseHolding(t, r, error, got, code)
  <2>1. NoCoupon \in 0..Len(coupons)
    BY <1>1 DEF NoCoupon
  <2>2. CouponError(r.coupon, r.customer) = "OK" => r.coupon \in 0..Len(coupons)
    BY <1>1, AcceptedCoupon
  <2>3. \/ \E error : RefuseHolding(t, r, error, NoItems, NoCoupon)
        \/ \E P \in SUBSET DOMAIN lines :
             RefuseHolding(t, r, "INSUFFICIENT_INVENTORY", [p \in P |-> lines[p]], NoCoupon)
        \/ \E error : RefuseHolding(t, r, error, lines, NoCoupon)
        \/ CouponError(r.coupon, r.customer) = "OK" /\ RefuseHolding(t, r, "INTERNAL_ERROR", lines, r.coupon)
    BY DEF Refuse
  <2> HIDE DEF lines
  <2>4. ASSUME NEW P \in SUBSET DOMAIN lines,
               RefuseHolding(t, r, "INSUFFICIENT_INVENTORY", [p \in P |-> lines[p]], NoCoupon)
        PROVE  \E got, code, error :
                 IsLines(got) /\ code \in 0..Len(coupons) /\ RefuseHolding(t, r, error, got, code)
    BY <1>2, <2>1, <2>4
  <2> QED
    BY <1>2, <2>1, <2>2, <2>3, <2>4
<1>4. /\ ReserveThenRelease(got, got)
      /\ coupons' = WithReleased(WithReserved(coupons, code), code)
      /\ snapshot' = [snapshot EXCEPT ![t] = NoItems]
      /\ UNCHANGED <<price, cart, orders, lastRewarded, held>>
      /\ Answer(t, r, error, NoOrder)
  BY <1>3 DEF RefuseHolding, Recorded
<1>5. InventoryTypeOK'
  BY <1>1, <1>3, <1>4, InventoryMovesConserve DEF InventoryMoves
<1>6. coupons' \in Seq(CouponRows) /\ Len(coupons') = Len(coupons)
  <2>1. WithReserved(coupons, code) \in Seq(CouponRows) /\ Len(WithReserved(coupons, code)) = Len(coupons)
    BY <1>1, <1>3, CouponMoves, 0 \in Nat
  <2> DEFINE cs == WithReserved(coupons, code)
  <2>2. WithReleased(cs, code) \in Seq(CouponRows) /\ Len(WithReleased(cs, code)) = Len(cs)
    <3> HIDE DEF cs
    <3>1. cs \in Seq(CouponRows) /\ Len(cs) = Len(coupons)
      BY <2>1 DEF cs
    <3>2. CASE code = NoCoupon
      BY <3>1, <3>2 DEF WithReleased
    <3>3. CASE code # NoCoupon
      <4>1. code \in 1..Len(cs) /\ cs[code] \in CouponRows
        BY <3>1, <3>3, <1>1, <1>3, LenProperties, ElementOfSeq DEF NoCoupon
      <4>2. [cs[code] EXCEPT !.state = "AVAILABLE"] \in CouponRows
        BY <4>1 DEF CouponRows
      <4>3. WithReleased(cs, code) = [cs EXCEPT ![code] = [cs[code] EXCEPT !.state = "AVAILABLE"]]
        BY <3>3 DEF WithReleased
      <4> QED
        BY <3>1, <4>1, <4>2, <4>3, ExceptSeq
    <3> QED
      BY <3>2, <3>3
  <2> QED
    BY <1>4, <2>1, <2>2
<1>7. StoreTypeOK'
  BY <1>1, <1>4, <1>5, <1>6, SameTables
<1> QED
  BY <1>3, <1>4, <1>6, <1>7

LEMMA ChargeTypes ==
    ASSUME TypeOK, NEW t \in Tasks, NEW r \in Requests, r.op = "checkout", NEW seen, Charge(t, r, seen)
    PROVE  /\ StoreTypeOK' /\ Len(coupons') = Len(coupons)
           /\ snapshot' = [snapshot EXCEPT ![t] = NoItems]
           /\ held' = [held EXCEPT ![t] = HeldBy(r, seen)]
           /\ IsLines(seen) /\ seen # NoItems /\ r.coupon \in 0..Len(coupons)
           /\ HeldBy(r, seen).lines = seen /\ HeldBy(r, seen).coupon = r.coupon
           /\ HeldBy(r, seen) # NothingHeld
           /\ r.customer \in Customers
           /\ ReserveInventory(seen) /\ coupons' = WithReserved(coupons, r.coupon)
           /\ cart[r.cart].state = "OPEN" /\ cart[r.cart].items = seen
           /\ UNCHANGED <<price, cart, orders, lastRewarded>>
           /\ Suspend(t, r)
<1>1. r.cart \in Carts /\ r.coupon \in Nat /\ StoreTypeOK /\ Len(coupons) \in Nat
      /\ DOMAIN coupons = 1..Len(coupons) /\ coupons \in Seq(CouponRows) /\ InventoryTypeOK
  BY RequestFacts, LenProperties DEF TypeOK, StoreTypeOK, InventoryTypeOK
<1>2. /\ cart[r.cart].items = seen /\ seen # NoItems /\ r.customer \in Customers
      /\ cart[r.cart].state = "OPEN"
  BY DEF Charge, VerifyError, IsOpen
<1>3. /\ ReserveInventory(seen) /\ CouponError(r.coupon, r.customer) = "OK"
      /\ coupons' = WithReserved(coupons, r.coupon)
      /\ held' = [held EXCEPT ![t] = HeldBy(r, seen)]
      /\ snapshot' = [snapshot EXCEPT ![t] = NoItems]
      /\ UNCHANGED <<price, cart, orders, lastRewarded>>
      /\ Suspend(t, r)
  BY <1>2 DEF Charge
<1>4. IsLines(seen)
  BY <1>1, <1>2 DEF StoreTypeOK, IsCart
<1>5. r.coupon \in 0..Len(coupons)
  BY <1>1, <1>3, AcceptedCoupon
<1>6. InventoryTypeOK'
  BY <1>1, <1>3, <1>4, InventoryMovesConserve DEF InventoryMoves
<1>7. coupons' \in Seq(CouponRows) /\ Len(coupons') = Len(coupons)
  BY <1>1, <1>3, <1>5, CouponMoves, 0 \in Nat
<1>8. StoreTypeOK'
  BY <1>1, <1>3, <1>6, <1>7, SameTables
<1>9. HeldBy(r, seen).lines = seen /\ HeldBy(r, seen).coupon = r.coupon
  BY DEF HeldBy
<1>10. HeldBy(r, seen) # NothingHeld
  BY <1>2, <1>9 DEF NothingHeld
<1> QED
  BY <1>2, <1>3, <1>4, <1>5, <1>7, <1>8, <1>9, <1>10

-----------------------------------------------------------------------------
(* The rows of the checkouts after a refusal and after an acceptance. *)
LEMMA RefusedRows ==
    ASSUME TypeOK, NEW t \in Tasks, Len(coupons) \in Nat, Len(coupons') = Len(coupons),
           snapshot' = [snapshot EXCEPT ![t] = NoItems], held' = held
    PROVE  /\ DOMAIN snapshot' = Tasks /\ DOMAIN held' = Tasks
           /\ \A u \in Tasks : /\ IsLines(snapshot'[u]) /\ IsLines(held'[u].lines)
                               /\ held'[u].coupon \in 0..Len(coupons')
           /\ \A u \in Tasks : u # t => snapshot'[u] = snapshot[u] /\ held'[u] = held[u]
<1>1. IsLines(NoItems)
  BY DEF IsLines, NoItems
<1>2. snapshot'[t] = NoItems /\ \A u \in Tasks : u # t => snapshot'[u] = snapshot[u]
  BY DEF TypeOK
<1> QED
  BY <1>1, <1>2 DEF TypeOK

LEMMA AcceptedRows ==
    ASSUME TypeOK, NEW t \in Tasks, Len(coupons) \in Nat, Len(coupons') = Len(coupons),
           NEW h, IsLines(h.lines), h.coupon \in 0..Len(coupons),
           snapshot' = [snapshot EXCEPT ![t] = NoItems], held' = [held EXCEPT ![t] = h]
    PROVE  /\ DOMAIN snapshot' = Tasks /\ DOMAIN held' = Tasks /\ held'[t] = h
           /\ \A u \in Tasks : /\ IsLines(snapshot'[u]) /\ IsLines(held'[u].lines)
                               /\ held'[u].coupon \in 0..Len(coupons')
           /\ \A u \in Tasks : u # t => snapshot'[u] = snapshot[u] /\ held'[u] = held[u]
<1>1. IsLines(NoItems)
  BY DEF IsLines, NoItems
<1>2. snapshot'[t] = NoItems /\ \A u \in Tasks : u # t => snapshot'[u] = snapshot[u]
  BY DEF TypeOK
<1>3. held'[t] = h /\ \A u \in Tasks : u # t => held'[u] = held[u]
  BY DEF TypeOK
<1> QED
  BY <1>1, <1>2, <1>3 DEF TypeOK

(* A checkout that got its locks and awaits the payment. *)
LEMMA ChargingTask ==
    ASSUME NEW t \in Tasks, NEW r \in Requests, r.op = "checkout", r.customer \in Customers,
           req'[t] = r, at'[t] = NoLock, asked'[t] = CheckoutLocks(r, held'[t].lines)
    PROVE  TaskOK(t)' \/ held'[t] = NothingHeld
<1>1. r # NoRequest /\ r \in CheckoutRequests
  BY RequestFacts
<1> QED
  BY <1>1 DEF TaskOK, Idle, Charging, Waiting, CheckoutLocks, CheckoutRequests

LEMMA CheckoutRequestKeeps ==
    ASSUME ShopInv, NEW t \in Tasks, NEW r \in Requests, CheckoutRequest(t, r)
    PROVE  Keeps
<1> DEFINE seen  == cart[r.cart].items
           locks == CheckoutLocks(r, seen)
<1>1. /\ TypeOK /\ LockInv /\ TasksOK /\ StoreTypeOK /\ Len(coupons) \in Nat
      /\ records \in [Carts \X Keys -> Records]
  BY LenProperties DEF ShopInv, TypeOK, StoreTypeOK
<1>2. Idle(t) /\ r.op = "checkout" /\ r.op \notin CartOps
  BY DEF CheckoutRequest, CartOps
<1>3. asked[t] = {} /\ at[t] = NoLock /\ held[t] = NothingHeld
  BY <1>2, IdleTask
<1>4. r.cart \in Carts /\ IsLines(seen)
  BY <1>1, <1>2, RequestFacts DEF StoreTypeOK, IsCart
<1>5. locks \in LockLists
  BY <1>4, CheckoutList
<1> HIDE DEF seen, locks
<1>6. ASSUME NEW code, NEW order, Answer(t, r, code, order), UNCHANGED <<lockVars, storeVars, checkoutVars>>,
             records' \in [Carts \X Keys -> Records]
      PROVE  Keeps
  <2>1. LockInv' /\ LockTypeOK' /\ [LockNext]_lockVars
    BY <1>1, <1>6, LocksUntouched
  <2>2. StoreTypeOK' /\ coupons' = coupons /\ snapshot' = snapshot /\ held' = held
    BY <1>1, <1>6, SameStore DEF storeVars, checkoutVars
  <2>3. \A u \in Tasks : /\ IsLines(snapshot'[u]) /\ IsLines(held'[u].lines)
                         /\ held'[u].coupon \in 0..Len(coupons')
    BY <1>1, <2>2 DEF TypeOK, IsLines
  <2>4. TypeOK'
    BY <1>1, <1>6, <2>1, <2>2, <2>3, HandlerMoves DEF TypeOK
  <2>5. TaskOK(t)'
    BY <1>1, <1>3, <1>6, <2>2, HandlerMoves, AnsweredTask DEF lockVars
  <2>6. TasksOK'
    BY <1>1, <1>6, <2>2, <2>5, HandlerMoves, OneRowMoves DEF lockVars
  <2> QED
    BY <2>1, <2>4, <2>6 DEF Keeps, ShopInv
<1>7. CASE AnsweredFromTheRecord(t, r)
  <2>1. \E code, order : Answer(t, r, code, order)
    BY <1>7 DEF AnsweredFromTheRecord
  <2>2. UNCHANGED <<lockVars, storeVars, records, checkoutVars>>
    BY <1>7 DEF AnsweredFromTheRecord
  <2> QED
    BY <2>1, <2>2, <1>1, <1>6
<1>8. CASE /\ records' = Unclaimed(Claimed(records, r), r)
           /\ Answer(t, r, "CART_NOT_FOUND", NoOrder)
           /\ UNCHANGED <<lockVars, storeVars, checkoutVars>>
  BY <1>1, <1>2, <1>6, <1>8, RecordMoves, 0 \in Nat
<1>9. CASE /\ Block(t, locks) /\ Suspend(t, r)
           /\ snapshot' = [snapshot EXCEPT ![t] = seen]
           /\ records' = Claimed(records, r)
           /\ UNCHANGED <<storeVars, held>>
  <2>1. LockStep(t)
    BY <1>5, <1>9 DEF LockStep
  <2>2. LockInv' /\ LockTypeOK' /\ [LockNext]_lockVars
    BY <1>1, <2>1, LockStepKeeps
  <2>3. StoreTypeOK' /\ coupons' = coupons /\ held' = held
    BY <1>1, <1>9, SameStore DEF storeVars
  <2>4. snapshot'[t] = seen /\ \A u \in Tasks : u # t => snapshot'[u] = snapshot[u]
    BY <1>1, <1>9 DEF TypeOK
  <2>5. \A u \in Tasks : /\ IsLines(snapshot'[u]) /\ IsLines(held'[u].lines)
                         /\ held'[u].coupon \in 0..Len(coupons')
    BY <1>1, <1>4, <2>3, <2>4 DEF TypeOK
  <2>6. records' \in [Carts \X Keys -> Records]
    BY <1>1, <1>2, <1>9, RecordMoves, 0 \in Nat
  <2>7. TypeOK'
    BY <1>1, <1>9, <2>2, <2>3, <2>5, <2>6, HandlerMoves DEF TypeOK
  <2>8. asked'[t] = locks /\ \A u \in Tasks : u # t => asked'[u] = asked[u] /\ at'[u] = at[u]
    BY <1>1, <1>5, <1>9, <2>1, LockRows
  <2>9. TaskOK(t)'
    BY <1>1, <1>2, <1>3, <1>9, <2>3, <2>4, <2>8, HandlerMoves, QueuedTask DEF locks
  <2>10. TasksOK'
    BY <1>1, <1>9, <2>3, <2>4, <2>8, <2>9, HandlerMoves, OneRowMoves
  <2> QED
    BY <2>2, <2>7, <2>10 DEF Keeps, ShopInv
<1>10. CASE /\ Pass(t, locks) /\ Refuse(t, r, seen)
            /\ records' = Unclaimed(Claimed(records, r), r)
  <2>1. UNCHANGED lockVars
    BY <1>10 DEF Pass
  <2>2. LockInv' /\ LockTypeOK' /\ [LockNext]_lockVars
    BY <1>1, <2>1, LocksUntouched
  <2>3. /\ StoreTypeOK' /\ Len(coupons') = Len(coupons)
        /\ snapshot' = [snapshot EXCEPT ![t] = NoItems] /\ held' = held
    BY <1>1, <1>2, <1>10, RefuseTypes
  <2>4. PICK error : Answer(t, r, error, NoOrder)
    BY <1>1, <1>2, <1>10, RefuseTypes
  <2>5. records' \in [Carts \X Keys -> Records]
    BY <1>1, <1>2, <1>10, RecordMoves, 0 \in Nat
  <2>6. TypeOK'
    BY <1>1, <2>2, <2>3, <2>4, <2>5, HandlerMoves, RefusedRows DEF TypeOK
  <2>7. TaskOK(t)'
    BY <1>1, <1>3, <2>1, <2>3, <2>4, HandlerMoves, AnsweredTask DEF lockVars
  <2>8. TasksOK'
    BY <1>1, <2>1, <2>3, <2>4, <2>7, HandlerMoves, RefusedRows, OneRowMoves DEF lockVars
  <2> QED
    BY <2>2, <2>6, <2>8 DEF Keeps, ShopInv
<1>11. CASE /\ Hold(t, locks) /\ Charge(t, r, seen)
            /\ records' = Claimed(records, r)
  <2>1. LockStep(t)
    BY <1>5, <1>11 DEF LockStep
  <2>2. LockInv' /\ LockTypeOK' /\ [LockNext]_lockVars
    BY <1>1, <2>1, LockStepKeeps
  <2>3. /\ StoreTypeOK' /\ Len(coupons') = Len(coupons)
        /\ snapshot' = [snapshot EXCEPT ![t] = NoItems]
        /\ held' = [held EXCEPT ![t] = HeldBy(r, seen)]
        /\ IsLines(HeldBy(r, seen).lines) /\ HeldBy(r, seen).coupon \in 0..Len(coupons)
        /\ HeldBy(r, seen).lines = seen /\ HeldBy(r, seen) # NothingHeld
        /\ r.customer \in Customers /\ Suspend(t, r)
    BY <1>1, <1>2, <1>11, ChargeTypes
  <2>4. /\ DOMAIN snapshot' = Tasks /\ DOMAIN held' = Tasks /\ held'[t] = HeldBy(r, seen)
        /\ \A u \in Tasks : /\ IsLines(snapshot'[u]) /\ IsLines(held'[u].lines)
                            /\ held'[u].coupon \in 0..Len(coupons')
        /\ \A u \in Tasks : u # t => snapshot'[u] = snapshot[u] /\ held'[u] = held[u]
    <3> DEFINE h == HeldBy(r, seen)
    <3> HIDE DEF h
    <3>1. /\ IsLines(h.lines) /\ h.coupon \in 0..Len(coupons) /\ Len(coupons') = Len(coupons)
          /\ snapshot' = [snapshot EXCEPT ![t] = NoItems] /\ held' = [held EXCEPT ![t] = h]
      BY <2>3 DEF h
    <3> QED
      BY <1>1, <3>1, AcceptedRows DEF h
  <2>5. records' \in [Carts \X Keys -> Records]
    BY <1>1, <1>2, <1>11, RecordMoves, 0 \in Nat
  <2>6. TypeOK'
    BY <1>1, <2>2, <2>3, <2>4, <2>5, HandlerMoves DEF TypeOK
  <2>7. /\ asked'[t] = locks /\ at'[t] = NoLock
        /\ \A u \in Tasks : u # t => asked'[u] = asked[u] /\ at'[u] = at[u]
    BY <1>1, <1>11, <2>1, LockRows
  <2>8. TaskOK(t)'
    BY <1>1, <1>2, <2>3, <2>4, <2>7, HandlerMoves, ChargingTask DEF locks
  <2>9. TasksOK'
    BY <1>1, <2>3, <2>4, <2>7, <2>8, HandlerMoves, OneRowMoves
  <2> QED
    BY <2>2, <2>6, <2>9 DEF Keeps, ShopInv
<1> QED
  BY <1>7, <1>8, <1>9, <1>10, <1>11 DEF CheckoutRequest, seen, locks

LEMMA CheckoutResumeKeeps ==
    ASSUME ShopInv, NEW t \in Tasks, CheckoutResume(t)
    PROVE  Keeps
<1> DEFINE r == req[t]
           seen == snapshot[t]
<1>1. /\ TypeOK /\ LockInv /\ TasksOK /\ StoreTypeOK /\ Len(coupons) \in Nat
      /\ records \in [Carts \X Keys -> Records]
  BY LenProperties DEF ShopInv, TypeOK, StoreTypeOK
<1>2. r.op = "checkout" /\ r.op \notin CartOps
  BY DEF CheckoutResume, CartOps
<1>3. Resume(t) /\ LockStep(t) /\ Waiting(t)
  BY DEF CheckoutResume, LockStep, Resume, ResumeBlock, ResumeHold, ResumePass, Woken
<1>4. held[t] = NothingHeld /\ r \in Requests
  BY <1>3, WaitingTask
<1>5. asked[t] = CheckoutLocks(r, seen)
  BY <1>1, <1>2, <1>3 DEF TasksOK, TaskOK
<1>6. LockInv' /\ LockTypeOK' /\ [LockNext]_lockVars
  BY <1>1, <1>3, LockStepKeeps
<1>7. \A u \in Tasks : u # t => asked'[u] = asked[u] /\ at'[u] = at[u]
  BY <1>1, <1>3, LockRows
<1> HIDE DEF r, seen
<1>8. CASE ResumeBlock(t) /\ Suspend(t, r) /\ UNCHANGED <<storeVars, records, checkoutVars>>
  <2>1. StoreTypeOK' /\ coupons' = coupons /\ snapshot' = snapshot /\ held' = held /\ records' = records
    BY <1>1, <1>8, SameStore DEF storeVars, checkoutVars
  <2>2. \A u \in Tasks : /\ IsLines(snapshot'[u]) /\ IsLines(held'[u].lines)
                         /\ held'[u].coupon \in 0..Len(coupons')
    BY <1>1, <2>1 DEF TypeOK, IsLines
  <2>3. TypeOK'
    BY <1>1, <1>4, <1>6, <1>8, <2>1, <2>2, HandlerMoves DEF TypeOK
  <2>4. asked'[t] = asked[t]
    BY <1>1, <1>8, LockRows
  <2>5. TaskOK(t)'
    BY <1>1, <1>2, <1>4, <1>5, <1>8, <2>1, <2>4, HandlerMoves, QueuedTask DEF seen
  <2>6. TasksOK'
    BY <1>1, <1>4, <1>7, <1>8, <2>1, <2>5, HandlerMoves, OneRowMoves
  <2> QED
    BY <1>6, <2>3, <2>6 DEF Keeps, ShopInv
<1>9. CASE ResumePass(t) /\ Refuse(t, r, seen) /\ records' = Unclaimed(records, r)
  <2>1. /\ StoreTypeOK' /\ Len(coupons') = Len(coupons)
        /\ snapshot' = [snapshot EXCEPT ![t] = NoItems] /\ held' = held
    BY <1>1, <1>2, <1>4, <1>9, RefuseTypes
  <2>2. PICK error : Answer(t, r, error, NoOrder)
    BY <1>1, <1>2, <1>4, <1>9, RefuseTypes
  <2>3. records' \in [Carts \X Keys -> Records]
    BY <1>1, <1>2, <1>4, <1>9, RecordMoves, 0 \in Nat
  <2>4. TypeOK'
    BY <1>1, <1>4, <1>6, <2>1, <2>2, <2>3, HandlerMoves, RefusedRows DEF TypeOK
  <2>5. asked'[t] = {} /\ at'[t] = NoLock
    BY <1>1, <1>9, LockRows
  <2>6. TaskOK(t)'
    BY <1>1, <1>4, <2>1, <2>2, <2>5, HandlerMoves, AnsweredTask
  <2>7. TasksOK'
    BY <1>1, <1>4, <1>7, <2>1, <2>2, <2>6, HandlerMoves, RefusedRows, OneRowMoves
  <2> QED
    BY <1>6, <2>4, <2>7 DEF Keeps, ShopInv
<1>10. CASE ResumeHold(t) /\ Charge(t, r, seen) /\ UNCHANGED records
  <2>1. /\ StoreTypeOK' /\ Len(coupons') = Len(coupons)
        /\ snapshot' = [snapshot EXCEPT ![t] = NoItems]
        /\ held' = [held EXCEPT ![t] = HeldBy(r, seen)]
        /\ IsLines(HeldBy(r, seen).lines) /\ HeldBy(r, seen).coupon \in 0..Len(coupons)
        /\ HeldBy(r, seen).lines = seen /\ HeldBy(r, seen) # NothingHeld
        /\ r.customer \in Customers /\ Suspend(t, r)
    BY <1>1, <1>2, <1>4, <1>10, ChargeTypes
  <2>2. /\ DOMAIN snapshot' = Tasks /\ DOMAIN held' = Tasks /\ held'[t] = HeldBy(r, seen)
        /\ \A u \in Tasks : /\ IsLines(snapshot'[u]) /\ IsLines(held'[u].lines)
                            /\ held'[u].coupon \in 0..Len(coupons')
        /\ \A u \in Tasks : u # t => snapshot'[u] = snapshot[u] /\ held'[u] = held[u]
    <3> DEFINE h == HeldBy(r, seen)
    <3> HIDE DEF h
    <3>1. /\ IsLines(h.lines) /\ h.coupon \in 0..Len(coupons) /\ Len(coupons') = Len(coupons)
          /\ snapshot' = [snapshot EXCEPT ![t] = NoItems] /\ held' = [held EXCEPT ![t] = h]
      BY <2>1 DEF h
    <3> QED
      BY <1>1, <3>1, AcceptedRows DEF h
  <2>3. TypeOK'
    BY <1>1, <1>4, <1>6, <1>10, <2>1, <2>2, HandlerMoves DEF TypeOK
  <2>4. asked'[t] = asked[t] /\ at'[t] = NoLock
    BY <1>1, <1>10, LockRows
  <2>5. TaskOK(t)'
    BY <1>1, <1>2, <1>4, <1>5, <2>1, <2>2, <2>4, HandlerMoves, ChargingTask
  <2>6. TasksOK'
    BY <1>1, <1>4, <1>7, <2>1, <2>2, <2>5, HandlerMoves, OneRowMoves
  <2> QED
    BY <1>6, <2>3, <2>6 DEF Keeps, ShopInv
<1> QED
  BY <1>8, <1>9, <1>10 DEF CheckoutResume, r, seen

(* A charging task is a checkout, and has what it holds. *)
LEMMA ChargingFacts ==
    ASSUME ShopInv, NEW t \in Tasks, Charging(t)
    PROVE  /\ req[t] \in Requests /\ req[t].op = "checkout" /\ req[t].cart \in Carts
           /\ req[t].customer \in Customers /\ ~Waiting(t)
           /\ asked[t] = CheckoutLocks(req[t], held[t].lines)
           /\ IsLines(held[t].lines) /\ held[t].coupon \in 0..Len(coupons)
<1>1. req[t] \in CheckoutRequests
  BY DEF ShopInv, TasksOK, TaskOK
<1>2. req[t] \in Requests /\ req[t].op = "checkout"
  BY <1>1 DEF CheckoutRequests
<1> QED
  BY <1>2, RequestFacts DEF ShopInv, TasksOK, TaskOK, TypeOK

LEMMA EmptyHands == IsLines(NothingHeld.lines) /\ NothingHeld.coupon = 0
BY DEF NothingHeld, IsLines, NoItems, NoCoupon

LEMMA ChargeFailsKeeps ==
    ASSUME ShopInv, NEW t \in Tasks, NEW code, ChargeFails(t, code)
    PROVE  Keeps
<1>1. /\ TypeOK /\ LockInv /\ TasksOK /\ StoreTypeOK /\ Len(coupons) \in Nat
      /\ records \in [Carts \X Keys -> Records] /\ InventoryTypeOK /\ coupons \in Seq(CouponRows)
  BY LenProperties DEF ShopInv, TypeOK, StoreTypeOK, InventoryTypeOK
<1>2. /\ Charging(t) /\ ReleaseInventory(held[t].lines)
      /\ coupons' = WithReleased(coupons, held[t].coupon)
      /\ Release(t) /\ LockStep(t)
      /\ records' = Unclaimed(records, req[t])
      /\ held' = [held EXCEPT ![t] = NothingHeld]
      /\ Answer(t, req[t], code, NoOrder)
      /\ UNCHANGED <<price, cart, orders, lastRewarded, snapshot>>
  BY DEF ChargeFails, UnchangedButCheckout, LockStep
<1>3. /\ req[t] \in Requests /\ req[t].op = "checkout"
      /\ IsLines(held[t].lines) /\ held[t].coupon \in 0..Len(coupons)
  BY <1>2, ChargingFacts
<1>4. LockInv' /\ LockTypeOK' /\ [LockNext]_lockVars
  BY <1>1, <1>2, LockStepKeeps
<1>5. /\ asked'[t] = {} /\ at'[t] = NoLock
      /\ \A u \in Tasks : u # t => asked'[u] = asked[u] /\ at'[u] = at[u]
  BY <1>1, <1>2, LockRows
<1>6. InventoryTypeOK'
  BY <1>1, <1>2, <1>3, InventoryMovesConserve DEF InventoryMoves
<1>7. coupons' \in Seq(CouponRows) /\ Len(coupons') = Len(coupons)
  BY <1>1, <1>2, <1>3, CouponMoves, 0 \in Nat
<1>8. StoreTypeOK'
  BY <1>1, <1>2, <1>6, <1>7, SameTables
<1>9. records' \in [Carts \X Keys -> Records]
  BY <1>1, <1>2, <1>3, RecordMoves, 0 \in Nat
<1>10. DOMAIN held' = Tasks /\ held'[t] = NothingHeld /\ \A u \in Tasks : u # t => held'[u] = held[u]
  BY <1>1, <1>2 DEF TypeOK
<1>11. \A u \in Tasks : /\ IsLines(snapshot'[u]) /\ IsLines(held'[u].lines)
                        /\ held'[u].coupon \in 0..Len(coupons')
  BY <1>1, <1>2, <1>7, <1>10, EmptyHands DEF TypeOK
<1>12. TypeOK'
  BY <1>1, <1>2, <1>3, <1>4, <1>8, <1>9, <1>10, <1>11, HandlerMoves DEF TypeOK
<1>13. TaskOK(t)'
  BY <1>1, <1>2, <1>3, <1>5, <1>10, HandlerMoves, AnsweredTask
<1>14. TasksOK'
  BY <1>1, <1>2, <1>3, <1>5, <1>10, <1>13, HandlerMoves, OneRowMoves
<1> QED
  BY <1>4, <1>12, <1>14 DEF Keeps, ShopInv

LEMMA PaymentApprovedKeeps ==
    ASSUME ShopInv, NEW t \in Tasks, PaymentApproved(t)
    PROVE  Keeps
<1> DEFINE r == req[t]
           order == Len(orders) + 1
           o == OrderOf(t, r)
<1>1. /\ TypeOK /\ LockInv /\ TasksOK /\ StoreTypeOK /\ Len(coupons) \in Nat /\ Len(orders) \in Nat
      /\ records \in [Carts \X Keys -> Records] /\ InventoryTypeOK /\ coupons \in Seq(CouponRows)
  BY LenProperties DEF ShopInv, TypeOK, StoreTypeOK, InventoryTypeOK
<1>2. /\ Charging(t) /\ CommitInventory(held[t].lines)
      /\ coupons' = WithRedeemed(coupons, held[t].coupon, order)
      /\ orders' = Append(orders, o)
      /\ cart' = [cart EXCEPT ![r.cart].state = "CHECKED_OUT"]
      /\ Release(t) /\ LockStep(t)
      /\ records' = Completed(records, r, order)
      /\ held' = [held EXCEPT ![t] = NothingHeld]
      /\ Answer(t, r, "CREATED", order)
      /\ UNCHANGED <<price, lastRewarded, snapshot>>
  BY DEF PaymentApproved, LockStep
<1>3. /\ r \in Requests /\ r.op = "checkout" /\ r.cart \in Carts /\ r.customer \in Customers
      /\ IsLines(held[t].lines) /\ held[t].coupon \in 0..Len(coupons) /\ order \in Nat
  BY <1>1, <1>2, ChargingFacts
<1>4. IsOrder(o)
  BY <1>1, <1>3 DEF IsOrder, OrderOf
<1> HIDE DEF r, order, o
<1>5. LockInv' /\ LockTypeOK' /\ [LockNext]_lockVars
  BY <1>1, <1>2, LockStepKeeps
<1>6. /\ asked'[t] = {} /\ at'[t] = NoLock
      /\ \A u \in Tasks : u # t => asked'[u] = asked[u] /\ at'[u] = at[u]
  BY <1>1, <1>2, LockRows
<1>7. InventoryTypeOK'
  BY <1>1, <1>2, <1>3, InventoryMovesConserve DEF InventoryMoves
<1>8. coupons' \in Seq(CouponRows) /\ Len(coupons') = Len(coupons)
  BY <1>1, <1>2, <1>3, CouponMoves
<1>9. (orders \in Seq({orders[i] : i \in DOMAIN orders}))' /\ (\A i \in DOMAIN orders : IsOrder(orders[i]))'
  <2>1. orders \in Seq({orders[i] : i \in DOMAIN orders})
    BY <1>1 DEF StoreTypeOK
  <2>2. /\ (orders \in Seq({orders[i] : i \in DOMAIN orders}))'
        /\ DOMAIN orders' = DOMAIN orders \union {Len(orders) + 1}
        /\ orders'[Len(orders) + 1] = o /\ \A i \in DOMAIN orders : orders'[i] = orders[i]
    <3> DEFINE log == Append(orders, o)
    <3>1. /\ log \in Seq({log[i] : i \in DOMAIN log})
          /\ Len(orders) \in Nat /\ DOMAIN orders = 1..Len(orders) /\ DOMAIN log = 1..(Len(orders) + 1)
          /\ log[Len(orders) + 1] = o /\ \A i \in DOMAIN orders : log[i] = orders[i]
      BY <2>1, GrowingLog
    <3> HIDE DEF log
    <3>2. orders' = log
      BY <1>2 DEF log
    <3>3. DOMAIN log = DOMAIN orders \union {Len(orders) + 1}
      BY <3>1
    <3> QED
      BY <3>1, <3>2, <3>3
  <2>3. (\A i \in DOMAIN orders : IsOrder(orders[i]))'
    BY <1>1, <1>4, <2>2 DEF StoreTypeOK, IsOrder, IsLines
  <2> QED
    BY <2>2, <2>3
<1>10. DOMAIN cart' = Carts /\ (\A c \in Carts : IsCart(cart[c]))'
  <2>1. /\ cart'[r.cart].items = cart[r.cart].items
        /\ cart'[r.cart] \in [state : {"ABSENT", "OPEN", "CHECKED_OUT"}, items : {cart[r.cart].items}]
    BY <1>1, <1>2, <1>3 DEF StoreTypeOK, IsCart
  <2>2. DOMAIN cart' = Carts /\ \A c \in Carts : c # r.cart => cart'[c] = cart[c]
    BY <1>1, <1>2 DEF StoreTypeOK
  <2> QED
    BY <2>1, <2>2, <1>1, <1>3 DEF StoreTypeOK, IsCart, IsLines
<1>11. StoreTypeOK'
  BY <1>1, <1>2, <1>7, <1>8, <1>9, <1>10 DEF StoreTypeOK, InventoryTypeOK
<1>12. records' \in [Carts \X Keys -> Records]
  BY <1>1, <1>2, <1>3, RecordMoves
<1>13. DOMAIN held' = Tasks /\ held'[t] = NothingHeld /\ \A u \in Tasks : u # t => held'[u] = held[u]
  BY <1>1, <1>2 DEF TypeOK
<1>14. \A u \in Tasks : /\ IsLines(snapshot'[u]) /\ IsLines(held'[u].lines)
                        /\ held'[u].coupon \in 0..Len(coupons')
  BY <1>1, <1>2, <1>8, <1>13, EmptyHands DEF TypeOK
<1>15. TypeOK'
  BY <1>1, <1>2, <1>3, <1>5, <1>11, <1>12, <1>13, <1>14, HandlerMoves DEF TypeOK
<1>16. TaskOK(t)'
  BY <1>1, <1>2, <1>3, <1>6, <1>13, HandlerMoves, AnsweredTask
<1>17. TasksOK'
  BY <1>1, <1>2, <1>3, <1>6, <1>13, <1>16, HandlerMoves, OneRowMoves
<1> QED
  BY <1>5, <1>15, <1>17 DEF Keeps, ShopInv

LEMMA CancelledWaitingKeeps ==
    ASSUME ShopInv, NEW t \in Tasks, CancelledWaiting(t)
    PROVE  Keeps
<1>1. /\ TypeOK /\ LockInv /\ TasksOK /\ StoreTypeOK /\ Len(coupons) \in Nat
      /\ records \in [Carts \X Keys -> Records]
  BY LenProperties DEF ShopInv, TypeOK, StoreTypeOK
<1>2. /\ Abort(t) /\ LockStep(t) /\ Waiting(t)
      /\ records' = IF req[t].op = "checkout" THEN Unclaimed(records, req[t]) ELSE records
      /\ snapshot' = [snapshot EXCEPT ![t] = NoItems]
      /\ Answer(t, req[t], "CANCELLED", NoOrder)
      /\ UNCHANGED <<storeVars, held>>
  BY DEF CancelledWaiting, LockStep, Abort
<1>3. held[t] = NothingHeld /\ req[t] \in Requests
  BY <1>2, WaitingTask
<1>4. LockInv' /\ LockTypeOK' /\ [LockNext]_lockVars
  BY <1>1, <1>2, LockStepKeeps
<1>5. /\ asked'[t] = {} /\ at'[t] = NoLock
      /\ \A u \in Tasks : u # t => asked'[u] = asked[u] /\ at'[u] = at[u]
  BY <1>1, <1>2, LockRows
<1>6. StoreTypeOK' /\ Len(coupons') = Len(coupons) /\ held' = held
  BY <1>1, <1>2, SameStore DEF storeVars
<1>7. records' \in [Carts \X Keys -> Records]
  BY <1>1, <1>2, <1>3, RecordMoves, 0 \in Nat
<1>8. TypeOK'
  BY <1>1, <1>2, <1>3, <1>4, <1>6, <1>7, HandlerMoves, RefusedRows DEF TypeOK
<1>9. TaskOK(t)'
  BY <1>1, <1>2, <1>3, <1>5, <1>6, HandlerMoves, AnsweredTask
<1>10. TasksOK'
  BY <1>1, <1>2, <1>3, <1>5, <1>6, <1>9, HandlerMoves, RefusedRows, OneRowMoves
<1> QED
  BY <1>4, <1>8, <1>10 DEF Keeps, ShopInv

-----------------------------------------------------------------------------
LEMMA ShopInitInv == Init => ShopInv
<1> SUFFICES ASSUME Init PROVE ShopInv
  OBVIOUS
<1>1. LockInv /\ LockTypeOK
  BY LockInitInv DEF Init, LockInv
<1>2. StoreTypeOK
  <2>1. IsCart([state |-> "ABSENT", items |-> NoItems])
    BY DEF IsCart, IsLines, NoItems
  <2>2. orders \in Seq({orders[i] : i \in DOMAIN orders}) /\ \A i \in DOMAIN orders : IsOrder(orders[i])
    BY DEF Init, StoreInit
  <2>3. DOMAIN cart = Carts /\ \A c \in Carts : IsCart(cart[c])
    BY <2>1 DEF Init, StoreInit
  <2>4. price \in [Products -> Nat] /\ InventoryTypeOK /\ lastRewarded \in Nat
    BY StoreAssumption DEF Init, StoreInit, InventoryTypeOK
  <2>5. coupons \in Seq(CouponRows)
    BY DEF Init, StoreInit
  <2> QED
    BY <2>2, <2>3, <2>4, <2>5 DEF StoreTypeOK, InventoryTypeOK
<1>3. coupons = <<>> /\ Len(coupons) = 0
  BY DEF Init, StoreInit
<1>4. records \in [Carts \X Keys -> Records]
  BY DEF Init, IdempotencyInit, NoRecord, Records
<1>5. TypeOK
  BY <1>1, <1>2, <1>3, <1>4, EmptyHands DEF Init, HandlersInit, CheckoutInit, TypeOK, NothingHeld
<1>6. TasksOK
  BY DEF Init, LockInit, HandlersInit, CheckoutInit, TasksOK, TaskOK, Idle, Charging, Waiting
<1> QED
  BY <1>1, <1>5, <1>6 DEF ShopInv

LEMMA ShopStepKeeps == ShopInv /\ [Next]_vars => Keeps
<1> SUFFICES ASSUME ShopInv, [Next]_vars PROVE Keeps
  OBVIOUS
<1>1. CASE UNCHANGED vars
  <2>1. LockInv' /\ LockTypeOK' /\ [LockNext]_lockVars
    BY <1>1, LocksUntouched DEF vars, ShopInv
  <2>2. StoreTypeOK'
    BY <1>1, SameStore DEF vars, ShopInv, TypeOK
  <2>3. TypeOK'
    BY <1>1, <2>1, <2>2 DEF vars, storeVars, checkoutVars, handlerVars, ShopInv, TypeOK, IsLines
  <2>4. TasksOK'
    BY <1>1 DEF vars, lockVars, checkoutVars, handlerVars, ShopInv, TasksOK, TaskOK, Idle, Charging,
                Waiting, CheckoutLocks, CheckoutRequests
  <2> QED
    BY <2>1, <2>3, <2>4 DEF Keeps, ShopInv
<1>2. CASE \E t \in Tasks : TaskStep(t)
  <2>1. PICK t \in Tasks : TaskStep(t)
    BY <1>2
  <2>2. ASSUME NEW r \in Requests, Receive(t, r) PROVE Keeps
    BY <2>2, CartRequestKeeps, GenerateRequestKeeps, CheckoutRequestKeeps DEF Receive
  <2>3. CASE Wake(t)
    BY <2>3, CartResumeKeeps, GenerateResumeKeeps, CheckoutResumeKeeps DEF Wake
  <2>4. CASE GatewayAnswers(t)
    BY <2>4, PaymentApprovedKeeps, ChargeFailsKeeps DEF GatewayAnswers, PaymentDeclined
  <2>5. CASE Cancel(t)
    BY <2>5, ChargeFailsKeeps, CancelledWaitingKeeps DEF Cancel, ChargeCancelled
  <2> QED
    BY <2>1, <2>2, <2>3, <2>4, <2>5 DEF TaskStep
<1>3. ASSUME NEW c \in Carts, CreateCart(c), UnchangedCheckouts PROVE Keeps
  BY <1>3, CreateCartKeeps
<1>4. ASSUME NEW p \in Products, NEW amount \in Prices, ChangePrice(p, amount) PROVE Keeps
  BY <1>4, ChangePriceKeeps
<1> QED
  BY <1>1, <1>2, <1>3, <1>4 DEF Next

(***************************************************************************)
(* ShopInv holds in every reachable state, whatever clients send, the      *)
(* gateway answers and the server cancels.                                 *)
(***************************************************************************)
THEOREM ShopInvariance == Spec => []ShopInv
<1>1. Init => ShopInv
  BY ShopInitInv
<1>2. ShopInv /\ [Next]_vars => ShopInv'
  BY ShopStepKeeps DEF Keeps
<1> QED
  BY <1>1, <1>2, PTL DEF Spec

(***************************************************************************)
(* Every variable of the service keeps its type; in particular no counter  *)
(* of the inventory ever goes below zero.                                  *)
(***************************************************************************)
THEOREM TypeCorrect == Spec => []TypeOK
<1>1. ShopInv => TypeOK
  BY DEF ShopInv
<1> QED
  BY <1>1, ShopInvariance, PTL

(***************************************************************************)
(* The services use the locks as LockManager says they are used: every     *)
(* step of the shop is a step of the lock protocol or leaves the locks     *)
(* alone, so what is proved about the locks holds in the shop.             *)
(***************************************************************************)
THEOREM ShopUsesTheLocks == Spec => LockSpec
<1>1. Init => LockInit
  BY DEF Init
<1>2. ShopInv /\ [Next]_vars => [LockNext]_lockVars
  BY ShopStepKeeps DEF Keeps
<1> QED
  BY <1>1, <1>2, ShopInvariance, PTL DEF Spec, LockSpec

-----------------------------------------------------------------------------
(* What the locks buy: the body of an `async with` runs alone on its locks. *)
LEMMA ChargingOwns ==
    ASSUME ShopInv, NEW t \in Tasks, Charging(t)
    PROVE  /\ owner[LedgerLock] = t /\ owner[CartLock(req[t].cart)] = t
           /\ \A p \in DOMAIN held[t].lines : owner[ProductLock(p)] = t
<1>1. /\ req[t].cart \in Carts /\ ~Waiting(t) /\ IsLines(held[t].lines)
      /\ asked[t] = CheckoutLocks(req[t], held[t].lines)
  BY ChargingFacts
<1>2. /\ LedgerLock \in asked[t] /\ CartLock(req[t].cart) \in asked[t]
      /\ \A p \in DOMAIN held[t].lines : ProductLock(p) \in asked[t]
      /\ asked[t] \subseteq Locks
  BY <1>1, CheckoutList, ListsAreOrdered
<1> QED
  BY <1>1, <1>2 DEF ShopInv, LockInv, HoldsWhatItPassed

LEMMA BodyRunsAlone ==
    ASSUME ShopInv, NEW u \in Tasks, NEW l,
           \/ \E L : l \in L /\ (Pass(u, L) \/ Hold(u, L))
           \/ l \in asked[u] /\ (ResumePass(u) \/ ResumeHold(u))
    PROVE  \A t \in Tasks : Charging(t) => owner[l] # t
<1>1. CASE \E L : l \in L /\ (Pass(u, L) \/ Hold(u, L))
  BY <1>1, NullsAreFresh DEF Pass, Hold, AllFree, Free
<1>2. CASE l \in asked[u] /\ (ResumePass(u) \/ ResumeHold(u))
  <2>1. LockInv /\ Woken(u) /\ Waiting(u) /\ \A m \in Rest(u) : owner[m] = Nobody
    BY <1>2 DEF ShopInv, ResumePass, ResumeHold, AllFree, Free, Woken
  <2>2. held[u] = NothingHeld
    BY <2>1, WaitingTask
  <2>3. at[u] \in asked[u] /\ owner[at[u]] = Nobody /\ asked[u] \subseteq Locks
    BY <2>1, WokenFacts, ListsAreOrdered
  <2>4. Precedes(l, at[u]) \/ l = at[u] \/ l \in Rest(u)
    BY <1>2, <2>1, <2>3, ListSplits DEF Waiting
  <2>5. owner[l] \in {Nobody, u}
    BY <1>2, <2>1, <2>3, <2>4 DEF LockInv, HoldsWhatItPassed
  <2> QED
    BY <2>2, <2>5, NullsAreFresh DEF Charging
<1> QED
  BY <1>1, <1>2

LEMMA OneCharges ==
    ASSUME ShopInv, NEW t \in Tasks, NEW u \in Tasks, Charging(t), Charging(u)
    PROVE  t = u
<1>1. owner[LedgerLock] = t /\ owner[LedgerLock] = u
  BY ChargingOwns
<1> QED
  BY <1>1

(***************************************************************************)
(* The kinds of steps of the shop, with what the locks say about them.     *)
(***************************************************************************)
NobodyCharges == \A t \in Tasks : ~Charging(t)

Still(t, r) == /\ ~Charging(t) /\ UNCHANGED <<storeVars, held>>
               /\ \/ Suspend(t, r)
                  \/ \E code, order : code # "COUPON_IN_USE" /\ Answer(t, r, code, order)

Edits(t, r) == /\ r.op \in CartOps /\ (r.op # "reprice" => r.product \in Products)
               /\ ~Charging(t) /\ MutateCart(t, r) /\ held' = held
               /\ \A u \in Tasks : Charging(u) => req[u].cart # r.cart

Generates(t, r) == ~Charging(t) /\ GenerateLocked(t, r) /\ held' = held

Refuses(t, r) == r.op = "checkout" /\ NobodyCharges /\ \E seen : Refuse(t, r, seen)

Charges(t, r) == r.op = "checkout" /\ NobodyCharges /\ \E seen : Charge(t, r, seen)

StepKind ==
    \/ \E t \in Tasks, r \in Requests : \/ Still(t, r) \/ Edits(t, r) \/ Generates(t, r)
                                        \/ Refuses(t, r) \/ Charges(t, r)
    \/ \E t \in Tasks : PaymentApproved(t) \/ \E code : code # "COUPON_IN_USE" /\ ChargeFails(t, code)
    \/ \E c \in Carts : CreateCart(c) /\ UnchangedCheckouts
    \/ \E p \in Products, amount \in Prices : ChangePrice(p, amount)
    \/ UNCHANGED vars

LEMMA CartKinds ==
    ASSUME ShopInv, NEW t \in Tasks, NEW r \in Requests, UnchangedCheckouts,
           CartRequest(t, r) \/ (CartResume(t) /\ r = req[t])
    PROVE  Still(t, r) \/ Edits(t, r)
<1>1. r.op \in CartOps /\ TypeOK /\ LockInv /\ held' = held
  BY DEF CartRequest, CartResume, ShopInv, UnchangedCheckouts
<1>2. ~Charging(t)
  <2>1. CASE Idle(t)
    BY <2>1, IdleTask DEF Charging
  <2>2. CASE Waiting(t)
    BY <2>2, WaitingTask DEF Charging
  <2> QED
    BY <2>1, <2>2 DEF CartRequest, CartResume, ResumeBlock, ResumePass, Woken
<1>3. CASE UNCHANGED storeVars /\ Suspend(t, r)
  BY <1>1, <1>2, <1>3 DEF Still
<1>4. CASE UNCHANGED storeVars /\ Answer(t, r, EarlyError(r), NoOrder)
  <2>1. EarlyError(r) # "COUPON_IN_USE"
    BY DEF EarlyError
  <2> QED
    BY <1>1, <1>2, <1>4, <2>1 DEF Still
<1>5. ASSUME MutateCart(t, r), r.op # "reprice" => r.product \in Products,
             \A u \in Tasks : Charging(u) => owner[CartLock(r.cart)] # u
      PROVE  Edits(t, r)
  <2>1. \A u \in Tasks : Charging(u) => owner[CartLock(req[u].cart)] = u
    BY ChargingOwns
  <2> QED
    BY <1>1, <1>2, <1>5, <2>1 DEF Edits
<1>6. CASE EarlyError(r) = "OK" /\ Pass(t, CartLocks(r)) /\ MutateCart(t, r)
  <2>1. CartLock(r.cart) \in CartLocks(r) /\ (r.op # "reprice" => r.product \in Products)
    BY <1>1, <1>6, CartList
  <2> QED
    BY <1>5, <1>6, <2>1, BodyRunsAlone
<1>7. CASE r = req[t] /\ ResumePass(t) /\ MutateCart(t, r)
  <2>1. Waiting(t)
    BY <1>7 DEF ResumePass, Woken
  <2>2. CartLock(r.cart) \in asked[t] /\ (r.op # "reprice" => r.product \in Products)
    BY <1>1, <1>7, <2>1 DEF ShopInv, TasksOK, TaskOK
  <2> QED
    BY <1>5, <1>7, <2>2, BodyRunsAlone
<1> QED
  BY <1>3, <1>4, <1>6, <1>7 DEF CartRequest, CartResume

LEMMA CheckoutKinds ==
    ASSUME ShopInv, NEW t \in Tasks, NEW r \in Requests,
           CheckoutRequest(t, r) \/ (CheckoutResume(t) /\ r = req[t])
    PROVE  Still(t, r) \/ Refuses(t, r) \/ Charges(t, r)
<1>1. r.op = "checkout" /\ TypeOK /\ LockInv /\ r.cart \in Carts
  BY RequestFacts DEF CheckoutRequest, CheckoutResume, ShopInv
<1>2. ~Charging(t)
  <2>1. CASE Idle(t)
    BY <2>1, IdleTask DEF Charging
  <2>2. CASE Waiting(t)
    BY <2>2, WaitingTask DEF Charging
  <2> QED
    BY <2>1, <2>2 DEF CheckoutRequest, CheckoutResume, ResumeBlock, ResumePass, ResumeHold, Woken
<1>3. ASSUME UNCHANGED <<storeVars, held>>,
             Suspend(t, r) \/ \E code, order : code # "COUPON_IN_USE" /\ Answer(t, r, code, order)
      PROVE  Still(t, r)
  BY <1>2, <1>3 DEF Still
<1>4. ASSUME \A u \in Tasks : Charging(u) => owner[LedgerLock] # u
      PROVE  NobodyCharges
  BY <1>4, ChargingOwns DEF NobodyCharges
<1>5. CASE CheckoutRequest(t, r)
  <2> DEFINE seen  == cart[r.cart].items
             locks == CheckoutLocks(r, seen)
  <2>1. LedgerLock \in locks
    BY <1>1, CheckoutList DEF TypeOK, StoreTypeOK, IsCart
  <2> HIDE DEF seen, locks
  <2>2. CASE AnsweredFromTheRecord(t, r)
    BY <2>2, <1>3 DEF AnsweredFromTheRecord, checkoutVars
  <2>3. CASE Answer(t, r, "CART_NOT_FOUND", NoOrder) /\ UNCHANGED <<lockVars, storeVars, checkoutVars>>
    BY <2>3, <1>3 DEF checkoutVars
  <2>4. CASE Suspend(t, r) /\ UNCHANGED <<storeVars, held>>
    BY <2>4, <1>3
  <2>5. CASE Pass(t, locks) /\ Refuse(t, r, seen)
    BY <2>5, <2>1, <1>1, <1>4, BodyRunsAlone DEF Refuses
  <2>6. CASE Hold(t, locks) /\ Charge(t, r, seen)
    BY <2>6, <2>1, <1>1, <1>4, BodyRunsAlone DEF Charges
  <2> QED
    BY <1>5, <2>2, <2>3, <2>4, <2>5, <2>6 DEF CheckoutRequest, seen, locks
<1>6. CASE CheckoutResume(t) /\ r = req[t]
  <2>1. Waiting(t)
    BY <1>6 DEF CheckoutResume, ResumeBlock, ResumePass, ResumeHold, Woken
  <2>2. LedgerLock \in asked[t]
    BY <1>1, <1>6, <2>1, CheckoutList DEF ShopInv, TasksOK, TaskOK, TypeOK
  <2>3. CASE Suspend(t, r) /\ UNCHANGED <<storeVars, records, checkoutVars>>
    BY <2>3, <1>3 DEF checkoutVars
  <2>4. CASE ResumePass(t) /\ Refuse(t, r, snapshot[t])
    BY <2>4, <2>2, <1>1, <1>4, BodyRunsAlone DEF Refuses
  <2>5. CASE ResumeHold(t) /\ Charge(t, r, snapshot[t])
    BY <2>5, <2>2, <1>1, <1>4, BodyRunsAlone DEF Charges
  <2> QED
    BY <1>6, <2>3, <2>4, <2>5 DEF CheckoutResume
<1> QED
  BY <1>5, <1>6

LEMMA GenerateKinds ==
    ASSUME ShopInv, NEW t \in Tasks, NEW r \in Requests, UnchangedCheckouts,
           GenerateRequest(t, r) \/ (GenerateResume(t) /\ r = req[t])
    PROVE  Still(t, r) \/ Generates(t, r)
<1>1. ~Charging(t)
  <2>1. CASE Idle(t)
    BY <2>1, IdleTask DEF Charging
  <2>2. CASE Waiting(t)
    BY <2>2, WaitingTask DEF Charging
  <2> QED
    BY <2>1, <2>2 DEF GenerateRequest, GenerateResume, ResumePass, Woken
<1> QED
  BY <1>1 DEF GenerateRequest, GenerateResume, Still, Generates, UnchangedCheckouts

LEMMA StepKinds == ShopInv /\ [Next]_vars => StepKind
<1> SUFFICES ASSUME ShopInv, Next PROVE StepKind
  BY DEF StepKind
<1>1. CASE \E t \in Tasks : TaskStep(t)
  <2>1. PICK t \in Tasks : TaskStep(t)
    BY <1>1
  <2>2. ASSUME NEW r \in Requests, Receive(t, r) PROVE StepKind
    BY <2>2, CartKinds, GenerateKinds, CheckoutKinds DEF Receive, StepKind
  <2>3. CASE Wake(t)
    <3>1. Waiting(t)
      BY <2>3 DEF Wake, CartResume, GenerateResume, CheckoutResume, ResumeBlock, ResumePass,
                  ResumeHold, Woken
    <3>2. req[t] \in Requests
      BY <3>1, WaitingTask
    <3> QED
      BY <2>3, <3>2, CartKinds, GenerateKinds, CheckoutKinds DEF Wake, StepKind
  <2>4. CASE GatewayAnswers(t)
    BY <2>4 DEF GatewayAnswers, PaymentDeclined, StepKind
  <2>5. CASE ChargeCancelled(t)
    BY <2>5 DEF ChargeCancelled, StepKind
  <2>6. CASE CancelledWaiting(t)
    <3>1. Waiting(t)
      BY <2>6 DEF CancelledWaiting, Abort
    <3>2. req[t] \in Requests /\ ~Charging(t)
      BY <3>1, WaitingTask DEF Charging
    <3>3. Answer(t, req[t], "CANCELLED", NoOrder) /\ UNCHANGED <<storeVars, held>>
      BY <2>6 DEF CancelledWaiting
    <3>4. Still(t, req[t])
      BY <3>2, <3>3 DEF Still
    <3> QED
      BY <3>2, <3>4 DEF StepKind
  <2> QED
    BY <2>1, <2>2, <2>3, <2>4, <2>5, <2>6 DEF TaskStep, Cancel
<1>2. ASSUME NEW c \in Carts, CreateCart(c), UnchangedCheckouts PROVE StepKind
  BY <1>2 DEF StepKind
<1>3. ASSUME NEW p \in Products, NEW amount \in Prices, ChangePrice(p, amount) PROVE StepKind
  BY <1>3 DEF StepKind
<1> QED
  BY <1>1, <1>2, <1>3 DEF Next

-----------------------------------------------------------------------------
(* Inventory. *)
LEMMA InventorySteps ==
    ASSUME ShopInv, [Next]_vars
    PROVE  \/ UNCHANGED inventory
           \/ \E lines : IsLines(lines) /\ InventoryMoves(lines)
<1>1. TypeOK /\ StepKind
  BY StepKinds DEF ShopInv
<1>2. ASSUME NEW t \in Tasks, NEW r \in Requests, Still(t, r) \/ Edits(t, r) \/ Generates(t, r)
      PROVE  UNCHANGED inventory
  BY <1>2 DEF Still, Edits, Generates, MutateCart, UnchangedButCarts, GenerateLocked, storeVars, inventory
<1>3. ASSUME NEW t \in Tasks, NEW r \in Requests, Refuses(t, r) \/ Charges(t, r)
      PROVE  \E lines : IsLines(lines) /\ InventoryMoves(lines)
  BY <1>1, <1>3, RefuseTypes, ChargeTypes DEF Refuses, Charges, InventoryMoves
<1>4. ASSUME NEW t \in Tasks, PaymentApproved(t) \/ \E code : ChargeFails(t, code)
      PROVE  \E lines : IsLines(lines) /\ InventoryMoves(lines)
  BY <1>4, ChargingFacts DEF PaymentApproved, ChargeFails, InventoryMoves
<1>5. ASSUME NEW c \in Carts, CreateCart(c) PROVE UNCHANGED inventory
  BY <1>5 DEF CreateCart, UnchangedButCarts, inventory
<1>6. ASSUME NEW p \in Products, NEW amount \in Prices, ChangePrice(p, amount) PROVE UNCHANGED inventory
  BY <1>6 DEF ChangePrice, inventory
<1>7. CASE UNCHANGED vars
  BY <1>7 DEF vars, storeVars, inventory
<1> QED
  BY <1>1, <1>2, <1>3, <1>4, <1>5, <1>6, <1>7 DEF StepKind

(***************************************************************************)
(* I1: available + reserved + sold is the seeded stock of every product,   *)
(* through refusals half way, declines and cancellations.                  *)
(***************************************************************************)
THEOREM StockConservation == Spec => []StockIsConserved
<1>1. Init => StockIsConserved
  <2> SUFFICES ASSUME Init, NEW p \in Products
               PROVE  available[p] + reserved[p] + sold[p] = StockTotal[p]
    BY DEF StockIsConserved
  <2>1. available[p] = StockTotal[p] /\ reserved[p] = 0 /\ sold[p] = 0
    BY DEF Init, StoreInit
  <2>2. StockTotal[p] \in Nat
    BY StoreAssumption
  <2> QED
    BY <2>1, <2>2
<1>2. ShopInv /\ StockIsConserved /\ [Next]_vars => StockIsConserved'
  <2> SUFFICES ASSUME ShopInv, StockIsConserved, [Next]_vars PROVE StockIsConserved'
    OBVIOUS
  <2>1. CASE UNCHANGED inventory
    BY <2>1 DEF StockIsConserved, inventory
  <2>2. ASSUME NEW lines, IsLines(lines), InventoryMoves(lines) PROVE StockIsConserved'
    <3>1. InventoryTypeOK
      BY DEF ShopInv, TypeOK, StoreTypeOK, InventoryTypeOK
    <3> QED
      BY <2>2, <3>1, InventoryMovesConserve DEF StockIsConserved
  <2> QED
    BY <2>1, <2>2, InventorySteps
<1> QED
  BY <1>1, <1>2, ShopInvariance, PTL DEF Spec

-----------------------------------------------------------------------------
(* The cart under payment. *)
IsFrozen(t) == Charging(t) => /\ cart[req[t].cart].state = "OPEN"
                              /\ cart[req[t].cart].items = held[t].lines

Frozen == \A t \in Tasks : IsFrozen(t)

LEMMA FrozenKept ==
    ASSUME Frozen, NEW t \in Tasks, IsFrozen(t)',
           \A u \in Tasks : u # t => req'[u] = req[u] /\ held'[u] = held[u],
           \A u \in Tasks : u # t /\ Charging(u) => cart'[req[u].cart] = cart[req[u].cart]
    PROVE  Frozen'
BY DEF Frozen, IsFrozen, Charging

LEMMA FrozenStep == ShopInv /\ Frozen /\ [Next]_vars => Frozen'
<1> SUFFICES ASSUME ShopInv, Frozen, [Next]_vars PROVE Frozen'
  OBVIOUS
<1>1. TypeOK /\ StepKind /\ StoreTypeOK
  BY StepKinds DEF ShopInv, TypeOK
<1>2. ASSUME NEW t \in Tasks, NEW r \in Requests, Still(t, r) PROVE Frozen'
  <2>1. cart' = cart /\ held' = held /\ ~Charging(t)
    BY <1>2 DEF Still, storeVars
  <2>2. \A u \in Tasks : u # t => req'[u] = req[u]
    BY <1>1, <1>2, HandlerMoves DEF Still
  <2> QED
    BY <2>1, <2>2, FrozenKept DEF IsFrozen, Charging
<1>3. ASSUME NEW t \in Tasks, NEW r \in Requests, Edits(t, r) PROVE Frozen'
  <2>1. held' = held /\ ~Charging(t) /\ \A u \in Tasks : Charging(u) => req[u].cart # r.cart
    BY <1>3 DEF Edits
  <2>2. \A u \in Tasks : u # t => req'[u] = req[u]
    BY <1>1, <1>3, HandlerMoves DEF Edits, MutateCart
  <2>3. \A c \in Carts : c # r.cart => cart'[c] = cart[c]
    BY <1>1, <1>3 DEF Edits, MutateCart, StoreTypeOK
  <2>4. \A u \in Tasks : Charging(u) => cart'[req[u].cart] = cart[req[u].cart]
    BY <2>1, <2>3, ChargingFacts
  <2> QED
    BY <2>1, <2>2, <2>4, FrozenKept DEF IsFrozen, Charging
<1>4. ASSUME NEW t \in Tasks, NEW r \in Requests, Generates(t, r) PROVE Frozen'
  <2>1. cart' = cart /\ held' = held /\ ~Charging(t)
    BY <1>4 DEF Generates, GenerateLocked
  <2>2. \A u \in Tasks : u # t => req'[u] = req[u]
    BY <1>1, <1>4, HandlerMoves, GenerateTypes DEF Generates
  <2> QED
    BY <2>1, <2>2, FrozenKept DEF IsFrozen, Charging
<1>5. ASSUME NEW t \in Tasks, NEW r \in Requests, Refuses(t, r) PROVE Frozen'
  <2>1. held' = held /\ NobodyCharges
    BY <1>1, <1>5, RefuseTypes DEF Refuses
  <2> QED
    BY <2>1 DEF Frozen, IsFrozen, Charging, NobodyCharges
<1>6. ASSUME NEW t \in Tasks, NEW r \in Requests, Charges(t, r) PROVE Frozen'
  <2>1. PICK seen : Charge(t, r, seen)
    BY <1>6 DEF Charges
  <2>2. /\ held' = [held EXCEPT ![t] = HeldBy(r, seen)] /\ HeldBy(r, seen).lines = seen
        /\ cart' = cart /\ Suspend(t, r) /\ cart[r.cart].state = "OPEN" /\ cart[r.cart].items = seen
    BY <1>1, <1>6, <2>1, ChargeTypes DEF Charges
  <2>3. held'[t] = HeldBy(r, seen) /\ \A u \in Tasks : u # t => held'[u] = held[u]
    BY <1>1, <2>2 DEF TypeOK
  <2>4. req'[t] = r /\ \A u \in Tasks : u # t => req'[u] = req[u]
    BY <1>1, <2>2, HandlerMoves
  <2>5. IsFrozen(t)'
    BY <2>2, <2>3, <2>4 DEF IsFrozen
  <2> QED
    BY <2>2, <2>3, <2>4, <2>5, FrozenKept
<1>7. ASSUME NEW t \in Tasks, PaymentApproved(t) \/ \E code : ChargeFails(t, code) PROVE Frozen'
  <2>1. Charging(t) /\ held' = [held EXCEPT ![t] = NothingHeld]
    BY <1>7 DEF PaymentApproved, ChargeFails
  <2>2. held'[t] = NothingHeld /\ \A u \in Tasks : u # t => held'[u] = held[u]
    BY <1>1, <2>1 DEF TypeOK
  <2>3. \A u \in Tasks : u # t => ~Charging(u)
    BY <2>1, OneCharges
  <2> QED
    BY <2>2, <2>3 DEF Frozen, IsFrozen, Charging
<1>8. ASSUME NEW c \in Carts, CreateCart(c), UnchangedCheckouts PROVE Frozen'
  <2>1. /\ held' = held /\ req' = req /\ cart[c].state = "ABSENT"
        /\ \A d \in Carts : d # c => cart'[d] = cart[d]
    BY <1>1, <1>8 DEF CreateCart, UnchangedCheckouts, Exists, StoreTypeOK
  <2> QED
    BY <2>1, ChargingFacts DEF Frozen, IsFrozen, Charging
<1>9. ASSUME NEW p \in Products, NEW amount \in Prices, ChangePrice(p, amount) PROVE Frozen'
  BY <1>9 DEF ChangePrice, checkoutVars, Frozen, IsFrozen, Charging
<1>10. CASE UNCHANGED vars
  BY <1>10 DEF vars, storeVars, handlerVars, checkoutVars, Frozen, IsFrozen, Charging
<1> QED
  BY <1>1, <1>2, <1>3, <1>4, <1>5, <1>6, <1>7, <1>8, <1>9, <1>10 DEF StepKind

(***************************************************************************)
(* A cart cannot be edited, repriced or checked out a second time while a  *)
(* payment for it is pending, and its products stay locked.                *)
(***************************************************************************)
THEOREM PaidCartStaysFrozen == Spec => []PaidCartIsFrozen
<1>1. Init => Frozen
  BY DEF Init, CheckoutInit, Frozen, IsFrozen, Charging
<1>2. ShopInv /\ Frozen /\ [Next]_vars => Frozen'
  BY FrozenStep
<1>3. ShopInv /\ Frozen => PaidCartIsFrozen
  <2> SUFFICES ASSUME ShopInv, Frozen, NEW t \in Tasks, Charging(t)
               PROVE  /\ cart[req[t].cart] = [state |-> "OPEN", items |-> held[t].lines]
                      /\ \A p \in DOMAIN held[t].lines : owner[ProductLock(p)] = t
    BY DEF PaidCartIsFrozen
  <2>1. cart[req[t].cart].state = "OPEN" /\ cart[req[t].cart].items = held[t].lines
    BY DEF Frozen, IsFrozen
  <2>2. IsCart(cart[req[t].cart])
    BY ChargingFacts DEF ShopInv, TypeOK, StoreTypeOK
  <2> QED
    BY <2>1, <2>2, ChargingOwns DEF IsCart
<1> QED
  BY <1>1, <1>2, <1>3, ShopInvariance, PTL DEF Spec

-----------------------------------------------------------------------------
(* The coupon ledger. *)
ReservedByACharge(k) == coupons[k].state = "RESERVED" => \E t \in Tasks : Charging(t) /\ held[t].coupon = k

LedgerInv == /\ reply.code # "COUPON_IN_USE"
             /\ \A k \in DOMAIN coupons : ReservedByACharge(k)

(* Ledger cs is the current one with coupon `code`, if any, moved to state s. *)
Moved(cs, code, s) ==
    /\ DOMAIN cs = DOMAIN coupons
    /\ \A k \in DOMAIN coupons : cs[k].state = IF k = code THEN s ELSE coupons[k].state

LEMMA MovedCoupon ==
    ASSUME coupons \in Seq(CouponRows), NEW code \in 0..Len(coupons), NEW order \in Nat
    PROVE  /\ Moved(WithReserved(coupons, code), code, "RESERVED")
           /\ Moved(WithReleased(coupons, code), code, "AVAILABLE")
           /\ Moved(WithReleased(WithReserved(coupons, code), code), code, "AVAILABLE")
           /\ Moved(WithRedeemed(coupons, code, order), code, "REDEEMED")
<1>1. Len(coupons) \in Nat /\ DOMAIN coupons = 1..Len(coupons) /\ 0 \notin DOMAIN coupons
  BY LenProperties
<1>2. \A k \in DOMAIN coupons : coupons[k] \in CouponRows
  BY <1>1, ElementOfSeq
<1>3. CASE code = NoCoupon
  BY <1>1, <1>3 DEF Moved, WithReserved, WithReleased, WithRedeemed, NoCoupon
<1>4. CASE code # NoCoupon
  <2>1. code \in DOMAIN coupons
    BY <1>1, <1>4 DEF NoCoupon
  <2> QED
    BY <1>1, <1>2, <1>4, <2>1 DEF Moved, WithReserved, WithReleased, WithRedeemed, CouponRows
<1> QED
  BY <1>3, <1>4

LEMMA RefusedLedger ==
    ASSUME ShopInv, NEW t \in Tasks, NEW r \in Requests, Refuses(t, r),
           \A k \in DOMAIN coupons : coupons[k].state # "RESERVED"
    PROVE  /\ DOMAIN coupons' = DOMAIN coupons
           /\ \A k \in DOMAIN coupons' : coupons'[k].state # "RESERVED"
           /\ reply'.code # "COUPON_IN_USE"
<1> DEFINE lines == cart[r.cart].items
           coupon == CouponError(r.coupon, r.customer)
<1>1. /\ coupons \in Seq(CouponRows) /\ Len(coupons) \in Nat /\ DOMAIN coupons = 1..Len(coupons)
      /\ r.coupon \in Nat
  BY LenProperties, RequestFacts DEF ShopInv, TypeOK, StoreTypeOK, Refuses
<1>2. coupon # "COUPON_IN_USE"
  BY DEF CouponError
<1>3. \A seen : VerifyError(r, seen) # "COUPON_IN_USE"
  BY DEF VerifyError
<1>4. NoCoupon \in 0..Len(coupons) /\ (coupon = "OK" => r.coupon \in 0..Len(coupons))
  BY <1>1, AcceptedCoupon DEF NoCoupon
<1>5. PICK code \in 0..Len(coupons) : \E error, got :
        error # "COUPON_IN_USE" /\ RefuseHolding(t, r, error, got, code)
  <2>1. PICK seen : Refuse(t, r, seen)
    BY DEF Refuses
  <2>2. \/ \E error : error # "COUPON_IN_USE" /\ RefuseHolding(t, r, error, NoItems, NoCoupon)
        \/ \E P \in SUBSET DOMAIN lines :
             RefuseHolding(t, r, "INSUFFICIENT_INVENTORY", [p \in P |-> lines[p]], NoCoupon)
        \/ \E error : error # "COUPON_IN_USE" /\ RefuseHolding(t, r, error, lines, NoCoupon)
        \/ coupon = "OK" /\ RefuseHolding(t, r, "INTERNAL_ERROR", lines, r.coupon)
    <3> HIDE DEF coupon
    <3> QED
      BY <2>1, <1>2, <1>3 DEF Refuse, coupon
  <2> HIDE DEF lines, coupon
  <2>3. "INSUFFICIENT_INVENTORY" # "COUPON_IN_USE" /\ "INTERNAL_ERROR" # "COUPON_IN_USE"
    OBVIOUS
  <2> QED
    BY <2>2, <2>3, <1>4
<1>6. coupons' = WithReleased(WithReserved(coupons, code), code) /\ reply'.code # "COUPON_IN_USE"
  BY <1>5 DEF RefuseHolding, Recorded, Answer
<1>7. Moved(coupons', code, "AVAILABLE")
  BY <1>1, <1>6, MovedCoupon
<1> QED
  BY <1>6, <1>7 DEF Moved

LEMMA LedgerStep == ShopInv /\ LedgerInv /\ [Next]_vars => LedgerInv'
<1> SUFFICES ASSUME ShopInv, LedgerInv, [Next]_vars PROVE LedgerInv'
  OBVIOUS
<1>1. /\ TypeOK /\ StepKind /\ StoreTypeOK /\ coupons \in Seq(CouponRows)
      /\ Len(coupons) \in Nat /\ DOMAIN coupons = 1..Len(coupons)
  BY StepKinds, LenProperties DEF ShopInv, TypeOK, StoreTypeOK
<1>2. ASSUME coupons' = coupons, held' = held, reply'.code # "COUPON_IN_USE" PROVE LedgerInv'
  BY <1>2 DEF LedgerInv, ReservedByACharge, Charging
<1>3. ASSUME NEW t \in Tasks, NEW r \in Requests, Still(t, r) PROVE LedgerInv'
  <2>1. coupons' = coupons /\ held' = held
    BY <1>3 DEF Still, storeVars
  <2>2. reply'.code # "COUPON_IN_USE"
    BY <1>3 DEF Still, Suspend, Answer, NoReply
  <2> QED
    BY <1>2, <2>1, <2>2
<1>4. ASSUME NEW t \in Tasks, NEW r \in Requests, Edits(t, r) PROVE LedgerInv'
  <2>1. coupons' = coupons /\ held' = held /\ Answer(t, r, CartError(r), NoOrder)
    BY <1>4 DEF Edits, MutateCart, UnchangedButCarts
  <2>2. CartError(r) # "COUPON_IN_USE"
    BY DEF CartError
  <2> QED
    BY <1>2, <2>1, <2>2 DEF Answer
<1>5. ASSUME NEW t \in Tasks, NEW r \in Requests, Generates(t, r) PROVE LedgerInv'
  <2>1. held' = held /\ reply'.code # "COUPON_IN_USE"
    BY <1>5 DEF Generates, GenerateLocked, Answer
  <2>2. CASE UNCHANGED coupons
    BY <1>2, <2>1, <2>2
  <2>3. CASE Mint(NextMilestone)
    <3>1. PICK row : coupons' = Append(coupons, row) /\ row.state = "AVAILABLE"
      BY <2>3 DEF Mint, Minted
    <3>2. coupons \in Seq({coupons[i] : i \in DOMAIN coupons})
      BY <1>1, IsASeq
    <3> DEFINE log == Append(coupons, row)
    <3>3. /\ DOMAIN log = 1..(Len(coupons) + 1)
          /\ log[Len(coupons) + 1] = row /\ \A i \in DOMAIN coupons : log[i] = coupons[i]
      BY <3>2, GrowingLog
    <3> HIDE DEF log
    <3>4. coupons' = log
      BY <3>1 DEF log
    <3>5. DOMAIN log = DOMAIN coupons \union {Len(coupons) + 1}
      BY <3>3, <1>1
    <3> QED
      BY <2>1, <3>1, <3>3, <3>4, <3>5 DEF LedgerInv, ReservedByACharge, Charging
  <2> QED
    BY <1>5, <2>2, <2>3 DEF Generates, GenerateLocked
<1>6. NobodyCharges => \A k \in DOMAIN coupons : coupons[k].state # "RESERVED"
  BY DEF LedgerInv, ReservedByACharge, NobodyCharges
<1>7. ASSUME NEW t \in Tasks, NEW r \in Requests, Refuses(t, r) PROVE LedgerInv'
  <2>1. NobodyCharges
    BY <1>7 DEF Refuses
  <2> QED
    BY <1>6, <1>7, <2>1, RefusedLedger DEF LedgerInv, ReservedByACharge
<1>8. ASSUME NEW t \in Tasks, NEW r \in Requests, Charges(t, r) PROVE LedgerInv'
  <2>1. PICK seen : Charge(t, r, seen)
    BY <1>8 DEF Charges
  <2> DEFINE h == HeldBy(r, seen)
  <2>2. /\ held' = [held EXCEPT ![t] = h] /\ h.coupon = r.coupon /\ h # NothingHeld
        /\ coupons' = WithReserved(coupons, r.coupon) /\ r.coupon \in 0..Len(coupons) /\ Suspend(t, r)
    BY <1>1, <1>8, <2>1, ChargeTypes DEF Charges
  <2> HIDE DEF h
  <2>3. held'[t] = h
    BY <1>1, <2>2 DEF TypeOK
  <2>4. \A k \in DOMAIN coupons : coupons[k].state # "RESERVED"
    BY <1>6, <1>8 DEF Charges
  <2>5. /\ DOMAIN coupons' = DOMAIN coupons
        /\ \A k \in DOMAIN coupons : coupons'[k].state = IF k = r.coupon THEN "RESERVED" ELSE coupons[k].state
    <3>1. Moved(coupons', r.coupon, "RESERVED")
      BY <1>1, <2>2, MovedCoupon
    <3> QED
      BY <3>1 DEF Moved
  <2>6. reply'.code # "COUPON_IN_USE"
    BY <2>2 DEF Suspend, NoReply
  <2> QED
    BY <2>2, <2>3, <2>4, <2>5, <2>6 DEF LedgerInv, ReservedByACharge, Charging
<1>9. ASSUME NEW t \in Tasks, PaymentApproved(t) \/ \E code : code # "COUPON_IN_USE" /\ ChargeFails(t, code)
      PROVE  LedgerInv'
  <2> DEFINE mine == held[t].coupon
  <2>1. Charging(t) /\ reply'.code # "COUPON_IN_USE"
    BY <1>9 DEF PaymentApproved, ChargeFails, Answer
  <2>2. mine \in 0..Len(coupons)
    BY <2>1, ChargingFacts
  <2>3. \A k \in DOMAIN coupons : coupons[k].state = "RESERVED" => k = mine
    BY <2>1, OneCharges DEF LedgerInv, ReservedByACharge
  <2>4. \E s \in {"AVAILABLE", "REDEEMED"} :
          /\ DOMAIN coupons' = DOMAIN coupons
          /\ \A k \in DOMAIN coupons : coupons'[k].state = IF k = mine THEN s ELSE coupons[k].state
    <3>1. \/ coupons' = WithReleased(coupons, mine)
          \/ coupons' = WithRedeemed(coupons, mine, Len(orders) + 1)
      BY <1>9 DEF PaymentApproved, ChargeFails
    <3>2. Len(orders) + 1 \in Nat
      BY <1>1, LenProperties DEF StoreTypeOK
    <3> HIDE DEF mine
    <3>3. Moved(coupons', mine, "AVAILABLE") \/ Moved(coupons', mine, "REDEEMED")
      BY <1>1, <2>2, <3>1, <3>2, MovedCoupon
    <3> QED
      BY <3>3 DEF Moved
  <2> HIDE DEF mine
  <2> QED
    BY <2>1, <2>3, <2>4 DEF LedgerInv, ReservedByACharge
<1>10. ASSUME NEW c \in Carts, CreateCart(c), UnchangedCheckouts PROVE LedgerInv'
  BY <1>2, <1>10 DEF CreateCart, UnchangedButCarts, UnchangedCheckouts, NoReply
<1>11. ASSUME NEW p \in Products, NEW amount \in Prices, ChangePrice(p, amount) PROVE LedgerInv'
  BY <1>2, <1>11 DEF ChangePrice, checkoutVars, NoReply
<1>12. CASE UNCHANGED vars
  BY <1>12 DEF vars, storeVars, handlerVars, checkoutVars, LedgerInv, ReservedByACharge, Charging
<1> QED
  BY <1>1, <1>3, <1>4, <1>5, <1>7, <1>8, <1>9, <1>10, <1>11, <1>12 DEF StepKind

(***************************************************************************)
(* D39: no client ever sees COUPON_IN_USE, because two payments are never  *)
(* pending at the same time.                                               *)
(***************************************************************************)
THEOREM CouponNeverInUse == Spec => []CouponIsNeverInUse
<1>1. Init => LedgerInv
  BY DEF Init, StoreInit, HandlersInit, NoReply, LedgerInv
<1>2. ShopInv /\ LedgerInv /\ [Next]_vars => LedgerInv'
  BY LedgerStep
<1>3. ShopInv /\ LedgerInv => CouponIsNeverInUse
  BY OneCharges DEF LedgerInv, CouponIsNeverInUse
<1> QED
  BY <1>1, <1>2, <1>3, ShopInvariance, PTL DEF Spec
=============================================================================
