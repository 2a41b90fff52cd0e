-------------------------------- MODULE Shop --------------------------------
(***************************************************************************)
(* The whole service (main.py: one store, one lock manager, one registry,  *)
(* one of each service), its clients, the payment gateway, and the seed    *)
(* catalogue, whose prices only change from outside the program.           *)
(*                                                                         *)
(* Each action is what happens between two suspensions of one task.        *)
(***************************************************************************)
EXTENDS CheckoutService

ASSUME RequestsAreWellFormed ==
    \A r \in Requests :
        \/ r.op \in {"add", "set"} /\ r.cart \in Carts /\ r.quantity \in Nat \ {0}
        \/ r.op \in {"remove", "reprice"} /\ r.cart \in Carts
        \/ r.op = "generate"
        \/ r.op = "checkout" /\ r.cart \in Carts /\ r.coupon \in Nat /\ r.key \in Keys

vars == <<lockVars, storeVars, handlerVars, records, checkoutVars>>

Init == LockInit /\ StoreInit /\ HandlersInit /\ IdempotencyInit /\ CheckoutInit

UnchangedCheckouts == UNCHANGED <<records, snapshot, held>>

(* A client sends request r; task t serves it. *)
Receive(t, r) == \/ CartRequest(t, r) /\ UnchangedCheckouts
                 \/ GenerateRequest(t, r) /\ UnchangedCheckouts
                 \/ CheckoutRequest(t, r)

(* The event loop runs task t, woken by the lock it waits for. *)
Wake(t) == \/ CartResume(t) /\ UnchangedCheckouts
           \/ GenerateResume(t) /\ UnchangedCheckouts
           \/ CheckoutResume(t)

(* The gateway answers the charge of task t. *)
GatewayAnswers(t) == PaymentApproved(t) \/ PaymentDeclined(t)

(* The server cancels task t, because its client disconnected. *)
Cancel(t) == ChargeCancelled(t) \/ CancelledWaiting(t)

(* Someone replaces a product of the catalogue by one with another price. *)
ChangePrice(p, amount) ==
    /\ price' = [price EXCEPT ![p] = amount]
    /\ reply' = NoReply
    /\ UNCHANGED <<lockVars, cart, available, reserved, sold, orders, coupons,
                   lastRewarded, req, records, checkoutVars>>

TaskStep(t) == \/ \E r \in Requests : Receive(t, r)
               \/ Wake(t)
               \/ GatewayAnswers(t)
               \/ Cancel(t)

Next == \/ \E t \in Tasks : TaskStep(t)
        \/ \E c \in Carts : CreateCart(c) /\ UnchangedCheckouts
        \/ \E p \in Products, amount \in Prices : ChangePrice(p, amount)

Spec == Init /\ [][Next]_vars

(***************************************************************************)
(* The event loop runs every task that is ready, and the gateway answers   *)
(* every charge in the end (the fakes of core/payments.py do, after a      *)
(* sleep).  Nothing obliges a client to send, cancel or retry.             *)
(***************************************************************************)
Fairness == \A t \in Tasks : WF_vars(Wake(t)) /\ WF_vars(GatewayAnswers(t))

FairSpec == Spec /\ Fairness

-----------------------------------------------------------------------------
(* Vocabulary of the properties. *)
Checkouts == {t \in Tasks : req[t].op = "checkout"}

HeldQuantity(t, p) == IF p \in DOMAIN held[t].lines THEN held[t].lines[p].quantity ELSE 0

OrdersOf(c)     == {i \in DOMAIN orders : orders[i].cart = c}
OrdersUsing(k)  == {i \in DOMAIN orders : orders[i].coupon = k}
HoldersOf(k)    == {t \in Tasks : held[t].coupon = k}

-----------------------------------------------------------------------------
CheckoutRequests == {r \in Requests : r.op = "checkout"}

Records == [state : {"ABSENT", "IN_PROGRESS", "COMPLETED"},
            fingerprint : {<<>>} \union {Fingerprint(r) : r \in CheckoutRequests},
            order : Nat]

TypeOK == /\ LockTypeOK
          /\ StoreTypeOK
          /\ req \in [Tasks -> Requests \union {NoRequest}]
          /\ records \in [Carts \X Keys -> Records]
          /\ DOMAIN snapshot = Tasks /\ DOMAIN held = Tasks
          /\ \A t \in Tasks : /\ IsLines(snapshot[t]) /\ IsLines(held[t].lines)
                              /\ held[t].coupon \in 0..Len(coupons)

(***************************************************************************)
(* I1, stock_total = available + reserved + sold for every product, at     *)
(* every moment a reader can look, whatever fails half way.                *)
(***************************************************************************)
StockIsConserved == \A p \in Products : available[p] + reserved[p] + sold[p] = StockTotal[p]

(***************************************************************************)
(* The counters agree with the rest of the state: what is reserved is what *)
(* the pending checkouts hold, what is sold is what the order log sold.    *)
(* A reservation that outlives its checkout, or a sale without an order,   *)
(* keeps I1 and breaks this.                                               *)
(***************************************************************************)
CountersAgree ==
    \A p \in Products :
        /\ reserved[p] = SumFunction([t \in Tasks |-> HeldQuantity(t, p)])
        /\ sold[p] = Purchased(p)

(***************************************************************************)
(* I2: a cart is checked out exactly when it has an order, and never has   *)
(* two, under any number of keys, retries and concurrent checkouts; the    *)
(* order's lines are the items the cart keeps for ever.                    *)
(***************************************************************************)
OneOrderPerCart ==
    \A c \in Carts :
        /\ cart[c].state = "CHECKED_OUT" <=> Cardinality(OrdersOf(c)) = 1
        /\ cart[c].state # "CHECKED_OUT" <=> OrdersOf(c) = {}
        /\ \A i \in OrdersOf(c) : orders[i].lines = cart[c].items /\ orders[i].lines # NoItems

(***************************************************************************)
(* While a payment is pending the cart stays as it was when its total was  *)
(* computed: open, with exactly the lines being paid for, whose product    *)
(* locks the checkout owns.                                                *)
(***************************************************************************)
PaidCartIsFrozen ==
    \A t \in Tasks : Charging(t) =>
        /\ cart[req[t].cart] = [state |-> "OPEN", items |-> held[t].lines]
        /\ \A p \in DOMAIN held[t].lines : owner[ProductLock(p)] = t

(***************************************************************************)
(* I3: the registry and the order log agree.  A completed record leads to  *)
(* an order of that very request; every order is the outcome of exactly    *)
(* one (cart, key).                                                        *)
(***************************************************************************)
RecordsLeadToOrders ==
    /\ \A ck \in Carts \X Keys : records[ck].state = "COMPLETED" =>
         /\ records[ck].order \in DOMAIN orders
         /\ LET o == orders[records[ck].order]
            IN  records[ck].fingerprint = <<o.cart, o.customer, o.coupon>> /\ o.cart = ck[1]
    /\ \A i \in DOMAIN orders :
         Cardinality({ck \in Carts \X Keys : records[ck].state = "COMPLETED" /\ records[ck].order = i}) = 1

(***************************************************************************)
(* D19, D22: a claim is in progress exactly while one task works on that   *)
(* request.  A claim left behind by a failed or cancelled checkout would   *)
(* answer REQUEST_IN_PROGRESS to every retry, for ever.                    *)
(***************************************************************************)
ClaimsHaveOneWorker ==
    \A ck \in Carts \X Keys :
        LET workers == {t \in Checkouts : KeyOf(req[t]) = ck}
        IN  /\ Cardinality(workers) = (IF records[ck].state = "IN_PROGRESS" THEN 1 ELSE 0)
            /\ \A t \in workers : records[ck].fingerprint = Fingerprint(req[t])

(***************************************************************************)
(* I4, I5, I6: a redeemed coupon belongs to exactly one order, which it    *)
(* names and whose customer owns it; a reserved one to exactly one pending *)
(* checkout; an available one to none.                                     *)
(***************************************************************************)
CouponsAreUsedOnce ==
    \A k \in DOMAIN coupons :
        /\ coupons[k].state = "REDEEMED" <=> OrdersUsing(k) = {coupons[k].order}
        /\ coupons[k].state # "REDEEMED" <=> OrdersUsing(k) = {}
        /\ coupons[k].state = "RESERVED" <=> Cardinality(HoldersOf(k)) = 1
        /\ coupons[k].state # "RESERVED" <=> HoldersOf(k) = {}
        /\ \A i \in OrdersUsing(k) : orders[i].customer = coupons[k].owner

(***************************************************************************)
(* I7, D12: the milestones rewarded so far are 1 .. last_rewarded, each    *)
(* once, each reached, and milestone k went to the customer of order k*n.  *)
(***************************************************************************)
MilestonesAreRewardedOnce ==
    /\ Cardinality({coupons[i].milestone : i \in DOMAIN coupons}) = Len(coupons)
    /\ {coupons[i].milestone : i \in DOMAIN coupons} = 1..lastRewarded
    /\ lastRewarded * RewardN <= PlacedOrders
    /\ \A i \in DOMAIN coupons : coupons[i].owner = orders[coupons[i].milestone * RewardN].customer

(***************************************************************************)
(* D39: COUPON_IN_USE cannot be observed, because every checkout holds the *)
(* coupon ledger across its charge and there is never a second one inside. *)
(***************************************************************************)
CouponIsNeverInUse ==
    /\ reply.code # "COUPON_IN_USE"
    /\ \A t, u \in Tasks : Charging(t) /\ Charging(u) => t = u

(***************************************************************************)
(* D20, D23: what a replay returns is the order its own cart, customer and *)
(* coupon produced, and a creation returns the order just appended.        *)
(***************************************************************************)
AnswersMatchTheRequest ==
    reply.code \in {"CREATED", "REPLAYED"} =>
        LET o == orders[reply.order]
        IN  <<o.cart, o.customer, o.coupon>> = Fingerprint(reply.request)

(***************************************************************************)
(* No step refuses at the point of no return: with the payment taken, the  *)
(* guards of commit_inventory, of the coupon ledger and of complete() all  *)
(* hold, so nobody pays for an order that is then not placed.              *)
(***************************************************************************)
PaidCheckoutsCommit ==
    \A t \in Tasks : Charging(t) =>
        /\ IsReserved(held[t].lines)
        /\ held[t].coupon # NoCoupon => coupons[held[t].coupon].state = "RESERVED"
        /\ ClaimIsLive(req[t])

(***************************************************************************)
(* I9, I10: an order explains itself for ever.  Its gross is the sum of    *)
(* its own lines and its discount follows from that gross and the coupon   *)
(* it names, although prices move while the payment is pending.            *)
(***************************************************************************)
OrdersAddUp ==
    \A i \in DOMAIN orders :
        LET o == orders[i]
        IN  /\ o.gross = Gross(o.lines) /\ o.discount \in 0..o.gross
            /\ o.discount = IF o.coupon = NoCoupon THEN 0
                            ELSE Discount(o.gross, coupons[o.coupon].percent)
            /\ o.net = o.gross - o.discount

(***************************************************************************)
(* I3, I8, I10: the order log only grows, and a cart that was checked out, *)
(* a coupon that was redeemed and a record that was completed never change *)
(* again.                                                                  *)
(***************************************************************************)
HistoryIsFinal ==
    [][/\ Len(orders') >= Len(orders) /\ SubSeq(orders', 1, Len(orders)) = orders
       /\ \A c \in Carts : cart[c].state = "CHECKED_OUT" => cart'[c] = cart[c]
       /\ \A k \in DOMAIN coupons : coupons[k].state = "REDEEMED" => coupons'[k] = coupons[k]
       /\ \A ck \in Carts \X Keys : records[ck].state = "COMPLETED" => records'[ck] = records[ck]
      ]_vars

(***************************************************************************)
(* api/routers/admin.py: a generation that rewards a milestone returns the *)
(* coupon, and any other answer means that nothing was rewarded.           *)
(***************************************************************************)
GenerateTellsTheTruth ==
    [][reply'.request.op = "generate" =>
         (Len(coupons') = Len(coupons) + 1 <=> reply'.code = "OK")]_vars

(***************************************************************************)
(* TAD 4.2: "two checkouts for different products genuinely proceed        *)
(* concurrently".  No checkout that saw products in its cart waits for a   *)
(* lock held by a checkout for other products and another cart.            *)
(***************************************************************************)
DifferentProductsProceed ==
    LET products(t) == DOMAIN snapshot[t] \union DOMAIN held[t].lines
    IN  \A t, u \in Checkouts :
            /\ Waiting(t) /\ owner[at[t]] = u
            /\ req[t].cart # req[u].cart
            /\ products(t) # {} /\ products(u) # {}
            => products(t) \intersect products(u) # {}

(* Every request is answered: nobody waits for a lock for ever. *)
EveryRequestEnds == \A t \in Tasks : ~Idle(t) ~> Idle(t)

(***************************************************************************)
(* D21: "in progress" is a passing answer.  Every claim is settled, into a *)
(* completed record or none, so that a client that retries gets through.   *)
(***************************************************************************)
ClaimsSettle ==
    \A ck \in Carts \X Keys : records[ck].state = "IN_PROGRESS" ~> records[ck].state # "IN_PROGRESS"

=============================================================================
