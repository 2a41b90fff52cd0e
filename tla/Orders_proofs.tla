---------------------------- MODULE Orders_proofs ----------------------------
(***************************************************************************)
(* Proofs about what the checkouts of Shop leave behind: claims with one   *)
(* worker each, payments that always commit, a history that never changes, *)
(* one order per cart, records that agree with the order log, and counters *)
(* that agree with the pending payments and the order log.                 *)
(***************************************************************************)
EXTENDS Shop_proofs, Amounts_proofs

(***************************************************************************)
(* The idempotency claims: a claim has one worker, from the request that   *)
(* made it to the answer that settles it.  ClaimInv says it from both      *)
(* sides.  What makes it inductive is that no two running checkouts have   *)
(* the same key: a task is admitted only under an absent record, and every *)
(* running task has one in progress.                                       *)
(***************************************************************************)
Works(t) == records[KeyOf(req[t])].state = "IN_PROGRESS"
            /\ records[KeyOf(req[t])].fingerprint = Fingerprint(req[t])

ClaimInv ==
    /\ \A t \in Checkouts : Works(t)
    /\ \A t, u \in Checkouts : KeyOf(req[t]) = KeyOf(req[u]) => t = u
    /\ \A ck \in Carts \X Keys :
         records[ck].state = "IN_PROGRESS" => \E t \in Checkouts : KeyOf(req[t]) = ck

-----------------------------------------------------------------------------
(* The four ways a step treats the registry. *)
Admitted(t, r) == Idle(t) /\ r.op = "checkout" /\ records[KeyOf(r)].state = "ABSENT"

Begins(t, r) == /\ Admitted(t, r)
                /\ records' = Claimed(records, r) /\ req' = [req EXCEPT ![t] = r]

FailsAtOnce(t, r) == /\ Admitted(t, r) /\ req' = [req EXCEPT ![t] = NoRequest]
                     /\ records' = Unclaimed(Claimed(records, r), r)

Ends(t) == /\ req[t].op = "checkout" /\ req' = [req EXCEPT ![t] = NoRequest]
           /\ \/ records' = Unclaimed(records, req[t])
              \/ PaymentApproved(t) /\ records' = Completed(records, req[t], Len(orders) + 1)

KeepsClaims == /\ records' = records
               /\ \A t \in Tasks : \/ req'[t] = req[t]
                                   \/ req[t].op # "checkout" /\ req'[t].op # "checkout"

ClaimKind == \/ \E t \in Tasks, r \in Requests : Begins(t, r) \/ FailsAtOnce(t, r)
             \/ \E t \in Tasks : Ends(t)
             \/ KeepsClaims

(* A request that is not a checkout starts, goes on, or ends. *)
LEMMA OtherRequest ==
    ASSUME TypeOK, NEW t \in Tasks, NEW r, req[t].op # "checkout", r.op # "checkout",
           Suspend(t, r) \/ \E code, order : Answer(t, r, code, order), records' = records
    PROVE  KeepsClaims
<1>1. NoRequest.op # "checkout"
  BY DEF NoRequest
<1>2. (req'[t] = r \/ req'[t] = NoRequest) /\ \A u \in Tasks : u # t => req'[u] = req[u]
  BY DEF TypeOK, Suspend, Answer
<1> QED
  BY <1>1, <1>2 DEF KeepsClaims

LEMMA ServiceKinds ==
    ASSUME ShopInv, NEW t \in Tasks, NEW r \in Requests, UnchangedCheckouts,
           \/ CartRequest(t, r) \/ GenerateRequest(t, r)
           \/ (CartResume(t) \/ GenerateResume(t)) /\ r = req[t]
    PROVE  KeepsClaims
<1>1. TypeOK /\ StoreTypeOK /\ records' = records
  BY DEF ShopInv, TypeOK, UnchangedCheckouts
<1>2. NoRequest.op # "checkout"
  BY DEF NoRequest
<1>3. req[t].op # "checkout" /\ r.op # "checkout"
  BY <1>2 DEF CartRequest, GenerateRequest, CartResume, GenerateResume, CartOps, Idle
<1>4. MutateCart(t, r) => \E code, order : Answer(t, r, code, order)
  BY DEF MutateCart
<1>5. GenerateLocked(t, r) => \E code, order : Answer(t, r, code, order)
  BY <1>1, GenerateTypes
<1>6. Suspend(t, r) \/ \E code, order : Answer(t, r, code, order)
  BY <1>4, <1>5 DEF CartRequest, GenerateRequest, CartResume, GenerateResume
<1> QED
  BY <1>1, <1>3, <1>6, OtherRequest

LEMMA CheckoutRequestClaims ==
    ASSUME ShopInv, NEW t \in Tasks, NEW r \in Requests, CheckoutRequest(t, r)
    PROVE  Begins(t, r) \/ FailsAtOnce(t, r) \/ KeepsClaims
<1> DEFINE seen == cart[r.cart].items
           locks == CheckoutLocks(r, seen)
<1>1. TypeOK /\ Idle(t) /\ r.op = "checkout" /\ KeyOf(r) \in Carts \X Keys
  BY RequestFacts DEF ShopInv, CheckoutRequest
<1>2. ClaimStatus(r) = "GRANTED" => Admitted(t, r)
  <2>1. records[KeyOf(r)].state \in {"ABSENT", "IN_PROGRESS", "COMPLETED"}
    BY <1>1 DEF TypeOK, Records
  <2> QED
    BY <1>1, <2>1 DEF ClaimStatus, Admitted
<1>3. \A error : Answer(t, r, error, NoOrder) => req' = [req EXCEPT ![t] = NoRequest]
  BY DEF Answer
<1>4. CASE AnsweredFromTheRecord(t, r)
  <2>1. records' = records /\ req' = [req EXCEPT ![t] = NoRequest]
    BY <1>4 DEF AnsweredFromTheRecord, Answer
  <2>2. req' = req
    BY <1>1, <2>1 DEF TypeOK, Idle
  <2> QED
    BY <2>1, <2>2 DEF KeepsClaims
<1>5. CASE /\ ClaimStatus(r) = "GRANTED" /\ Answer(t, r, "CART_NOT_FOUND", NoOrder)
           /\ records' = Unclaimed(Claimed(records, r), r)
  BY <1>2, <1>3, <1>5 DEF FailsAtOnce
<1>6. CASE ClaimStatus(r) = "GRANTED" /\ Suspend(t, r) /\ records' = Claimed(records, r)
  BY <1>2, <1>6 DEF Begins, Suspend
<1>7. CASE /\ ClaimStatus(r) = "GRANTED" /\ Refuse(t, r, seen)
           /\ records' = Unclaimed(Claimed(records, r), r)
  BY <1>1, <1>2, <1>3, <1>7, RefuseTypes DEF FailsAtOnce
<1>8. CASE ClaimStatus(r) = "GRANTED" /\ Charge(t, r, seen) /\ records' = Claimed(records, r)
  BY <1>2, <1>8 DEF Begins, Charge, Suspend
<1> QED
  BY <1>4, <1>5, <1>6, <1>7, <1>8 DEF CheckoutRequest

LEMMA CheckoutResumeClaims ==
    ASSUME ShopInv, NEW t \in Tasks, CheckoutResume(t)
    PROVE  Ends(t) \/ KeepsClaims
<1>1. TypeOK /\ req[t].op = "checkout" /\ req[t] \in Requests
  <2>1. Waiting(t)
    BY DEF CheckoutResume, ResumeBlock, ResumePass, ResumeHold, Woken
  <2> QED
    BY <2>1, WaitingTask DEF ShopInv, CheckoutResume
<1>2. CASE Suspend(t, req[t]) /\ records' = records
  <2>1. req' = req
    BY <1>1, <1>2 DEF Suspend, TypeOK
  <2> QED
    BY <1>2, <2>1 DEF KeepsClaims
<1>3. CASE Refuse(t, req[t], snapshot[t]) /\ records' = Unclaimed(records, req[t])
  BY <1>1, <1>3, RefuseTypes DEF Ends, Answer
<1>4. CheckoutResume(t) => \/ Suspend(t, req[t]) /\ records' = records
                           \/ Refuse(t, req[t], snapshot[t]) /\ records' = Unclaimed(records, req[t])
  BY DEF CheckoutResume, Charge
<1> QED
  BY <1>2, <1>3, <1>4

LEMMA AnswersClaims ==
    ASSUME ShopInv, NEW t \in Tasks,
           PaymentApproved(t) \/ (\E code : ChargeFails(t, code)) \/ CancelledWaiting(t)
    PROVE  Ends(t) \/ KeepsClaims
<1>1. TypeOK /\ NoRequest.op # "checkout" /\ req' = [req EXCEPT ![t] = NoRequest]
  BY DEF ShopInv, NoRequest, PaymentApproved, ChargeFails, CancelledWaiting, Answer
<1>2. CASE PaymentApproved(t)
  <2>1. req[t].op = "checkout"
    BY <1>2, ChargingFacts DEF PaymentApproved
  <2> QED
    BY <1>1, <1>2, <2>1 DEF Ends, PaymentApproved
<1>3. CASE \E code : ChargeFails(t, code)
  <2>1. req[t].op = "checkout"
    BY <1>3, ChargingFacts DEF ChargeFails
  <2> QED
    BY <1>1, <1>3, <2>1 DEF Ends, ChargeFails
<1>4. CASE CancelledWaiting(t)
  BY <1>1, <1>4 DEF Ends, KeepsClaims, CancelledWaiting, TypeOK
<1> QED
  BY <1>2, <1>3, <1>4

LEMMA ClaimKinds == ShopInv /\ [Next]_vars => ClaimKind
<1> SUFFICES ASSUME ShopInv, [Next]_vars PROVE ClaimKind
  OBVIOUS
<1>1. CASE \E t \in Tasks : TaskStep(t)
  <2>1. PICK t \in Tasks : TaskStep(t)
    BY <1>1
  <2>2. ASSUME NEW r \in Requests, Receive(t, r) PROVE ClaimKind
    BY <2>2, ServiceKinds, CheckoutRequestClaims DEF Receive, ClaimKind
  <2>3. CASE Wake(t)
    <3>1. req[t] \in Requests
      <4>1. Waiting(t)
        BY <2>3 DEF Wake, CartResume, GenerateResume, CheckoutResume,
                    ResumeBlock, ResumePass, ResumeHold, Woken
      <4> QED
        BY <4>1, WaitingTask
    <3> QED
      BY <2>3, <3>1, ServiceKinds, CheckoutResumeClaims DEF Wake, ClaimKind
  <2>4. CASE GatewayAnswers(t) \/ Cancel(t)
    BY <2>4, AnswersClaims DEF GatewayAnswers, Cancel, PaymentDeclined, ChargeCancelled, ClaimKind
  <2> QED
    BY <2>1, <2>2, <2>3, <2>4 DEF TaskStep
<1>2. CASE \E c \in Carts : CreateCart(c) /\ UnchangedCheckouts
  BY <1>2 DEF CreateCart, UnchangedCheckouts, ClaimKind, KeepsClaims
<1>3. CASE \E p \in Products, amount \in Prices : ChangePrice(p, amount)
  BY <1>3 DEF ChangePrice, ClaimKind, KeepsClaims
<1>4. CASE UNCHANGED vars
  BY <1>4 DEF vars, handlerVars, ClaimKind, KeepsClaims
<1> QED
  BY <1>1, <1>2, <1>3, <1>4 DEF Next

-----------------------------------------------------------------------------
(* The running checkouts and their records, after each kind of step. *)
LEMMA CheckoutKeys ==
    ASSUME ShopInv, NEW t \in Checkouts
    PROVE  t \in Tasks /\ req[t] \in Requests /\ KeyOf(req[t]) \in Carts \X Keys
<1>1. t \in Tasks /\ req[t].op = "checkout" /\ req[t] \in Requests \union {NoRequest}
  BY DEF Checkouts, ShopInv, TypeOK
<1>2. NoRequest.op # "checkout"
  BY DEF NoRequest
<1> QED
  BY <1>1, <1>2, RequestFacts

LEMMA BeginsKeeps ==
    ASSUME ShopInv, ClaimInv, NEW t \in Tasks, NEW r \in Requests, Begins(t, r)
    PROVE  ClaimInv'
<1> DEFINE row == [state |-> "IN_PROGRESS", fingerprint |-> Fingerprint(r), order |-> 0]
<1>1. r.op = "checkout" /\ KeyOf(r) \in Carts \X Keys /\ t \notin Checkouts
  BY RequestFacts DEF Begins, Admitted, Idle, Checkouts, NoRequest
<1>2. req'[t] = r /\ \A u \in Tasks : u # t => req'[u] = req[u]
  BY DEF Begins, ShopInv, TypeOK
<1>3. /\ records'[KeyOf(r)] = row
      /\ \A ck \in Carts \X Keys : ck # KeyOf(r) => records'[ck] = records[ck]
  BY <1>1 DEF Begins, Claimed, ShopInv, TypeOK
<1>4. Checkouts' = Checkouts \union {t}
  BY <1>1, <1>2 DEF Checkouts
<1>5. \A u \in Checkouts : KeyOf(req[u]) # KeyOf(r)
  BY DEF ClaimInv, Works, Begins, Admitted
<1>6. \A u \in Checkouts : u # t /\ req'[u] = req[u] /\ records'[KeyOf(req[u])] = records[KeyOf(req[u])]
  BY <1>1, <1>2, <1>3, <1>5, CheckoutKeys
<1>7. \A u \in Checkouts' : Works(u)'
  <2>1. Works(t)'
    BY <1>2, <1>3 DEF Works, KeyOf, Fingerprint
  <2>2. ASSUME NEW u \in Checkouts PROVE Works(u)'
    <3>1. Works(u) /\ req'[u] = req[u] /\ records'[KeyOf(req[u])] = records[KeyOf(req[u])]
      BY <1>6 DEF ClaimInv
    <3> QED
      BY <3>1 DEF Works, KeyOf, Fingerprint
  <2> QED
    BY <1>4, <2>1, <2>2
<1>8. \A u, v \in Checkouts' : KeyOf(req'[u]) = KeyOf(req'[v]) => u = v
  BY <1>2, <1>4, <1>5, <1>6 DEF ClaimInv
<1>9. \A ck \in Carts \X Keys :
        records'[ck].state = "IN_PROGRESS" => \E u \in Checkouts' : KeyOf(req'[u]) = ck
  BY <1>2, <1>3, <1>4, <1>6 DEF ClaimInv
<1> QED
  BY <1>7, <1>8, <1>9 DEF ClaimInv, KeyOf

LEMMA EndsKeeps ==
    ASSUME ShopInv, ClaimInv, NEW t \in Tasks, Ends(t)
    PROVE  ClaimInv'
<1>1. t \in Checkouts /\ KeyOf(req[t]) \in Carts \X Keys
  BY CheckoutKeys DEF Ends, Checkouts
<1>2. req'[t] = NoRequest /\ \A u \in Tasks : u # t => req'[u] = req[u]
  BY DEF Ends, ShopInv, TypeOK
<1>3. /\ records'[KeyOf(req[t])].state # "IN_PROGRESS"
      /\ \A ck \in Carts \X Keys : ck # KeyOf(req[t]) => records'[ck] = records[ck]
  <2>1. records \in [Carts \X Keys -> Records]
    BY DEF ShopInv, TypeOK
  <2>2. CASE records' = Unclaimed(records, req[t])
    BY <1>1, <2>1, <2>2 DEF Unclaimed, NoRecord
  <2>3. CASE records' = Completed(records, req[t], Len(orders) + 1)
    BY <1>1, <2>1, <2>3 DEF Completed, Records
  <2> QED
    BY <2>2, <2>3 DEF Ends
<1>4. Checkouts' = Checkouts \ {t}
  BY <1>2 DEF Checkouts, NoRequest
<1>5. \A u \in Checkouts' : /\ u \in Checkouts /\ req'[u] = req[u]
                            /\ records'[KeyOf(req[u])] = records[KeyOf(req[u])]
  BY <1>1, <1>2, <1>3, <1>4, CheckoutKeys DEF ClaimInv
<1>6. \A u \in Checkouts' : Works(u)'
  BY <1>5 DEF Works, ClaimInv, KeyOf, Fingerprint
<1>7. \A u, v \in Checkouts' : KeyOf(req'[u]) = KeyOf(req'[v]) => u = v
  BY <1>5 DEF ClaimInv
<1>8. \A ck \in Carts \X Keys :
        records'[ck].state = "IN_PROGRESS" => \E u \in Checkouts' : KeyOf(req'[u]) = ck
  BY <1>3, <1>4, <1>5 DEF ClaimInv
<1> QED
  BY <1>6, <1>7, <1>8 DEF ClaimInv, KeyOf

LEMMA SameClaims ==
    ASSUME ShopInv, ClaimInv, \A u \in Checkouts : req'[u] = req[u], Checkouts' = Checkouts,
           \A ck \in Carts \X Keys : \/ records'[ck] = records[ck]
                                     \/ /\ records[ck].state # "IN_PROGRESS"
                                        /\ records'[ck].state # "IN_PROGRESS"
    PROVE  ClaimInv'
<1>1. \A u \in Checkouts : records'[KeyOf(req[u])] = records[KeyOf(req[u])]
  BY CheckoutKeys DEF ClaimInv, Works
<1>2. \A u \in Checkouts : Works(u)'
  BY <1>1 DEF ClaimInv, Works, KeyOf, Fingerprint
<1>3. \A ck \in Carts \X Keys :
        records'[ck].state = "IN_PROGRESS" => \E u \in Checkouts : KeyOf(req'[u]) = ck
  BY DEF ClaimInv
<1>4. \A u, v \in Checkouts : KeyOf(req'[u]) = KeyOf(req'[v]) => u = v
  BY DEF ClaimInv
<1> QED
  BY <1>2, <1>3, <1>4 DEF ClaimInv, KeyOf

LEMMA ClaimStep == ShopInv /\ ClaimInv /\ [Next]_vars => ClaimInv'
<1> SUFFICES ASSUME ShopInv, ClaimInv, [Next]_vars PROVE ClaimInv'
  OBVIOUS
<1>1. ASSUME NEW t \in Tasks, NEW r \in Requests, FailsAtOnce(t, r) PROVE ClaimInv'
  <2>1. KeyOf(r) \in Carts \X Keys /\ records[KeyOf(r)].state # "IN_PROGRESS"
    BY <1>1, RequestFacts DEF FailsAtOnce, Admitted
  <2>2. /\ records'[KeyOf(r)] = NoRecord
        /\ \A ck \in Carts \X Keys : ck # KeyOf(r) => records'[ck] = records[ck]
    BY <1>1, <2>1 DEF FailsAtOnce, Unclaimed, Claimed, ShopInv, TypeOK
  <2>3. req' = req
    BY <1>1 DEF FailsAtOnce, Admitted, Idle, ShopInv, TypeOK
  <2> QED
    BY <2>1, <2>2, <2>3, SameClaims DEF NoRecord, Checkouts
<1>2. CASE KeepsClaims
  BY <1>2, SameClaims DEF KeepsClaims, Checkouts
<1> QED
  BY <1>1, <1>2, BeginsKeeps, EndsKeeps, ClaimKinds DEF ClaimKind

LEMMA ClaimInit == Init => ClaimInv
BY DEF Init, IdempotencyInit, NoRecord, HandlersInit, NoRequest, ClaimInv, Checkouts

(***************************************************************************)
(* D19, D22: whatever fails or is cancelled, a claim is in progress while  *)
(* exactly one task works on that very request, and no longer.             *)
(***************************************************************************)
THEOREM OneWorkerPerClaim == Spec => []ClaimsHaveOneWorker
<1>1. ShopInv /\ ClaimInv => ClaimsHaveOneWorker
  <2> SUFFICES ASSUME ShopInv, ClaimInv, NEW ck \in Carts \X Keys
               PROVE  LET workers == {t \in Checkouts : KeyOf(req[t]) = ck}
                      IN  /\ Cardinality(workers) = (IF records[ck].state = "IN_PROGRESS" THEN 1 ELSE 0)
                          /\ \A t \in workers : records[ck].fingerprint = Fingerprint(req[t])
    BY DEF ClaimsHaveOneWorker
  <2> DEFINE workers == {t \in Checkouts : KeyOf(req[t]) = ck}
  <2>1. \A t \in workers : /\ records[ck].state = "IN_PROGRESS"
                           /\ records[ck].fingerprint = Fingerprint(req[t])
    BY DEF ClaimInv, Works
  <2>2. CASE records[ck].state = "IN_PROGRESS"
    <3>1. PICK t \in Checkouts : KeyOf(req[t]) = ck
      BY <2>2 DEF ClaimInv
    <3>2. workers = {t}
      BY <3>1 DEF ClaimInv
    <3> QED
      BY <2>1, <2>2, <3>2, FS_Singleton
  <2>3. CASE records[ck].state # "IN_PROGRESS"
    <3>1. workers = {}
      BY <2>1, <2>3
    <3> QED
      BY <2>1, <2>3, <3>1, FS_EmptySet
  <2> QED
    BY <2>2, <2>3
<1> QED
  BY <1>1, ClaimInit, ClaimStep, ShopInvariance, PTL DEF Spec

-----------------------------------------------------------------------------
(***************************************************************************)
(* The store.  StoreKinds reduces the steps of the shop to six kinds.      *)
(* Most of the reduction is one fact, RefusalLeavesNoTrace: a checkout     *)
(* that fails under its locks gives back exactly what it had reserved.     *)
(***************************************************************************)

(* Out and In undo each other. *)
LEMMA GivenBackInFull ==
    ASSUME InventoryTypeOK, NEW lines, IsLines(lines), ReserveThenRelease(lines, lines)
    PROVE  UNCHANGED inventory
<1>1. ASSUME NEW p \in Products
      PROVE  /\ In(Out(available, lines), lines)[p] = available[p]
             /\ Out(In(reserved, lines), lines)[p] = reserved[p]
  BY DEF InventoryTypeOK, IsLines, In, Out
<1>2. In(Out(available, lines), lines) = available
  BY <1>1 DEF InventoryTypeOK, In
<1>3. Out(In(reserved, lines), lines) = reserved
  BY <1>1 DEF InventoryTypeOK, Out
<1> QED
  BY <1>2, <1>3 DEF ReserveThenRelease, inventory

LEMMA ReleasedAsBefore ==
    ASSUME coupons \in Seq(CouponRows), NEW code \in 0..Len(coupons),
           code # NoCoupon => coupons[code].state = "AVAILABLE"
    PROVE  WithReleased(WithReserved(coupons, code), code) = coupons
<1>1. CASE code = NoCoupon
  BY <1>1 DEF WithReleased, WithReserved
<1>2. CASE code # NoCoupon
  <2> DEFINE row == coupons[code]
  <2>1. code \in DOMAIN coupons /\ row \in CouponRows
    BY <1>2, LenProperties, ElementOfSeq DEF NoCoupon
  <2>2. [[row EXCEPT !.state = "RESERVED"] EXCEPT !.state = "AVAILABLE"] = row
    BY <1>2, <2>1 DEF CouponRows
  <2>3. WithReserved(coupons, code) = [coupons EXCEPT ![code] = [row EXCEPT !.state = "RESERVED"]]
    BY <1>2 DEF WithReserved
  <2>4. WithReleased(WithReserved(coupons, code), code) = [coupons EXCEPT ![code] = row]
    BY <1>2, <2>1, <2>2, <2>3 DEF WithReleased
  <2>5. [coupons EXCEPT ![code] = row] = coupons
    BY <2>1, LenProperties
  <2> QED
    BY <2>4, <2>5
<1> QED
  BY <1>1, <1>2

LEMMA AcceptedIsAvailable ==
    ASSUME TypeOK, NEW code \in Nat, NEW customer, CouponError(code, customer) = "OK"
    PROVE  /\ code \in 0..Len(coupons)
           /\ code # NoCoupon => /\ code \in DOMAIN coupons /\ coupons[code].state = "AVAILABLE"
                                 /\ coupons[code].owner = customer
<1>1. Len(coupons) \in Nat /\ DOMAIN coupons = 1..Len(coupons)
  BY LenProperties DEF TypeOK, StoreTypeOK
<1>2. ASSUME code \in DOMAIN coupons PROVE coupons[code].state \in {"AVAILABLE", "RESERVED", "REDEEMED"}
  <2>1. coupons \in Seq(CouponRows)
    BY DEF TypeOK, StoreTypeOK
  <2>2. coupons[code] \in CouponRows
    BY <1>1, <1>2, <2>1, ElementOfSeq
  <2> QED
    BY <2>2 DEF CouponRows
<1> QED
  BY <1>1, <1>2, AcceptedCoupon DEF CouponError

LEMMA RefusalLeavesNoTrace ==
    ASSUME TypeOK, NEW t \in Tasks, NEW r \in Requests, r.op = "checkout", NEW seen, Refuse(t, r, seen)
    PROVE  UNCHANGED <<storeVars, held>>
<1> DEFINE lines == cart[r.cart].items
<1>1. r.coupon \in Nat /\ StoreTypeOK /\ InventoryTypeOK
  BY RequestFacts DEF TypeOK, StoreTypeOK, InventoryTypeOK
<1>2. PICK got : IsLines(got) /\ ReserveThenRelease(got, got)
  BY RefuseTypes
<1>3. UNCHANGED inventory
  BY <1>1, <1>2, GivenBackInFull
<1>4. PICK code, error, some :
        /\ RefuseHolding(t, r, error, some, code) /\ code \in {NoCoupon, r.coupon}
        /\ code # NoCoupon => CouponError(r.coupon, r.customer) = "OK"
  <2>1. \/ \E error : RefuseHolding(t, r, error, NoItems, NoCoupon)
        \/ \E P \in SUBSET DOMAIN lines :
             RefuseHolding(t, r, "INSUFFICIENT_INVENTORY", [p \in P |-> lines[p]], NoCoupon)
        \/ \E error : RefuseHolding(t, r, error, lines, NoCoupon)
        \/ CouponError(r.coupon, r.customer) = "OK" /\ RefuseHolding(t, r, "INTERNAL_ERROR", lines, r.coupon)
    BY DEF Refuse
  <2> HIDE DEF lines
  <2> QED
    BY <2>1
<1>5. coupons' = WithReleased(WithReserved(coupons, code), code)
      /\ UNCHANGED <<price, cart, orders, lastRewarded, held>>
  BY <1>4 DEF RefuseHolding, Recorded
<1>6. code \in 0..Len(coupons) /\ (code # NoCoupon => coupons[code].state = "AVAILABLE")
  <2>1. NoCoupon \in 0..Len(coupons)
    BY <1>1, LenProperties DEF StoreTypeOK, NoCoupon
  <2> QED
    BY <1>1, <1>4, <2>1, AcceptedIsAvailable
<1>7. coupons' = coupons
  BY <1>1, <1>5, <1>6, ReleasedAsBefore DEF StoreTypeOK
<1> QED
  BY <1>3, <1>5, <1>7 DEF storeVars, inventory

-----------------------------------------------------------------------------
(***************************************************************************)
(* The kinds of steps, by what they do to the store.                       *)
(***************************************************************************)
PendingKept == held' = held /\ \A t \in Tasks : Charging(t) => req'[t] = req[t]

Quiet == PendingKept /\ UNCHANGED <<cart, inventory, orders, coupons, lastRewarded>>

CartMoves == /\ PendingKept /\ UNCHANGED <<inventory, orders, coupons, lastRewarded>>
             /\ \E c \in Carts : /\ cart[c].state # "CHECKED_OUT" /\ cart'[c].state # "CHECKED_OUT"
                                 /\ \A d \in Carts : d # c => cart'[d] = cart[d]

Rewards == /\ PendingKept /\ UNCHANGED <<cart, inventory, orders>>
           /\ PlacedOrders >= NextMilestone * RewardN
           /\ MilestoneOrder(NextMilestone) \in DOMAIN orders /\ Mint(NextMilestone)

Accepts(t, r) == r.op = "checkout" /\ NobodyCharges /\ ~Charging(t) /\ \E seen : Charge(t, r, seen)

StoreKind == \/ Quiet \/ CartMoves \/ Rewards
             \/ \E t \in Tasks, r \in Requests : Accepts(t, r)
             \/ \E t \in Tasks : PaymentApproved(t) \/ \E code : ChargeFails(t, code)

LEMMA StoreKinds == ShopInv /\ [Next]_vars => StoreKind
<1> SUFFICES ASSUME ShopInv, [Next]_vars PROVE StoreKind
  OBVIOUS
<1>1. TypeOK /\ StepKind /\ StoreTypeOK
  BY StepKinds DEF ShopInv, TypeOK
<1>2. ASSUME NEW t \in Tasks, NEW r \in Requests, ~Charging(t), held' = held,
             Suspend(t, r) \/ \E code, order : Answer(t, r, code, order)
      PROVE  PendingKept
  BY <1>1, <1>2, HandlerMoves DEF PendingKept
<1>3. ASSUME NEW t \in Tasks, NEW r \in Requests, Still(t, r) PROVE Quiet
  BY <1>2, <1>3 DEF Still, Quiet, storeVars, inventory
<1>4. ASSUME NEW t \in Tasks, NEW r \in Requests, Edits(t, r) PROVE Quiet \/ CartMoves
  <2>1. PendingKept /\ UNCHANGED <<inventory, orders, coupons, lastRewarded>>
    BY <1>2, <1>4 DEF Edits, MutateCart, UnchangedButCarts, inventory
  <2>2. CASE CartError(r) # "OK"
    BY <1>4, <2>1, <2>2 DEF Edits, MutateCart, Quiet
  <2>3. CASE CartError(r) = "OK"
    <3>1. r.cart \in Carts /\ cart[r.cart].state = "OPEN"
      BY <1>4, <2>3, RequestFacts DEF Edits, CartError, IsOpen
    <3>2. cart' = [cart EXCEPT ![r.cart].items = NewItems(r)]
      BY <1>4, <2>3 DEF Edits, MutateCart
    <3>3. cart'[r.cart].state = "OPEN" /\ \A d \in Carts : d # r.cart => cart'[d] = cart[d]
      BY <1>1, <3>1, <3>2 DEF StoreTypeOK, IsCart
    <3> QED
      BY <2>1, <3>1, <3>3 DEF CartMoves
  <2> QED
    BY <2>2, <2>3
<1>5. ASSUME NEW t \in Tasks, NEW r \in Requests, Generates(t, r) PROVE Quiet \/ Rewards
  <2>1. PendingKept
    BY <1>1, <1>2, <1>5, GenerateTypes DEF Generates
  <2> QED
    BY <1>5, <2>1 DEF Generates, GenerateLocked, Quiet, Rewards, inventory
<1>6. ASSUME NEW t \in Tasks, NEW r \in Requests, Refuses(t, r) PROVE Quiet
  BY <1>1, <1>6, RefusalLeavesNoTrace DEF Refuses, Quiet, PendingKept, NobodyCharges, storeVars, inventory
<1>7. ASSUME NEW t \in Tasks, NEW r \in Requests, Charges(t, r) PROVE Accepts(t, r)
  BY <1>7 DEF Charges, Accepts, NobodyCharges
<1>8. ASSUME NEW c \in Carts, CreateCart(c), UnchangedCheckouts PROVE CartMoves
  <2>1. cart[c].state # "CHECKED_OUT" /\ cart' = [cart EXCEPT ![c] = [state |-> "OPEN", items |-> NoItems]]
    BY <1>8 DEF CreateCart, Exists
  <2>2. cart'[c].state = "OPEN" /\ \A d \in Carts : d # c => cart'[d] = cart[d]
    BY <1>1, <2>1 DEF StoreTypeOK
  <2> QED
    BY <1>8, <2>1, <2>2 DEF CartMoves, PendingKept, CreateCart, UnchangedButCarts, UnchangedCheckouts, inventory
<1>9. ASSUME NEW p \in Products, NEW amount \in Prices, ChangePrice(p, amount) PROVE Quiet
  BY <1>9 DEF ChangePrice, checkoutVars, Quiet, PendingKept, inventory
<1>10. ASSUME UNCHANGED vars PROVE Quiet
  BY <1>10 DEF vars, storeVars, handlerVars, checkoutVars, Quiet, PendingKept, inventory
<1> QED
  BY <1>1, <1>3, <1>4, <1>5, <1>6, <1>7, <1>8, <1>9, <1>10 DEF StepKind, StoreKind

(* What an accepted checkout does. *)
LEMMA AcceptFacts ==
    ASSUME ShopInv, NEW t \in Tasks, NEW r \in Requests, Accepts(t, r)
    PROVE  /\ held'[t].lines = cart[r.cart].items /\ held'[t].coupon = r.coupon
           /\ held'[t] # NothingHeld /\ req'[t] = r
           /\ \A u \in Tasks : u # t => held'[u] = NothingHeld
           /\ cart[r.cart].state = "OPEN" /\ cart[r.cart].items # NoItems /\ r.cart \in Carts
           /\ IsLines(cart[r.cart].items)
           /\ ReserveInventory(cart[r.cart].items)
           /\ coupons' = WithReserved(coupons, r.coupon)
           /\ r.coupon \in 0..Len(coupons)
           /\ r.coupon # NoCoupon => /\ coupons[r.coupon].state = "AVAILABLE"
                                     /\ coupons[r.coupon].owner = r.customer
           /\ UNCHANGED <<price, cart, orders, lastRewarded>>
<1>1. TypeOK /\ r.op = "checkout" /\ NobodyCharges
  BY DEF ShopInv, Accepts
<1>2. PICK seen : Charge(t, r, seen)
  BY DEF Accepts
<1> DEFINE h == HeldBy(r, seen)
<1>3. /\ held' = [held EXCEPT ![t] = h] /\ h.lines = seen /\ h.coupon = r.coupon /\ h # NothingHeld
      /\ IsLines(seen) /\ seen # NoItems /\ r.coupon \in 0..Len(coupons)
      /\ ReserveInventory(seen) /\ coupons' = WithReserved(coupons, r.coupon)
      /\ cart[r.cart].state = "OPEN" /\ cart[r.cart].items = seen
      /\ UNCHANGED <<price, cart, orders, lastRewarded>> /\ Suspend(t, r)
  BY <1>1, <1>2, ChargeTypes
<1> HIDE DEF h
<1>4. held'[t] = h /\ \A u \in Tasks : u # t => held'[u] = NothingHeld
  BY <1>1, <1>3 DEF TypeOK, NobodyCharges, Charging
<1>5. req'[t] = r /\ r.cart \in Carts /\ r.coupon \in Nat
  BY <1>1, <1>3, HandlerMoves, RequestFacts
<1>6. CouponError(r.coupon, r.customer) = "OK"
  BY <1>2 DEF Charge
<1>7. r.coupon # NoCoupon => coupons[r.coupon].state = "AVAILABLE" /\ coupons[r.coupon].owner = r.customer
  BY <1>1, <1>5, <1>6, AcceptedIsAvailable
<1> QED
  BY <1>3, <1>4, <1>5, <1>7

(* The ledger cs is the current one, with coupon `code`, if any, replaced by *)
(* a row of the same milestone, percentage and owner.                        *)
OneCouponMoves(cs, code) ==
    /\ DOMAIN cs = DOMAIN coupons
    /\ \A k \in DOMAIN coupons :
         /\ k # code => cs[k] = coupons[k]
         /\ cs[k].owner = coupons[k].owner /\ cs[k].milestone = coupons[k].milestone
         /\ cs[k].percent = coupons[k].percent

LEMMA OneCoupon ==
    ASSUME coupons \in Seq(CouponRows), NEW code \in 0..Len(coupons), NEW order \in Nat
    PROVE  /\ OneCouponMoves(WithReserved(coupons, code), code)
           /\ OneCouponMoves(WithReleased(coupons, code), code)
           /\ OneCouponMoves(WithRedeemed(coupons, code, order), code)
           /\ code # NoCoupon => /\ code \in DOMAIN coupons
                                 /\ WithReserved(coupons, code)[code].state = "RESERVED"
                                 /\ WithReleased(coupons, code)[code].state = "AVAILABLE"
                                 /\ WithRedeemed(coupons, code, order)[code].state = "REDEEMED"
                                 /\ WithRedeemed(coupons, code, order)[code].order = order
<1>1. DOMAIN coupons = 1..Len(coupons) /\ Len(coupons) \in Nat
  BY LenProperties
<1>2. CASE code = NoCoupon
  BY <1>2 DEF OneCouponMoves, WithReserved, WithReleased, WithRedeemed
<1>3. CASE code # NoCoupon
  <2>1. code \in DOMAIN coupons
    BY <1>1, <1>3 DEF NoCoupon
  <2>2. coupons[code] \in CouponRows
    BY <1>1, <2>1, ElementOfSeq
  <2> QED
    BY <1>3, <2>1, <2>2 DEF OneCouponMoves, WithReserved, WithReleased, WithRedeemed, CouponRows
<1> QED
  BY <1>2, <1>3

(* What the end of a payment does. *)
LEMMA NobodyElse ==
    ASSUME ShopInv, NEW t \in Tasks, Charging(t), held' = [held EXCEPT ![t] = NothingHeld]
    PROVE  \A u \in Tasks : held'[u] = NothingHeld
<1>1. \A u \in Tasks : u # t => held[u] = NothingHeld
  BY OneCharges DEF Charging
<1> QED
  BY <1>1 DEF ShopInv, TypeOK

LEMMA FailFacts ==
    ASSUME ShopInv, NEW t \in Tasks, NEW code, ChargeFails(t, code)
    PROVE  /\ Charging(t) /\ \A u \in Tasks : held'[u] = NothingHeld
           /\ ReleaseInventory(held[t].lines)
           /\ coupons' = WithReleased(coupons, held[t].coupon)
           /\ UNCHANGED <<price, cart, orders, lastRewarded>>
           /\ held[t].coupon \in 0..Len(coupons)
BY NobodyElse, ChargingFacts DEF ChargeFails, UnchangedButCheckout

LEMMA PaidFacts ==
    ASSUME ShopInv, NEW t \in Tasks, PaymentApproved(t)
    PROVE  LET n == Len(orders) + 1 IN
           /\ Charging(t) /\ req[t].cart \in Carts /\ \A u \in Tasks : held'[u] = NothingHeld
           /\ CommitInventory(held[t].lines)
           /\ coupons' = WithRedeemed(coupons, held[t].coupon, n)
           /\ held[t].coupon \in 0..Len(coupons)
           /\ n \in Nat /\ n \notin DOMAIN orders /\ DOMAIN orders' = DOMAIN orders \union {n}
           /\ orders'[n] = OrderOf(t, req[t]) /\ \A i \in DOMAIN orders : orders'[i] = orders[i]
           /\ Len(orders') = n /\ DOMAIN orders = 1..Len(orders)
           /\ cart'[req[t].cart].state = "CHECKED_OUT"
           /\ cart'[req[t].cart].items = cart[req[t].cart].items
           /\ \A c \in Carts : c # req[t].cart => cart'[c] = cart[c]
           /\ UNCHANGED <<price, lastRewarded>>
<1> DEFINE r == req[t]
           n == Len(orders) + 1
           o == OrderOf(t, r)
<1>1. /\ Charging(t) /\ CommitInventory(held[t].lines)
      /\ coupons' = WithRedeemed(coupons, held[t].coupon, n)
      /\ orders' = Append(orders, o)
      /\ cart' = [cart EXCEPT ![r.cart].state = "CHECKED_OUT"]
      /\ held' = [held EXCEPT ![t] = NothingHeld]
      /\ UNCHANGED <<price, lastRewarded>>
  BY DEF PaymentApproved
<1>2. r.cart \in Carts /\ held[t].coupon \in 0..Len(coupons)
  BY <1>1, ChargingFacts
<1>3. \A u \in Tasks : held'[u] = NothingHeld
  BY <1>1, NobodyElse
<1> DEFINE log == Append(orders, o)
<1>a. orders \in Seq({orders[i] : i \in DOMAIN orders})
  BY DEF ShopInv, TypeOK, StoreTypeOK
<1>4. /\ DOMAIN orders = 1..Len(orders) /\ Len(orders) \in Nat /\ DOMAIN log = 1..(Len(orders) + 1)
      /\ log[Len(orders) + 1] = o /\ \A i \in DOMAIN orders : log[i] = orders[i]
      /\ log \in Seq({log[i] : i \in DOMAIN log})
  BY <1>a, GrowingLog
<1> HIDE DEF log, o
<1>5. orders' = log
  BY <1>1 DEF log
<1>6. Len(log) = n
  BY <1>4, LenProperties
<1>7. /\ cart'[r.cart].state = "CHECKED_OUT" /\ cart'[r.cart].items = cart[r.cart].items
      /\ \A c \in Carts : c # r.cart => cart'[c] = cart[c]
  BY <1>1, <1>2 DEF ShopInv, TypeOK, StoreTypeOK, IsCart
<1>8. n \in Nat /\ n \notin DOMAIN orders /\ DOMAIN orders' = DOMAIN orders \union {n}
  BY <1>4, <1>5
<1> QED
  BY <1>1, <1>2, <1>3, <1>4, <1>5, <1>6, <1>7, <1>8 DEF o

-----------------------------------------------------------------------------
(***************************************************************************)
(* While a payment is pending everything it will commit is in place: the   *)
(* reserved counters are its quantities and nothing else, its coupon is    *)
(* reserved for its customer, and it pays for a cart that is not empty.    *)
(***************************************************************************)
HasWhatItPays(t) ==
    /\ held[t].lines # NoItems /\ held[t].coupon = req[t].coupon
    /\ \A p \in Products : reserved[p] = HeldQuantity(t, p)
    /\ held[t].coupon # NoCoupon => /\ coupons[held[t].coupon].state = "RESERVED"
                                    /\ coupons[held[t].coupon].owner = req[t].customer

PaymentInv == /\ \A t \in Tasks : Charging(t) => HasWhatItPays(t)
              /\ NobodyCharges => \A p \in Products : reserved[p] = 0

LEMMA PendingPayments ==
    ASSUME ShopInv, PaymentInv, PendingKept, reserved' = reserved,
           \A k \in DOMAIN coupons : coupons'[k] = coupons[k]
    PROVE  PaymentInv'
<1>1. Len(coupons) \in Nat /\ DOMAIN coupons = 1..Len(coupons)
  BY LenProperties DEF ShopInv, TypeOK, StoreTypeOK
<1>2. ASSUME NEW t \in Tasks, Charging(t)' PROVE HasWhatItPays(t)'
  <2>1. Charging(t) /\ HasWhatItPays(t) /\ held'[t] = held[t] /\ req'[t] = req[t]
    BY <1>2 DEF PaymentInv, PendingKept, Charging
  <2>2. held[t].coupon \in 0..Len(coupons)
    BY <2>1, ChargingFacts
  <2> QED
    BY <1>1, <2>1, <2>2 DEF HasWhatItPays, HeldQuantity, NoCoupon
<1>3. NobodyCharges' => NobodyCharges
  BY DEF NobodyCharges, Charging, PendingKept
<1> QED
  BY <1>2, <1>3 DEF PaymentInv

LEMMA PaymentStep == ShopInv /\ PaymentInv /\ [Next]_vars => PaymentInv'
<1> SUFFICES ASSUME ShopInv, PaymentInv, [Next]_vars PROVE PaymentInv'
  OBVIOUS
<1>1. /\ StoreKind /\ coupons \in Seq(CouponRows) /\ Len(coupons) \in Nat /\ Len(orders) + 1 \in Nat
      /\ DOMAIN coupons = 1..Len(coupons) /\ reserved \in [Products -> Nat]
  BY StoreKinds, LenProperties DEF ShopInv, TypeOK, StoreTypeOK
<1>2. CASE Quiet \/ CartMoves
  BY <1>2, PendingPayments DEF Quiet, CartMoves, inventory
<1>3. CASE Rewards
  <2>1. coupons' = Append(coupons, Minted(NextMilestone)) /\ reserved' = reserved /\ PendingKept
    BY <1>3 DEF Rewards, Mint, inventory
  <2>2. \A k \in DOMAIN coupons : coupons'[k] = coupons[k]
    <3>1. coupons \in Seq({coupons[i] : i \in DOMAIN coupons})
      BY <1>1, IsASeq
    <3> DEFINE row == Minted(NextMilestone)
    <3>2. coupons' = Append(coupons, row)
      BY <2>1
    <3> HIDE DEF row
    <3> QED
      BY <3>1, <3>2, GrowingLog
  <2> QED
    BY <2>1, <2>2, PendingPayments
<1>4. ASSUME NEW t \in Tasks, NEW r \in Requests, Accepts(t, r) PROVE PaymentInv'
  <2> DEFINE lines == cart[r.cart].items
  <2>1. /\ held'[t].lines = lines /\ held'[t].coupon = r.coupon /\ lines # NoItems /\ IsLines(lines)
        /\ held'[t] # NothingHeld /\ req'[t] = r
        /\ \A u \in Tasks : u # t => held'[u] = NothingHeld
        /\ ReserveInventory(lines) /\ coupons' = WithReserved(coupons, r.coupon)
        /\ r.coupon \in 0..Len(coupons)
        /\ r.coupon # NoCoupon => coupons[r.coupon].owner = r.customer
    BY <1>4, AcceptFacts
  <2>2. \A p \in Products : reserved[p] = 0
    BY <1>4 DEF PaymentInv, Accepts
  <2>3. \A p \in Products : reserved'[p] = IF p \in DOMAIN lines THEN lines[p].quantity ELSE 0
    BY <2>1, <2>2 DEF ReserveInventory, In, IsLines
  <2>4. r.coupon # NoCoupon => coupons'[r.coupon].state = "RESERVED" /\ coupons'[r.coupon].owner = r.customer
    <3>1. OneCouponMoves(coupons', r.coupon)
          /\ (r.coupon # NoCoupon => r.coupon \in DOMAIN coupons /\ coupons'[r.coupon].state = "RESERVED")
      BY <1>1, <2>1, OneCoupon
    <3> QED
      BY <2>1, <3>1 DEF OneCouponMoves
  <2> HIDE DEF lines
  <2>5. HasWhatItPays(t)'
    BY <2>1, <2>3, <2>4 DEF HasWhatItPays, HeldQuantity
  <2> QED
    BY <2>1, <2>5 DEF PaymentInv, NobodyCharges, Charging
<1>5. ASSUME NEW t \in Tasks, PaymentApproved(t) \/ \E code : ChargeFails(t, code) PROVE PaymentInv'
  <2>1. /\ Charging(t) /\ reserved' = Out(reserved, held[t].lines)
        /\ \A u \in Tasks : held'[u] = NothingHeld
    BY <1>5, PaidFacts, FailFacts DEF CommitInventory, ReleaseInventory
  <2>2. IsLines(held[t].lines) /\ HasWhatItPays(t)
    BY <2>1, ChargingFacts DEF PaymentInv
  <2>3. \A p \in Products : reserved'[p] = 0
    BY <1>1, <2>1, <2>2 DEF HasWhatItPays, HeldQuantity, Out, IsLines
  <2> QED
    BY <2>1, <2>3 DEF PaymentInv, Charging
<1> QED
  BY <1>1, <1>2, <1>3, <1>4, <1>5 DEF StoreKind

LEMMA PaymentInit == Init => PaymentInv
BY DEF Init, StoreInit, CheckoutInit, PaymentInv, Charging

(***************************************************************************)
(* The gateway's approval is never wasted: the inventory, the coupon and   *)
(* the claim are all there to be committed, so that none of the three      *)
(* checks that raise after the payment can fail.                           *)
(***************************************************************************)
THEOREM PaidCheckoutsAlwaysCommit == Spec => []PaidCheckoutsCommit
<1>1. ShopInv /\ ClaimInv /\ PaymentInv => PaidCheckoutsCommit
  <2> SUFFICES ASSUME ShopInv, ClaimInv, PaymentInv, NEW t \in Tasks, Charging(t)
               PROVE  /\ IsReserved(held[t].lines)
                      /\ held[t].coupon # NoCoupon => coupons[held[t].coupon].state = "RESERVED"
                      /\ ClaimIsLive(req[t])
    BY DEF PaidCheckoutsCommit
  <2>1. HasWhatItPays(t) /\ IsLines(held[t].lines) /\ t \in Checkouts
    BY ChargingFacts DEF PaymentInv, Checkouts
  <2>2. IsReserved(held[t].lines)
    <3> SUFFICES ASSUME NEW p \in DOMAIN held[t].lines
                 PROVE  held[t].lines[p].quantity <= reserved[p]
      BY DEF IsReserved
    <3>1. p \in Products /\ held[t].lines[p].quantity \in Nat
      BY <2>1 DEF IsLines
    <3>2. reserved[p] = held[t].lines[p].quantity
      BY <2>1, <3>1 DEF HasWhatItPays, HeldQuantity
    <3> QED
      BY <3>1, <3>2
  <2>3. ClaimIsLive(req[t])
    BY <2>1 DEF ClaimInv, Works, ClaimIsLive
  <2> QED
    BY <2>1, <2>2, <2>3 DEF HasWhatItPays
<1> QED
  BY <1>1, ClaimInit, ClaimStep, PaymentInit, PaymentStep, ShopInvariance, PTL DEF Spec

-----------------------------------------------------------------------------
LEMMA OldPart ==
    ASSUME NEW s, s \in Seq({s[i] : i \in DOMAIN s}), NEW r, Len(r) = Len(s) + 1,
           \A i \in DOMAIN s : r[i] = s[i]
    PROVE  SubSeq(r, 1, Len(s)) = s
<1>1. Len(s) \in Nat /\ DOMAIN s = 1..Len(s) /\ s = [i \in 1..Len(s) |-> s[i]]
  BY LenProperties
<1>2. SubSeq(r, 1, Len(s)) = [i \in 1..Len(s) |-> r[i]]
  BY <1>1
<1> QED
  BY <1>1, <1>2

(* A settled record is never touched again. *)
LEMMA CompletedStays ==
    ASSUME ShopInv, ClaimInv, [Next]_vars, NEW ck \in Carts \X Keys, records[ck].state = "COMPLETED"
    PROVE  records'[ck] = records[ck]
<1>1. ClaimKind /\ records \in [Carts \X Keys -> Records]
  BY ClaimKinds DEF ShopInv, TypeOK
<1>2. ASSUME NEW t \in Tasks, NEW r \in Requests, Begins(t, r) \/ FailsAtOnce(t, r)
      PROVE  records'[ck] = records[ck]
  BY <1>1, <1>2 DEF Begins, FailsAtOnce, Admitted, Claimed, Unclaimed
<1>3. ASSUME NEW t \in Tasks, Ends(t) PROVE records'[ck] = records[ck]
  <2>1. KeyOf(req[t]) # ck
    BY <1>3 DEF Ends, ClaimInv, Works, Checkouts
  <2> QED
    BY <1>1, <1>3, <2>1 DEF Ends, Unclaimed, Completed
<1> QED
  BY <1>1, <1>2, <1>3 DEF ClaimKind, KeepsClaims

(***************************************************************************)
(* Nothing that has been settled ever changes: orders, carts that were     *)
(* checked out, coupons that were redeemed, records that were completed.   *)
(***************************************************************************)
THEOREM HistoryStaysFinal == Spec => HistoryIsFinal
<1> DEFINE Final ==
      /\ Len(orders') >= Len(orders) /\ SubSeq(orders', 1, Len(orders)) = orders
      /\ \A c \in Carts : cart[c].state = "CHECKED_OUT" => cart'[c] = cart[c]
      /\ \A k \in DOMAIN coupons : coupons[k].state = "REDEEMED" => coupons'[k] = coupons[k]
      /\ \A ck \in Carts \X Keys : records[ck].state = "COMPLETED" => records'[ck] = records[ck]
<1>1. ShopInv /\ ClaimInv /\ PaymentInv /\ Frozen /\ [Next]_vars => [Final]_vars
  <2> SUFFICES ASSUME ShopInv, ClaimInv, PaymentInv, Frozen, [Next]_vars
               PROVE  Final
    OBVIOUS
  <2>1. /\ StoreKind /\ coupons \in Seq(CouponRows) /\ Len(coupons) \in Nat
        /\ DOMAIN coupons = 1..Len(coupons) /\ Len(orders) \in Nat /\ DOMAIN orders = 1..Len(orders)
        /\ orders \in Seq({orders[i] : i \in DOMAIN orders})
    BY StoreKinds, LenProperties DEF ShopInv, TypeOK, StoreTypeOK
  <2>2. \A ck \in Carts \X Keys : records[ck].state = "COMPLETED" => records'[ck] = records[ck]
    BY CompletedStays
  <2>3. orders' = orders => Len(orders') >= Len(orders) /\ SubSeq(orders', 1, Len(orders)) = orders
    <3>1. orders = [i \in 1..Len(orders) |-> orders[i]]
      BY <2>1, LenProperties
    <3> QED
      BY <2>1, <3>1
  <2>4. CASE Quiet \/ CartMoves
    BY <2>2, <2>3, <2>4 DEF Quiet, CartMoves
  <2>5. CASE Rewards
    <3> DEFINE row == Minted(NextMilestone)
    <3>1. coupons' = Append(coupons, row) /\ cart' = cart /\ orders' = orders
      BY <2>5 DEF Rewards, Mint
    <3> HIDE DEF row
    <3>2. coupons \in Seq({coupons[i] : i \in DOMAIN coupons})
      BY <2>1, IsASeq
    <3>3. \A k \in DOMAIN coupons : coupons'[k] = coupons[k]
      BY <3>1, <3>2, GrowingLog
    <3> QED
      BY <2>2, <2>3, <3>1, <3>3
  <2>6. ASSUME NEW t \in Tasks, NEW r \in Requests, Accepts(t, r) PROVE Final
    <3>1. OneCouponMoves(coupons', r.coupon) /\ cart' = cart /\ orders' = orders
          /\ (r.coupon # NoCoupon => coupons[r.coupon].state = "AVAILABLE")
      BY <2>1, <2>6, AcceptFacts, OneCoupon, 0 \in Nat
    <3>2. \A k \in DOMAIN coupons : coupons[k].state = "REDEEMED" => k # r.coupon
      BY <2>1, <3>1 DEF NoCoupon
    <3> QED
      BY <2>2, <2>3, <3>1, <3>2 DEF OneCouponMoves
  <2>7. ASSUME NEW t \in Tasks, PaymentApproved(t) \/ \E code : ChargeFails(t, code) PROVE Final
    <3> DEFINE mine == held[t].coupon
    <3>1. Charging(t) /\ mine \in 0..Len(coupons)
      BY <2>7, PaidFacts, FailFacts
    <3>2. mine # NoCoupon => coupons[mine].state = "RESERVED"
      BY <3>1 DEF PaymentInv, HasWhatItPays
    <3>3. OneCouponMoves(coupons', mine)
      BY <2>1, <2>7, <3>1, PaidFacts, FailFacts, OneCoupon, 0 \in Nat
    <3>4. \A k \in DOMAIN coupons : coupons[k].state = "REDEEMED" => coupons'[k] = coupons[k]
      BY <2>1, <3>2, <3>3 DEF OneCouponMoves, NoCoupon
    <3>5. cart[req[t].cart].state = "OPEN"
      BY <3>1 DEF Frozen, IsFrozen
    <3>6. \A c \in Carts : cart[c].state = "CHECKED_OUT" => cart'[c] = cart[c]
      BY <2>7, <3>5, PaidFacts, FailFacts
    <3>7. Len(orders') >= Len(orders) /\ SubSeq(orders', 1, Len(orders)) = orders
      <4>1. CASE PaymentApproved(t)
        <5>1. Len(orders') = Len(orders) + 1 /\ \A i \in DOMAIN orders : orders'[i] = orders[i]
          BY <4>1, PaidFacts
        <5> QED
          BY <2>1, <5>1, OldPart
      <4>2. CASE \E code : ChargeFails(t, code)
        BY <2>3, <4>2, FailFacts
      <4> QED
        BY <2>7, <4>1, <4>2
    <3> QED
      BY <2>2, <3>4, <3>6, <3>7
  <2> HIDE DEF Final
  <2> QED
    BY <2>1, <2>4, <2>5, <2>6, <2>7 DEF StoreKind
<1>2. Init => Frozen
  BY DEF Init, CheckoutInit, Frozen, IsFrozen, Charging
<1>3. ShopInv /\ Frozen /\ [Next]_vars => Frozen'
  BY FrozenStep
<1> QED
  BY <1>1, <1>2, <1>3, ClaimInit, ClaimStep, PaymentInit, PaymentStep, ShopInvariance, PTL
     DEF Spec, HistoryIsFinal

-----------------------------------------------------------------------------
(* Orders and carts: OrderInv is OneOrderPerCart said without counting.    *)
OrderInv ==
    /\ \A c \in Carts : cart[c].state = "CHECKED_OUT" => OrdersOf(c) # {}
    /\ \A i \in DOMAIN orders : LET c == orders[i].cart IN
         /\ c \in Carts /\ cart[c].state = "CHECKED_OUT"
         /\ orders[i].lines = cart[c].items /\ orders[i].lines # NoItems
    /\ \A i, j \in DOMAIN orders : orders[i].cart = orders[j].cart => i = j

LEMMA SameLog ==
    ASSUME OrderInv, orders' = orders,
           \A c \in Carts : cart[c].state = "CHECKED_OUT" => cart'[c] = cart[c],
           \A c \in Carts : cart'[c].state = "CHECKED_OUT" => cart[c].state = "CHECKED_OUT"
    PROVE  OrderInv'
BY DEF OrderInv, OrdersOf

LEMMA OrderStep ==
    ShopInv /\ PaymentInv /\ Frozen /\ OrderInv /\ [Next]_vars => OrderInv'
<1> SUFFICES ASSUME ShopInv, PaymentInv, Frozen, OrderInv, [Next]_vars PROVE OrderInv'
  OBVIOUS
<1>1. StoreKind
  BY StoreKinds
<1>2. CASE Quiet \/ Rewards
  BY <1>2, SameLog DEF Quiet, Rewards
<1>3. CASE CartMoves
  BY <1>3, SameLog DEF CartMoves
<1>4. ASSUME NEW t \in Tasks, NEW r \in Requests, Accepts(t, r) PROVE OrderInv'
  BY <1>4, AcceptFacts, SameLog
<1>5. ASSUME NEW t \in Tasks, NEW code, ChargeFails(t, code) PROVE OrderInv'
  BY <1>5, FailFacts, SameLog
<1>6. ASSUME NEW t \in Tasks, PaymentApproved(t) PROVE OrderInv'
  <2> DEFINE c == req[t].cart
             n == Len(orders) + 1
  <2>1. /\ Charging(t) /\ c \in Carts
        /\ n \notin DOMAIN orders /\ DOMAIN orders' = DOMAIN orders \union {n}
        /\ orders'[n] = OrderOf(t, req[t]) /\ \A i \in DOMAIN orders : orders'[i] = orders[i]
        /\ cart'[c].state = "CHECKED_OUT" /\ cart'[c].items = cart[c].items
        /\ \A d \in Carts : d # c => cart'[d] = cart[d]
    BY <1>6, PaidFacts
  <2> HIDE DEF n
  <2>2. cart[c].state = "OPEN" /\ cart[c].items = held[t].lines /\ held[t].lines # NoItems
    BY <2>1 DEF Frozen, IsFrozen, PaymentInv, HasWhatItPays
  <2>3. orders'[n].cart = c /\ orders'[n].lines = held[t].lines
    BY <2>1 DEF OrderOf
  <2> HIDE DEF c
  <2>4. \A i \in DOMAIN orders : orders[i].cart # c /\ orders[i].cart \in Carts
    BY <2>2 DEF OrderInv
  <2>5. \A d \in Carts : cart'[d].state = "CHECKED_OUT" => \E i \in DOMAIN orders' : orders'[i].cart = d
    BY <2>1, <2>3 DEF OrderInv, OrdersOf
  <2>6. \A i \in DOMAIN orders' :
          /\ orders'[i].cart \in Carts /\ cart'[orders'[i].cart].state = "CHECKED_OUT"
          /\ orders'[i].lines = cart'[orders'[i].cart].items /\ orders'[i].lines # NoItems
    BY <2>1, <2>2, <2>3, <2>4 DEF OrderInv
  <2>7. \A i, j \in DOMAIN orders' : orders'[i].cart = orders'[j].cart => i = j
    BY <2>1, <2>3, <2>4 DEF OrderInv
  <2> QED
    BY <2>5, <2>6, <2>7 DEF OrderInv, OrdersOf
<1> QED
  BY <1>1, <1>2, <1>3, <1>4, <1>5, <1>6 DEF StoreKind

(***************************************************************************)
(* I2: a cart has exactly one order once it is checked out, and none       *)
(* before, under any number of keys, retries and concurrent checkouts.     *)
(***************************************************************************)
THEOREM EveryCartIsOrderedOnce == Spec => []OneOrderPerCart
<1>1. OrderInv => OneOrderPerCart
  <2> SUFFICES ASSUME OrderInv, NEW c \in Carts
               PROVE  /\ cart[c].state = "CHECKED_OUT" <=> Cardinality(OrdersOf(c)) = 1
                      /\ cart[c].state # "CHECKED_OUT" <=> OrdersOf(c) = {}
                      /\ \A i \in OrdersOf(c) : orders[i].lines = cart[c].items /\ orders[i].lines # NoItems
    BY DEF OneOrderPerCart
  <2>1. \A i \in OrdersOf(c) : /\ cart[c].state = "CHECKED_OUT"
                               /\ orders[i].lines = cart[c].items /\ orders[i].lines # NoItems
    BY DEF OrderInv, OrdersOf
  <2>2. CASE cart[c].state = "CHECKED_OUT"
    <3>1. PICK i \in OrdersOf(c) : TRUE
      BY <2>2 DEF OrderInv
    <3>2. OrdersOf(c) = {i}
      BY <3>1 DEF OrderInv, OrdersOf
    <3> QED
      BY <2>1, <2>2, <3>2, FS_Singleton
  <2>3. CASE cart[c].state # "CHECKED_OUT"
    <3>1. OrdersOf(c) = {}
      BY <2>1, <2>3
    <3> QED
      BY <2>1, <2>3, <3>1, FS_EmptySet
  <2> QED
    BY <2>2, <2>3
<1>2. Init => Frozen /\ OrderInv
  BY DEF Init, StoreInit, CheckoutInit, Frozen, IsFrozen, Charging, OrderInv, OrdersOf
<1>3. ShopInv /\ Frozen /\ [Next]_vars => Frozen'
  BY FrozenStep
<1> QED
  BY <1>1, <1>2, <1>3, OrderStep, PaymentInit, PaymentStep, ShopInvariance, PTL DEF Spec

-----------------------------------------------------------------------------
(* Records and orders: RecordInv is RecordsLeadToOrders without counting.  *)
Settles(ck, i) == records[ck].state = "COMPLETED" /\ records[ck].order = i

RecordInv ==
    /\ \A ck \in Carts \X Keys : records[ck].state = "COMPLETED" =>
         /\ records[ck].order \in DOMAIN orders
         /\ LET o == orders[records[ck].order]
            IN  records[ck].fingerprint = <<o.cart, o.customer, o.coupon>> /\ o.cart = ck[1]
    /\ \A i \in DOMAIN orders : \E ck \in Carts \X Keys : Settles(ck, i)
    /\ \A i \in DOMAIN orders, ck, dk \in Carts \X Keys : Settles(ck, i) /\ Settles(dk, i) => ck = dk

(* A step that settles nothing. *)
LEMMA NothingSettled ==
    ASSUME RecordInv, orders' = orders,
           \A ck \in Carts \X Keys : \/ records'[ck] = records[ck]
                                     \/ /\ records[ck].state # "COMPLETED"
                                        /\ records'[ck].state # "COMPLETED"
    PROVE  RecordInv'
BY DEF RecordInv, Settles

(* RecordInv of the next state, written out. *)
LEMMA RecordsFit ==
    ASSUME \A dk \in Carts \X Keys : records'[dk].state = "COMPLETED" =>
             /\ records'[dk].order \in DOMAIN orders'
             /\ LET o == orders'[records'[dk].order]
                IN  records'[dk].fingerprint = <<o.cart, o.customer, o.coupon>> /\ o.cart = dk[1],
           \A i \in DOMAIN orders' : \E dk \in Carts \X Keys :
             records'[dk].state = "COMPLETED" /\ records'[dk].order = i,
           \A i \in DOMAIN orders', dk, ek \in Carts \X Keys :
             /\ records'[dk].state = "COMPLETED" /\ records'[dk].order = i
             /\ records'[ek].state = "COMPLETED" /\ records'[ek].order = i
             => dk = ek
    PROVE  RecordInv'
BY DEF RecordInv, Settles

LEMMA RecordStep ==
    ShopInv /\ ClaimInv /\ PaymentInv /\ RecordInv /\ [Next]_vars => RecordInv'
<1> SUFFICES ASSUME ShopInv, ClaimInv, PaymentInv, RecordInv, [Next]_vars PROVE RecordInv'
  OBVIOUS
<1>1. ClaimKind /\ StoreKind /\ records \in [Carts \X Keys -> Records]
  BY ClaimKinds, StoreKinds DEF ShopInv, TypeOK
<1>2. ASSUME NEW t \in Tasks, PaymentApproved(t) PROVE RecordInv'
  <2> DEFINE r == req[t]
             n == Len(orders) + 1
             ck == KeyOf(r)
  <2>1. /\ Charging(t) /\ n \notin DOMAIN orders /\ DOMAIN orders' = DOMAIN orders \union {n}
        /\ orders'[n] = OrderOf(t, r) /\ \A i \in DOMAIN orders : orders'[i] = orders[i]
    BY <1>2, PaidFacts
  <2>2. /\ held[t].coupon = r.coupon /\ t \in Checkouts /\ ck \in Carts \X Keys /\ ck[1] = r.cart
    BY <2>1, ChargingFacts, CheckoutKeys DEF PaymentInv, HasWhatItPays, Checkouts, KeyOf
  <2>3. records' = Completed(records, r, n)
    BY <1>2 DEF PaymentApproved
  <2>4. orders'[n].cart = r.cart /\ orders'[n].customer = r.customer /\ orders'[n].coupon = r.coupon
    BY <2>1, <2>2 DEF OrderOf
  <2>5. records[ck].state = "IN_PROGRESS" /\ records[ck].fingerprint = <<r.cart, r.customer, r.coupon>>
    BY <2>2 DEF ClaimInv, Works, Fingerprint
  <2> HIDE DEF r, n
  <2>6. /\ records'[ck].state = "COMPLETED" /\ records'[ck].order = n
        /\ records'[ck].fingerprint = records[ck].fingerprint
        /\ \A dk \in Carts \X Keys : dk # ck => records'[dk] = records[dk]
    BY <1>1, <2>2, <2>3 DEF Completed, Records
  <2> HIDE DEF ck
  <2> DEFINE Now(dk, i) == records'[dk].state = "COMPLETED" /\ records'[dk].order = i
  <2>7. \A dk \in Carts \X Keys : dk # ck => ~ Now(dk, n)
    BY <2>1, <2>6 DEF RecordInv, Settles
  <2>8. \A dk \in Carts \X Keys : records'[dk].state = "COMPLETED" =>
          /\ records'[dk].order \in DOMAIN orders'
          /\ LET o == orders'[records'[dk].order]
             IN  records'[dk].fingerprint = <<o.cart, o.customer, o.coupon>> /\ o.cart = dk[1]
    <3>1. ASSUME NEW dk \in Carts \X Keys, dk # ck, records'[dk].state = "COMPLETED"
          PROVE  /\ records'[dk].order \in DOMAIN orders'
                 /\ LET o == orders'[records'[dk].order]
                    IN  records'[dk].fingerprint = <<o.cart, o.customer, o.coupon>> /\ o.cart = dk[1]
      <4>1. records'[dk] = records[dk] /\ records[dk].order \in DOMAIN orders
        BY <2>6, <3>1 DEF RecordInv
      <4>2. orders'[records[dk].order] = orders[records[dk].order]
        BY <2>1, <4>1
      <4> QED
        BY <2>1, <3>1, <4>1, <4>2 DEF RecordInv
    <3>2. /\ records'[ck].order = n /\ n \in DOMAIN orders'
          /\ records'[ck].fingerprint = <<orders'[n].cart, orders'[n].customer, orders'[n].coupon>>
          /\ orders'[n].cart = ck[1]
      BY <2>1, <2>2, <2>4, <2>5, <2>6
    <3> QED
      BY <3>1, <3>2
  <2>9. \A i \in DOMAIN orders' : \E dk \in Carts \X Keys : Now(dk, i)
    <3>1. Now(ck, n)
      BY <2>6 DEF Settles
    <3>2. ASSUME NEW i \in DOMAIN orders PROVE \E dk \in Carts \X Keys : Now(dk, i)
      <4>1. PICK dk \in Carts \X Keys : Settles(dk, i)
        BY <3>2 DEF RecordInv
      <4>2. dk # ck
        BY <2>5, <4>1 DEF Settles
      <4> QED
        BY <2>6, <4>1, <4>2 DEF Settles
    <3> QED
      BY <2>1, <2>2, <3>1, <3>2
  <2>10. \A i \in DOMAIN orders', dk, ek \in Carts \X Keys : Now(dk, i) /\ Now(ek, i) => dk = ek
    <3>1. ASSUME NEW i \in DOMAIN orders', NEW dk \in Carts \X Keys, NEW ek \in Carts \X Keys,
                 Now(dk, i), Now(ek, i)
          PROVE  dk = ek
      <4>1. CASE i = n
        BY <2>7, <3>1, <4>1
      <4>2. CASE i # n
        <5>1. i \in DOMAIN orders /\ dk # ck /\ ek # ck
          BY <2>1, <2>6, <3>1, <4>2 DEF Settles
        <5> QED
          BY <2>6, <3>1, <5>1 DEF RecordInv, Settles
      <4> QED
        BY <4>1, <4>2
    <3> QED
      BY <3>1
  <2> QED
    BY <2>8, <2>9, <2>10, RecordsFit
<1>3. (\A t \in Tasks : ~PaymentApproved(t)) => orders' = orders
  BY <1>1, AcceptFacts, FailFacts DEF StoreKind, Quiet, CartMoves, Rewards
<1>4. ASSUME \A t \in Tasks : ~PaymentApproved(t),
             NEW t \in Tasks, NEW r \in Requests, Begins(t, r) \/ FailsAtOnce(t, r)
      PROVE  RecordInv'
  <2>1. KeyOf(r) \in Carts \X Keys /\ records[KeyOf(r)].state = "ABSENT"
    BY <1>4, RequestFacts DEF Begins, FailsAtOnce, Admitted
  <2>2. /\ records'[KeyOf(r)].state # "COMPLETED"
        /\ \A ck \in Carts \X Keys : ck # KeyOf(r) => records'[ck] = records[ck]
    BY <1>1, <1>4, <2>1 DEF Begins, FailsAtOnce, Claimed, Unclaimed, NoRecord
  <2> QED
    BY <1>3, <1>4, <2>1, <2>2, NothingSettled
<1>5. ASSUME \A t \in Tasks : ~PaymentApproved(t), NEW t \in Tasks, Ends(t) PROVE RecordInv'
  <2>1. t \in Checkouts /\ records' = Unclaimed(records, req[t])
    BY <1>5 DEF Ends, Checkouts
  <2>2. KeyOf(req[t]) \in Carts \X Keys /\ records[KeyOf(req[t])].state = "IN_PROGRESS"
    BY <2>1, CheckoutKeys DEF ClaimInv, Works
  <2>3. /\ records'[KeyOf(req[t])].state # "COMPLETED"
        /\ \A ck \in Carts \X Keys : ck # KeyOf(req[t]) => records'[ck] = records[ck]
    BY <1>1, <2>1, <2>2 DEF Unclaimed, NoRecord
  <2> QED
    BY <1>3, <1>5, <2>2, <2>3, NothingSettled
<1>6. ASSUME \A t \in Tasks : ~PaymentApproved(t), KeepsClaims PROVE RecordInv'
  BY <1>3, <1>6, NothingSettled DEF KeepsClaims
<1> QED
  BY <1>1, <1>2, <1>4, <1>5, <1>6 DEF ClaimKind

(***************************************************************************)
(* I3: every completed record leads to an order of that very request, and  *)
(* every order is the outcome of exactly one (cart, key).                  *)
(***************************************************************************)
THEOREM RecordsAlwaysLeadToOrders == Spec => []RecordsLeadToOrders
<1>1. RecordInv => RecordsLeadToOrders
  <2> SUFFICES ASSUME RecordInv, NEW i \in DOMAIN orders
               PROVE  Cardinality({ck \in Carts \X Keys :
                                     records[ck].state = "COMPLETED" /\ records[ck].order = i}) = 1
    BY DEF RecordInv, RecordsLeadToOrders
  <2>1. PICK ck \in Carts \X Keys : Settles(ck, i)
    BY DEF RecordInv
  <2>2. {dk \in Carts \X Keys : records[dk].state = "COMPLETED" /\ records[dk].order = i} = {ck}
    BY <2>1 DEF RecordInv, Settles
  <2> QED
    BY <2>2, FS_Singleton
<1>2. Init => RecordInv
  BY DEF Init, StoreInit, IdempotencyInit, NoRecord, RecordInv
<1> QED
  BY <1>1, <1>2, RecordStep, ClaimInit, ClaimStep, PaymentInit, PaymentStep, ShopInvariance, PTL DEF Spec

-----------------------------------------------------------------------------
(***************************************************************************)
(* The counters of a product, as sums.  What is reserved is one summand    *)
(* among zeros: PaymentInv says it is what the one pending payment holds.  *)
(* What is sold grows with the order log, by the lines of the last order.  *)
(***************************************************************************)
Bought(p) == [i \in DOMAIN orders |->
                IF p \in DOMAIN orders[i].lines THEN orders[i].lines[p].quantity ELSE 0]

SoldInv == \A p \in Products : sold[p] = Purchased(p)

LEMMA BoughtFacts ==
    ASSUME ShopInv, NEW p
    PROVE  /\ Len(orders) \in Nat /\ DOMAIN orders = 1..Len(orders) /\ IsFiniteSet(DOMAIN orders)
           /\ Bought(p) \in [DOMAIN orders -> Nat]
<1>1. Len(orders) \in Nat /\ DOMAIN orders = 1..Len(orders)
  BY LenProperties DEF ShopInv, TypeOK, StoreTypeOK
<1>2. IsFiniteSet(DOMAIN orders)
  BY <1>1, FS_Interval
<1>3. \A i \in DOMAIN orders : IsLines(orders[i].lines)
  BY DEF ShopInv, TypeOK, StoreTypeOK, IsOrder
<1>4. \A i \in DOMAIN orders : p \in DOMAIN orders[i].lines => orders[i].lines[p].quantity \in Nat
  BY <1>3 DEF IsLines
<1> QED
  BY <1>1, <1>2, <1>4 DEF Bought

LEMMA SoldStep == ShopInv /\ SoldInv /\ [Next]_vars => SoldInv'
<1> SUFFICES ASSUME ShopInv, ShopInv', SoldInv, [Next]_vars PROVE SoldInv'
  BY ShopStepKeeps DEF Keeps
<1>1. StoreKind
  BY StoreKinds
<1>2. ASSUME sold' = sold, orders' = orders PROVE SoldInv'
  BY <1>2 DEF SoldInv, Purchased
<1>3. CASE Quiet \/ CartMoves \/ Rewards
  BY <1>2, <1>3 DEF Quiet, CartMoves, Rewards, inventory
<1>4. ASSUME NEW t \in Tasks, NEW r \in Requests, Accepts(t, r) PROVE SoldInv'
  BY <1>2, <1>4, AcceptFacts DEF ReserveInventory
<1>5. ASSUME NEW t \in Tasks, NEW code, ChargeFails(t, code) PROVE SoldInv'
  BY <1>2, <1>5, FailFacts DEF ReleaseInventory
<1>6. ASSUME NEW t \in Tasks, PaymentApproved(t) PROVE SoldInv'
  <2> DEFINE n == Len(orders) + 1
             lines == held[t].lines
  <2>0. /\ CommitInventory(lines) /\ n \notin DOMAIN orders /\ DOMAIN orders' = DOMAIN orders \union {n}
        /\ orders'[n] = OrderOf(t, req[t]) /\ \A i \in DOMAIN orders : orders'[i] = orders[i]
    BY <1>6, PaidFacts
  <2> HIDE DEF n
  <2>1. /\ sold' = In(sold, lines) /\ n \notin DOMAIN orders /\ DOMAIN orders' = DOMAIN orders \union {n}
        /\ orders'[n].lines = lines /\ \A i \in DOMAIN orders : orders'[i] = orders[i]
    BY <2>0 DEF CommitInventory, OrderOf
  <2> HIDE DEF lines
  <2> SUFFICES ASSUME NEW p \in Products PROVE sold'[p] = Purchased(p)'
    BY DEF SoldInv
  <2> DEFINE w == Bought(p)
             v == [i \in DOMAIN orders' |->
                     IF p \in DOMAIN orders'[i].lines THEN orders'[i].lines[p].quantity ELSE 0]
             more == IF p \in DOMAIN lines THEN lines[p].quantity ELSE 0
  <2>2. w \in [DOMAIN orders -> Int] /\ IsFiniteSet(DOMAIN orders)
    <3>1. w \in [DOMAIN orders -> Nat] /\ IsFiniteSet(DOMAIN orders)
      BY BoughtFacts
    <3> HIDE DEF w
    <3> QED
      BY <3>1
  <2>3. v \in [DOMAIN orders \union {n} -> Int]
    <3>1. Bought(p)' \in [DOMAIN orders' -> Nat]
      <4>1. \A i \in DOMAIN orders' : IsLines(orders'[i].lines)
        BY DEF ShopInv, TypeOK, StoreTypeOK, IsOrder
      <4>2. \A i \in DOMAIN orders' : p \in DOMAIN orders'[i].lines => orders'[i].lines[p].quantity \in Nat
        BY <4>1 DEF IsLines
      <4> QED
        BY <4>2 DEF Bought
    <3>2. v = Bought(p)'
      BY DEF Bought
    <3> HIDE DEF v
    <3> QED
      BY <2>1, <3>1, <3>2
  <2>4. (\A i \in DOMAIN orders : v[i] = w[i]) /\ v[n] = more
    BY <2>1 DEF Bought
  <2>5. SumFunction(w) = Purchased(p) /\ SumFunction(v) = Purchased(p)'
    BY DEF Purchased, Bought
  <2> HIDE DEF w, v
  <2>6. SumFunction(v) = SumFunction(w) + more
    BY <2>1, <2>2, <2>3, <2>4, OneAdded
  <2>7. sold'[p] = sold[p] + more
    <3>1. sold[p] \in Nat
      BY DEF ShopInv, TypeOK, StoreTypeOK
    <3> QED
      BY <2>1, <3>1 DEF In
  <2> QED
    BY <2>5, <2>6, <2>7 DEF SoldInv
<1> QED
  BY <1>1, <1>3, <1>4, <1>5, <1>6 DEF StoreKind

LEMMA SoldInit == Init => SoldInv
<1>1. ASSUME NEW p, orders = <<>> PROVE Purchased(p) = 0
  BY <1>1, EmptySum DEF Purchased
<1> QED
  BY <1>1 DEF Init, StoreInit, SoldInv

LEMMA ReservedIsPending ==
    ASSUME ShopInv, PaymentInv, NEW p \in Products
    PROVE  reserved[p] = SumFunction([t \in Tasks |-> HeldQuantity(t, p)])
<1> DEFINE w == [t \in Tasks |-> HeldQuantity(t, p)]
<1>1. \A t \in Tasks : ~Charging(t) => w[t] = 0
  BY DEF Charging, NothingHeld, NoItems, HeldQuantity
<1>2. w \in [Tasks -> Int]
  <2>1. ASSUME NEW t \in Tasks PROVE HeldQuantity(t, p) \in Int
    <3>1. IsLines(held[t].lines)
      BY DEF ShopInv, TypeOK
    <3> QED
      BY <3>1 DEF IsLines, HeldQuantity
  <2> QED
    BY <2>1
<1>3. \A t \in Tasks : Charging(t) => w[t] = reserved[p]
  BY DEF PaymentInv, HasWhatItPays
<1> HIDE DEF w
<1>4. CASE NobodyCharges
  <2>1. SumFunction(w) = 0
    BY <1>1, <1>2, <1>4, TasksAreFinite, ZeroSum DEF NobodyCharges
  <2>2. reserved[p] = 0
    BY <1>4 DEF PaymentInv
  <2> QED
    BY <2>1, <2>2 DEF w
<1>5. ASSUME NEW t \in Tasks, Charging(t) PROVE reserved[p] = SumFunction(w)
  <2>1. \A u \in Tasks \ {t} : w[u] = 0
    BY <1>1, <1>5, OneCharges
  <2> QED
    BY <1>2, <1>3, <1>5, <2>1, TasksAreFinite, OnlyOne
<1> QED
  BY <1>4, <1>5 DEF NobodyCharges, w

(***************************************************************************)
(* No reservation outlives its checkout and no item is sold without an     *)
(* order: the counters are what the pending payments and the order log     *)
(* say, for every number of tasks, orders and lines.                       *)
(***************************************************************************)
THEOREM CountersAlwaysAgree == Spec => []CountersAgree
<1>1. ShopInv /\ PaymentInv /\ SoldInv => CountersAgree
  BY ReservedIsPending DEF CountersAgree, SoldInv
<1> QED
  BY <1>1, SoldInit, SoldStep, PaymentInit, PaymentStep, ShopInvariance, PTL DEF Spec
=============================================================================
