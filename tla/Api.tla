-------------------------------- MODULE Api --------------------------------
(***************************************************************************)
(* The HTTP layer over the service: what the door refuses before a handler *)
(* runs (api/deps.py, api/schemas.py), the reads of api/routers, and the   *)
(* status of every answer (core/errors.py, api/errors.py).                 *)
(*                                                                         *)
(* A call is a request as it arrives: its quantities are not yet checked,  *)
(* its Idempotency-Key may be missing or too long, its admin token wrong.  *)
(***************************************************************************)
EXTENDS Shop, Reports

CONSTANT Calls     \* [request, token]: every call a client can make

VARIABLES
    response,      \* the response the last step sent, if it sent one
    shown          \* <<order, its body>> of every order ever shown to a client

apiVars == <<vars, response, shown>>

MaxQuantity == 100
NoKey       == ""
AdminOps    == {"generate", "report", "coupons"}
NoResponse  == [request |-> NoRequest, status |-> 0, code |-> "none"]

-----------------------------------------------------------------------------
(* What is refused before anything is read: by require_admin, by the       *)
(* request models and header types, and by the checkout route.             *)
Forbidden(call) == call.request.op \in AdminOps /\ call.token # "right"

Invalid(r) == \/ r.op \in {"add", "set"} /\ r.quantity \notin 1..MaxQuantity
              \/ r.op = "checkout" /\ r.key \notin Keys \union {NoKey}

KeyMissing(r) == r.op = "checkout" /\ r.key = NoKey

DoorError(call) ==
    CASE Forbidden(call)          -> "FORBIDDEN"
      [] Invalid(call.request)    -> "VALIDATION_FAILED"
      [] KeyMissing(call.request) -> "IDEMPOTENCY_KEY_REQUIRED"
      [] OTHER                    -> "OK"

ReadOps == {"cart", "order", "products", "coupons", "report"}

(* What gets through is what the handlers are written for. *)
ASSUME TheDoorLetsIn ==
    Requests = {call.request : call \in {d \in Calls : DoorError(d) = "OK" /\ d.request.op \notin ReadOps}}

(* One status per code, fixed by its exception class. *)
ErrorStatus(code) ==
    CASE code = "IDEMPOTENCY_KEY_REQUIRED" -> 400
      [] code = "PAYMENT_DECLINED" -> 402
      [] code = "FORBIDDEN" -> 403
      [] code \in {"CART_NOT_FOUND", "PRODUCT_NOT_FOUND", "ORDER_NOT_FOUND"} -> 404
      [] code \in {"CART_ALREADY_CHECKED_OUT", "CART_MODIFIED", "INSUFFICIENT_INVENTORY",
                   "PRICE_CHANGED", "COUPON_IN_USE", "NO_ELIGIBLE_MILESTONE",
                   "IDEMPOTENCY_KEY_REUSED", "REQUEST_IN_PROGRESS"} -> 409
      [] code \in {"VALIDATION_FAILED", "CART_EMPTY", "QUANTITY_EXCEEDS_STOCK", "UNKNOWN_CUSTOMER",
                   "COUPON_INVALID", "COUPON_ALREADY_REDEEMED"} -> 422
      [] code = "INTERNAL_ERROR" -> 500

(* The status of a route, which the checkout route lowers for a replay.    *)
RouteStatus(r, code) == IF r.op \in {"add", "checkout", "generate"} THEN 201
                        ELSE IF r.op = "remove" THEN 204 ELSE 200

SuccessStatus(r, code) == IF code = "REPLAYED" THEN 200 ELSE RouteStatus(r, code)

Status(r, code) ==
    CASE code = "CANCELLED" -> 0     \* the client has gone: no response
      [] code \in {"OK", "CREATED", "REPLAYED"} -> SuccessStatus(r, code)
      [] OTHER -> ErrorStatus(code)

Respond(r, code) == response' = [request |-> r, status |-> Status(r, code), code |-> code]

-----------------------------------------------------------------------------
TurnedAway(call) ==
    /\ DoorError(call) # "OK"
    /\ Respond(call.request, DoorError(call))
    /\ UNCHANGED <<vars, shown>>

(* A lock-free read: it answers from the store and changes nothing. *)
ReadError(r) ==
    CASE r.op = "cart" /\ ~Exists(r.cart)               -> "CART_NOT_FOUND"
      [] r.op = "order" /\ r.order \notin DOMAIN orders -> "ORDER_NOT_FOUND"
      [] OTHER                                          -> "OK"

Read(call) ==
    LET r == call.request
    IN  /\ DoorError(call) = "OK" /\ r.op \in ReadOps
        /\ Respond(r, ReadError(r))
        /\ shown' = IF r.op = "order" /\ ReadError(r) = "OK"
                    THEN shown \union {<<r.order, OrderView(r.order)>>} ELSE shown
        /\ UNCHANGED vars

(* A step of the service; a checkout that succeeds shows its order. *)
Serve ==
    /\ Next
    /\ IF reply' = NoReply THEN response' = NoResponse
       ELSE Respond(reply'.request, reply'.code)
    /\ IF reply'.code \in {"CREATED", "REPLAYED"}
       THEN \E i \in DOMAIN orders' :
              i = reply'.order /\ shown' = shown \union {<<i, OrderView(i)'>>}
       ELSE UNCHANGED shown

ApiInit == Init /\ response = NoResponse /\ shown = {}

ApiNext == Serve \/ \E call \in Calls : TurnedAway(call) \/ Read(call)

ApiSpec == ApiInit /\ [][ApiNext]_apiVars

-----------------------------------------------------------------------------
(***************************************************************************)
(* I10, D23, PRD AC-K7: an order reads the same to everybody for ever,     *)
(* whether it was returned by the checkout that created it, by a replay of *)
(* it, or by GET /orders, and whatever has happened to prices since.       *)
(***************************************************************************)
AnOrderReadsTheSame == \A a, b \in shown : a[1] = b[1] => a[2] = b[2]

(***************************************************************************)
(* TAD 7, README "Errors": the status says what happened.  A response of   *)
(* 400 and up, from whatever depth, leaves carts, orders, coupons and the  *)
(* unsold stock as they were when it was sent; a checkout answers 201      *)
(* exactly when it appended its order, and 200 when it was there before.   *)
(***************************************************************************)
StatusTellsTheOutcome ==
    [][/\ response'.status >= 400 =>
            /\ UNCHANGED <<cart, orders, sold, lastRewarded>>
            /\ \A p \in Products : available'[p] + reserved'[p] = available[p] + reserved[p]
            /\ Len(coupons') = Len(coupons)
            /\ \A k \in DOMAIN coupons : coupons'[k].state = "REDEEMED" => coupons[k].state = "REDEEMED"
       /\ response'.request.op = "checkout" =>
            /\ response'.status = 201 <=> Len(orders') = Len(orders) + 1
            /\ response'.status = 200 => OrdersOf(response'.request.cart) # {}
      ]_apiVars

(***************************************************************************)
(* I8, I11, I15: two reports differ by what was answered between them.     *)
(* The money moves only with a created order, by the gross its cart showed *)
(* before; a coupon is counted as redeemed with the order that used it,    *)
(* and as generated with the answer that announced it.                     *)
(***************************************************************************)
ReportFollowsTheAnswers ==
    [][LET created  == response'.code = "CREATED"
           rewarded == response'.code = "OK" /\ response'.request.op = "generate"
           redeemed == created /\ response'.request.coupon # NoCoupon
       IN  /\ Report'.gross_minor = Report.gross_minor
                + (IF created THEN CartView(response'.request.cart).gross_minor ELSE 0)
           /\ Report'.orders_placed = Report.orders_placed + (IF created THEN 1 ELSE 0)
           /\ Report'.coupons_redeemed = Report.coupons_redeemed + (IF redeemed THEN 1 ELSE 0)
           /\ Report'.coupons_generated = Report.coupons_generated + (IF rewarded THEN 1 ELSE 0)
      ]_apiVars
=============================================================================
