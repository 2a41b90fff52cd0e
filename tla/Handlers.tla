------------------------------ MODULE Handlers ------------------------------
(***************************************************************************)
(* api/routers: one asyncio task per request.  A task takes a request,     *)
(* runs its handler until it suspends, and ends with an answer; it is then *)
(* free for another request.  `reply` is the answer the last step gave, if *)
(* it gave one.                                                            *)
(***************************************************************************)
EXTENDS LockManager, Store

CONSTANT Requests    \* every request a client can send

VARIABLES req, reply

NoRequest == [op |-> "none"]
NoReply   == [request |-> NoRequest, code |-> "none", order |-> NoOrder]

handlerVars == <<req, reply>>

HandlersInit == req = [t \in Tasks |-> NoRequest] /\ reply = NoReply

Idle(t) == req[t] = NoRequest

(* The task keeps its request and waits for something. *)
Suspend(t, r) == req' = [req EXCEPT ![t] = r] /\ reply' = NoReply

(* The handler of request r returns or raises: an HTTP status, an error    *)
(* code, or "CANCELLED" when the client has gone and nobody is answered.   *)
Answer(t, r, code, order) ==
    /\ req' = [req EXCEPT ![t] = NoRequest]
    /\ reply' = [request |-> r, code |-> code, order |-> order]
=============================================================================
