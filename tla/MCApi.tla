------------------------------- MODULE MCApi -------------------------------
(***************************************************************************)
(* An instance of Api: two carts, one of them paid for with the coupon the *)
(* first order earned, prices that move, every read, and calls that do not *)
(* get through the door.                                                   *)
(***************************************************************************)
EXTENDS Api, TLC

Plain(r)      == [request |-> r, token |-> "none"]
Admin(r, tok) == [request |-> r, token |-> tok]
Put(c, q)     == [op |-> "set", cart |-> c, product |-> 1, quantity |-> q]
Pay(c, coupon, key) ==
    [op |-> "checkout", cart |-> c, customer |-> "alice", coupon |-> coupon, key |-> key]

ApiCalls ==
    {Plain(Put(c, 1)) : c \in {"c1", "c2"}} \union {Plain(Put("c1", q)) : q \in {0, 101}}
      \union {Plain([op |-> "reprice", cart |-> "c1"]),
              Plain(Pay("c1", NoCoupon, "k1")), Plain(Pay("c2", 1, "k1")),
              Plain(Pay("c1", NoCoupon, NoKey)), Plain(Pay("c1", NoCoupon, "too long")),
              Plain([op |-> "cart", cart |-> "c1"]), Plain([op |-> "products"]),
              Plain([op |-> "order", order |-> 1])}
      \union {Admin([op |-> op], tok) : op \in AdminOps, tok \in {"right", "wrong", "none"}}

ApiRequests == {call.request : call \in {d \in ApiCalls : DoorError(d) = "OK" /\ d.request.op \notin ReadOps}}

ApiStock == 1 :> 2

ByTask == Permutations(Tasks)
=============================================================================
