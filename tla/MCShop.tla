------------------------------- MODULE MCShop -------------------------------
(***************************************************************************)
(* Instances of Shop for TLC: who the clients are and what they may send.  *)
(* A request may be sent any number of times, by any number of tasks: each *)
(* one stands for its own retries and duplicates.                          *)
(***************************************************************************)
EXTENDS ShopRefinement, TLC

Add(c, p, q) == [op |-> "add", cart |-> c, product |-> p, quantity |-> q]
Put(c, p, q) == [op |-> "set", cart |-> c, product |-> p, quantity |-> q]
Drop(c, p)   == [op |-> "remove", cart |-> c, product |-> p]
Reprice(c)   == [op |-> "reprice", cart |-> c]
Generate     == [op |-> "generate"]
Pay(c, who, coupon, key) ==
    [op |-> "checkout", cart |-> c, customer |-> who, coupon |-> coupon, key |-> key]

ByTask == Permutations(Tasks)

-----------------------------------------------------------------------------
(* Inventory: two carts of two products race for the last item of one.     *)
RaceRequests ==
    {Add(c, p, 1) : c \in {"c1", "c2"}, p \in {1, 2}}
      \union {Pay(c, "alice", NoCoupon, "k1") : c \in {"c1", "c2"}}
RaceStock == 1 :> 2 @@ 2 :> 1

(* Idempotency: one cart, two keys, and several bodies under one key.      *)
RetryRequests ==
    {Add("c1", 1, 1)} \union {Pay("c1", who, NoCoupon, "k1") : who \in {"alice", "bob", "stranger"}}
      \union {Pay("c1", "alice", NoCoupon, "k2")}
RetryStock == 1 :> 2

(* Coupons: the first order earns one; two more carts, with different      *)
(* products, compete for it, and a customer who does not own it tries too. *)
RewardRequests ==
    {Put("c1", 1, 1), Put("c2", 1, 1), Put("c3", 2, 1), Generate,
     Pay("c1", "alice", NoCoupon, "k1"), Pay("c2", "alice", 1, "k1"),
     Pay("c3", "alice", 1, "k1"), Pay("c3", "bob", 1, "k1")}
RewardStock == 1 :> 2 @@ 2 :> 1

(* Edits: every cart operation while the cart is paid for and prices move; *)
(* product 3 is not in the catalogue.                                      *)
EditRequests ==
    {Add("c1", 1, 1), Add("c1", 3, 1), Put("c1", 2, 2), Drop("c1", 1), Reprice("c1"),
     Reprice("c2"), Pay("c1", "alice", NoCoupon, "k1"), Pay("c1", "alice", NoCoupon, "k2")}
EditStock == 1 :> 2 @@ 2 :> 2

(* A percentage no coupon can be redeemed at, and a reward setting that no  *)
(* count of orders can fall short of.                                       *)
MisconfiguredRequests ==
    {Put(c, 1, 1) : c \in {"c1", "c2", "c3"}}
      \union {Pay("c1", "alice", NoCoupon, "k1"), Pay("c2", "bob", NoCoupon, "k1"),
              Pay("c3", "bob", 1, "k1"), Pay("c3", "bob", NoCoupon, "k1"), Generate}
Backwards == -1
MisconfiguredStock == 1 :> 3

(* Liveness: checkouts of two carts with a product in common, against an   *)
(* edit of one of them and the coupon ledger.                              *)
LiveRequests ==
    {Put("c1", 1, 1), Put("c2", 1, 1), Generate,
     Pay("c1", "alice", NoCoupon, "k1"), Pay("c2", "alice", NoCoupon, "k1")}
LiveStock == 1 :> 1

(* Two checkouts with nothing in common. *)
ApartRequests == {Put("c1", 1, 1), Put("c2", 2, 1),
                  Pay("c1", "alice", NoCoupon, "k1"), Pay("c2", "bob", NoCoupon, "k1")}
ApartStock == 1 :> 1 @@ 2 :> 1

(* The sequential shop: edits that meet a pending payment for the same      *)
(* product, a price that moves, a coupon for every second order, two bodies *)
(* under one key, and another key.                                          *)
AtomicRequests ==
    {Put(c, 1, 1) : c \in {"c1", "c2", "c3"}} \union {Add("c2", 1, 1), Generate}
      \union {Pay("c1", "alice", NoCoupon, "k1"), Pay("c2", "bob", NoCoupon, "k1"),
              Pay("c3", "bob", 1, "k1"), Pay("c3", "alice", NoCoupon, "k1")}
AtomicStock == 1 :> 3
=============================================================================
