--------------------------- MODULE ShopRefinement ---------------------------
(***************************************************************************)
(* The concurrent service implements the sequential shop of AtomicShop.    *)
(* A checkout happens when it is committed: until then its inventory is    *)
(* in stock, its coupon free, and its idempotency claim leaves no receipt. *)
(***************************************************************************)
EXTENDS Shop

StockNow == [p \in Products |-> available[p] + reserved[p]]

VouchersNow ==
    [k \in DOMAIN coupons |->
       IF coupons[k].state = "RESERVED" THEN [coupons[k] EXCEPT !.state = "AVAILABLE"] ELSE coupons[k]]

ReceiptsNow ==
    [ck \in Carts \X Keys |->
       IF records[ck].state = "COMPLETED"
       THEN [body |-> records[ck].fingerprint, order |-> records[ck].order]
       ELSE [body |-> <<>>, order |-> NoOrder]]

Promise == INSTANCE AtomicShop WITH
    basket <- cart, stock <- StockNow, log <- orders, vouchers <- VouchersNow,
    rewarded <- lastRewarded, receipts <- ReceiptsNow

(***************************************************************************)
(* Linearizability: whatever the interleaving of the tasks, their  *)
(* locks, payments, failures and retries, clients see the answers of a     *)
(* shop that serves one request at a time.  In particular every refusal    *)
(* is true when it is given: nobody is told that stock is short because    *)
(* of a reservation that is given back later, and a checkout that was      *)
(* served is replayed, never refused.                                      *)
(***************************************************************************)
ImplementsAtomicShop == Promise!AtomicSpec
=============================================================================
