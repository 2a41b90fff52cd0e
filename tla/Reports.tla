------------------------------ MODULE Reports ------------------------------
(***************************************************************************)
(* The views a client reads: core/reports.py, the cart view of             *)
(* core/carts.py, GET /products and GET /orders.  All of them are computed *)
(* from the store at the moment of the read, without a lock, and may fall  *)
(* between any two steps of the running checkouts.                         *)
(***************************************************************************)
EXTENDS Store

ProductsIn(bought) == [p \in {q \in Products : bought[q] > 0} |-> bought[p]]

(* The report on these purchases.  Products never sold are omitted; the     *)
(* settings n and x it repeats are constants.                               *)
ReportOn(bought) ==
    [orders_placed |-> PlacedOrders,
     items_purchased |-> ProductsIn(bought),
     gross_minor    |-> SumFunction([i \in DOMAIN orders |-> orders[i].gross]),
     discount_minor |-> SumFunction([i \in DOMAIN orders |-> orders[i].discount]),
     net_minor      |-> SumFunction([i \in DOMAIN orders |-> orders[i].net]),
     coupons_generated |-> Len(coupons),
     coupons_available |-> Cardinality(InState("AVAILABLE")),
     coupons_reserved  |-> Cardinality(InState("RESERVED")),
     coupons_redeemed  |-> Cardinality(InState("REDEEMED"))]

CountsReservations == ReportOn([p \in Products |-> sold[p] + reserved[p]])
Report == ReportOn([p \in Products |-> Purchased(p)])

-----------------------------------------------------------------------------
(* A line of a cart, at the price it was added at, with the live price. *)
LineView(c, p) ==
    LET item == cart[c].items[p]
    IN  [quantity |-> item.quantity, unit_price_minor |-> item.price,
         line_total_minor |-> LineTotal(item.price, item.quantity),
         current_unit_price_minor |-> price[p], price_changed |-> item.price # price[p]]

CartView(c) ==
    [state |-> cart[c].state,
     lines |-> [p \in DOMAIN cart[c].items |-> LineView(c, p)],
     gross_minor |-> Gross(cart[c].items),
     has_price_changes |-> \E p \in DOMAIN cart[c].items : LineView(c, p).price_changed]

(* An order as it was placed: its row, never recomputed. *)
AtLivePrices(i) ==
    [orders[i] EXCEPT !.lines = [p \in DOMAIN @ |-> [@[p] EXCEPT !.price = price[p]]]]
OrderView(i) == orders[i]

(* GET /products: the live counters of every product. *)
Catalogue ==
    [p \in Products |->
       [unit_price_minor |-> price[p], stock_total |-> StockTotal[p],
        available |-> available[p], reserved |-> reserved[p], sold |-> sold[p]]]

-----------------------------------------------------------------------------
(***************************************************************************)
(* I11, I12, I15, I10: whatever is in flight, the views agree with each    *)
(* other.  The report's money is that of the carts that were checked out,  *)
(* as their own views show them; its items are what the catalogue counts   *)
(* as sold; a redeemed coupon is an order with a coupon; the aggregate     *)
(* net is the gross less the discount; the coupons add up.                 *)
(***************************************************************************)
ViewsAgree ==
    LET done == {c \in Carts : CartView(c).state = "CHECKED_OUT"}
    IN  /\ Report.gross_minor = SumFunction([c \in done |-> CartView(c).gross_minor])
        /\ Report.orders_placed = Cardinality(done)
        /\ Report.net_minor = Report.gross_minor - Report.discount_minor
        /\ \A p \in Products : Catalogue[p].sold =
             IF p \in DOMAIN Report.items_purchased THEN Report.items_purchased[p] ELSE 0
        /\ Report.coupons_redeemed = Cardinality({i \in DOMAIN orders : OrderView(i).coupon # NoCoupon})
        /\ Report.coupons_generated =
             Report.coupons_available + Report.coupons_reserved + Report.coupons_redeemed
        /\ \A i \in DOMAIN orders : OrderView(i).gross =
             SumFunction([p \in DOMAIN OrderView(i).lines |->
                            CartView(OrderView(i).cart).lines[p].line_total_minor])
=============================================================================
