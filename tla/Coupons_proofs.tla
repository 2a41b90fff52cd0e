---------------------------- MODULE Coupons_proofs ----------------------------
(***************************************************************************)
(* Proofs about the coupons of Shop: a coupon pays for at most one order,  *)
(* its owner's, and every milestone that is reached earns at most one.     *)
(* Then about the amounts of the orders, which follow from their own lines *)
(* and the percentage of the coupon they name.                             *)
(***************************************************************************)
EXTENDS Orders_proofs

(***************************************************************************)
(* The ledger and the order log name each other.  With PaymentInv (what is *)
(* held is reserved) and LedgerInv (what is reserved is held) this is      *)
(* CouponsAreUsedOnce without counting.                                    *)
(***************************************************************************)
PaidBy(i, k) == /\ k \in DOMAIN coupons /\ coupons[k].state = "REDEEMED"
                /\ coupons[k].order = i /\ coupons[k].owner = orders[i].customer

RedeemInv ==
    /\ \A k \in DOMAIN coupons : coupons[k].state = "REDEEMED" =>
         coupons[k].order \in DOMAIN orders /\ orders[coupons[k].order].coupon = k
    /\ \A i \in DOMAIN orders : orders[i].coupon # NoCoupon => PaidBy(i, orders[i].coupon)

(* A step that redeems nothing. *)
LEMMA NothingRedeemed ==
    ASSUME RedeemInv, orders' = orders, DOMAIN coupons \subseteq DOMAIN coupons',
           \A k \in DOMAIN coupons' :
             \/ k \in DOMAIN coupons /\ coupons'[k] = coupons[k]
             \/ /\ coupons'[k].state # "REDEEMED"
                /\ k \in DOMAIN coupons => coupons[k].state # "REDEEMED"
    PROVE  RedeemInv'
BY DEF RedeemInv, PaidBy

LEMMA RedeemStep == ShopInv /\ PaymentInv /\ RedeemInv /\ [Next]_vars => RedeemInv'
<1> SUFFICES ASSUME ShopInv, PaymentInv, RedeemInv, [Next]_vars PROVE RedeemInv'
  OBVIOUS
<1>1. /\ StoreKind /\ coupons \in Seq(CouponRows) /\ Len(coupons) \in Nat
      /\ DOMAIN coupons = 1..Len(coupons)
  BY StoreKinds, LenProperties DEF ShopInv, TypeOK, StoreTypeOK
<1>2. CASE Quiet \/ CartMoves
  BY <1>2, NothingRedeemed DEF Quiet, CartMoves
<1>3. CASE Rewards
  <2> DEFINE row == Minted(NextMilestone)
  <2>1. coupons' = Append(coupons, row) /\ orders' = orders /\ row.state = "AVAILABLE"
    BY <1>3 DEF Rewards, Mint, Minted
  <2> HIDE DEF row
  <2>2. coupons \in Seq({coupons[i] : i \in DOMAIN coupons})
    BY <1>1, IsASeq
  <2>3. /\ DOMAIN coupons' = 1..(Len(coupons) + 1) /\ coupons'[Len(coupons) + 1] = row
        /\ \A k \in DOMAIN coupons : coupons'[k] = coupons[k]
    BY <2>1, <2>2, GrowingLog
  <2> QED
    BY <1>1, <2>1, <2>3, NothingRedeemed
<1>4. ASSUME NEW t \in Tasks, NEW r \in Requests, Accepts(t, r) PROVE RedeemInv'
  <2>1. /\ orders' = orders /\ OneCouponMoves(coupons', r.coupon) /\ r.coupon \in 0..Len(coupons)
        /\ r.coupon # NoCoupon => /\ coupons'[r.coupon].state = "RESERVED"
                                  /\ coupons[r.coupon].state = "AVAILABLE"
    BY <1>1, <1>4, AcceptFacts, OneCoupon, 0 \in Nat
  <2> QED
    BY <1>1, <2>1, NothingRedeemed DEF OneCouponMoves, NoCoupon
<1>5. ASSUME NEW t \in Tasks, NEW code, ChargeFails(t, code) PROVE RedeemInv'
  <2> DEFINE mine == held[t].coupon
  <2>1. orders' = orders /\ Charging(t) /\ mine \in 0..Len(coupons) /\ OneCouponMoves(coupons', mine)
        /\ (mine # NoCoupon => coupons'[mine].state = "AVAILABLE")
    BY <1>1, <1>5, FailFacts, OneCoupon, 0 \in Nat
  <2>2. mine # NoCoupon => coupons[mine].state = "RESERVED"
    BY <2>1 DEF PaymentInv, HasWhatItPays
  <2> QED
    BY <1>1, <2>1, <2>2, NothingRedeemed DEF OneCouponMoves, NoCoupon
<1>6. ASSUME NEW t \in Tasks, PaymentApproved(t) PROVE RedeemInv'
  <2> DEFINE mine == held[t].coupon
             n == Len(orders) + 1
  <2>1. /\ Charging(t) /\ n \in Nat /\ mine \in 0..Len(coupons)
        /\ coupons' = WithRedeemed(coupons, mine, n)
        /\ n \notin DOMAIN orders /\ DOMAIN orders' = DOMAIN orders \union {n}
        /\ orders'[n] = OrderOf(t, req[t]) /\ \A i \in DOMAIN orders : orders'[i] = orders[i]
    BY <1>6, PaidFacts
  <2> HIDE DEF n
  <2>2. orders'[n].coupon = mine /\ orders'[n].customer = req[t].customer
    BY <2>1 DEF OrderOf
  <2>3. OneCouponMoves(coupons', mine)
        /\ (mine # NoCoupon => mine \in DOMAIN coupons /\ coupons'[mine].state = "REDEEMED"
                               /\ coupons'[mine].order = n)
    BY <1>1, <2>1, OneCoupon
  <2>4. mine # NoCoupon => coupons[mine].state = "RESERVED" /\ coupons[mine].owner = req[t].customer
    BY <2>1 DEF PaymentInv, HasWhatItPays
  <2> HIDE DEF mine
  <2>5. \A k \in DOMAIN coupons' : coupons'[k].state = "REDEEMED" =>
          coupons'[k].order \in DOMAIN orders' /\ orders'[coupons'[k].order].coupon = k
    <3>1. ASSUME NEW k \in DOMAIN coupons, k # mine, coupons'[k].state = "REDEEMED"
          PROVE  coupons'[k].order \in DOMAIN orders /\ orders[coupons'[k].order].coupon = k
      BY <2>3, <3>1 DEF OneCouponMoves, RedeemInv
    <3>2. ASSUME NEW k \in DOMAIN coupons, k = mine
          PROVE  coupons'[k].order \in DOMAIN orders' /\ orders'[coupons'[k].order].coupon = k
      BY <1>1, <2>1, <2>2, <2>3, <3>2 DEF NoCoupon
    <3> QED
      BY <2>1, <2>3, <3>1, <3>2 DEF OneCouponMoves
  <2>6. \A i \in DOMAIN orders' : orders'[i].coupon # NoCoupon =>
          LET k == orders'[i].coupon
          IN  /\ k \in DOMAIN coupons' /\ coupons'[k].state = "REDEEMED"
              /\ coupons'[k].order = i /\ coupons'[k].owner = orders'[i].customer
    <3>1. ASSUME NEW i \in DOMAIN orders, orders'[i].coupon # NoCoupon
          PROVE  LET k == orders'[i].coupon
                 IN  /\ k \in DOMAIN coupons' /\ coupons'[k].state = "REDEEMED"
                     /\ coupons'[k].order = i /\ coupons'[k].owner = orders'[i].customer
      <4>1. orders'[i] = orders[i] /\ PaidBy(i, orders[i].coupon)
        BY <2>1, <3>1 DEF RedeemInv
      <4>2. orders[i].coupon # mine
        BY <2>4, <3>1, <4>1 DEF PaidBy
      <4> QED
        BY <2>3, <4>1, <4>2 DEF PaidBy, OneCouponMoves
    <3>2. mine # NoCoupon => /\ mine \in DOMAIN coupons' /\ coupons'[mine].state = "REDEEMED"
                             /\ coupons'[mine].order = n /\ coupons'[mine].owner = orders'[n].customer
      BY <2>2, <2>3, <2>4 DEF OneCouponMoves
    <3> QED
      BY <2>1, <2>2, <3>1, <3>2
  <2> QED
    BY <2>5, <2>6 DEF RedeemInv, PaidBy
<1> QED
  BY <1>1, <1>2, <1>3, <1>4, <1>5, <1>6 DEF StoreKind

(***************************************************************************)
(* I4, I5, I6: a redeemed coupon paid for exactly one order, its owner's;  *)
(* a reserved one belongs to exactly one pending checkout; an available    *)
(* one to none.                                                            *)
(***************************************************************************)
THEOREM EveryCouponIsUsedOnce == Spec => []CouponsAreUsedOnce
<1>1. ShopInv /\ PaymentInv /\ LedgerInv /\ RedeemInv => CouponsAreUsedOnce
  <2> SUFFICES ASSUME ShopInv, PaymentInv, LedgerInv, RedeemInv, NEW k \in DOMAIN coupons
               PROVE  /\ coupons[k].state = "REDEEMED" <=> OrdersUsing(k) = {coupons[k].order}
                      /\ coupons[k].state # "REDEEMED" <=> OrdersUsing(k) = {}
                      /\ coupons[k].state = "RESERVED" <=> Cardinality(HoldersOf(k)) = 1
                      /\ coupons[k].state # "RESERVED" <=> HoldersOf(k) = {}
                      /\ \A i \in OrdersUsing(k) : orders[i].customer = coupons[k].owner
    BY DEF CouponsAreUsedOnce
  <2>1. k # NoCoupon
    BY LenProperties DEF ShopInv, TypeOK, StoreTypeOK, NoCoupon
  <2>2. \A i \in OrdersUsing(k) : PaidBy(i, k)
    BY <2>1 DEF OrdersUsing, RedeemInv
  <2>3. coupons[k].state = "REDEEMED" => coupons[k].order \in OrdersUsing(k)
    BY DEF OrdersUsing, RedeemInv
  <2>4. \A t \in HoldersOf(k) : Charging(t) /\ coupons[k].state = "RESERVED"
    BY <2>1, EmptyHands DEF HoldersOf, Charging, PaymentInv, HasWhatItPays, NoCoupon
  <2>5. coupons[k].state = "RESERVED" => \E t \in Tasks : HoldersOf(k) = {t}
    <3>1. ASSUME coupons[k].state = "RESERVED" PROVE \E t \in HoldersOf(k) : TRUE
      BY <3>1 DEF LedgerInv, ReservedByACharge, HoldersOf
    <3>2. \A t, u \in HoldersOf(k) : t = u
      BY <2>4, OneCharges DEF HoldersOf
    <3> QED
      BY <3>1, <3>2 DEF HoldersOf
  <2>6. coupons[k].state = "RESERVED" => Cardinality(HoldersOf(k)) = 1
    BY <2>5, FS_Singleton
  <2>7. coupons[k].state # "RESERVED" => HoldersOf(k) = {} /\ Cardinality(HoldersOf(k)) = 0
    BY <2>4, FS_EmptySet
  <2>8. coupons[k].state # "REDEEMED" <=> OrdersUsing(k) = {}
    BY <2>2, <2>3 DEF PaidBy
  <2>9. coupons[k].state = "REDEEMED" <=> OrdersUsing(k) = {coupons[k].order}
    BY <2>2, <2>3, <2>8 DEF PaidBy
  <2>10. \A i \in OrdersUsing(k) : orders[i].customer = coupons[k].owner
    BY <2>2 DEF PaidBy
  <2>11. coupons[k].state = "RESERVED" => HoldersOf(k) # {}
    BY <2>5
  <2> QED
    BY <2>6, <2>7, <2>8, <2>9, <2>10, <2>11
<1>2. Init => RedeemInv /\ LedgerInv
  BY DEF Init, StoreInit, HandlersInit, NoReply, RedeemInv, LedgerInv
<1> QED
  BY <1>1, <1>2, RedeemStep, LedgerStep, PaymentInit, PaymentStep, ShopInvariance, PTL DEF Spec
-----------------------------------------------------------------------------
(***************************************************************************)
(* Milestones.  A configuration with RewardN <= 0 rewards other orders, or *)
(* none (the runs on Reports say so): the invariant promises nothing then. *)
(***************************************************************************)
Rewarded(i) == /\ coupons[i].milestone = i /\ i * RewardN \in DOMAIN orders
               /\ coupons[i].owner = orders[i * RewardN].customer

MilestoneInv == RewardN > 0 =>
    /\ Len(coupons) = lastRewarded /\ lastRewarded * RewardN <= Len(orders)
    /\ \A i \in DOMAIN coupons : Rewarded(i)

(* A step that mints nothing; orders and the ledger's owners only move on. *)
LEMMA NothingMinted ==
    ASSUME MilestoneInv, coupons \in Seq(CouponRows), coupons' \in Seq(CouponRows),
           DOMAIN coupons' = DOMAIN coupons, lastRewarded' = lastRewarded, lastRewarded \in Nat,
           \A k \in DOMAIN coupons : /\ coupons'[k].owner = coupons[k].owner
                                     /\ coupons'[k].milestone = coupons[k].milestone,
           Len(orders) \in Nat, Len(orders') \in Nat, Len(orders') >= Len(orders),
           \A i \in DOMAIN orders : i \in DOMAIN orders' /\ orders'[i] = orders[i]
    PROVE  MilestoneInv'
<1> SUFFICES ASSUME RewardN > 0
             PROVE  /\ Len(coupons') = lastRewarded' /\ lastRewarded' * RewardN <= Len(orders')
                    /\ \A i \in DOMAIN coupons' :
                         /\ coupons'[i].milestone = i /\ i * RewardN \in DOMAIN orders'
                         /\ coupons'[i].owner = orders'[i * RewardN].customer
  BY DEF MilestoneInv, Rewarded
<1>1. /\ Len(coupons) = lastRewarded /\ lastRewarded * RewardN <= Len(orders)
      /\ \A i \in DOMAIN coupons : Rewarded(i)
  BY DEF MilestoneInv
<1>2. Len(coupons') = Len(coupons)
  BY LenProperties
<1>3. lastRewarded * RewardN \in Int
  BY StoreAssumption
<1>4. lastRewarded' * RewardN <= Len(orders')
  BY <1>1, <1>3
<1>5. ASSUME NEW i \in DOMAIN coupons
      PROVE  /\ coupons'[i].milestone = i /\ i * RewardN \in DOMAIN orders'
             /\ coupons'[i].owner = orders'[i * RewardN].customer
  BY <1>1 DEF Rewarded
<1> QED
  BY <1>1, <1>2, <1>4, <1>5

LEMMA MilestoneStep == ShopInv /\ MilestoneInv /\ [Next]_vars => MilestoneInv'
<1> SUFFICES ASSUME ShopInv, ShopInv', MilestoneInv, [Next]_vars PROVE MilestoneInv'
  BY ShopStepKeeps DEF Keeps
<1>1. /\ StoreKind /\ coupons \in Seq(CouponRows) /\ coupons' \in Seq(CouponRows)
      /\ Len(coupons) \in Nat /\ DOMAIN coupons = 1..Len(coupons)
      /\ Len(orders) \in Nat /\ Len(orders') \in Nat /\ lastRewarded \in Nat
  BY StoreKinds, LenProperties DEF ShopInv, TypeOK, StoreTypeOK
<1>2. CASE Quiet \/ CartMoves
  BY <1>1, <1>2, NothingMinted DEF Quiet, CartMoves
<1>3. CASE Rewards
  <2> DEFINE k == NextMilestone
             row == Minted(k)
  <2>1. /\ coupons' = Append(coupons, row) /\ lastRewarded' = k /\ orders' = orders
        /\ Len(orders) >= k * RewardN /\ MilestoneOrder(k) \in DOMAIN orders
    BY <1>3 DEF Rewards, Mint, PlacedOrders
  <2>2. k = lastRewarded + 1
    BY DEF NextMilestone
  <2>3. row.milestone = k /\ row.owner = orders[MilestoneOrder(k)].customer
    BY DEF Minted
  <2> HIDE DEF k, row
  <2>4. coupons \in Seq({coupons[i] : i \in DOMAIN coupons})
    BY <1>1, IsASeq
  <2>5. /\ DOMAIN coupons' = 1..(Len(coupons) + 1) /\ coupons'[Len(coupons) + 1] = row
        /\ \A i \in DOMAIN coupons : coupons'[i] = coupons[i]
    BY <2>1, <2>4, GrowingLog
  <2>6. Len(coupons') = Len(coupons) + 1
    BY <1>1, <2>5, LenProperties
  <2> SUFFICES ASSUME RewardN > 0
               PROVE  /\ Len(coupons') = lastRewarded' /\ lastRewarded' * RewardN <= Len(orders')
                      /\ \A i \in DOMAIN coupons' :
                           /\ coupons'[i].milestone = i /\ i * RewardN \in DOMAIN orders'
                           /\ coupons'[i].owner = orders'[i * RewardN].customer
    BY DEF MilestoneInv, Rewarded
  <2>7. Len(coupons) = lastRewarded /\ \A i \in DOMAIN coupons : Rewarded(i)
    BY DEF MilestoneInv
  <2>8. k * RewardN > 0
    <3>1. \A m, n \in Nat \ {0} : m * n > 0
      OBVIOUS
    <3>2. RewardN \in Nat \ {0} /\ k \in Nat \ {0}
      BY <1>1, <2>2, StoreAssumption
    <3> QED
      BY <3>1, <3>2
  <2>9. MilestoneOrder(k) = k * RewardN
    BY <2>8 DEF MilestoneOrder
  <2>10. ASSUME NEW i \in DOMAIN coupons
         PROVE  /\ coupons'[i].milestone = i /\ i * RewardN \in DOMAIN orders'
                /\ coupons'[i].owner = orders'[i * RewardN].customer
    BY <2>1, <2>5, <2>7 DEF Rewarded
  <2>11. /\ coupons'[k].milestone = k /\ k * RewardN \in DOMAIN orders'
         /\ coupons'[k].owner = orders'[k * RewardN].customer
    BY <2>1, <2>2, <2>3, <2>5, <2>7, <2>9
  <2>12. Len(coupons') = lastRewarded'
    BY <2>1, <2>2, <2>6, <2>7
  <2>13. lastRewarded' * RewardN <= Len(orders')
    <3>1. k * RewardN \in Int
      BY <1>1, <2>2, StoreAssumption
    <3> QED
      BY <1>1, <2>1, <3>1
  <2>14. \A i \in DOMAIN coupons' : i \in DOMAIN coupons \/ i = k
    BY <1>1, <2>2, <2>5, <2>7
  <2> QED
    BY <2>10, <2>11, <2>12, <2>13, <2>14
<1>4. ASSUME NEW t \in Tasks, NEW r \in Requests, Accepts(t, r) PROVE MilestoneInv'
  <2>1. orders' = orders /\ lastRewarded' = lastRewarded /\ OneCouponMoves(coupons', r.coupon)
    BY <1>1, <1>4, AcceptFacts, OneCoupon, 0 \in Nat
  <2> QED
    BY <1>1, <2>1, NothingMinted DEF OneCouponMoves
<1>5. ASSUME NEW t \in Tasks, NEW code, ChargeFails(t, code) PROVE MilestoneInv'
  <2>1. orders' = orders /\ lastRewarded' = lastRewarded /\ OneCouponMoves(coupons', held[t].coupon)
    BY <1>1, <1>5, FailFacts, OneCoupon, 0 \in Nat
  <2> QED
    BY <1>1, <2>1, NothingMinted DEF OneCouponMoves
<1>6. ASSUME NEW t \in Tasks, PaymentApproved(t) PROVE MilestoneInv'
  <2>1. /\ OneCouponMoves(coupons', held[t].coupon) /\ lastRewarded' = lastRewarded
        /\ Len(orders') = Len(orders) + 1
        /\ \A i \in DOMAIN orders : i \in DOMAIN orders' /\ orders'[i] = orders[i]
    BY <1>1, <1>6, PaidFacts, OneCoupon
  <2> QED
    BY <1>1, <2>1, NothingMinted DEF OneCouponMoves
<1> QED
  BY <1>1, <1>2, <1>3, <1>4, <1>5, <1>6 DEF StoreKind

(***************************************************************************)
(* I7: for every positive REWARD_N, the milestones rewarded so far are     *)
(* 1 .. last_rewarded, each once, each reached, and milestone k went to    *)
(* the customer of order k * n.                                            *)
(***************************************************************************)
THEOREM EveryMilestoneIsRewardedOnce ==
    ASSUME RewardN > 0 PROVE Spec => []MilestonesAreRewardedOnce
<1>1. ShopInv /\ MilestoneInv => MilestonesAreRewardedOnce
  <2> SUFFICES ASSUME ShopInv, MilestoneInv PROVE MilestonesAreRewardedOnce
    OBVIOUS
  <2>1. Len(coupons) \in Nat /\ DOMAIN coupons = 1..Len(coupons)
    BY LenProperties DEF ShopInv, TypeOK, StoreTypeOK
  <2>2. /\ Len(coupons) = lastRewarded /\ lastRewarded * RewardN <= PlacedOrders
        /\ \A i \in DOMAIN coupons : Rewarded(i)
    BY DEF MilestoneInv, PlacedOrders
  <2>3. {coupons[i].milestone : i \in DOMAIN coupons} = 1..lastRewarded
    BY <2>1, <2>2 DEF Rewarded
  <2>4. Cardinality(1..lastRewarded) = Len(coupons)
    BY <2>1, <2>2, FS_Interval
  <2>5. \A i \in DOMAIN coupons : coupons[i].owner = orders[coupons[i].milestone * RewardN].customer
    BY <2>2 DEF Rewarded
  <2> QED
    BY <2>2, <2>3, <2>4, <2>5 DEF MilestonesAreRewardedOnce
<1>2. Init => MilestoneInv
  <2>1. 0 * RewardN = 0
    BY StoreAssumption
  <2> QED
    BY <2>1 DEF Init, StoreInit, MilestoneInv
<1> QED
  BY <1>1, <1>2, MilestoneStep, ShopInvariance, PTL DEF Spec

-----------------------------------------------------------------------------
(* The percentage of a coupon never changes. *)
LEMMA PercentsStay ==
    ASSUME ShopInv, [Next]_vars, NEW k \in DOMAIN coupons
    PROVE  k \in DOMAIN coupons' /\ coupons'[k].percent = coupons[k].percent
<1>1. StoreKind /\ coupons \in Seq(CouponRows)
  BY StoreKinds DEF ShopInv, TypeOK, StoreTypeOK
<1>2. CASE Quiet \/ CartMoves
  BY <1>2 DEF Quiet, CartMoves
<1>3. CASE Rewards
  <2> DEFINE row == Minted(NextMilestone)
  <2>1. coupons' = Append(coupons, row)
    BY <1>3 DEF Rewards, Mint
  <2> HIDE DEF row
  <2>2. coupons \in Seq({coupons[i] : i \in DOMAIN coupons})
    BY <1>1, LenProperties, IsASeq
  <2>3. /\ DOMAIN coupons = 1..Len(coupons) /\ Len(coupons) \in Nat
        /\ DOMAIN coupons' = 1..(Len(coupons) + 1) /\ coupons'[k] = coupons[k]
    BY <2>1, <2>2, GrowingLog
  <2> QED
    BY <2>3
<1>4. (\E code : OneCouponMoves(coupons', code)) => k \in DOMAIN coupons' /\ coupons'[k].percent = coupons[k].percent
  BY DEF OneCouponMoves
<1>5. ASSUME NEW t \in Tasks, NEW r \in Requests, Accepts(t, r) PROVE \E code : OneCouponMoves(coupons', code)
  BY <1>1, <1>5, AcceptFacts, OneCoupon, 0 \in Nat
<1>6. ASSUME NEW t \in Tasks, PaymentApproved(t) \/ \E code : ChargeFails(t, code)
      PROVE  \E code : OneCouponMoves(coupons', code)
  BY <1>1, <1>6, PaidFacts, FailFacts, OneCoupon, 0 \in Nat
<1> QED
  BY <1>1, <1>2, <1>3, <1>4, <1>5, <1>6 DEF StoreKind

(* The amounts of a pending payment, computed before it was asked for.     *)
Priced(t) == /\ held[t].gross = Gross(held[t].lines)
             /\ held[t].discount = DiscountOf(held[t].gross, held[t].coupon)
             /\ held[t].net = Net(held[t].gross, held[t].discount)
             /\ CouponPercentOK(held[t].coupon)

AmountsInv == \A t \in Tasks : Charging(t) => Priced(t)

LEMMA HeldCoupon ==
    ASSUME ShopInv, NEW t \in Tasks, Charging(t), held[t].coupon # NoCoupon
    PROVE  held[t].coupon \in DOMAIN coupons
<1>1. held[t].coupon \in 0..Len(coupons)
  BY ChargingFacts
<1> QED
  BY <1>1, LenProperties DEF ShopInv, TypeOK, StoreTypeOK, NoCoupon

LEMMA SameAmounts ==
    ASSUME ShopInv, AmountsInv, [Next]_vars, held' = held
    PROVE  AmountsInv'
<1> SUFFICES ASSUME NEW t \in Tasks, Charging(t) PROVE Priced(t)'
  BY DEF AmountsInv, Charging
<1>1. Priced(t)
  BY DEF AmountsInv
<1>2. held[t].coupon # NoCoupon => /\ held[t].coupon \in DOMAIN coupons
                                   /\ coupons'[held[t].coupon].percent = coupons[held[t].coupon].percent
  BY HeldCoupon, PercentsStay
<1> QED
  BY <1>1, <1>2 DEF Priced, DiscountOf, CouponPercentOK

LEMMA AmountsStep == ShopInv /\ AmountsInv /\ [Next]_vars => AmountsInv'
<1> SUFFICES ASSUME ShopInv, AmountsInv, [Next]_vars PROVE AmountsInv'
  OBVIOUS
<1>1. StoreKind /\ coupons \in Seq(CouponRows)
  BY StoreKinds DEF ShopInv, TypeOK, StoreTypeOK
<1>2. CASE Quiet \/ CartMoves \/ Rewards
  BY <1>2, SameAmounts DEF Quiet, CartMoves, Rewards, PendingKept
<1>3. ASSUME NEW t \in Tasks, NEW r \in Requests, Accepts(t, r) PROVE AmountsInv'
  <2> DEFINE lines == cart[r.cart].items
  <2>1. PICK seen : Charge(t, r, seen)
    BY <1>3 DEF Accepts
  <2>2. (\A u \in Tasks : u # t => held'[u] = NothingHeld) /\ r.coupon \in 0..Len(coupons)
    BY <1>3, AcceptFacts
  <2>3. held'[t] = HeldBy(r, lines) /\ CouponPercentOK(r.coupon)
    BY <2>1 DEF Charge, ShopInv, TypeOK
  <2>4. r.coupon # NoCoupon => r.coupon \in DOMAIN coupons
    BY <1>1, <2>2, LenProperties DEF NoCoupon
  <2>5. r.coupon # NoCoupon => coupons'[r.coupon].percent = coupons[r.coupon].percent
    BY <2>4, PercentsStay
  <2>6. Priced(t)'
    BY <2>3, <2>5 DEF Priced, HeldBy, DiscountOf, CouponPercentOK
  <2> QED
    BY <2>2, <2>6 DEF AmountsInv, Charging
<1>4. ASSUME NEW t \in Tasks, PaymentApproved(t) \/ \E code : ChargeFails(t, code) PROVE AmountsInv'
  BY <1>4, PaidFacts, FailFacts DEF AmountsInv, Charging
<1> QED
  BY <1>1, <1>2, <1>3, <1>4 DEF StoreKind

LEMMA AmountsInit == Init => AmountsInv
BY DEF Init, CheckoutInit, AmountsInv, Charging

(* The amounts of an order, given the ledger cs. *)
AddsUp(o, cs) ==
    /\ o.gross = Gross(o.lines) /\ o.discount \in 0..o.gross
    /\ o.discount = IF o.coupon = NoCoupon THEN 0 ELSE Discount(o.gross, cs[o.coupon].percent)
    /\ o.net = o.gross - o.discount

LEMMA LinesCost == ASSUME NEW lines, IsLines(lines) PROVE Gross(lines) \in Nat
BY CatalogueIsFinite, FS_Subset, GrossIsNatural DEF IsLines

(* The discount of a pending payment lies between nothing and everything.  *)
LEMMA PaidAddsUp ==
    ASSUME ShopInv, AmountsInv, NEW t \in Tasks, Charging(t)
    PROVE  AddsUp(OrderOf(t, req[t]), coupons)
<1> DEFINE g == held[t].gross
           k == held[t].coupon
           x == coupons[k].percent
<1>1. Priced(t) /\ IsLines(held[t].lines)
  BY ChargingFacts DEF AmountsInv
<1>2. g = Gross(held[t].lines) /\ g \in Nat
  BY <1>1, LinesCost DEF Priced
<1>3. k # NoCoupon => x \in 0..100
  BY <1>1 DEF Priced, CouponPercentOK, PercentOK
<1>4. held[t].discount = (IF k = NoCoupon THEN 0 ELSE Discount(g, x))
  BY <1>1 DEF Priced, DiscountOf
<1>5. held[t].discount \in 0..g /\ held[t].net = g - held[t].discount
  <2> HIDE DEF x, g
  <2>1. k # NoCoupon => Discount(g, x) \in 0..g
    BY <1>2, <1>3, HalfEven
  <2>2. held[t].net = g - held[t].discount
    BY <1>1 DEF Priced, Net, g
  <2> QED
    BY <1>2, <1>4, <2>1, <2>2
<1> QED
  BY <1>2, <1>4, <1>5 DEF AddsUp, OrderOf

LEMMA OldAddsUp ==
    ASSUME ShopInv, RedeemInv, OrdersAddUp, [Next]_vars, NEW i \in DOMAIN orders
    PROVE  AddsUp(orders[i], coupons')
<1>1. AddsUp(orders[i], coupons)
  BY DEF OrdersAddUp, AddsUp
<1>2. orders[i].coupon # NoCoupon =>
        coupons'[orders[i].coupon].percent = coupons[orders[i].coupon].percent
  BY PercentsStay DEF RedeemInv, PaidBy
<1> QED
  BY <1>1, <1>2 DEF AddsUp

LEMMA AddUpStep ==
    ShopInv /\ AmountsInv /\ RedeemInv /\ OrdersAddUp /\ [Next]_vars => OrdersAddUp'
<1> SUFFICES ASSUME ShopInv, AmountsInv, RedeemInv, OrdersAddUp, [Next]_vars,
                    NEW i \in DOMAIN orders'
             PROVE  AddsUp(orders'[i], coupons')
  BY DEF OrdersAddUp, AddsUp
<1>1. StoreKind
  BY StoreKinds
<1>2. ASSUME orders' = orders PROVE AddsUp(orders'[i], coupons')
  BY <1>2, OldAddsUp
<1>3. ASSUME NEW t \in Tasks, PaymentApproved(t) PROVE AddsUp(orders'[i], coupons')
  <2> DEFINE n == Len(orders) + 1
             o == OrderOf(t, req[t])
  <2>1. /\ Charging(t) /\ DOMAIN orders' = DOMAIN orders \union {n}
        /\ orders'[n] = o /\ \A j \in DOMAIN orders : orders'[j] = orders[j]
    BY <1>3, PaidFacts
  <2> HIDE DEF n
  <2>2. CASE i \in DOMAIN orders
    BY <2>1, <2>2, OldAddsUp
  <2>3. CASE i = n
    <3>1. AddsUp(o, coupons) /\ o.coupon = held[t].coupon
      BY <2>1, PaidAddsUp DEF OrderOf
    <3>2. o.coupon # NoCoupon => coupons'[o.coupon].percent = coupons[o.coupon].percent
      BY <2>1, <3>1, HeldCoupon, PercentsStay
    <3> QED
      BY <2>1, <2>3, <3>1, <3>2 DEF AddsUp
  <2> QED
    BY <2>1, <2>2, <2>3
<1> QED
  BY <1>1, <1>2, <1>3, AcceptFacts, FailFacts DEF StoreKind, Quiet, CartMoves, Rewards

LEMMA RedeemInit == Init => RedeemInv
BY DEF Init, StoreInit, RedeemInv

(***************************************************************************)
(* I9, I10: for orders of any number of lines at any prices, the gross is  *)
(* the sum of the order's own lines, and the discount is the rounded       *)
(* percentage of the coupon it names, never more than the gross.  What     *)
(* makes it inductive is AmountsInv: the pending payment already adds up.  *)
(***************************************************************************)
THEOREM OrdersAlwaysAddUp == Spec => []OrdersAddUp
<1>1. Init => OrdersAddUp
  BY DEF Init, StoreInit, OrdersAddUp
<1> QED
  BY <1>1, AddUpStep, AmountsInit, AmountsStep, RedeemInit, RedeemStep, PaymentInit, PaymentStep,
     ShopInvariance, PTL DEF Spec
=============================================================================
