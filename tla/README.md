# Uniblox store: TLA+ models and proofs

This project models the checkout service of the repository: carts, inventory,
coupons, orders, idempotent checkout, and the locks that hold them together.
The service is one Python process on one asyncio event loop, with all its state
in memory. Paths below are relative to the repository.

The central abstraction follows from that: a task keeps the processor between
two suspensions, so **one action of the model is everything a task does between
two awaits that really suspend**. In this program there are only two kinds of
them: waiting for a lock (`core/locks.py`), and waiting for the payment
(`core/checkout.py:128`), the only suspension with locks held by design.

## Inventory

| Component | State | Operations | Hard behaviour | What makes it correct |
|---|---|---|---|---|
| `core/locks.py` LockManager | one `asyncio.Lock` per product, per cart, and one for the coupon ledger; their queues | `acquire` (ascending products, ledger, cart) and the `finally` of `_hold` | several locks held while waiting, cancellation in a queue, wake-up order | ownership is exactly what was passed, waits ascend, every waiter is served |
| `core/idempotency.py` registry | (cart, key) -> IN_PROGRESS or COMPLETED, fingerprint, order | `claim`, `complete`, `release` | retries while the first attempt waits, pays, failed, or succeeded; reuse of a key with another body | one worker per claim, no claim left behind, records agree with the order log |
| `core/store.py`, `core/models.py` | products with price and counters, carts, order log, coupon ledger | reserve, commit and release of inventory; append | partial failure between the moves | available + reserved + sold is the seeded stock (I1); counters agree with pending checkouts and orders |
| `core/carts.py` CartService | carts | create, add, set, remove, reprice | checks before the lock, work after it; queued behind a checkout | a cart being paid for, or checked out, does not change |
| `core/coupons.py` CouponService | coupon ledger, `last_rewarded_milestone` | generate; reserve, commit, release | late generation, competing redemptions | a coupon is used by one order of its owner; a milestone is rewarded once |
| `core/checkout.py` CheckoutService | what a running checkout holds | checkout | optimistic read, verification, payment with locks held, three nested failure paths | all or nothing; one order per cart; what was paid is what is ordered |
| `core/money.py` | none | line totals, gross, discount, net | half-even ties, the cap | nearest amount, ties to even, monotone |
| `core/payments.py` | none | `charge` approves or declines | answers late; the task may be cancelled meanwhile | modelled as the environment |
| `core/reports.py`, the views of carts and orders | none | reads without a lock | reads between two steps of a checkout | the views agree with each other, whatever is in flight |
| `api/` | none; one task per request | the door checks, the routes, the error handlers | a failure at any depth becomes a status | the status tells the outcome; an order always reads the same |
| `config.py`, `main.py` | settings, composition | | REWARD_N and REWARD_X are not validated | every integer value is modelled |

The components interact by direct calls inside one task, and across tasks only
through the store, the registry and the locks. Nothing is persisted, so there is
no crash recovery to model: a restart is `Init`.

## Modules

    Models            ids of products and carts
    LockManager       core/locks.py, and asyncio.Lock as it uses it
    Money             core/money.py
    Store             core/store.py, core/models.py
    Idempotency       core/idempotency.py
    Handlers          api/routers: tasks, requests, answers
    CartService       core/carts.py       (EXTENDS Handlers)
    CouponService     core/coupons.py     (EXTENDS Handlers)
    CheckoutService   core/checkout.py    (EXTENDS both services and Idempotency)
    Shop              main.py: the composition, its clients and its properties
    Reports           core/reports.py, the cart, order and product views (EXTENDS Store)
    Api               api/: the door, the reads, the statuses (EXTENDS Shop, Reports)
    AtomicShop        what the service promises: a sequential shop
    ShopRefinement    the mapping of Shop to AtomicShop
    MC*               instances for TLC
    LockManager_proofs, Shop_proofs, Orders_proofs, Coupons_proofs,
    Refinement_proofs, Api_proofs      theorems checked by TLAPS, each on the
                      ones before it
    Amounts_proofs    lemmas about sums and discounts, for Orders_proofs and on
    Money_proofs      theorems about core/money.py, on Amounts_proofs alone

**LockManager.** `owner` and `waiters` are the locks with their queues; `asked`
is the list a task passed to `acquire`, `at` the lock it is suspended at. A
list is the *set* of its locks, ordered by `Precedes`, as `_ordered_locks`
sorts them. `Block`, `Hold` and `Pass` are the three ways a fresh `async with`
can go in one step: it suspends in a queue, it gets everything and the body
suspends, or it gets everything and the body ends. `ResumeBlock`, `ResumeHold`
and `ResumePass` are the same for a woken waiter. `Release` and `Abort` are the
two ways out through `finally`. `asyncio.Lock` itself is external; what is
modelled is that a lock with a queue is never given to a newcomer, and that a
waiter is woken when the lock is free and it is at the head. Delivery of a
cancellation and the task's reaction to it are one step.

**Store.** Lines are functions from products to `[quantity, price]`. Coupons and
orders are sequences, and a coupon code or an order number is a position;
random opaque ids are abstracted that way. The counters' guards are conjuncts
(`InStock`, `IsReserved`): the code raises there, and the callers' error paths are
actions of CheckoutService.

**CheckoutService.** `CheckoutRequest` is a new request up to its first
suspension: answered from the record, refused, queued for locks (`Block`), or
accepted and charging (`Hold`). `CheckoutResume` continues from a queue with the
`snapshot` of the optimistic read. `VerifyError` and `CouponError` list the
checks in the order of the code. `Refuse` gives back what `_Held` has on record
(`Recorded`) at the point of the refusal. `PaymentApproved` commits, leaves the locks and
completes the claim: there is no await between. `ChargeFails` covers a decline
and a cancellation during the charge, `CancelledWaiting` one in a lock queue.

**Shop.** `Receive`, `Wake`, `GatewayAnswers`, `Cancel` and `ChangePrice`. No
operation of the program changes a price: they come from the seed data alone
(SAD.md:227). `ChangePrice` stands for what
the tests do with `store.products[pid] = ...`, the only way `PRICE_CHANGED` can
be reached. A task that has answered is free for another request, so a finite
set of tasks serves any number of them and a request can be repeated for ever.

**AtomicShop and ShopRefinement.** The abstract shop serves one request at a
time, at once: no tasks, no locks, nothing pending. Its state is a price list,
`basket`s, unsold `stock`, the order `log`, `vouchers` that are free or
redeemed, and `receipts` for the checkouts that were served. The mapping is

| AtomicShop | Shop |
|---|---|
| `basket`, `log`, `rewarded` | `cart`, `orders`, `lastRewarded` |
| `stock` | `available + reserved` |
| `vouchers` | `coupons`, RESERVED read as AVAILABLE |
| `receipts` | the COMPLETED records; a claim in progress leaves none |
| `price`, `reply` | the same |

so that a checkout happens at its commit (`PaymentApproved`), in the middle of
whatever the other tasks do, and reserving, charging and failing are stutters or
refusals. The abstract `Refuse` demands a true reason: out of stock means that
the *unsold* stock is short, which holds of the code only because an edit and
another checkout wait for the locks of a pending one; a checkout that was served
under this key is never refused. Three answers talk about other requests
(`CART_MODIFIED`, `REQUEST_IN_PROGRESS`, `IDEMPOTENCY_KEY_REUSED`) and need no
reason in the abstract state, nor does a cancellation. The promise is made for
REWARD_N of at least 1.

**Reports.** `Report`, `CartView`, `OrderView` and `Catalogue` are the four
read models, operators on the store. They take no lock, so a read may fall
between any two steps; `ViewsAgree` is therefore an invariant.

**Api.** A *call* is a request as it arrives: a quantity that may be out of
range, a key that may be missing or too long, an admin token that may be wrong.
`DoorError` is what refuses it before a handler runs, in the order of the code;
`TheDoorLetsIn` says that what is left are the `Requests` of `Shop`. `Serve` is
a step of the service with the response it sends, `Read` a read, `TurnedAway` a
refusal at the door. Two history variables, `response` and `shown`, record what
clients got. The answer to `POST /carts` carries nothing but the new id and is
left out.

## Runs

| Run | Instance | Question |
|---|---|---|
| `money` | gross up to 120, every percentage | half-even rounding against its definition; monotone |
| `locks` | 3 tasks, 2 products, 1 cart, every list | ownership, queues, order of waits, every waiter served |
| `race` | 3 tasks, 2 carts, stock 2 and 1 | inventory counters against pending checkouts and orders |
| `retry` | 3 tasks, 1 cart, 2 keys, 3 bodies | idempotency: one order, one worker, right replay, no refusal after payment |
| `reward` | 3 tasks, 3 carts, 2 customers, n = 1 | coupons used once, milestones rewarded once, COUPON_IN_USE unreachable |
| `edit` | 2 tasks, every cart operation, 2 prices | the cart being paid for is frozen, orders add up, history is final |
| `atomic` | 2 tasks, 3 carts, 2 customers, 2 prices, n = 2 | the sequential shop, with coupons and moving prices; milestones of every second order |
| `misconfigured` | 2 tasks, n = -1, x = 150 | a redemption that raises after both reservations, and a generation that raises, give everything back; a generation says OK exactly when it mints |
| `api` | 2 tasks, 2 carts, every read and every bad call | views agree, orders read the same, statuses and reports follow the outcome |
| `live` | 3 tasks, 2 carts, cancellations | under fairness, every request ends, every claim is settled |
| `apart` | 2 tasks, disjoint carts and products | expected violation, see below |
| `zero` | n = 0 | expected violation, see below |

`race`, `retry` and `edit` check the refinement too, each against its own
hazards: contended stock with three tasks, retries and reuse of a key, edits and
price changes during a payment.

**Bounds.** Three tasks are one that holds a lock and two that queue behind it,
which is what queues and wake-ups need; two suffice where the
question is one checkout against one other request. Two products give lists in
which one can be passed and the other waited for; stock is one less than the
demand so that the last item is contended. Two prices make a stale total
visible. Two keys and three bodies are the smallest sets that tell a retry, a
second attempt and a reuse apart. `atomic` has a coupon that two carts could use and a coupon for every
second order, the smallest n that tells the last order from the n-th; `api` has
the quantities on either side of the allowed range. The order log and the ledger need no bound:
a cart is ordered once, so there are at most as many orders as carts. Tasks are
symmetric in the safety runs; the liveness runs use no symmetry.

**Fairness.** `Wake(t)` is weakly fair: the event loop runs every task it has
made ready, and nothing but that task's own step or its cancellation disables
it. `GatewayAnswers(t)` is weakly fair: the fakes answer after a sleep. No
client step, cancellation or price change is fair. Without the second
assumption the liveness properties are false: the charge has no timeout, and a
gateway that never answers keeps the coupon ledger for ever.

**Two divergences.** TAD.md:465 and DECISIONS.md:264 say that checkouts of
different products proceed concurrently. Every checkout takes the coupon ledger
lock, with or without a coupon (`core/checkout.py:113-115`), and holds it while
it waits for the payment, so two checkouts never proceed concurrently. Run
`apart` shows it: a checkout of a cart with one product waits for the payment of
another cart with another product. The other side of the same coin is D39, COUPON_IN_USE is
unreachable, which does hold (`CouponIsNeverInUse`).

`api/routers/admin.py:35-36` promises one coupon for the lowest unrewarded
milestone, and "409 NO_ELIGIBLE_MILESTONE when nothing is due". With REWARD_N = 0, which
`config.py:56` accepts, `generate` appends the coupon, advances the milestone,
and then divides by zero while it computes its answer (`core/coupons.py:101`):
the client gets a 500 and the coupon stays, for the customer of the *latest*
order. Run `zero` shows it. With a negative REWARD_N the index of the order is
counted from the end or out of range; nothing is minted before that raises, and
run `misconfigured` finds the ledger intact and the answers true. Whom such a
coupon rewards no property says: no document gives a negative milestone a
meaning.

**Two places where a document and the code read differently**, without a property
that fails. DECISIONS.md:164-165 credits the clamp with I9, `0 <= discount <= gross`, "even if
`x` is misconfigured". With a percentage outside 0..100 the clamp is never
reached: `discount_minor` raises (`core/money.py:33-34`), the client gets a 500, and no
coupon can be redeemed. I9 holds all the same, because no such order is made; run
`misconfigured` shows that what had been reserved is given back. TAD.md:487-488
raises `CART_MODIFIED` when the *set of product ids* of the cart has changed; the code
compares quantities and prices too (`_snapshot_of`), and so does `VerifyError`.

## Proofs

TLAPS proves these for every set of tasks, products, carts, customers, keys and
prices, every stock and every reward setting. The assumptions are
`NullsAreFresh` and `NoLockIsFresh` (null values are not ids), `ProductsAreOrdered`
(product ids have a strict order), `CatalogueIsFinite` and `TasksAreFinite`
(the seed catalogue is a dictionary, and at any moment finitely many requests are
in flight; neither has a bound), `StoreAssumption` (stock and prices are
numbers, REWARD_N and REWARD_X any integers), `RequestsAreWellFormed` (requests are those
that passed validation) and, for `Api`, `TheDoorLetsIn` (those are what the door
lets in). TLC evaluates them on every run of the module that states them. Five
theorems restrict REWARD_N in their statement: the milestones and the refinement
are about REWARD_N > 0, where a milestone means something; the truth of
`generate`, of the statuses and of the report about REWARD_N other than 0, where
the code is wrong (run `zero`).

**The locks** (`LockManager_proofs`). The inductive invariant is `LockInv`:

    LockTypeOK  /\  AsksForLists  /\  HoldsWhatItPassed  /\  QueuesAreExact

"A task owns what it passed" alone is not inductive: a release must leave nobody
else owning the lock, which takes the exact reading of ownership (owned by `t`
if and only if before `at[t]` in its list); and a wake-up must not give a lock
away twice, which takes that a task stands in exactly one queue, once.
`WaitsAscend` follows from the invariant and the order of a list. Ascending waits exclude a cycle of
waits among any number of tasks, which is the absence of deadlock.

**The service** (`Shop_proofs`). `ShopInv` is the types, `LockInv`, and `TasksOK`:
a charging task has asked for the locks of the checkout it is running, waits for
none of them, and a waiting one has asked for the list of its own request.
`ShopUsesTheLocks` shows that every step of a service is a step of the lock
protocol, so the first module's theorems carry over. The argument then is:

1. A task that is charging owns everything it asked for (`ChargingOwns`), and a
   body runs only when no lock of its list is owned by another (`BodyRunsAlone`).
2. All checkouts ask for the ledger, so at most one charges (`OneCharges`).
3. `StepKinds` classifies every step by what its body may do *and what it knows
   of the other tasks*: an edit knows that nobody charges for its cart, a
   checkout or a coupon generation that nobody charges at all.
4. Each property is then preserved kind by kind, with its own strengthening:
   `Frozen` for the cart being paid for, `LedgerInv` (a RESERVED coupon belongs
   to a pending charge) for `CouponIsNeverInUse`, none for the stock.

**Sums** (`Amounts_proofs`). `SumFunction` adds up in the order of an
unspecified choice, by recursion over subsets. What it computes takes an
induction, which is stated for *sets* where one would write a predicate: a set
of natural numbers that holds 0 and every successor is Nat (`NatSetInduction`,
from the least element of its complement), and a set that holds the empty set
and every subset whose smaller ones it holds has them all (`SubsetInduction`).
From there: the recursion has a solution (`SumsExist`), any element may be taken
first (`AnyFirst`), so a sum follows when one term changes, is added or is the
only one (`OneChanged`, `OneAdded`, `OnlyOne`), when the index set is renamed
one to one (`Renamed`), and term by term for differences (`SumOfDifferences`).

**What a checkout leaves behind** (`Orders_proofs`, `Coupons_proofs`, each built
on the one before). The interesting steps are the
commit and the three ways to fail, and the argument is about what a *pending*
payment can rely on when the gateway answers:

1. `ClaimInv`: every running checkout works on a claim of its own. The property
   alone is not inductive; it takes that no two running checkouts have the same
   key, since settling one claim must not take another's away.
2. `RefusalLeavesNoTrace`: a checkout that fails under its locks gives back
   exactly what it had reserved. With it `StoreKinds` reduces all the steps of
   the service to six kinds.
3. `PaymentInv`: what a pending payment pays for is reserved for it, and nothing
   is reserved when nobody pays. It needs `OneCharges`, and gives
   `PaidCheckoutsCommit`: no guard in the commit can raise after the money moved.
4. `OrderInv` and `RecordInv` state "one order per cart" and "records lead to
   orders" as maps in both directions instead of as counts, which a step can
   be shown to preserve; `HistoryIsFinal` is proved per kind of step.
5. `SoldInv`, sold is what the log sold, is preserved because only the commit
   touches either side, and adds the same quantity to both (`OneAdded`). What is
   reserved needs no invariant of its own: with `OneCharges` the sum over the
   tasks has one term, which `PaymentInv` says is reserved. Together they are
   `CountersAgree`.
6. `RedeemInv`: the ledger and the log name each other. With `LedgerInv` and
   `PaymentInv` it is `CouponsAreUsedOnce`. `MilestoneInv` adds that the ledger
   is as long as the last milestone, which the log has reached.
7. `OrdersAddUp` is preserved with `AmountsInv`: a pending payment was priced
   from the lines and the coupon it holds, and a coupon never changes its
   percentage. The coupon of an old order stays in the ledger, by `RedeemInv`.

**The refinement** (`Refinement_proofs`). `ServiceInv` is the conjunction of the
invariants above with `CartsExist` (a waiting request found its cart) and
`Frozen`. Under it every step of `Shop` is a
step of `AtomicShop` or changes nothing the mapping shows:

- reserving, charging, releasing and failing move goods between `available` and
  `reserved` and coupons between AVAILABLE and RESERVED, whose images do not
  change; the commit is `PlaceOrder`, and `PaymentInv` and `AmountsInv` say that
  the abstract guards hold at that moment;
- an edit, a checkout or a generation that has passed its locks finds nobody
  charging for what it asks for, so nothing of it is reserved
  (`NothingReserved`) and a refusal is true of the unsold stock;
- a replay needs the record and the receipt to agree, which is the mapping.

`AnswersMatchTheRequest` and `GenerateTellsTheTruth` follow from the same steps.

**What clients are told** (`Api_proofs`). The door and the reads do not step the
service (`BehindTheDoor`), so its invariants hold behind it; `BooksInv` is their
conjunction.

- `AnOrderReadsTheSame` needs the history variable tied to the log: everything
  ever shown is in the log as it was shown (`ShownInv`), and the log only grows.
- `ViewsAgree` follows from `BooksInv` at any single moment. Each agreement is a
  one-to-one map between two tables, under which cardinalities and sums are
  equal: orders and checked-out carts (`OrderInv`), orders with a coupon and
  redeemed coupons (`RedeemInv`).
- `StatusTellsTheOutcome` and `ReportFollowsTheAnswers` are about steps.
  `Outcome` classifies a step by what it answered: silence, an edit, a replay, a
  refusal, a creation, a coupon. It is read off the refinement: to its client a
  step was one of the sequential shop, whose refusals change nothing. That
  nothing visible changed means, in the store, that the unsold stock stayed; the
  sold stock stayed too because stock is conserved before and after.

**Money** (`Money_proofs`). `gross * percent` is the only product that is not
linear. `HalfEven` (in `Amounts_proofs`) hides it behind its quotient and remainder by 100 and shows
the discount to be within half a unit, ties even; both theorems follow by linear
arithmetic from two instances of it.

| Theorem | Property of the runs |
|---|---|
| `LockTypeCorrect`, `OwnershipIsExact`, `QueuesStayExact`, `WaitsAlwaysAscend` | `LockTypeOK`, `HoldsWhatItPassed`, `QueuesAreExact`, `WaitsAscend` |
| `TypeCorrect`, `StockConservation`, `PaidCartStaysFrozen`, `CouponNeverInUse` | `TypeOK`, `StockIsConserved`, `PaidCartIsFrozen`, `CouponIsNeverInUse` |
| `OneWorkerPerClaim` | `ClaimsHaveOneWorker` |
| `CountersAlwaysAgree`, `OrdersAlwaysAddUp` | `CountersAgree`, `OrdersAddUp` |
| `PaidCheckoutsAlwaysCommit`, `HistoryStaysFinal` | `PaidCheckoutsCommit`, `HistoryIsFinal` |
| `EveryCartIsOrderedOnce`, `RecordsAlwaysLeadToOrders` | `OneOrderPerCart`, `RecordsLeadToOrders` |
| `EveryCouponIsUsedOnce`, `EveryMilestoneIsRewardedOnce` | `CouponsAreUsedOnce`, `MilestonesAreRewardedOnce` |
| `ServiceImplementsTheShop` | `ImplementsAtomicShop` |
| `AnswersAlwaysMatch`, `GenerationsTellTheTruth` | `AnswersMatchTheRequest`, `GenerateTellsTheTruth` |
| `OrdersAlwaysReadTheSame`, `ViewsAlwaysAgree` | `AnOrderReadsTheSame`, `ViewsAgree` |
| `StatusAlwaysTells`, `ReportAlwaysFollows` | `StatusTellsTheOutcome`, `ReportFollowsTheAnswers` |
| `RoundsHalfToEven`, `MoreNeverCostsLess` | `NearestTiesToEven`, `DearerIsNeverCheaper` |

**Only model-checked.** Liveness under fairness (`EveryRequestEnds`,
`ClaimsSettle`, `EveryWaiterIsServed`), which needs ENABLED, beyond these
provers; and the two expected violations, which are traces. Every other property
of the runs is stated by a theorem.

## Not modelled

- JSON rendering, the wording of errors, and the field types pydantic checks: no
  state. Opaque random ids and the fingerprint hash: no collisions.
- The browser demo, which is a client like any other.
- The threadpool demonstration in the tests, which runs the code outside the one
  event loop it is written for.
- Money taken by a gateway whose answer is lost to a cancellation: the gateway
  protocol has no refund and the program no state about it.

## Plan

Everything planned at the start is in place: the locks, the store, the services
and their composition; the read models and the HTTP layer; settings at and below
zero; the sequential shop and its refinement; the proofs. One idea was dropped:
an abstract first-come-first-served lock for `LockManager` to implement. That
order is what `asyncio.Lock` is assumed to do, not what this code does;
`EveryWaiterIsServed` says what the code makes of it.

What could follow, if the code grows that way: a second process or a database,
which would need a model of crashes and of transactions.
