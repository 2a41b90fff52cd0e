---------------------------- MODULE LockManager ----------------------------
(***************************************************************************)
(* core/locks.py: one asyncio.Lock per product, one for the coupon ledger, *)
(* one per cart, always taken in the order                                 *)
(*                                                                         *)
(*     products (ascending id)  ->  coupon ledger  ->  cart                *)
(*                                                                         *)
(* The service runs on one event loop: a task keeps the processor until it *)
(* awaits something that is not ready.  A step of this module is therefore *)
(* everything a task does to the locks between two suspensions: it takes   *)
(* the locks that are free, and either queues at the first that is not, or *)
(* goes on with what it needed the locks for.                              *)
(*                                                                         *)
(* asyncio.Lock is first come first served: a lock with tasks in its queue *)
(* is never given to a newcomer, not even while it is unlocked and the     *)
(* task at the head of the queue has been woken but has not run yet.       *)
(***************************************************************************)
EXTENDS Models, SequencesExt

CONSTANTS
    Tasks,        \* request handlers: asyncio tasks
    Nobody,       \* the owner of an unlocked lock
    NoCart,       \* acquire(cart_id=None)
    NoLock        \* a task that is not waiting

ASSUME NullsAreFresh == Nobody \notin Tasks /\ NoCart \notin Carts
ASSUME TasksAreFinite == IsFiniteSet(Tasks)

VARIABLES
    owner,        \* lock -> the task that holds it
    waiters,      \* lock -> tasks suspended in its acquire(), in order of arrival
    asked,        \* task -> the locks of its current `async with`, {} outside one
    at            \* task -> the lock it is suspended at

lockVars == <<owner, waiters, asked, at>>

ProductLock(p) == <<1, p>>
LedgerLock     == <<2, 0>>
CartLock(c)    == <<3, c>>

Locks == {ProductLock(p) : p \in Products} \union {LedgerLock}
           \union {CartLock(c) : c \in Carts}

ASSUME NoLockIsFresh == NoLock \notin Locks

(***************************************************************************)
(* What acquire(product_ids, coupon_ledger, cart_id) will take.  The list  *)
(* it builds is this set in ascending order of Precedes.                   *)
(***************************************************************************)
OrderedLocks(productIds, couponLedger, cartId) ==
    {ProductLock(p) : p \in productIds}
      \union (IF couponLedger THEN {LedgerLock} ELSE {})
      \union {CartLock(c) : c \in {cartId} \ {NoCart}}

(* Every list acquire() can be asked for. *)
LockLists == {OrderedLocks(P, ledger, c) : P \in SUBSET Products, ledger \in BOOLEAN,
                                           c \in Carts \union {NoCart}}

Precedes(l, m) == \/ l[1] < m[1]
                  \/ l[1] = 1 /\ m[1] = 1 /\ l[2] < m[2]

-----------------------------------------------------------------------------
(* A lock a newcomer takes without suspending.                             *)
Free(l) == owner[l] = Nobody /\ waiters[l] = <<>>

Waiting(t) == at[t] # NoLock

(* A waiter that release() or a cancellation has woken. *)
AnyWaiter(t) == Waiting(t) /\ owner[at[t]] = Nobody
Woken(t) == Waiting(t) /\ owner[at[t]] = Nobody /\ Head(waiters[at[t]]) = t

(* The part of the list that task t has not reached yet. *)
Rest(t) == {l \in asked[t] : Precedes(at[t], l)}

Take(t, L) == [l \in Locks |-> IF l \in L THEN t ELSE owner[l]]

DiscardsTheLock(t) == [l \in {m \in Locks : owner[m] # t} |-> owner[l]]
GiveUp(t) == [l \in Locks |-> IF owner[l] = t THEN Nobody ELSE owner[l]]

(***************************************************************************)
(* The loop of _hold over the locks L: it takes what it finds free, in     *)
(* order, and queues at the first lock b that is not.                      *)
(***************************************************************************)
TakesTheFreeOnes(L, b, got) == b \in L /\ ~Free(b) /\ got = {l \in L : Free(l)}
StopsAt(L, b, got) == /\ b \in L /\ ~Free(b)
                      /\ got = {l \in L : Precedes(l, b)}
                      /\ \A l \in got : Free(l)

AllFree(L) == \A l \in L : Free(l)

-----------------------------------------------------------------------------
LockInit == /\ owner = [l \in Locks |-> Nobody]
            /\ waiters = [l \in Locks |-> <<>>]
            /\ asked = [t \in Tasks |-> {}]
            /\ at = [t \in Tasks |-> NoLock]

(* A fresh acquire(L) that has to suspend. *)
Block(t, L) ==
    /\ asked[t] = {}
    /\ \E b \in L, got \in SUBSET L :
         /\ StopsAt(L, b, got)
         /\ owner' = Take(t, got)
         /\ waiters' = [waiters EXCEPT ![b] = Append(@, t)]
         /\ at' = [at EXCEPT ![t] = b]
    /\ asked' = [asked EXCEPT ![t] = L]

(* A fresh acquire(L) that gets everything; the body then suspends.        *)
Hold(t, L) ==
    /\ asked[t] = {}
    /\ L # {} /\ AllFree(L)
    /\ owner' = Take(t, L)
    /\ asked' = [asked EXCEPT ![t] = L]
    /\ UNCHANGED <<waiters, at>>

(* A fresh acquire(L) whose body never suspends: nobody sees the locks held. *)
Pass(t, L) == asked[t] = {} /\ AllFree(L) /\ UNCHANGED lockVars

(* A woken waiter takes its lock, and has to suspend again further on.     *)
ResumeBlock(t) ==
    /\ Woken(t)
    /\ \E b \in Rest(t), got \in SUBSET Rest(t) :
         /\ StopsAt(Rest(t), b, got)
         /\ owner' = Take(t, got \union {at[t]})
         /\ waiters' = [waiters EXCEPT ![at[t]] = Tail(@), ![b] = Append(@, t)]
         /\ at' = [at EXCEPT ![t] = b]
    /\ UNCHANGED asked

(* A woken waiter gets the rest of its locks; the body then suspends.      *)
ResumeHold(t) ==
    /\ Woken(t) /\ AllFree(Rest(t))
    /\ owner' = Take(t, Rest(t) \union {at[t]})
    /\ waiters' = [waiters EXCEPT ![at[t]] = Tail(@)]
    /\ at' = [at EXCEPT ![t] = NoLock]
    /\ UNCHANGED asked

(* The same with a body that runs to its end and releases everything.      *)
ResumePass(t) ==
    /\ Woken(t) /\ AllFree(Rest(t))
    /\ owner' = GiveUp(t)
    /\ waiters' = [waiters EXCEPT ![at[t]] = Tail(@)]
    /\ at' = [at EXCEPT ![t] = NoLock]
    /\ asked' = [asked EXCEPT ![t] = {}]

(* The body of a task that was suspended inside ends, normally or not.     *)
Release(t) ==
    /\ asked[t] # {} /\ ~Waiting(t)
    /\ owner' = GiveUp(t)
    /\ asked' = [asked EXCEPT ![t] = {}]
    /\ UNCHANGED <<waiters, at>>

(* A waiting task is cancelled: it leaves the queue, and the finally clause *)
(* gives back the locks it had got so far.                                  *)
LeavesTheQueueOnly(t) ==
    /\ Waiting(t)
    /\ \E i \in DOMAIN waiters[at[t]] :
         waiters[at[t]][i] = t /\ waiters' = [waiters EXCEPT ![at[t]] = RemoveAt(@, i)]
    /\ at' = [at EXCEPT ![t] = NoLock]
    /\ asked' = [asked EXCEPT ![t] = {}]
    /\ UNCHANGED owner

Abort(t) ==
    /\ Waiting(t)
    /\ \E i \in DOMAIN waiters[at[t]] :
         waiters[at[t]][i] = t /\ waiters' = [waiters EXCEPT ![at[t]] = RemoveAt(@, i)]
    /\ owner' = GiveUp(t)
    /\ at' = [at EXCEPT ![t] = NoLock]
    /\ asked' = [asked EXCEPT ![t] = {}]

Resume(t) == ResumeBlock(t) \/ ResumeHold(t) \/ ResumePass(t)

LockStep(t) == \/ \E L \in LockLists : Block(t, L) \/ Hold(t, L) \/ Pass(t, L)
               \/ Resume(t) \/ Release(t) \/ Abort(t)

LockNext == \E t \in Tasks : LockStep(t)

LockSpec == LockInit /\ [][LockNext]_lockVars

(***************************************************************************)
(* The event loop runs every task it has woken, and whoever is inside the  *)
(* critical section leaves it (a payment is answered, one way or another). *)
(***************************************************************************)
LockFairness == \A t \in Tasks : WF_lockVars(Resume(t)) /\ WF_lockVars(Release(t))

FairLockSpec == LockSpec /\ LockFairness

-----------------------------------------------------------------------------
LockTypeOK == /\ owner \in [Locks -> Tasks \union {Nobody}]
              /\ waiters \in [Locks -> Seq(Tasks)]
              /\ asked \in [Tasks -> SUBSET Locks]
              /\ at \in [Tasks -> Locks \union {NoLock}]

(* s lists the elements of W, each once. *)
IsQueueOf(s, W) == /\ {s[i] : i \in DOMAIN s} = W
                   /\ \A i, j \in DOMAIN s : s[i] = s[j] => i = j

(***************************************************************************)
(* What the finally clause of _hold is for: a task owns exactly the locks  *)
(* of its list that come before the one it waits for, all of them once it  *)
(* waits for none, and none outside `async with`.  A path that leaves a    *)
(* lock behind breaks it.                                                  *)
(***************************************************************************)
HoldsWhatItPassed ==
    \A t \in Tasks, l \in Locks :
        owner[l] = t <=> l \in asked[t] /\ (Waiting(t) => Precedes(l, at[t]))

(***************************************************************************)
(* A task stands in one queue only, once, and it is the queue of the lock  *)
(* it is suspended at: a wake-up is never delivered to a task that has     *)
(* gone, which would leave the lock free and its queue asleep for ever.    *)
(***************************************************************************)
QueuesAreExact ==
    /\ \A t \in Tasks : Waiting(t) => at[t] \in asked[t]
    /\ \A l \in Locks : IsQueueOf(waiters[l], {t \in Tasks : at[t] = l})

(***************************************************************************)
(* The deadlock-freedom argument of locks.py: along the wait-for relation  *)
(* the lock waited for strictly ascends, so no cycle of waits can close.   *)
(***************************************************************************)
WaitsAscend ==
    \A t, u \in Tasks :
        Waiting(t) /\ Waiting(u) /\ owner[at[t]] = u => Precedes(at[t], at[u])

(***************************************************************************)
(* Every task that waits for a lock stops waiting for it: no deadlock, no  *)
(* lost wake-up, no starvation by newcomers.                               *)
(***************************************************************************)
EveryWaiterIsServed == \A t \in Tasks : Waiting(t) ~> ~Waiting(t)
=============================================================================
