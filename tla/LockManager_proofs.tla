------------------------- MODULE LockManager_proofs -------------------------
(***************************************************************************)
(* Proofs about LockManager, for any sets of tasks, products and carts.    *)
(*                                                                         *)
(* The inductive invariant is LockInv: the types, the shape of the lists   *)
(* asked for, what each task owns (HoldsWhatItPassed) and the queues       *)
(* (QueuesAreExact).  That waits ascend, and with it freedom from          *)
(* deadlock, follows from it.                                              *)
(***************************************************************************)
EXTENDS LockManager, SequencesExt, TLAPS, SequenceTheorems

AsksForLists == \A t \in Tasks : asked[t] \in LockLists

LockInv == LockTypeOK /\ AsksForLists /\ HoldsWhatItPassed /\ QueuesAreExact

-----------------------------------------------------------------------------
(* The order of the locks is a strict total order. *)
LEMMA PrecedesIsStrict ==
    /\ \A l \in Locks : ~Precedes(l, l)
    /\ \A l, m, n \in Locks : Precedes(l, m) /\ Precedes(m, n) => Precedes(l, n)
<1>1. \A l \in Locks : l[1] \in 1..3 /\ (l[1] = 1 => l[2] \in Nat)
  BY ProductsAreOrdered DEF Locks, ProductLock, LedgerLock, CartLock
<1> QED
  BY <1>1 DEF Precedes

(* Every list that acquire() builds for one cart is totally ordered. *)
Ordered(L) == \A l, m \in L : l = m \/ Precedes(l, m) \/ Precedes(m, l)

LEMMA ListsAreOrdered ==
    \A L \in LockLists : L \subseteq Locks /\ Ordered(L)
<1> SUFFICES ASSUME NEW P \in SUBSET Products, NEW ledger \in BOOLEAN, NEW c \in Carts \union {NoCart}
             PROVE  OrderedLocks(P, ledger, c) \subseteq Locks /\ Ordered(OrderedLocks(P, ledger, c))
  BY DEF LockLists
<1>1. OrderedLocks(P, ledger, c) \subseteq Locks
  BY DEF OrderedLocks, Locks
<1>2. Ordered(OrderedLocks(P, ledger, c))
  BY ProductsAreOrdered DEF Ordered, OrderedLocks, Precedes, ProductLock, LedgerLock, CartLock
<1> QED
  BY <1>1, <1>2

-----------------------------------------------------------------------------
(* What arrivals, wake-ups and cancellations do to a queue. *)
LEMMA AppendToQueue ==
    ASSUME NEW S, NEW s \in Seq(S), NEW W, NEW e \in S, IsQueueOf(s, W), e \notin W
    PROVE  Append(s, e) \in Seq(S) /\ IsQueueOf(Append(s, e), W \union {e})
<1> DEFINE r == Append(s, e)
<1>1. r \in Seq(S) /\ Len(r) = Len(s) + 1 /\ r[Len(s) + 1] = e
      /\ \A i \in 1..Len(s) : r[i] = s[i]
  BY AppendProperties
<1>2. DOMAIN s = 1..Len(s) /\ DOMAIN r = 1..(Len(s) + 1) /\ Len(s) \in Nat
  BY <1>1, LenProperties
<1>3. DOMAIN r = DOMAIN s \union {Len(s) + 1} /\ Len(s) + 1 \notin DOMAIN s
  BY <1>2
<1> HIDE DEF r
<1>4. {r[i] : i \in DOMAIN r} = W \union {e}
  BY <1>1, <1>2, <1>3 DEF IsQueueOf
<1>5. \A i, j \in DOMAIN r : r[i] = r[j] => i = j
  BY <1>1, <1>2, <1>3 DEF IsQueueOf
<1> QED
  BY <1>1, <1>4, <1>5 DEF IsQueueOf, r

LEMMA RemoveFromQueue ==
    ASSUME NEW S, NEW s \in Seq(S), NEW W, NEW k \in DOMAIN s, IsQueueOf(s, W)
    PROVE  RemoveAt(s, k) \in Seq(S) /\ IsQueueOf(RemoveAt(s, k), W \ {s[k]})
<1> DEFINE r == RemoveAt(s, k)
<1>1. DOMAIN s = 1..Len(s) /\ Len(s) \in Nat /\ k \in 1..Len(s)
  BY LenProperties
<1>2. /\ r \in Seq(S) /\ Len(r) = Len(s) - 1
      /\ \A i \in 1..(Len(s) - 1) : r[i] = IF i < k THEN s[i] ELSE s[i + 1]
  <2> DEFINE a == SubSeq(s, 1, k - 1)
             b == SubSeq(s, k + 1, Len(s))
  <2>1. a \in Seq(S) /\ Len(a) = k - 1 /\ \A i \in 1..(k - 1) : a[i] = s[i]
    BY <1>1, SubSeqProperties
  <2>2. b \in Seq(S) /\ Len(b) = Len(s) - k /\ \A i \in 1..(Len(s) - k) : b[i] = s[k + i]
    BY <1>1, SubSeqProperties
  <2> HIDE DEF a, b
  <2>3. /\ a \o b \in Seq(S) /\ Len(a \o b) = Len(a) + Len(b)
        /\ \A i \in 1..(Len(a) + Len(b)) :
             (a \o b)[i] = IF i <= Len(a) THEN a[i] ELSE b[i - Len(a)]
    BY <2>1, <2>2, ConcatProperties
  <2>4. r = a \o b
    BY DEF RemoveAt, a, b
  <2>5. Len(a) + Len(b) = Len(s) - 1
    BY <1>1, <2>1, <2>2
  <2>6. ASSUME NEW i \in 1..(Len(s) - 1), i < k PROVE (a \o b)[i] = s[i]
    <3>1. i \in 1..(k - 1) /\ i \in 1..(Len(a) + Len(b)) /\ i <= Len(a)
      BY <2>5, <2>6, <1>1, <2>1
    <3> QED
      BY <3>1, <2>1, <2>3
  <2>7. ASSUME NEW i \in 1..(Len(s) - 1), ~(i < k) PROVE (a \o b)[i] = s[i + 1]
    <3>1. /\ i \in 1..(Len(a) + Len(b)) /\ ~(i <= Len(a))
          /\ i - Len(a) \in 1..(Len(s) - k) /\ k + (i - Len(a)) = i + 1
      BY <2>5, <2>7, <1>1, <2>1
    <3>2. (a \o b)[i] = b[i - Len(a)]
      BY <3>1, <2>3
    <3> QED
      BY <3>1, <3>2, <2>2
  <2>8. \A i \in 1..(Len(s) - 1) : (a \o b)[i] = IF i < k THEN s[i] ELSE s[i + 1]
    BY <2>6, <2>7
  <2> QED
    BY <2>3, <2>4, <2>5, <2>8
<1> HIDE DEF r
<1>3. DOMAIN r = 1..(Len(s) - 1)
  BY <1>2, LenProperties
<1>4. {r[i] : i \in DOMAIN r} \subseteq W \ {s[k]}
  BY <1>1, <1>2, <1>3 DEF IsQueueOf
<1>5. ASSUME NEW w \in W \ {s[k]} PROVE \E i \in DOMAIN r : r[i] = w
  <2>1. PICK j \in DOMAIN s : s[j] = w
    BY DEF IsQueueOf
  <2>2. CASE j < k
    BY <2>1, <2>2, <1>1, <1>2, <1>3
  <2>3. CASE j > k
    <3>1. j - 1 \in DOMAIN r /\ r[j - 1] = s[j]
      BY <2>3, <1>1, <1>2, <1>3
    <3> QED
      BY <3>1, <2>1
  <2> QED
    BY <2>1, <2>2, <2>3, <1>1
<1>6. ASSUME NEW i \in DOMAIN r, NEW j \in DOMAIN r, r[i] = r[j] PROVE i = j
  <2> DEFINE origin(n) == IF n < k THEN n ELSE n + 1
  <2>1. /\ r[i] = s[origin(i)] /\ origin(i) \in DOMAIN s
        /\ r[j] = s[origin(j)] /\ origin(j) \in DOMAIN s
    BY <1>1, <1>2, <1>3
  <2>2. origin(i) = origin(j)
    BY <2>1, <1>6 DEF IsQueueOf
  <2> QED
    BY <2>2, <1>1, <1>3
<1> QED
  BY <1>2, <1>4, <1>5, <1>6 DEF IsQueueOf, r

LEMMA TailOfQueue ==
    ASSUME NEW S, NEW s \in Seq(S), NEW W, IsQueueOf(s, W), s # <<>>
    PROVE  Tail(s) \in Seq(S) /\ IsQueueOf(Tail(s), W \ {Head(s)})
<1>1. /\ Tail(s) \in Seq(S) /\ Len(Tail(s)) = Len(s) - 1 /\ Head(s) = s[1]
      /\ \A i \in 1..Len(Tail(s)) : Tail(s)[i] = s[i + 1]
  BY HeadTailProperties
<1>2. Len(s) \in Nat \ {0} /\ DOMAIN s = 1..Len(s) /\ DOMAIN Tail(s) = 1..(Len(s) - 1)
  BY <1>1, LenProperties, EmptySeq
<1> DEFINE r == Tail(s)
<1> HIDE DEF r
<1>3. /\ DOMAIN r = 1..(Len(s) - 1)
      /\ \A i \in DOMAIN r : r[i] = s[i + 1] /\ i + 1 \in DOMAIN s /\ i + 1 # 1
  BY <1>1, <1>2 DEF r
<1>4. {r[i] : i \in DOMAIN r} \subseteq W \ {s[1]}
  BY <1>2, <1>3 DEF IsQueueOf
<1>5. ASSUME NEW w \in W \ {s[1]} PROVE \E i \in DOMAIN r : r[i] = w
  <2>1. PICK j \in DOMAIN s : s[j] = w
    BY DEF IsQueueOf
  <2>2. j - 1 \in DOMAIN r /\ (j - 1) + 1 = j
    BY <2>1, <1>2, <1>3
  <2> QED
    BY <2>1, <2>2, <1>3
<1>6. \A i, j \in DOMAIN r : r[i] = r[j] => i = j
  BY <1>2, <1>3 DEF IsQueueOf
<1> QED
  BY <1>1, <1>4, <1>5, <1>6 DEF IsQueueOf, r

-----------------------------------------------------------------------------
(* The steps of one task preserve LockInv. *)
LEMMA EmptyList == {} \in LockLists
<1>1. {} = OrderedLocks({}, FALSE, NoCart)
  BY DEF OrderedLocks
<1>2. \E P \in SUBSET Products, ledger \in BOOLEAN, c \in Carts \union {NoCart} :
        {} = OrderedLocks(P, ledger, c)
  BY <1>1, Zenon
<1> QED
  BY <1>2 DEF LockLists

LEMMA LockInitInv == LockInit => LockInv
<1> SUFFICES ASSUME LockInit PROVE LockInv
  OBVIOUS
<1>1. LockTypeOK
  BY DEF LockInit, LockTypeOK
<1>2. AsksForLists
  BY EmptyList DEF LockInit, AsksForLists
<1>3. HoldsWhatItPassed
  BY NullsAreFresh DEF LockInit, HoldsWhatItPassed
<1>4. QueuesAreExact
  BY NoLockIsFresh DEF LockInit, QueuesAreExact, IsQueueOf, Waiting
<1> QED
  BY <1>1, <1>2, <1>3, <1>4 DEF LockInv

(* Outside `async with` a task neither waits nor owns. *)
LEMMA OutsideOwnsNothing ==
    ASSUME LockInv, NEW t \in Tasks, asked[t] = {}
    PROVE  at[t] = NoLock /\ \A l \in Locks : owner[l] # t
BY DEF LockInv, QueuesAreExact, HoldsWhatItPassed, Waiting

LEMMA BlockInv ==
    ASSUME LockInv, NEW t \in Tasks, NEW L \in LockLists, Block(t, L)
    PROVE  LockInv'
<1>1. PICK b \in L, got \in SUBSET L :
        /\ StopsAt(L, b, got)
        /\ owner' = Take(t, got)
        /\ waiters' = [waiters EXCEPT ![b] = Append(@, t)]
        /\ at' = [at EXCEPT ![t] = b]
  BY DEF Block
<1>2. asked' = [asked EXCEPT ![t] = L] /\ asked[t] = {}
  BY DEF Block
<1>3. at[t] = NoLock /\ \A l \in Locks : owner[l] # t
  BY <1>2, OutsideOwnsNothing
<1>4. L \subseteq Locks /\ b \in Locks /\ b # NoLock
  BY <1>1, ListsAreOrdered, NoLockIsFresh
<1>5. got = {l \in L : Precedes(l, b)} /\ \A l \in got : owner[l] = Nobody
  BY <1>1 DEF StopsAt, Free
<1>6. Append(waiters[b], t) \in Seq(Tasks)
      /\ IsQueueOf(Append(waiters[b], t), {u \in Tasks : at[u] = b} \union {t})
  <2>1. t \notin {u \in Tasks : at[u] = b}
    BY <1>3, <1>4
  <2> QED
    BY <1>4, <2>1, AppendToQueue DEF LockInv, LockTypeOK, QueuesAreExact
<1>7. LockTypeOK'
  BY <1>1, <1>2, <1>4, <1>6 DEF LockInv, LockTypeOK, Take
<1>8. AsksForLists'
  BY <1>2 DEF LockInv, AsksForLists, LockTypeOK
<1>9. HoldsWhatItPassed'
  <2> SUFFICES ASSUME NEW u \in Tasks, NEW l \in Locks
               PROVE  owner'[l] = u <=> l \in asked'[u] /\ (at'[u] # NoLock => Precedes(l, at'[u]))
    BY DEF HoldsWhatItPassed, Waiting
  <2>1. CASE u = t
    BY <2>1, <1>1, <1>2, <1>3, <1>4, <1>5 DEF LockInv, LockTypeOK, Take
  <2>2. CASE u # t
    BY <2>2, <1>1, <1>2, <1>5, NullsAreFresh DEF LockInv, LockTypeOK, Take, HoldsWhatItPassed, Waiting
  <2> QED
    BY <2>1, <2>2
<1>10. QueuesAreExact'
  <2>1. \A u \in Tasks : at'[u] # NoLock => at'[u] \in asked'[u]
    BY <1>1, <1>2 DEF LockInv, LockTypeOK, QueuesAreExact, Waiting
  <2>2. ASSUME NEW l \in Locks PROVE IsQueueOf(waiters'[l], {u \in Tasks : at'[u] = l})
    <3>1. CASE l = b
      <4>1. {u \in Tasks : at'[u] = l} = {u \in Tasks : at[u] = b} \union {t}
        BY <3>1, <1>1 DEF LockInv, LockTypeOK
      <4> QED
        BY <3>1, <4>1, <1>1, <1>4, <1>6 DEF LockInv, LockTypeOK
    <3>2. CASE l # b
      <4>1. {u \in Tasks : at'[u] = l} = {u \in Tasks : at[u] = l}
        BY <3>2, <1>1, <1>3, NoLockIsFresh DEF LockInv, LockTypeOK
      <4> QED
        BY <3>2, <4>1, <1>1 DEF LockInv, LockTypeOK, QueuesAreExact
    <3> QED
      BY <3>1, <3>2
  <2> QED
    BY <2>1, <2>2 DEF QueuesAreExact, Waiting
<1> QED
  BY <1>7, <1>8, <1>9, <1>10 DEF LockInv

LEMMA HoldInv ==
    ASSUME LockInv, NEW t \in Tasks, NEW L \in LockLists, Hold(t, L)
    PROVE  LockInv'
<1>1. /\ owner' = Take(t, L) /\ asked' = [asked EXCEPT ![t] = L]
      /\ waiters' = waiters /\ at' = at /\ asked[t] = {}
      /\ \A l \in L : owner[l] = Nobody
  BY DEF Hold, AllFree, Free
<1>2. at[t] = NoLock /\ (\A l \in Locks : owner[l] # t) /\ L \subseteq Locks
  BY <1>1, OutsideOwnsNothing, ListsAreOrdered
<1>3. LockTypeOK' /\ AsksForLists'
  BY <1>1, <1>2 DEF LockInv, LockTypeOK, AsksForLists, Take
<1>4. HoldsWhatItPassed'
  <2> SUFFICES ASSUME NEW u \in Tasks, NEW l \in Locks
               PROVE  owner'[l] = u <=> l \in asked'[u] /\ (at'[u] # NoLock => Precedes(l, at'[u]))
    BY DEF HoldsWhatItPassed, Waiting
  <2>1. CASE u = t
    BY <2>1, <1>1, <1>2 DEF LockInv, LockTypeOK, Take
  <2>2. CASE u # t
    BY <2>2, <1>1, NullsAreFresh DEF LockInv, LockTypeOK, Take, HoldsWhatItPassed, Waiting
  <2> QED
    BY <2>1, <2>2
<1>5. QueuesAreExact'
  BY <1>1, <1>2 DEF LockInv, LockTypeOK, QueuesAreExact, Waiting
<1> QED
  BY <1>3, <1>4, <1>5 DEF LockInv

(* Ending an `async with` in which the task does not wait. *)
LEMMA ReleaseInv ==
    ASSUME LockInv, NEW t \in Tasks, Release(t)
    PROVE  LockInv'
<1>1. /\ owner' = GiveUp(t) /\ asked' = [asked EXCEPT ![t] = {}]
      /\ waiters' = waiters /\ at' = at /\ at[t] = NoLock
  BY DEF Release, Waiting
<1>2. LockTypeOK' /\ AsksForLists'
  BY <1>1, EmptyList DEF LockInv, LockTypeOK, AsksForLists, GiveUp
<1>3. HoldsWhatItPassed'
  BY <1>1, NullsAreFresh DEF LockInv, LockTypeOK, HoldsWhatItPassed, Waiting, GiveUp
<1>4. QueuesAreExact'
  BY <1>1 DEF LockInv, LockTypeOK, QueuesAreExact, Waiting
<1> QED
  BY <1>2, <1>3, <1>4 DEF LockInv

-----------------------------------------------------------------------------
(* A woken task: its lock is free and in its list, and once it leaves the  *)
(* queue the others are still in it.                                       *)
LEMMA WokenFacts ==
    ASSUME LockInv, NEW t \in Tasks, Woken(t)
    PROVE  /\ at[t] \in Locks /\ at[t] \in asked[t] /\ owner[at[t]] = Nobody
           /\ asked[t] \in LockLists /\ Rest(t) \subseteq asked[t] /\ at[t] \notin Rest(t)
           /\ Tail(waiters[at[t]]) \in Seq(Tasks)
           /\ IsQueueOf(Tail(waiters[at[t]]), {u \in Tasks : at[u] = at[t]} \ {t})
<1>1. at[t] \in Locks /\ owner[at[t]] = Nobody /\ Head(waiters[at[t]]) = t /\ at[t] \in asked[t]
  BY DEF Woken, Waiting, LockInv, LockTypeOK, QueuesAreExact
<1>2. waiters[at[t]] \in Seq(Tasks) /\ IsQueueOf(waiters[at[t]], {u \in Tasks : at[u] = at[t]})
  BY <1>1 DEF LockInv, LockTypeOK, QueuesAreExact
<1>3. waiters[at[t]] # <<>>
  <2>1. PICK i \in DOMAIN waiters[at[t]] : waiters[at[t]][i] = t
    BY <1>2 DEF IsQueueOf
  <2> QED
    BY <2>1
<1>4. asked[t] \in LockLists /\ Rest(t) \subseteq asked[t] /\ at[t] \notin Rest(t)
  BY <1>1, PrecedesIsStrict DEF LockInv, AsksForLists, Rest
<1>5. /\ Tail(waiters[at[t]]) \in Seq(Tasks)
      /\ IsQueueOf(Tail(waiters[at[t]]), {u \in Tasks : at[u] = at[t]} \ {t})
  BY <1>1, <1>2, <1>3, TailOfQueue
<1> QED
  BY <1>1, <1>4, <1>5

(* The list of a waiting task: what it owns, what it waits for, the rest.  *)
LEMMA ListSplits ==
    ASSUME LockInv, NEW t \in Tasks, at[t] # NoLock, at[t] \in asked[t], NEW l \in asked[t]
    PROVE  Precedes(l, at[t]) \/ l = at[t] \/ l \in Rest(t)
BY ListsAreOrdered DEF LockInv, AsksForLists, Ordered, Rest

LEMMA ResumeBlockInv ==
    ASSUME LockInv, NEW t \in Tasks, ResumeBlock(t)
    PROVE  LockInv'
<1> DEFINE a == at[t]
<1>1. PICK b \in Rest(t), got \in SUBSET Rest(t) :
        /\ StopsAt(Rest(t), b, got)
        /\ owner' = Take(t, got \union {a})
        /\ waiters' = [waiters EXCEPT ![a] = Tail(@), ![b] = Append(@, t)]
        /\ at' = [at EXCEPT ![t] = b]
  BY DEF ResumeBlock
<1>2. asked' = asked /\ Woken(t)
  BY DEF ResumeBlock
<1>3. /\ a \in Locks /\ a \in asked[t] /\ owner[a] = Nobody /\ a # NoLock
      /\ Rest(t) \subseteq asked[t] /\ a \notin Rest(t)
      /\ Tail(waiters[a]) \in Seq(Tasks)
      /\ IsQueueOf(Tail(waiters[a]), {u \in Tasks : at[u] = a} \ {t})
  BY <1>2, WokenFacts, NoLockIsFresh
<1>4. b \in Locks /\ b # NoLock /\ b # a /\ asked[t] \subseteq Locks
  BY <1>1, <1>3, NoLockIsFresh DEF LockInv, LockTypeOK
<1>5. got = {l \in Rest(t) : Precedes(l, b)} /\ \A l \in got : owner[l] = Nobody
  BY <1>1 DEF StopsAt, Free
<1>6. Append(waiters[b], t) \in Seq(Tasks)
      /\ IsQueueOf(Append(waiters[b], t), {u \in Tasks : at[u] = b} \union {t})
  <2>1. t \notin {u \in Tasks : at[u] = b}
    BY <1>4
  <2> QED
    BY <1>4, <2>1, AppendToQueue DEF LockInv, LockTypeOK, QueuesAreExact
<1> HIDE DEF a
<1>7. LockTypeOK'
  BY <1>1, <1>2, <1>3, <1>4, <1>6 DEF LockInv, LockTypeOK, Take
<1>8. AsksForLists'
  BY <1>2 DEF LockInv, AsksForLists
<1>9. HoldsWhatItPassed'
  <2> SUFFICES ASSUME NEW u \in Tasks, NEW l \in Locks
               PROVE  owner'[l] = u <=> l \in asked'[u] /\ (at'[u] # NoLock => Precedes(l, at'[u]))
    BY DEF HoldsWhatItPassed, Waiting
  <2>1. CASE u = t
    <3>1. at'[t] = b /\ asked'[t] = asked[t]
      BY <1>1, <1>2 DEF LockInv, LockTypeOK
    <3>2. owner[l] = t <=> l \in asked[t] /\ Precedes(l, a)
      BY <1>3 DEF LockInv, HoldsWhatItPassed, Waiting, a
    <3>3. owner'[l] = t <=> l \in got \union {a} \/ owner[l] = t
      BY <1>1 DEF Take
    <3>4. Precedes(a, b)
      BY <1>1 DEF Rest, a
    <3>5. ASSUME owner'[l] = t PROVE l \in asked[t] /\ Precedes(l, b)
      BY <3>2, <3>3, <3>4, <3>5, <1>3, <1>4, <1>5, PrecedesIsStrict
    <3>6. ASSUME l \in asked[t], Precedes(l, b) PROVE owner'[l] = t
      <4>1. Precedes(l, a) \/ l = a \/ l \in Rest(t)
        BY <3>6, <1>3, ListSplits DEF a
      <4> QED
        BY <3>6, <4>1, <3>2, <3>3, <1>5
    <3> QED
      BY <2>1, <3>1, <3>5, <3>6, <1>4
  <2>2. CASE u # t
    BY <2>2, <1>1, <1>2, <1>3, <1>5, NullsAreFresh
       DEF LockInv, LockTypeOK, Take, HoldsWhatItPassed, Waiting
  <2> QED
    BY <2>1, <2>2
<1>10. QueuesAreExact'
  <2>1. \A u \in Tasks : at'[u] # NoLock => at'[u] \in asked'[u]
    BY <1>1, <1>2, <1>3 DEF LockInv, LockTypeOK, QueuesAreExact, Waiting
  <2>2. ASSUME NEW l \in Locks PROVE IsQueueOf(waiters'[l], {u \in Tasks : at'[u] = l})
    <3>1. CASE l = b
      <4>1. {u \in Tasks : at'[u] = l} = {u \in Tasks : at[u] = b} \union {t}
        BY <3>1, <1>1 DEF LockInv, LockTypeOK
      <4> QED
        BY <3>1, <4>1, <1>1, <1>4, <1>6 DEF LockInv, LockTypeOK
    <3>2. CASE l = a
      <4>1. {u \in Tasks : at'[u] = l} = {u \in Tasks : at[u] = a} \ {t}
        BY <3>2, <1>1, <1>4 DEF LockInv, LockTypeOK, a
      <4> QED
        BY <3>2, <4>1, <1>1, <1>3, <1>4 DEF LockInv, LockTypeOK
    <3>3. CASE l # b /\ l # a
      <4>1. {u \in Tasks : at'[u] = l} = {u \in Tasks : at[u] = l}
        BY <3>3, <1>1, <1>3 DEF LockInv, LockTypeOK, a
      <4> QED
        BY <3>3, <4>1, <1>1 DEF LockInv, LockTypeOK, QueuesAreExact
    <3> QED
      BY <3>1, <3>2, <3>3
  <2> QED
    BY <2>1, <2>2 DEF QueuesAreExact, Waiting
<1> QED
  BY <1>7, <1>8, <1>9, <1>10 DEF LockInv

(* Leaving the queue of the awaited lock: what is common to a task that    *)
(* resumes for good and to one that is cancelled.                          *)
LEMMA QueuesAfterLeaving ==
    ASSUME LockInv, NEW t \in Tasks, at[t] \in Locks, NEW q \in Seq(Tasks),
           IsQueueOf(q, {u \in Tasks : at[u] = at[t]} \ {t}),
           waiters' = [waiters EXCEPT ![at[t]] = q],
           at' = [at EXCEPT ![t] = NoLock],
           \A u \in Tasks : u # t => asked'[u] = asked[u]
    PROVE  /\ waiters' \in [Locks -> Seq(Tasks)]
           /\ at' \in [Tasks -> Locks \union {NoLock}]
           /\ QueuesAreExact'
<1>1. waiters' \in [Locks -> Seq(Tasks)] /\ at' \in [Tasks -> Locks \union {NoLock}]
  BY DEF LockInv, LockTypeOK
<1>2. \A u \in Tasks : at'[u] # NoLock => at'[u] \in asked'[u]
  BY DEF LockInv, LockTypeOK, QueuesAreExact, Waiting
<1>3. ASSUME NEW l \in Locks PROVE IsQueueOf(waiters'[l], {u \in Tasks : at'[u] = l})
  <2>1. CASE l = at[t]
    <3>1. {u \in Tasks : at'[u] = l} = {u \in Tasks : at[u] = at[t]} \ {t}
      BY <2>1, NoLockIsFresh DEF LockInv, LockTypeOK
    <3> QED
      BY <2>1, <3>1 DEF LockInv, LockTypeOK
  <2>2. CASE l # at[t]
    <3>1. {u \in Tasks : at'[u] = l} = {u \in Tasks : at[u] = l}
      BY <2>2, NoLockIsFresh DEF LockInv, LockTypeOK
    <3> QED
      BY <2>2, <3>1 DEF LockInv, LockTypeOK, QueuesAreExact
  <2> QED
    BY <2>1, <2>2
<1> QED
  BY <1>1, <1>2, <1>3 DEF QueuesAreExact, Waiting

LEMMA ResumeHoldInv ==
    ASSUME LockInv, NEW t \in Tasks, ResumeHold(t)
    PROVE  LockInv'
<1> DEFINE a == at[t]
<1>1. /\ Woken(t) /\ asked' = asked
      /\ owner' = Take(t, Rest(t) \union {a})
      /\ waiters' = [waiters EXCEPT ![a] = Tail(waiters[a])]
      /\ at' = [at EXCEPT ![t] = NoLock]
      /\ \A l \in Rest(t) : owner[l] = Nobody
  BY DEF ResumeHold, AllFree, Free
<1>2. /\ a \in Locks /\ a \in asked[t] /\ owner[a] = Nobody /\ a # NoLock
      /\ Rest(t) \subseteq asked[t]
      /\ Tail(waiters[a]) \in Seq(Tasks)
      /\ IsQueueOf(Tail(waiters[a]), {u \in Tasks : at[u] = a} \ {t})
  BY <1>1, WokenFacts, NoLockIsFresh
<1>3. /\ waiters' \in [Locks -> Seq(Tasks)] /\ at' \in [Tasks -> Locks \union {NoLock}]
      /\ QueuesAreExact'
  BY <1>1, <1>2, QueuesAfterLeaving
<1>4. LockTypeOK' /\ AsksForLists'
  BY <1>1, <1>3 DEF LockInv, LockTypeOK, AsksForLists, Take
<1>5. HoldsWhatItPassed'
  <2> SUFFICES ASSUME NEW u \in Tasks, NEW l \in Locks
               PROVE  owner'[l] = u <=> l \in asked'[u] /\ (at'[u] # NoLock => Precedes(l, at'[u]))
    BY DEF HoldsWhatItPassed, Waiting
  <2>1. CASE u = t
    <3>1. owner[l] = t <=> l \in asked[t] /\ Precedes(l, a)
      BY <1>2 DEF LockInv, HoldsWhatItPassed, Waiting
    <3>2. owner'[l] = t <=> l \in Rest(t) \union {a} \/ owner[l] = t
      BY <1>1 DEF Take
    <3>3. l \in asked[t] => Precedes(l, a) \/ l = a \/ l \in Rest(t)
      BY <1>2, ListSplits
    <3>4. at'[t] = NoLock
      BY <1>1 DEF LockInv, LockTypeOK
    <3> QED
      BY <2>1, <3>1, <3>2, <3>3, <3>4, <1>1, <1>2
  <2>2. CASE u # t
    BY <2>2, <1>1, <1>2, NullsAreFresh
       DEF LockInv, LockTypeOK, Take, HoldsWhatItPassed, Waiting
  <2> QED
    BY <2>1, <2>2
<1> QED
  BY <1>3, <1>4, <1>5 DEF LockInv

(* Everything the task owned is given back. *)
LEMMA GivesUpEverything ==
    ASSUME LockInv, NEW t \in Tasks, owner' = GiveUp(t),
           asked' = [asked EXCEPT ![t] = {}],
           \A u \in Tasks : u # t => at'[u] = at[u]
    PROVE  owner' \in [Locks -> Tasks \union {Nobody}] /\ HoldsWhatItPassed'
<1>1. owner' \in [Locks -> Tasks \union {Nobody}]
  BY DEF LockInv, LockTypeOK, GiveUp
<1>2. HoldsWhatItPassed'
  <2> SUFFICES ASSUME NEW u \in Tasks, NEW l \in Locks
               PROVE  owner'[l] = u <=> l \in asked'[u] /\ (at'[u] # NoLock => Precedes(l, at'[u]))
    BY DEF HoldsWhatItPassed, Waiting
  <2>1. CASE u = t
    BY <2>1, NullsAreFresh DEF LockInv, LockTypeOK, GiveUp
  <2>2. CASE u # t
    BY <2>2, NullsAreFresh DEF LockInv, LockTypeOK, GiveUp, HoldsWhatItPassed, Waiting
  <2> QED
    BY <2>1, <2>2
<1> QED
  BY <1>1, <1>2

LEMMA ResumePassInv ==
    ASSUME LockInv, NEW t \in Tasks, ResumePass(t)
    PROVE  LockInv'
<1> DEFINE a == at[t]
<1>1. /\ Woken(t) /\ asked' = [asked EXCEPT ![t] = {}]
      /\ owner' = GiveUp(t)
      /\ waiters' = [waiters EXCEPT ![a] = Tail(waiters[a])]
      /\ at' = [at EXCEPT ![t] = NoLock]
  BY DEF ResumePass
<1>2. /\ a \in Locks /\ Tail(waiters[a]) \in Seq(Tasks)
      /\ IsQueueOf(Tail(waiters[a]), {u \in Tasks : at[u] = a} \ {t})
  BY <1>1, WokenFacts
<1>3. /\ waiters' \in [Locks -> Seq(Tasks)] /\ at' \in [Tasks -> Locks \union {NoLock}]
      /\ QueuesAreExact'
  BY <1>1, <1>2, QueuesAfterLeaving DEF LockInv, LockTypeOK
<1>4. owner' \in [Locks -> Tasks \union {Nobody}] /\ HoldsWhatItPassed'
  BY <1>1, GivesUpEverything DEF LockInv, LockTypeOK
<1>5. LockTypeOK' /\ AsksForLists'
  BY <1>1, <1>3, <1>4, EmptyList DEF LockInv, LockTypeOK, AsksForLists
<1> QED
  BY <1>3, <1>4, <1>5 DEF LockInv

LEMMA AbortInv ==
    ASSUME LockInv, NEW t \in Tasks, Abort(t)
    PROVE  LockInv'
<1> DEFINE a == at[t]
<1>1. PICK i \in DOMAIN waiters[a] :
        waiters[a][i] = t /\ waiters' = [waiters EXCEPT ![a] = RemoveAt(waiters[a], i)]
  BY DEF Abort
<1>2. /\ a # NoLock /\ asked' = [asked EXCEPT ![t] = {}]
      /\ owner' = GiveUp(t) /\ at' = [at EXCEPT ![t] = NoLock]
  BY DEF Abort, Waiting
<1>3. a \in Locks
  BY <1>2 DEF LockInv, LockTypeOK
<1>4. waiters[a] \in Seq(Tasks) /\ IsQueueOf(waiters[a], {u \in Tasks : at[u] = a})
  BY <1>3 DEF LockInv, LockTypeOK, QueuesAreExact
<1>5. /\ RemoveAt(waiters[a], i) \in Seq(Tasks)
      /\ IsQueueOf(RemoveAt(waiters[a], i), {u \in Tasks : at[u] = a} \ {t})
  BY <1>1, <1>4, RemoveFromQueue
<1>6. /\ waiters' \in [Locks -> Seq(Tasks)] /\ at' \in [Tasks -> Locks \union {NoLock}]
      /\ QueuesAreExact'
  BY <1>1, <1>2, <1>3, <1>5, QueuesAfterLeaving DEF LockInv, LockTypeOK
<1>7. owner' \in [Locks -> Tasks \union {Nobody}] /\ HoldsWhatItPassed'
  BY <1>2, GivesUpEverything DEF LockInv, LockTypeOK
<1>8. LockTypeOK' /\ AsksForLists'
  BY <1>2, <1>6, <1>7, EmptyList DEF LockInv, LockTypeOK, AsksForLists
<1> QED
  BY <1>6, <1>7, <1>8 DEF LockInv

-----------------------------------------------------------------------------
(* Every step of every task preserves LockInv. *)
LEMMA LockStepInv == LockInv /\ [LockNext]_lockVars => LockInv'
<1> SUFFICES ASSUME LockInv, [LockNext]_lockVars PROVE LockInv'
  OBVIOUS
<1>1. CASE UNCHANGED lockVars
  BY <1>1 DEF lockVars, LockInv, LockTypeOK, AsksForLists, HoldsWhatItPassed, QueuesAreExact, Waiting
<1>2. CASE LockNext
  <2>1. PICK t \in Tasks : LockStep(t)
    BY <1>2 DEF LockNext
  <2>2. ASSUME NEW L \in LockLists, Block(t, L) \/ Hold(t, L) \/ Pass(t, L) PROVE LockInv'
    BY <2>2, <1>1, BlockInv, HoldInv DEF Pass
  <2>3. CASE Resume(t)
    BY <2>3, ResumeBlockInv, ResumeHoldInv, ResumePassInv DEF Resume
  <2>4. CASE Release(t)
    BY <2>4, ReleaseInv
  <2>5. CASE Abort(t)
    BY <2>5, AbortInv
  <2> QED
    BY <2>1, <2>2, <2>3, <2>4, <2>5 DEF LockStep
<1> QED
  BY <1>1, <1>2

(***************************************************************************)
(* LockInv is inductive: whatever tasks ask for, wait for, give up or      *)
(* abandon, ownership and queues stay as locks.py means them.              *)
(***************************************************************************)
THEOREM LockInvariance == LockSpec => []LockInv
<1>1. LockInit => LockInv
  BY LockInitInv
<1>2. LockInv /\ [LockNext]_lockVars => LockInv'
  BY LockStepInv
<1> QED
  BY <1>1, <1>2, PTL DEF LockSpec

(* The variables keep their types. *)
THEOREM LockTypeCorrect == LockSpec => []LockTypeOK
<1>1. LockInv => LockTypeOK
  BY DEF LockInv
<1> QED
  BY <1>1, LockInvariance, PTL

(* A task owns exactly the part of its list it has passed: _hold leaks no lock. *)
THEOREM OwnershipIsExact == LockSpec => []HoldsWhatItPassed
<1>1. LockInv => HoldsWhatItPassed
  BY DEF LockInv
<1> QED
  BY <1>1, LockInvariance, PTL

(* Every task stands exactly in the queue of the lock it waits for. *)
THEOREM QueuesStayExact == LockSpec => []QueuesAreExact
<1>1. LockInv => QueuesAreExact
  BY DEF LockInv
<1> QED
  BY <1>1, LockInvariance, PTL

(***************************************************************************)
(* Along every wait the lock waited for ascends, for any number of tasks:  *)
(* no cycle of waits, so no deadlock among the locks.                      *)
(***************************************************************************)
THEOREM WaitsAlwaysAscend == LockSpec => []WaitsAscend
<1>1. LockInv => WaitsAscend
  BY DEF LockInv, LockTypeOK, HoldsWhatItPassed, WaitsAscend, Waiting
<1> QED
  BY <1>1, LockInvariance, PTL
=============================================================================
