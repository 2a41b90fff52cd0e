----------------------------- MODULE Idempotency -----------------------------
(***************************************************************************)
(* core/idempotency.py: at most one live claim per (cart_id, key), and the *)
(* order of every claim that succeeded, kept for the life of the process.  *)
(* Every operation is synchronous, and runs outside any lock.              *)
(***************************************************************************)
EXTENDS Models

CONSTANT Keys     \* Idempotency-Key header values

VARIABLE records  \* (cart, key) -> its record

NoRecord == [state |-> "ABSENT", fingerprint |-> <<>>, order |-> 0]

(* The hash of the request body, here the body itself. *)
Fingerprint(r) == <<r.cart, r.customer, r.coupon>>

KeyOf(r) == <<r.cart, r.key>>

IdempotencyInit == records = [ck \in Carts \X Keys |-> NoRecord]

(***************************************************************************)
(* The verdict of claim(): what is already recorded decides, and another   *)
(* body under the same key is refused even before "in progress" is.        *)
(***************************************************************************)
TrustsTheKey(r) ==
    LET record == records[KeyOf(r)]
    IN  CASE record.state = "ABSENT"      -> "GRANTED"
          [] record.state = "IN_PROGRESS" -> "IN_PROGRESS"
          [] record.state = "COMPLETED"   -> "REPLAY"

RunsAgain(r) ==
    LET record == records[KeyOf(r)]
    IN  IF record.state = "COMPLETED" /\ record.fingerprint = Fingerprint(r) THEN "REPLAY" ELSE "GRANTED"

ClaimStatus(r) ==
    LET record == records[KeyOf(r)]
    IN  CASE record.state = "ABSENT" -> "GRANTED"
          [] record.state # "ABSENT" /\ record.fingerprint # Fingerprint(r) -> "FINGERPRINT_MISMATCH"
          [] record.state = "IN_PROGRESS" /\ record.fingerprint = Fingerprint(r) -> "IN_PROGRESS"
          [] record.state = "COMPLETED" /\ record.fingerprint = Fingerprint(r) -> "REPLAY"

(* The registry after a granted claim, a completion and a release.         *)
Claimed(recs, r) ==
    [recs EXCEPT ![KeyOf(r)] = [state |-> "IN_PROGRESS", fingerprint |-> Fingerprint(r), order |-> 0]]

Completed(recs, r, order) ==
    [recs EXCEPT ![KeyOf(r)] = [@ EXCEPT !.state = "COMPLETED", !.order = order]]

KeptClaim(recs, r) == recs
Unclaimed(recs, r) == [recs EXCEPT ![KeyOf(r)] = NoRecord]

(* complete() raises unless the claim is live. *)
ClaimIsLive(r) == records[KeyOf(r)].state = "IN_PROGRESS"
=============================================================================
