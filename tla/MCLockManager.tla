--------------------------- MODULE MCLockManager ---------------------------
(* LockManager on its own, for TLC: any task may ask for any list of locks. *)
EXTENDS LockManager, TLC

Symmetry == Permutations(Tasks) \union Permutations(Carts)
=============================================================================
