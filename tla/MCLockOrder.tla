----------------------------- MODULE MCLockOrder -----------------------------
(* Small instances of the transactions' locks.                                *)
EXTENDS LockOrderProps, TLC

Symmetry ==
  Permutations(ChangeRequests) \cup Permutations(Attempts) \cup Permutations(Deliveries)
    \cup Permutations(Transactions)
===============================================================================
