---------------------------- MODULE MCAttemptStore ----------------------------
(* Small instances of the authoritative state store.                          *)
EXTENDS AttemptStoreProps, TLC

CONSTANTS k1, k2

\* Every Identity was derived from the first key.
MCIdentityKey == [i \in Identities |-> k1]

Symmetry ==
  Permutations(ChangeRequests) \cup Permutations(Attempts) \cup Permutations(Findings)
    \cup Permutations(Identities) \cup Permutations(Deliveries) \cup Permutations(Workers)
===============================================================================
