---------------------------- MODULE LockOrderProps ----------------------------
(***************************************************************************)
(* What the locks of the state store's transactions are for: nobody waits  *)
(* in a circle, and what a transaction decided on is still true when it    *)
(* commits.                                                                *)
(***************************************************************************)
EXTENDS LockOrder

\* Every variable holds a value of its type.
LockTypeOK ==
  /\ owner \in [Attempts -> ChangeRequests \cup {None}]
  /\ authority \in [ChangeRequests -> Attempts \cup {None}]
  /\ standing \in [ChangeRequests -> Attempts \cup {None}]
  /\ open \subseteq Attempts
  /\ decided \subseteq Attempts
  /\ kind \in [Transactions -> Kinds \cup {None}]
  /\ request \in [Transactions -> ChangeRequests \cup {None}]
  /\ attempt \in [Transactions -> Attempts \cup {None}]
  /\ delivery \in [Transactions -> Deliveries \cup {None}]
  /\ batch \in [Transactions -> Batches]
  /\ seen \in [Transactions -> [authority : Attempts \cup {None}, standing : Attempts \cup {None}]]
  /\ pc \in [Transactions -> Nat \ {0}]

\* A circle of transactions, each waiting for another one of it.
Circle(D) == D # {} /\ \A t \in D : \E u \in D : WaitsFor(t, u)

\* No transactions wait for each other in a circle ("the row-lock order inside
\* can never deadlock across paths", _lock_change_request).
NoDeadlock == \A D \in SUBSET Transactions : ~Circle(D)

\* Only a claim, the one transaction on an Attempt and its change request that
\* takes no advisory lock, can be what closes a circle.
EveryCircleHasAClaim ==
  \A D \in SUBSET Transactions : Circle(D) => \E t \in D : kind[t] = "claim"

\* What a transaction read of its change request (authority and standing
\* decision) is still so when it commits, whoever commits meanwhile: each
\* transaction has the effect it would have as one step, which is how
\* AttemptStore takes it.
ReadsStayCurrent ==
  \A t \in Transactions :
    kind[t] \in AdvisoryKinds \cup {"claim"} /\ Complete(t) =>
      seen[t] = [authority |-> authority[request[t]], standing |-> standing[request[t]]]
=============================================================================
