------------------------- MODULE CheckPublicationProps -------------------------
(***************************************************************************)
(* What the delivery of decisions to a GitHub Check guarantees, and what   *)
(* its comments promise beyond that.                                       *)
(***************************************************************************)
EXTENDS CheckPublication

\* Every variable holds a value of its type, and no publication is delivered
\* more often than MAX_PUBLICATION_ATTEMPTS (claim_publication).
PublicationTypeOK ==
  /\ report \in ReportGates
  /\ saved \in BOOLEAN /\ jobOver \in BOOLEAN
  /\ authoritative \in BOOLEAN /\ standing \in BOOLEAN
  /\ attemptStatus \in {"running", "published", "superseded", "audit-only"}
  /\ accepted \subseteq Findings
  /\ revision \in 0..MaxRevision
  /\ outbox \in PublicationStatus \cup {NoRow}
  /\ deliveries \in 0..MaxDeliveries
  /\ leased \in BOOLEAN
  /\ publicationStatus \in PublicationStatus \cup {NoRow}
  /\ syncStatus \in [Revisions -> PublicationStatus \cup {NoRow}]
  /\ syncClaims \in [Revisions -> Nat]
  /\ pc \in [Workers -> Steps]
  /\ task \in [Workers -> {"first", "retry", "sync"}]
  /\ intent \in [Workers -> 0..MaxRevision]
  /\ claims \in [Workers -> Nat]
  /\ payload \in [Workers -> Contents]
  /\ mark \in [Workers -> PublicationStatus]
  /\ check \in Contents \cup {NotConcluded}
  /\ errors \in 0..MaxErrors
  /\ crashes \in 0..MaxCrashes

\* The Check never concludes before the store decided on the report, and while
\* a publication is marked published the Check is concluded: GitHub does not
\* run ahead of the store, nor the store's outbox ahead of GitHub.  The second
\* half is for one worker: the announcement of another, belated, could put a
\* delivered Check back to in progress.
CheckFollowsDecision ==
  /\ check # NotConcluded => jobOver /\ attemptStatus # "running"
  /\ outbox = "published" => check # NotConcluded

\* No worker is between two steps.
Quiet == \A w \in Workers : pc[w] = "idle"
\* The Check shows the gate that stands, with every accepted risk marked.
CheckIsCurrent == check = [gate |-> StandingGate, marked |-> accepted]
\* Accepted risks stand and the sync of their revision is marked published.
SyncIsPublished ==
  standing /\ accepted # {} /\ syncStatus[revision] = "published"

\* The report reached its Check without a retry.
FirstDelivery == outbox = "published" /\ deliveries = 1

\* If the report reached its Check at the first delivery, a published sync of
\* the current revision means that the Check shows the decision that stands,
\* with every accepted risk marked: a delivery that read an older decision
\* is always followed by a newer one.
PublishedSyncIsShown ==
  SyncIsPublished /\ Quiet /\ FirstDelivery => CheckIsCurrent

\* A publication is over: delivered, superseded, or failed for good.
Settled ==
  outbox \in {"published", "superseded"} \/ Exhausted

\* A crash in the last delivery that the budget allows, or a database that
\* could not take its outcome.
Stalled == outbox = "in_progress" /\ deliveries = MaxDeliveries

\* Every saved report ends published, superseded or failed with its budget
\* spent, and its job ends with it ("must not linger in a non-terminal state
\* forever", durable.py): after errors and crashes the scan brings it there.
\* The one exception is a last delivery that ends without an outcome written.
EveryResultSettles == saved ~> ((Settled /\ jobOver) \/ Stalled)

\* After a first delivery an accepted risk reaches the Check: it shows the
\* decision of the current revision, unless another revision replaces that one
\* or its sync fails with the budget spent.
AcceptedRisksReachTheCheck ==
  \A r \in Revisions :
    (FirstDelivery /\ standing /\ accepted # {} /\ revision = r) ~>
      (CheckIsCurrent \/ revision # r \/ syncStatus[r] = "failed")

=============================================================================
