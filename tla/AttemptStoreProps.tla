-------------------------- MODULE AttemptStoreProps --------------------------
(***************************************************************************)
(* What the authoritative state store must guarantee, whatever its callers *)
(* ask for and in whatever order: see AttemptStore for the transactions.   *)
(***************************************************************************)
EXTENDS AttemptStore

\* Every column holds a value of its type.
TypeOK ==
  /\ requestKey \in [ChangeRequests -> Keys \cup {None}]
  /\ authority \in [ChangeRequests -> Attempts \cup {None}]
  /\ standing \in [ChangeRequests -> Attempts \cup {None}]
  /\ gate \in [ChangeRequests -> Gates \cup {NoneGate}]
  /\ revision \in [ChangeRequests -> 0..MaxRevision]
  /\ attemptCR \in [Attempts -> ChangeRequests \cup {None}]
  /\ attemptKey \in [Attempts -> Keys \cup {None}]
  /\ attemptStatus \in [Attempts -> AttemptStatus \cup {NoRow}]
  /\ identity \in [Attempts -> Identities \cup {None}]
  /\ jobStatus \in [Attempts -> JobStatus \cup {NoRow}]
  /\ retryCount \in [Attempts -> 0..MaxRetries]
  /\ executing \in [Workers -> Attempts \cup {None}]
  /\ recorded \in [Workers -> BOOLEAN]
  /\ syncing \in [Workers -> Intents \cup {NoIntent}]
  /\ verified \in [Workers -> BOOLEAN]
  /\ decisionGate \in [Attempts -> Gates \cup {NoneGate}]
  /\ decisionStanding \in [Attempts -> BOOLEAN]
  /\ delivered \in [Deliveries -> Attempts \cup {None}]
  /\ bypass \in [Attempts -> [Findings -> BypassStatus \cup {NoRow}]]
  /\ syncStatus \in [Attempts -> [Revisions -> SyncStatus \cup {NoRow}]]
  /\ syncClaims \in [Attempts -> [Revisions -> 0..MaxSyncClaims]]
  /\ reportGate \in [Attempts -> ReportGates \cup {NoneGate}]
  /\ reportBlocking \in [Attempts -> SUBSET Findings]
  /\ reportIdentity \in [Attempts -> Identities \cup {None}]

-----------------------------------------------------------------------------
(* Safety invariants.                                                      *)

\* D8: the standing decision of a change request belongs to the Attempt in
\* authority, which was reviewed for the change request's current key, and
\* the decision row says the same gate.  start_authoritative_attempt,
\* publish_if_authoritative, the invalidations and the bypasses all write it.
StandingIsAuthoritative ==
  \A c \in ChangeRequests : standing[c] # None =>
    LET a == standing[c]
    IN /\ authority[c] = a
       /\ attemptKey[a] = requestKey[c]
       /\ decisionStanding[a]
       /\ decisionGate[a] = gate[c]

\* With one worker (see the theorem StandingPublished), the standing decision
\* is one of a published Attempt: a republication never puts the standing Attempt aside as audit-only.  (Two
\* overlapping executions can: one saves an Error without an Identity, the
\* other records an Identity afterwards, and a retried publication then finds
\* that they differ.)
StandingIsPublished ==
  \A c \in ChangeRequests : standing[c] # None => attemptStatus[standing[c]] = "published"

\* At most one gate decision of a change request is marked standing, and it
\* is one of the Attempt in authority, even after the decision was withdrawn
\* without touching its row (invalidate_standing_decision).
OneStandingDecision ==
  \A a \in Attempts : decisionStanding[a] => authority[attemptCR[a]] = a

\* What stands is sound: decided by the Attempt in authority, for the current
\* key, and marked on one decision row only.
StandingDecisionIsSound == StandingIsAuthoritative /\ OneStandingDecision

\* An Attempt that lost authority is superseded or audit-only for good: no
\* late claim, publication or recovery brings it back to a live status.
LostAuthorityIsFinal ==
  \A a \in Attempts :
    attemptStatus[a] \in {"queued", "running", "published"} => authority[attemptCR[a]] = a

\* What the saved report and the risks accepted so far amount to.
GateWithRisks(a) ==
  IF reportGate[a] = "Blocked" /\ reportBlocking[a] \subseteq ActiveBypasses(a)
    THEN "Passed with bypass" ELSE reportGate[a]

\* The gate that stands is the one the saved report and the risks accepted so
\* far amount to: it turns to "Passed with bypass" exactly when every
\* blocking finding of the report has an active bypass.
GateIsReportPlusAcceptedRisks ==
  \A c \in ChangeRequests : standing[c] # None => gate[c] = GateWithRisks(standing[c])

\* A risk stays accepted only for the standing decision it was accepted on,
\* on a finding that blocks it, under the Review Identity it was granted on
\* (P3 5.2): whatever takes the decision away expires the bypass.
BypassBindsToStandingDecision ==
  \A a \in Attempts, f \in Findings : bypass[a][f] = "active" =>
    /\ standing[attemptCR[a]] = a
    /\ f \in reportBlocking[a]
    /\ identity[a] = reportIdentity[a]

\* While accepted risks stand, the Check sync intent of the current standing
\* revision exists and is not given up as superseded: the GitHub Check is
\* due the latest decision, whatever earlier intents end as.
LatestRevisionIsDueToTheCheck ==
  \A c \in ChangeRequests :
    standing[c] # None /\ ActiveBypasses(standing[c]) # {} =>
      syncStatus[standing[c]][revision[c]] \notin {NoRow, "superseded"}

\* A published Attempt is never executed (and billed) again, and a job ends
\* completed only with a saved report: its job is over as soon as the
\* decision is, whoever else holds a lease on it.
PublishedIsNotExecutedAgain ==
  \A a \in Attempts :
    /\ attemptStatus[a] \in {"published", "audit-only"} => jobStatus[a] \in TerminalJob
    /\ jobStatus[a] = "completed" => reportGate[a] # NoneGate

\* An Attempt that can still be published has no gate decision yet, so the
\* insertion into gate_decisions (UNIQUE attempt_id) never fails.
RunningIsUndecided ==
  \A a \in Attempts : attemptStatus[a] \in {"queued", "running"} => decisionGate[a] = NoneGate

\* An Attempt is decided once: what can still be published is undecided, and
\* what was published is executed no more, whichever worker comes late.
AttemptIsDecidedOnce == PublishedIsNotExecutedAgain /\ RunningIsUndecided

-----------------------------------------------------------------------------
(* The inductive invariant: the safety invariants above and what they rest   *)
(* on.  See AttemptStoreProofs.                                              *)

\* An Attempt without a row has none anywhere; an Attempt with a row belongs to
\* a change request; what is executed has a row.
RowsExist ==
  /\ \A a \in Attempts :
       IF attemptStatus[a] = NoRow
         THEN /\ attemptCR[a] = None
              /\ jobStatus[a] = NoRow
              /\ identity[a] = None
              /\ decisionGate[a] = NoneGate
              /\ ~decisionStanding[a]
              /\ reportGate[a] = NoneGate
              /\ \A f \in Findings : bypass[a][f] = NoRow
              /\ \A r \in Revisions : syncStatus[a][r] = NoRow
         ELSE attemptCR[a] \in ChangeRequests
  /\ \A w \in Workers : executing[w] # None => attemptStatus[executing[w]] # NoRow

\* A Check sync that is being delivered has its row.
DeliveredIntentsExist ==
  \A w \in Workers : syncing[w] # NoIntent =>
    syncStatus[syncing[w][1]][syncing[w][2]] # NoRow

\* The Attempt in authority is one of the change request and of its key.
AuthorityIsOfTheRequest ==
  \A c \in ChangeRequests : authority[c] # None =>
    /\ attemptCR[authority[c]] = c
    /\ attemptKey[authority[c]] = requestKey[c]

\* A report blocks exactly when it is Blocked; the standing gate is null
\* exactly when nothing stands, and what stands has a report.
ReportsBackDecisions ==
  /\ \A a \in Attempts : reportBlocking[a] # {} <=> reportGate[a] = "Blocked"
  /\ \A c \in ChangeRequests :
       /\ standing[c] = None <=> gate[c] = NoneGate
       /\ standing[c] # None => reportGate[standing[c]] # NoneGate

\* A decided Attempt has no job left to run.
DecidedJobsAreOver ==
  \A a \in Attempts : decisionGate[a] # NoneGate => jobStatus[a] \in TerminalJob

\* A risk is only accepted on a Blocked report with an Identity.
BypassesAreOfBlockedReports ==
  \A a \in Attempts, f \in Findings : bypass[a][f] = "active" =>
    reportGate[a] = "Blocked" /\ identity[a] # None

\* No Check sync intent is ahead of the change request's revision.
IntentsAreOfPastRevisions ==
  \A a \in Attempts, r \in Revisions : syncStatus[a][r] # NoRow =>
    r <= revision[attemptCR[a]]

\* All of it: TypeOK and this are inductive.
IndInv ==
  /\ RowsExist
  /\ DeliveredIntentsExist
  /\ AuthorityIsOfTheRequest
  /\ ReportsBackDecisions
  /\ DecidedJobsAreOver
  /\ BypassesAreOfBlockedReports
  /\ IntentsAreOfPastRevisions
  /\ StandingIsAuthoritative
  /\ OneStandingDecision
  /\ LostAuthorityIsFinal
  /\ GateIsReportPlusAcceptedRisks
  /\ BypassBindsToStandingDecision
  /\ LatestRevisionIsDueToTheCheck
  /\ PublishedIsNotExecutedAgain
  /\ RunningIsUndecided

\* With one worker also this is inductive: what it executes has no report
\* yet, an Identity is of the Attempt's key, and what stands was published
\* under the Identity it was reviewed under.
OneWorkerInv ==
  /\ \A w \in Workers : executing[w] # None => reportGate[executing[w]] = NoneGate
  /\ \A a \in Attempts : identity[a] # None => IdentityKey[identity[a]] = attemptKey[a]
  /\ \A c \in ChangeRequests : standing[c] # None =>
       identity[standing[c]] = reportIdentity[standing[c]]
  /\ StandingIsPublished

-----------------------------------------------------------------------------
(* Action properties.                                                      *)

\* Every change of the standing decision is exactly one new revision, and
\* revisions never go back: a reader that saw a revision knows when what it
\* read is stale (comment of the standing_revision column).
EveryDecisionChangeIsARevision ==
  [][\A c \in ChangeRequests :
       /\ revision'[c] \in {revision[c], revision[c] + 1}
       /\ <<standing'[c], gate'[c]>> # <<standing[c], gate[c]>> =>
            revision'[c] = revision[c] + 1]_vars

\* A job that ended stays ended: neither recovery, a late failure report, a
\* late publication nor a new Attempt moves it.
TerminalJobsStayTerminal ==
  [][\A a \in Attempts : jobStatus[a] \in TerminalJob => jobStatus'[a] = jobStatus[a]]_vars

\* The store as AttemptAuthority sees it: a null gate is None, an Attempt is
\* used once it has a row and decided once it has a gate decision.
GateOrNone == [c \in ChangeRequests |-> IF gate[c] = NoneGate THEN None ELSE gate[c]]
\* Every Attempt that was started.
Used == {a \in Attempts : attemptStatus[a] # NoRow}
\* Every Attempt that has a gate decision.
Decided == {a \in Attempts : decisionGate[a] # NoneGate}
\* AttemptAuthority over the columns and these values.
Authority == INSTANCE AttemptAuthority WITH
  gate <- GateOrNone, used <- Used, decided <- Decided

\* D8 as a refinement: whatever the tables go through, an Attempt takes
\* authority once, is decided at most once and only in authority, and every
\* change of the standing decision is one revision.
ImplementsAuthority == Authority!Spec

=============================================================================
