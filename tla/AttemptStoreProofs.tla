------------------------- MODULE AttemptStoreProofs -------------------------
(***************************************************************************)
(* Proofs about the authoritative state store, for any number of change    *)
(* requests, Attempts, findings, deliveries and workers, and any bounds.   *)
(***************************************************************************)
EXTENDS AttemptStoreProps, TLAPS

-----------------------------------------------------------------------------
(* Type correctness.                                                       *)

\* Writing one cell of a table keyed by two columns.
LEMMA CellWrite ==
  ASSUME NEW A, NEW B, NEW C, NEW t \in [A -> [B -> C]],
         NEW a \in A, NEW b \in B, NEW v \in C
  PROVE  [t EXCEPT ![a][b] = v] \in [A -> [B -> C]]
  OBVIOUS

\* Writing one status of a Check sync intent keeps the table's type.
LEMMA SyncStatusWrite ==
  ASSUME TypeOK, NEW a \in Attempts, NEW r \in Revisions, NEW s \in SyncStatus
  PROVE  [syncStatus EXCEPT ![a][r] = s] \in [Attempts -> [Revisions -> SyncStatus \cup {NoRow}]]
<1>1. syncStatus \in [Attempts -> [Revisions -> SyncStatus \cup {NoRow}]]
  BY DEF TypeOK
<1>2. QED
  BY <1>1, CellWrite

\* Writing one attempt_count of a Check sync intent keeps the table's type.
LEMMA SyncClaimsWrite ==
  ASSUME TypeOK, NEW a \in Attempts, NEW r \in Revisions, NEW n \in 0..MaxSyncClaims
  PROVE  [syncClaims EXCEPT ![a][r] = n] \in [Attempts -> [Revisions -> 0..MaxSyncClaims]]
<1>1. syncClaims \in [Attempts -> [Revisions -> 0..MaxSyncClaims]]
  BY DEF TypeOK
<1>2. QED
  BY <1>1, CellWrite

\* Writing one bypass row keeps the table's type.
LEMMA BypassWrite ==
  ASSUME TypeOK, NEW a \in Attempts, NEW f \in Findings, NEW s \in BypassStatus
  PROVE  [bypass EXCEPT ![a][f] = s] \in [Attempts -> [Findings -> BypassStatus \cup {NoRow}]]
<1>1. bypass \in [Attempts -> [Findings -> BypassStatus \cup {NoRow}]]
  BY DEF TypeOK
<1>2. QED
  BY <1>1, CellWrite

\* The values the transactions compute have the type of the column they are
\* written to.
LEMMA NoStandingDecisionType ==
  ASSUME TypeOK, NEW c
  PROVE  NoStandingDecision(c) \in [Attempts -> BOOLEAN]
  BY DEF TypeOK, NoStandingDecision

\* Expiring the bypasses of a change request keeps the table's type.
LEMMA InvalidatedBypassesType ==
  ASSUME TypeOK, NEW c
  PROVE  InvalidatedBypasses(c) \in [Attempts -> [Findings -> BypassStatus \cup {NoRow}]]
  BY DEF TypeOK, InvalidatedBypasses, BypassStatus

\* Superseding the intents of an Attempt keeps the table's type.
LEMMA SupersededIntentsType ==
  ASSUME TypeOK, NEW b
  PROVE  SupersededIntents(b) \in [Attempts -> [Revisions -> SyncStatus \cup {NoRow}]]
  BY DEF TypeOK, SupersededIntents, SyncStatus

\* Enqueueing a Check sync intent keeps the table's type.
LEMMA EnqueuedIntentType ==
  ASSUME TypeOK, NEW a \in Attempts, NEW r \in Revisions
  PROVE  EnqueuedIntent(a, r) \in [Attempts -> [Revisions -> SyncStatus \cup {NoRow}]]
  BY SupersededIntentsType, CellWrite DEF EnqueuedIntent, SyncStatus

\* Completing a job keeps the job column's type.
LEMMA CompletedJobType ==
  ASSUME TypeOK, NEW a \in Attempts
  PROVE  CompletedJob(a) \in [Attempts -> JobStatus \cup {NoRow}]
  BY DEF TypeOK, CompletedJob, JobStatus

\* A claim leaves its job running or superseded.
LEMMA ClaimedStatusType ==
  ASSUME NEW a
  PROVE  ClaimedStatus(a) \in {"running", "superseded"}
  BY DEF ClaimedStatus

\* An empty store is well typed.
LEMMA TypeOKInit == Init => TypeOK
  BY ConstantsAssumption DEF Init, TypeOK, NoIntent

\* Every transaction keeps the columns well typed.
LEMMA TypeOKNext == TypeOK /\ [Next]_vars => TypeOK'
<1> SUFFICES ASSUME TypeOK, [Next]_vars PROVE TypeOK'
  OBVIOUS
<1> USE DEF crVars, attemptVars, jobVars, executionVars, deliveryVars, workerVars, decisionVars, syncVars, reportVars
<1>1. ASSUME NEW c \in ChangeRequests, NEW a \in Attempts, NEW k \in Keys,
             NEW expected \in Attempts \cup {None}, NEW d \in Deliveries \cup {None},
             StartAuthoritativeAttempt(c, a, k, expected, d)
      PROVE  TypeOK'
  BY <1>1, ConstantsAssumption, NoStandingDecisionType, InvalidatedBypassesType,
     SupersededIntentsType
  DEF StartAuthoritativeAttempt, StandingAfterStart, TypeOK, RevisionAfterStart, AttemptStatus, JobStatus
<1>2. ASSUME NEW w \in Workers, NEW a \in Attempts, ClaimAttemptJob(w, a)
      PROVE  TypeOK'
  BY <1>2, ConstantsAssumption, ClaimedStatusType DEF ClaimAttemptJob, TypeOK, AttemptStatus, JobStatus
<1>3. ASSUME NEW w \in Workers, MarkJobRetryable(w)
      PROVE  TypeOK'
  BY <1>3, ConstantsAssumption DEF MarkJobRetryable, TypeOK, JobStatus
<1>4. ASSUME NEW w \in Workers, CrashWorker(w)
      PROVE  TypeOK'
  BY <1>4 DEF CrashWorker, TypeOK
<1>5. ASSUME NEW w \in Workers, NEW expired \in SUBSET Attempts, RecoverInterruptedJobs(w, expired)
      PROVE  TypeOK'
  BY <1>5, ConstantsAssumption DEF RecoverInterruptedJobs, TypeOK, JobStatus
<1>6. ASSUME NEW w \in Workers, NEW i \in Identities, RecordReviewIdentity(w, i)
      PROVE  TypeOK'
  BY <1>6 DEF RecordReviewIdentity, TypeOK
<1>7. ASSUME NEW w \in Workers, NEW g \in ReportGates, NEW blocking \in SUBSET Findings,
             SaveReviewResult(w, g, blocking)
      PROVE  TypeOK'
  BY <1>7 DEF SaveReviewResult, TypeOK
<1>8. ASSUME NEW w \in Workers, NEW a \in Attempts, PublishIfAuthoritative(w, a)
      PROVE  TypeOK'
  <2>1. revision' \in [ChangeRequests -> 0..MaxRevision]
    <3>1. /\ revision[attemptCR[a]] < MaxRevision
          /\ revision' = [revision EXCEPT ![attemptCR[a]] = @ + 1]
      BY <1>8 DEF PublishIfAuthoritative
    <3>2. revision \in [ChangeRequests -> 0..MaxRevision]
      BY DEF TypeOK
    <3>3. CASE attemptCR[a] \in ChangeRequests
      BY <3>1, <3>2, <3>3, ConstantsAssumption
    <3>4. CASE attemptCR[a] \notin ChangeRequests
      BY <3>1, <3>2, <3>4
    <3>5. QED
      BY <3>3, <3>4
  <2>2. decisionStanding' \in [Attempts -> BOOLEAN]
    BY <1>8, NoStandingDecisionType DEF PublishIfAuthoritative
  <2>3. jobStatus' \in [Attempts -> JobStatus \cup {NoRow}]
    BY <1>8, CompletedJobType DEF PublishIfAuthoritative
  <2>4. /\ standing' \in [ChangeRequests -> Attempts \cup {None}]
        /\ gate' \in [ChangeRequests -> Gates \cup {NoneGate}]
        /\ decisionGate' \in [Attempts -> Gates \cup {NoneGate}]
        /\ attemptStatus' \in [Attempts -> AttemptStatus \cup {NoRow}]
    BY <1>8 DEF PublishIfAuthoritative, TypeOK, Gates, AttemptStatus
  <2>5. QED
    BY <1>8, <2>1, <2>2, <2>3, <2>4 DEF PublishIfAuthoritative, TypeOK
<1>9. ASSUME NEW w \in Workers, NEW a \in Attempts, PublishAuditOnly(w, a)
      PROVE  TypeOK'
  BY <1>9, CompletedJobType DEF PublishAuditOnly, TypeOK, AttemptStatus
<1>10. ASSUME NEW w \in Workers, NEW a \in Attempts, FinalizeAttemptJob(w, a)
       PROVE  TypeOK'
  BY <1>10 DEF FinalizeAttemptJob, TypeOK, JobStatus
<1>11. ASSUME NEW c \in ChangeRequests, InvalidateStandingDecision(c)
       PROVE  TypeOK'
  BY <1>11, ConstantsAssumption, InvalidatedBypassesType, SupersededIntentsType
  DEF InvalidateStandingDecision, TypeOK
<1>12. ASSUME NEW c \in ChangeRequests, NEW a \in Attempts, NEW f \in Findings,
              ApplyFindingBypass(c, a, f)
       PROVE  TypeOK'
  <2>1. revision[c] + 1 \in Revisions
    <3>1. revision[c] < MaxRevision
      BY <1>12 DEF ApplyFindingBypass
    <3>2. QED
      BY <3>1, ConstantsAssumption DEF TypeOK, Revisions
  <2>2. syncStatus' \in [Attempts -> [Revisions -> SyncStatus \cup {NoRow}]]
    BY <1>12, <2>1, EnqueuedIntentType DEF ApplyFindingBypass
  <2>3. bypass' \in [Attempts -> [Findings -> BypassStatus \cup {NoRow}]]
    BY <1>12, BypassWrite DEF ApplyFindingBypass, BypassStatus
  <2>4. gate' \in [ChangeRequests -> Gates \cup {NoneGate}]
    BY <1>12 DEF ApplyFindingBypass, TypeOK, Gates
  <2>5. decisionGate' \in [Attempts -> Gates \cup {NoneGate}]
    BY <1>12 DEF ApplyFindingBypass, TypeOK, Gates
  <2>6. revision' \in [ChangeRequests -> 0..MaxRevision]
    <3>1. revision' = [revision EXCEPT ![c] = @ + 1]
      BY <1>12 DEF ApplyFindingBypass
    <3>2. QED
      BY <2>1, <3>1, ConstantsAssumption DEF TypeOK, Revisions
  <2>7. QED
    BY <1>12, <2>2, <2>3, <2>4, <2>5, <2>6 DEF ApplyFindingBypass, TypeOK
<1>13. ASSUME NEW w \in Workers, NEW a \in Attempts, NEW r \in Revisions,
              ClaimStandingCheckSync(w, a, r)
       PROVE  TypeOK'
  <2>1. syncStatus' \in [Attempts -> [Revisions -> SyncStatus \cup {NoRow}]]
    <3>1. \E s \in SyncStatus : syncStatus' = [syncStatus EXCEPT ![a][r] = s]
      BY <1>13 DEF ClaimStandingCheckSync, SyncStatus
    <3>2. QED
      BY <3>1, SyncStatusWrite
  <2>2. CASE Outdated(a, r)
    BY <1>13, <2>1, <2>2 DEF ClaimStandingCheckSync, TypeOK
  <2>3. CASE ~Outdated(a, r)
    <3>1. /\ syncClaims[a][r] < MaxSyncClaims
          /\ syncClaims' = [syncClaims EXCEPT ![a][r] = @ + 1]
          /\ syncing' = [syncing EXCEPT ![w] = <<a, r, syncClaims[a][r] + 1>>]
          /\ verified' = [verified EXCEPT ![w] = FALSE]
      BY <1>13, <2>3 DEF ClaimStandingCheckSync
    <3>2. syncClaims[a][r] + 1 \in 1..MaxSyncClaims
      BY <3>1, ConstantsAssumption DEF TypeOK
    <3>3. syncing' \in [Workers -> Intents \cup {NoIntent}]
      BY <3>1, <3>2 DEF TypeOK, Intents
    <3>4. syncClaims' \in [Attempts -> [Revisions -> 0..MaxSyncClaims]]
      BY <3>1, <3>2, ConstantsAssumption, SyncClaimsWrite
    <3>5. verified' \in [Workers -> BOOLEAN]
      BY <3>1 DEF TypeOK
    <3>6. QED
      BY <1>13, <2>1, <3>3, <3>4, <3>5 DEF ClaimStandingCheckSync, TypeOK
  <2>4. QED
    BY <2>2, <2>3
<1>14. ASSUME NEW w \in Workers, VerifyStandingCheckSync(w)
       PROVE  TypeOK'
  <2>1. syncing[w][1] \in Attempts /\ syncing[w][2] \in Revisions
    BY <1>14 DEF VerifyStandingCheckSync, TypeOK, Intents
  <2>2. syncStatus' \in [Attempts -> [Revisions -> SyncStatus \cup {NoRow}]]
    <3>1. \/ syncStatus' = syncStatus
          \/ syncStatus' = [syncStatus EXCEPT ![syncing[w][1]][syncing[w][2]] = "superseded"]
      BY <1>14 DEF VerifyStandingCheckSync
    <3>2. "superseded" \in SyncStatus
      BY DEF SyncStatus
    <3>3. syncStatus \in [Attempts -> [Revisions -> SyncStatus \cup {NoRow}]]
      BY DEF TypeOK
    <3>4. QED
      BY <2>1, <3>1, <3>2, <3>3, SyncStatusWrite
  <2>3. syncing' \in [Workers -> Intents \cup {NoIntent}] /\ verified' \in [Workers -> BOOLEAN]
    BY <1>14 DEF VerifyStandingCheckSync, TypeOK
  <2>4. QED
    BY <1>14, <2>2, <2>3 DEF VerifyStandingCheckSync, TypeOK
<1>15. ASSUME NEW w \in Workers, NEW s \in {"published", "queued", "failed"},
              MarkStandingCheckSync(w, s)
       PROVE  TypeOK'
  <2>1. syncing[w][1] \in Attempts /\ syncing[w][2] \in Revisions
    BY <1>15 DEF MarkStandingCheckSync, TypeOK, Intents
  <2>2. syncStatus' \in [Attempts -> [Revisions -> SyncStatus \cup {NoRow}]]
    BY <1>15, <2>1, SyncStatusWrite DEF MarkStandingCheckSync, SyncStatus
  <2>3. QED
    BY <1>15, <2>2 DEF MarkStandingCheckSync, TypeOK
<1>16. CASE UNCHANGED vars
  BY <1>16 DEF vars, TypeOK
<1>17. QED
  BY <1>1, <1>2, <1>3, <1>4, <1>5, <1>6, <1>7, <1>8, <1>9, <1>10, <1>11, <1>12, <1>13,
     <1>14, <1>15, <1>16
  DEF Next, Start, Claim, Retryable, Crash, Recover, RecordIdentity, SaveResult, Publish,
      Audit, Finalize, Invalidate, Bypass, ClaimSync, VerifySync, MarkSync

\* Every column always holds a value of its type: no transaction of state.py
\* writes a status of another table's enumeration or a key that is not one.
THEOREM TypeCorrect == Spec => []TypeOK
  BY TypeOKInit, TypeOKNext, PTL DEF Spec

-----------------------------------------------------------------------------
(* Which transactions write a column.                                      *)

\* Which transactions can write which columns: what every other one leaves
\* alone.
LEMMA Writers ==
  ASSUME [Next]_vars
  PROVE  /\ Start \/ UNCHANGED <<requestKey, authority, attemptCR, attemptKey, delivered>>
         /\ Start \/ Publish \/ Invalidate \/ Bypass \/ UNCHANGED <<standing, gate, revision>>
         /\ Start \/ Claim \/ Publish \/ Audit \/ UNCHANGED attemptStatus
         /\ RecordIdentity \/ UNCHANGED identity
         /\ \/ Start \/ Claim \/ Retryable \/ Recover \/ Publish \/ Audit \/ Finalize
            \/ UNCHANGED jobStatus
         /\ Claim \/ Retryable \/ Crash \/ SaveResult \/ UNCHANGED executing
         /\ Crash \/ ClaimSync \/ VerifySync \/ MarkSync \/ UNCHANGED syncing
         /\ Start \/ Publish \/ UNCHANGED decisionStanding
         /\ Publish \/ Bypass \/ UNCHANGED decisionGate
         /\ Start \/ Invalidate \/ Bypass \/ UNCHANGED bypass
         /\ \/ Start \/ Invalidate \/ Bypass \/ ClaimSync \/ VerifySync \/ MarkSync
            \/ UNCHANGED syncStatus
         /\ SaveResult \/ UNCHANGED reportVars
<1> USE DEF crVars, attemptVars, jobVars, executionVars, deliveryVars, workerVars, decisionVars,
            syncVars, reportVars
<1>1. CASE Start
  <2>1. UNCHANGED <<identity, executing, syncing, decisionGate, reportVars>>
    BY <1>1 DEF Start, StartAuthoritativeAttempt, StandingAfterStart
  <2>2. QED
    BY <1>1, <2>1
<1>2. CASE Claim
  BY <1>2 DEF Claim, ClaimAttemptJob
<1>3. CASE Retryable
  BY <1>3 DEF Retryable, MarkJobRetryable
<1>4. CASE Crash
  BY <1>4 DEF Crash, CrashWorker
<1>5. CASE Recover
  BY <1>5 DEF Recover, RecoverInterruptedJobs
<1>6. CASE RecordIdentity
  BY <1>6 DEF RecordIdentity, RecordReviewIdentity
<1>7. CASE SaveResult
  BY <1>7 DEF SaveResult, SaveReviewResult
<1>8. CASE Publish
  BY <1>8 DEF Publish, PublishIfAuthoritative
<1>9. CASE Audit
  BY <1>9 DEF Audit, PublishAuditOnly
<1>10. CASE Finalize
  BY <1>10 DEF Finalize, FinalizeAttemptJob
<1>11. CASE Invalidate
  BY <1>11 DEF Invalidate, InvalidateStandingDecision
<1>12. CASE Bypass
  BY <1>12 DEF Bypass, ApplyFindingBypass
<1>13. CASE ClaimSync
  BY <1>13 DEF ClaimSync, ClaimStandingCheckSync
<1>14. CASE VerifySync
  BY <1>14 DEF VerifySync, VerifyStandingCheckSync
<1>15. CASE MarkSync
  BY <1>15 DEF MarkSync, MarkStandingCheckSync
<1>16. CASE UNCHANGED vars
  BY <1>16 DEF vars
<1>17. QED
  BY <1>1, <1>2, <1>3, <1>4, <1>5, <1>6, <1>7, <1>8, <1>9, <1>10, <1>11, <1>12, <1>13,
     <1>14, <1>15, <1>16
  DEF Next

-----------------------------------------------------------------------------
(* The inductive invariant holds initially.                                *)

\* The inductive invariant holds of an empty store.
LEMMA IndInvInit == Init => IndInv
<1> SUFFICES ASSUME Init PROVE IndInv
  OBVIOUS
<1>1. /\ RowsExist
      /\ DeliveredIntentsExist
      /\ AuthorityIsOfTheRequest
      /\ DecidedJobsAreOver
      /\ BypassesAreOfBlockedReports
      /\ IntentsAreOfPastRevisions
  BY DEF Init, RowsExist, DeliveredIntentsExist, AuthorityIsOfTheRequest, DecidedJobsAreOver,
         BypassesAreOfBlockedReports, IntentsAreOfPastRevisions, NoIntent, NoRow, NoneGate
<1>2. ReportsBackDecisions
  BY DEF Init, ReportsBackDecisions, NoneGate
<1>3. /\ StandingIsAuthoritative
      /\ OneStandingDecision
      /\ LostAuthorityIsFinal
      /\ GateIsReportPlusAcceptedRisks
      /\ LatestRevisionIsDueToTheCheck
      /\ RunningIsUndecided
  BY DEF Init, StandingIsAuthoritative, OneStandingDecision, LostAuthorityIsFinal,
         GateIsReportPlusAcceptedRisks, LatestRevisionIsDueToTheCheck, RunningIsUndecided,
         NoRow, NoneGate
<1>4. BypassBindsToStandingDecision /\ PublishedIsNotExecutedAgain
  BY DEF Init, BypassBindsToStandingDecision, PublishedIsNotExecutedAgain, NoRow
<1>5. QED
  BY <1>1, <1>2, <1>3, <1>4 DEF IndInv

-----------------------------------------------------------------------------
(* Every transaction preserves each part of the inductive invariant.       *)

\* No transaction writes a row of an Attempt that was never started.
LEMMA RowsExistNext ==
  ASSUME TypeOK, RowsExist, DeliveredIntentsExist, AuthorityIsOfTheRequest, [Next]_vars
  PROVE  RowsExist'
<1> USE DEF crVars, attemptVars, jobVars, executionVars, deliveryVars, workerVars, decisionVars,
            syncVars, reportVars
<1>1. ASSUME NEW c \in ChangeRequests, NEW a \in Attempts, NEW k \in Keys,
             NEW expected \in Attempts \cup {None}, NEW d \in Deliveries \cup {None},
             StartAuthoritativeAttempt(c, a, k, expected, d)
      PROVE  RowsExist'
  <2>1. /\ attemptStatus'[a] = "queued"
        /\ attemptCR'[a] = c
        /\ attemptStatus[a] = NoRow
        /\ UNCHANGED <<identity, decisionGate, reportGate, executing>>
    BY <1>1 DEF StartAuthoritativeAttempt, StandingAfterStart, TypeOK
  <2>2. authority[c] # None => attemptStatus[authority[c]] # NoRow
    BY ConstantsAssumption DEF RowsExist, AuthorityIsOfTheRequest, TypeOK
  <2>3. ASSUME NEW b \in Attempts, b # a
        PROVE  /\ attemptStatus'[b] = NoRow <=> attemptStatus[b] = NoRow
               /\ attemptCR'[b] = attemptCR[b]
    <3>1. /\ attemptCR' = [attemptCR EXCEPT ![a] = c]
          /\ \/ attemptStatus'[b] = attemptStatus[b]
             \/ b = authority[c] /\ attemptStatus'[b] = "superseded"
      BY <1>1, <2>3 DEF StartAuthoritativeAttempt, StandingAfterStart
    <3>2. attemptCR'[b] = attemptCR[b]
      BY <2>3, <3>1 DEF TypeOK
    <3>3. b = authority[c] => attemptStatus[b] # NoRow
      BY <2>2, ConstantsAssumption
    <3>4. QED
      BY <3>1, <3>2, <3>3 DEF NoRow
  <2>4. ASSUME NEW b \in Attempts, b # a, attemptStatus[b] = NoRow
        PROVE  /\ jobStatus'[b] = NoRow
               /\ ~decisionStanding'[b]
               /\ \A f \in Findings : bypass'[b][f] = NoRow
               /\ \A r \in Revisions : syncStatus'[b][r] = NoRow
    BY <1>1, <2>4 DEF StartAuthoritativeAttempt, StandingAfterStart, RowsExist, NoStandingDecision,
      InvalidatedBypasses, SupersededIntents, NoRow, LiveSync
  <2>5. ASSUME NEW w \in Workers, executing[w] # None
        PROVE  attemptStatus'[executing[w]] # NoRow
    BY <2>1, <2>3, <2>5 DEF RowsExist, TypeOK, NoRow
  <2>6. ASSUME NEW b \in Attempts, attemptStatus'[b] = NoRow
        PROVE  b # a /\ attemptStatus[b] = NoRow
    BY <2>1, <2>3, <2>6 DEF NoRow
  <2>7. ASSUME NEW b \in Attempts, attemptStatus'[b] # NoRow
        PROVE  attemptCR'[b] \in ChangeRequests
    BY <2>1, <2>3, <2>7 DEF RowsExist
  <2>8. QED
    BY <2>1, <2>3, <2>4, <2>5, <2>6, <2>7 DEF RowsExist
<1>2. ASSUME NEW w \in Workers, NEW a \in Attempts, ClaimAttemptJob(w, a)
      PROVE  RowsExist'
  BY <1>2, ClaimedStatusType, ConstantsAssumption DEF ClaimAttemptJob, RowsExist, TypeOK, NoRow
<1>3. ASSUME NEW w \in Workers, MarkJobRetryable(w)
      PROVE  RowsExist'
  BY <1>3, ConstantsAssumption DEF MarkJobRetryable, RowsExist, TypeOK, NoRow
<1>4. ASSUME NEW w \in Workers, CrashWorker(w)
      PROVE  RowsExist'
  BY <1>4 DEF CrashWorker, RowsExist, TypeOK
<1>5. ASSUME NEW w \in Workers, NEW expired \in SUBSET Attempts, RecoverInterruptedJobs(w, expired)
      PROVE  RowsExist'
  BY <1>5 DEF RecoverInterruptedJobs, RowsExist, TypeOK, NoRow
<1>6. ASSUME NEW w \in Workers, NEW i \in Identities, RecordReviewIdentity(w, i)
      PROVE  RowsExist'
  BY <1>6 DEF RecordReviewIdentity, RowsExist, TypeOK
<1>7. ASSUME NEW w \in Workers, NEW g \in ReportGates, NEW blocking \in SUBSET Findings,
             SaveReviewResult(w, g, blocking)
      PROVE  RowsExist'
  BY <1>7 DEF SaveReviewResult, RowsExist, TypeOK
<1>8. ASSUME NEW w \in Workers, NEW a \in Attempts, PublishIfAuthoritative(w, a)
      PROVE  RowsExist'
  BY <1>8 DEF PublishIfAuthoritative, RowsExist, TypeOK, NoStandingDecision, CompletedJob, NoRow
<1>9. ASSUME NEW w \in Workers, NEW a \in Attempts, PublishAuditOnly(w, a)
      PROVE  RowsExist'
  BY <1>9 DEF PublishAuditOnly, RowsExist, TypeOK, CompletedJob, NoRow
<1>10. ASSUME NEW w \in Workers, NEW a \in Attempts, FinalizeAttemptJob(w, a)
       PROVE  RowsExist'
  BY <1>10 DEF FinalizeAttemptJob, RowsExist, TypeOK
<1>11. ASSUME NEW c \in ChangeRequests, InvalidateStandingDecision(c)
       PROVE  RowsExist'
  BY <1>11 DEF InvalidateStandingDecision, RowsExist, TypeOK, InvalidatedBypasses, SupersededIntents, NoRow, LiveSync
<1>12. ASSUME NEW c \in ChangeRequests, NEW a \in Attempts, NEW f \in Findings,
              ApplyFindingBypass(c, a, f)
       PROVE  RowsExist'
  BY <1>12 DEF ApplyFindingBypass, RowsExist, TypeOK, EnqueuedIntent, SupersededIntents, NoRow, LiveSync
<1>13. ASSUME NEW w \in Workers, NEW a \in Attempts, NEW r \in Revisions,
              ClaimStandingCheckSync(w, a, r)
       PROVE  RowsExist'
  <2>1. \E s \in SyncStatus : syncStatus' = [syncStatus EXCEPT ![a][r] = s]
    BY <1>13 DEF ClaimStandingCheckSync, SyncStatus
  <2>2. attemptStatus[a] # NoRow
    BY <1>13 DEF ClaimStandingCheckSync, RowsExist, LiveSync, NoRow
  <2>3. QED
    BY <1>13, <2>1, <2>2 DEF ClaimStandingCheckSync, RowsExist, TypeOK
<1>14. ASSUME NEW w \in Workers, VerifyStandingCheckSync(w)
       PROVE  RowsExist'
  <2> DEFINE a == syncing[w][1]
             r == syncing[w][2]
  <2>1. a \in Attempts /\ r \in Revisions
    BY <1>14 DEF VerifyStandingCheckSync, TypeOK, Intents
  <2>2. attemptStatus[a] # NoRow
    BY <1>14, <2>1 DEF VerifyStandingCheckSync, RowsExist, DeliveredIntentsExist
  <2>3. syncStatus' = syncStatus \/ syncStatus' = [syncStatus EXCEPT ![a][r] = "superseded"]
    BY <1>14 DEF VerifyStandingCheckSync
  <2>4. QED
    BY <1>14, <2>1, <2>2, <2>3 DEF VerifyStandingCheckSync, RowsExist, TypeOK
<1>15. ASSUME NEW w \in Workers, NEW s \in {"published", "queued", "failed"},
              MarkStandingCheckSync(w, s)
       PROVE  RowsExist'
  <2> DEFINE a == syncing[w][1]
             r == syncing[w][2]
  <2>1. a \in Attempts /\ r \in Revisions
    BY <1>15 DEF MarkStandingCheckSync, TypeOK, Intents
  <2>2. attemptStatus[a] # NoRow
    BY <1>15, <2>1 DEF MarkStandingCheckSync, RowsExist, DeliveredIntentsExist
  <2>3. QED
    BY <1>15, <2>1, <2>2 DEF MarkStandingCheckSync, RowsExist, TypeOK
<1>16. CASE UNCHANGED vars
  BY <1>16 DEF vars, RowsExist
<1>17. QED
  BY <1>1, <1>2, <1>3, <1>4, <1>5, <1>6, <1>7, <1>8, <1>9, <1>10, <1>11, <1>12, <1>13,
     <1>14, <1>15, <1>16
  DEF Next, Start, Claim, Retryable, Crash, Recover, RecordIdentity, SaveResult, Publish,
      Audit, Finalize, Invalidate, Bypass, ClaimSync, VerifySync, MarkSync

\* A row of standing_check_outbox is never deleted.
LEMMA SyncRowsStay ==
  ASSUME TypeOK, [Next]_vars, NEW b \in Attempts, NEW q \in Revisions,
         syncStatus[b][q] # NoRow
  PROVE  syncStatus'[b][q] # NoRow
<1>1. CASE Start \/ Invalidate
  <2>1. \E x : syncStatus' = SupersededIntents(x)
    BY <1>1 DEF Start, StartAuthoritativeAttempt, StandingAfterStart, Invalidate, InvalidateStandingDecision
  <2>2. QED
    BY <2>1 DEF SupersededIntents, NoRow
<1> DEFINE Table == [Attempts -> [Revisions -> SyncStatus \cup {NoRow}]]
<1>2. syncStatus \in Table
  BY DEF TypeOK
<1>3. ASSUME NEW t \in Table, NEW a, NEW r, NEW s \in SyncStatus, t[b][q] # NoRow
      PROVE  [t EXCEPT ![a][r] = s][b][q] # NoRow
  BY <1>3 DEF SyncStatus, NoRow
<1>4. CASE Bypass
  <2>1. PICK c \in ChangeRequests, a \in Attempts, f \in Findings : ApplyFindingBypass(c, a, f)
    BY <1>4 DEF Bypass
  <2>2. syncStatus' = [SupersededIntents(a) EXCEPT ![a][revision[c] + 1] = "queued"]
    BY <2>1 DEF ApplyFindingBypass, EnqueuedIntent
  <2>3. SupersededIntents(a) \in Table /\ SupersededIntents(a)[b][q] # NoRow
    BY SupersededIntentsType DEF SupersededIntents, NoRow
  <2>4. QED
    BY <1>3, <2>2, <2>3 DEF SyncStatus
<1>5. CASE ClaimSync
  <2>1. PICK w \in Workers, a \in Attempts, r \in Revisions : ClaimStandingCheckSync(w, a, r)
    BY <1>5 DEF ClaimSync
  <2>2. \/ syncStatus' = [syncStatus EXCEPT ![a][r] = "superseded"]
        \/ syncStatus' = [syncStatus EXCEPT ![a][r] = "in_progress"]
    BY <2>1 DEF ClaimStandingCheckSync
  <2>3. /\ [syncStatus EXCEPT ![a][r] = "superseded"][b][q] # NoRow
        /\ [syncStatus EXCEPT ![a][r] = "in_progress"][b][q] # NoRow
    BY <1>2, <1>3 DEF SyncStatus
  <2>4. QED
    BY <2>2, <2>3
<1>6. CASE VerifySync
  <2>1. PICK w \in Workers : VerifyStandingCheckSync(w)
    BY <1>6 DEF VerifySync
  <2>2. \/ syncStatus' = syncStatus
        \/ syncStatus' = [syncStatus EXCEPT ![syncing[w][1]][syncing[w][2]] = "superseded"]
    BY <2>1 DEF VerifyStandingCheckSync
  <2>3. [syncStatus EXCEPT ![syncing[w][1]][syncing[w][2]] = "superseded"][b][q] # NoRow
    BY <1>2, <1>3 DEF SyncStatus
  <2>4. QED
    BY <2>2, <2>3
<1>7. CASE MarkSync
  <2>1. PICK w \in Workers, s \in {"published", "queued", "failed"} : MarkStandingCheckSync(w, s)
    BY <1>7 DEF MarkSync
  <2>2. syncStatus' = [syncStatus EXCEPT ![syncing[w][1]][syncing[w][2]] = s]
    BY <2>1 DEF MarkStandingCheckSync
  <2>3. QED
    BY <1>2, <1>3, <2>2 DEF SyncStatus
<1>8. CASE UNCHANGED syncStatus
  BY <1>8
<1>9. QED
  BY <1>1, <1>4, <1>5, <1>6, <1>7, <1>8, Writers

\* What a worker delivers keeps its intent row.
LEMMA DeliveredIntentsExistNext ==
  ASSUME TypeOK, DeliveredIntentsExist, [Next]_vars
  PROVE  DeliveredIntentsExist'
<1> SUFFICES ASSUME NEW w \in Workers, syncing'[w] # NoIntent
             PROVE  syncStatus'[syncing'[w][1]][syncing'[w][2]] # NoRow
  BY DEF DeliveredIntentsExist
<1>1. CASE syncing'[w] = syncing[w]
  <2>1. syncing[w][1] \in Attempts /\ syncing[w][2] \in Revisions
    BY <1>1 DEF TypeOK, Intents
  <2>2. QED
    BY <1>1, <2>1, SyncRowsStay DEF DeliveredIntentsExist
<1>2. CASE syncing'[w] # syncing[w]
  <2>1. PICK v \in Workers, a \in Attempts, r \in Revisions : ClaimStandingCheckSync(v, a, r)
    <3>1. ~UNCHANGED syncing
      BY <1>2
    <3>2. ~Crash
      BY <1>2 DEF Crash, CrashWorker, TypeOK
    <3>3. ~VerifySync
      BY <1>2 DEF VerifySync, VerifyStandingCheckSync, TypeOK
    <3>4. ~MarkSync
      BY <1>2 DEF MarkSync, MarkStandingCheckSync, TypeOK
    <3>5. QED
      BY <3>1, <3>2, <3>3, <3>4, Writers DEF ClaimSync
  <2>2. syncing'[w] = <<a, r, syncClaims[a][r] + 1>>
    BY <1>2, <2>1 DEF ClaimStandingCheckSync, TypeOK, deliveryVars
  <2>3. syncStatus[a][r] # NoRow
    BY <2>1 DEF ClaimStandingCheckSync, LiveSync, NoRow
  <2>4. QED
    BY <2>2, <2>3, SyncRowsStay
<1>3. QED
  BY <1>1, <1>2

\* Only a start moves authority, together with the request key.
LEMMA AuthorityIsOfTheRequestNext ==
  ASSUME TypeOK, RowsExist, AuthorityIsOfTheRequest, [Next]_vars
  PROVE  AuthorityIsOfTheRequest'
<1>1. ASSUME NEW c \in ChangeRequests, NEW a \in Attempts, NEW k \in Keys,
             NEW expected \in Attempts \cup {None}, NEW d \in Deliveries \cup {None},
             StartAuthoritativeAttempt(c, a, k, expected, d)
      PROVE  AuthorityIsOfTheRequest'
  <2>1. attemptCR[a] = None
    BY <1>1 DEF StartAuthoritativeAttempt, StandingAfterStart, RowsExist
  <2>2. QED
    BY <1>1, <2>1, ConstantsAssumption
    DEF StartAuthoritativeAttempt, StandingAfterStart, AuthorityIsOfTheRequest, TypeOK
<1>2. CASE UNCHANGED <<requestKey, authority, attemptCR, attemptKey, delivered>>
  BY <1>2 DEF AuthorityIsOfTheRequest
<1>3. QED
  BY <1>1, <1>2, Writers DEF Start

\* A decision is only written from a saved report.
LEMMA ReportsBackDecisionsNext ==
  ASSUME TypeOK, RowsExist, ReportsBackDecisions, [Next]_vars
  PROVE  ReportsBackDecisions'
<1>1. CASE Start
  BY <1>1, ConstantsAssumption
  DEF Start, StartAuthoritativeAttempt, StandingAfterStart, ReportsBackDecisions, TypeOK, reportVars
<1>2. ASSUME NEW w \in Workers, NEW a \in Attempts, PublishIfAuthoritative(w, a)
      PROVE  ReportsBackDecisions'
  BY <1>2, ConstantsAssumption
  DEF PublishIfAuthoritative, ReportsBackDecisions, RowsExist, TypeOK, reportVars
<1>3. CASE Invalidate
  BY <1>3 DEF Invalidate, InvalidateStandingDecision, ReportsBackDecisions, TypeOK, reportVars
<1>4. ASSUME NEW c \in ChangeRequests, NEW a \in Attempts, NEW f \in Findings,
              ApplyFindingBypass(c, a, f)
      PROVE  ReportsBackDecisions'
  BY <1>4 DEF ApplyFindingBypass, ReportsBackDecisions, TypeOK, reportVars, NoneGate
<1>5. ASSUME NEW w \in Workers, NEW g \in ReportGates, NEW blocking \in SUBSET Findings,
             SaveReviewResult(w, g, blocking)
      PROVE  ReportsBackDecisions'
  <2> DEFINE a == executing[w]
  <2>1. /\ reportGate' = [reportGate EXCEPT ![a] = g]
        /\ reportBlocking' = [reportBlocking EXCEPT ![a] = blocking]
        /\ blocking # {} <=> g = "Blocked"
        /\ reportGate[a] = NoneGate
        /\ UNCHANGED <<standing, gate>>
    BY <1>5 DEF SaveReviewResult, crVars
  <2>2. g # NoneGate
    BY DEF ReportGates, NoneGate
  <2>3. QED
    BY <2>1, <2>2 DEF ReportsBackDecisions, TypeOK
<1>6. CASE UNCHANGED <<standing, gate, revision>> /\ UNCHANGED reportVars
  BY <1>6 DEF ReportsBackDecisions, reportVars
<1>7. QED
  BY <1>1, <1>2, <1>3, <1>4, <1>5, <1>6, Writers DEF Publish, Bypass, SaveResult

\* A decision is written together with the end of its job.
LEMMA DecidedJobsAreOverNext ==
  ASSUME TypeOK, RowsExist, StandingIsAuthoritative, DecidedJobsAreOver, [Next]_vars
  PROVE  DecidedJobsAreOver'
<1>1. ASSUME NEW c \in ChangeRequests, NEW a \in Attempts, NEW k \in Keys,
             NEW expected \in Attempts \cup {None}, NEW d \in Deliveries \cup {None},
             StartAuthoritativeAttempt(c, a, k, expected, d)
      PROVE  DecidedJobsAreOver'
  <2>1. decisionGate[a] = NoneGate /\ UNCHANGED decisionGate
    BY <1>1 DEF StartAuthoritativeAttempt, StandingAfterStart, RowsExist
  <2>2. \A b \in Attempts : b = a \/ jobStatus'[b] = jobStatus[b] \/ jobStatus'[b] = "superseded"
    BY <1>1 DEF StartAuthoritativeAttempt, StandingAfterStart
  <2>3. QED
    BY <2>1, <2>2 DEF DecidedJobsAreOver, TerminalJob
<1>2. CASE Claim
  BY <1>2 DEF Claim, ClaimAttemptJob, DecidedJobsAreOver, TerminalJob, decisionVars, TypeOK
<1>3. CASE Retryable
  BY <1>3 DEF Retryable, MarkJobRetryable, DecidedJobsAreOver, TerminalJob, decisionVars, TypeOK
<1>4. CASE Recover
  BY <1>4 DEF Recover, RecoverInterruptedJobs, DecidedJobsAreOver, TerminalJob, decisionVars
<1>5. CASE Publish
  BY <1>5 DEF Publish, PublishIfAuthoritative, DecidedJobsAreOver, CompletedJob, TerminalJob, TypeOK
<1>6. CASE Audit
  BY <1>6 DEF Audit, PublishAuditOnly, DecidedJobsAreOver, CompletedJob, TerminalJob, decisionVars,
    TypeOK
<1>7. CASE Finalize
  BY <1>7 DEF Finalize, FinalizeAttemptJob, DecidedJobsAreOver, TerminalJob, decisionVars, TypeOK
<1>8. ASSUME NEW c \in ChangeRequests, NEW a \in Attempts, NEW f \in Findings,
             ApplyFindingBypass(c, a, f)
      PROVE  DecidedJobsAreOver'
  <2>1. decisionGate[a] # NoneGate
    BY <1>8, ConstantsAssumption DEF ApplyFindingBypass, StandingIsAuthoritative, NoneGate
  <2>2. QED
    BY <1>8, <2>1 DEF ApplyFindingBypass, DecidedJobsAreOver, TypeOK, jobVars
<1>9. CASE UNCHANGED jobStatus /\ UNCHANGED decisionGate
  BY <1>9 DEF DecidedJobsAreOver
<1>10. QED
  BY <1>1, <1>2, <1>3, <1>4, <1>5, <1>6, <1>7, <1>8, <1>9, Writers DEF Start, Bypass

\* A bypass is only granted on a Blocked report with an Identity, and neither
\* is rewritten afterwards.
LEMMA BypassesAreOfBlockedReportsNext ==
  ASSUME TypeOK, BypassesAreOfBlockedReports, [Next]_vars
  PROVE  BypassesAreOfBlockedReports'
<1>1. CASE Start \/ Invalidate
  <2>1. /\ \E c : bypass' = InvalidatedBypasses(c)
        /\ UNCHANGED <<identity, reportGate>>
    BY <1>1 DEF Start, StartAuthoritativeAttempt, StandingAfterStart, Invalidate, InvalidateStandingDecision, reportVars,
      attemptVars
  <2>2. QED
    BY <2>1 DEF BypassesAreOfBlockedReports, InvalidatedBypasses
<1>2. ASSUME NEW c \in ChangeRequests, NEW a \in Attempts, NEW f \in Findings,
             ApplyFindingBypass(c, a, f)
      PROVE  BypassesAreOfBlockedReports'
  <2>1. /\ reportGate[a] = "Blocked" /\ identity[a] # None
        /\ bypass' = [bypass EXCEPT ![a][f] = "active"]
        /\ UNCHANGED <<identity, reportGate>>
    BY <1>2 DEF ApplyFindingBypass, reportVars, attemptVars
  <2>2. QED
    BY <2>1 DEF BypassesAreOfBlockedReports, TypeOK
<1>3. CASE RecordIdentity
  BY <1>3, ConstantsAssumption
  DEF RecordIdentity, RecordReviewIdentity, BypassesAreOfBlockedReports, TypeOK, reportVars
<1>4. CASE SaveResult
  <2>1. PICK w \in Workers, g \in ReportGates, blocking \in SUBSET Findings :
          SaveReviewResult(w, g, blocking)
    BY <1>4 DEF SaveResult
  <2>2. /\ reportGate[executing[w]] = NoneGate
        /\ reportGate' = [reportGate EXCEPT ![executing[w]] = g]
        /\ UNCHANGED <<identity, bypass>>
    BY <2>1 DEF SaveReviewResult, attemptVars
  <2>3. QED
    BY <2>2 DEF BypassesAreOfBlockedReports, TypeOK, NoneGate
<1>5. CASE UNCHANGED <<bypass, identity>> /\ UNCHANGED reportVars
  BY <1>5 DEF BypassesAreOfBlockedReports, reportVars
<1>6. QED
  BY <1>1, <1>2, <1>3, <1>4, <1>5, Writers DEF Bypass

\* Revisions never go back, and an Attempt with a row stays with its change
\* request.
LEMMA RevisionsGrow ==
  ASSUME TypeOK, RowsExist, [Next]_vars
  PROVE  /\ \A c \in ChangeRequests : revision'[c] \in {revision[c], revision[c] + 1}
         /\ \A a \in Attempts : attemptStatus[a] # NoRow => attemptCR'[a] = attemptCR[a]
<1>1. \A c \in ChangeRequests : revision'[c] \in {revision[c], revision[c] + 1}
  <2>1. CASE Start
    BY <2>1 DEF Start, StartAuthoritativeAttempt, StandingAfterStart, RevisionAfterStart, TypeOK
  <2>2. CASE Publish
    BY <2>2 DEF Publish, PublishIfAuthoritative, TypeOK
  <2>3. CASE Invalidate
    BY <2>3 DEF Invalidate, InvalidateStandingDecision, TypeOK
  <2>4. CASE Bypass
    <3>1. PICK c \in ChangeRequests, a \in Attempts, f \in Findings : ApplyFindingBypass(c, a, f)
      BY <2>4 DEF Bypass
    <3>2. revision' = [revision EXCEPT ![c] = @ + 1]
      BY <3>1 DEF ApplyFindingBypass
    <3>3. QED
      BY <3>2 DEF TypeOK
  <2>5. QED
    BY <2>1, <2>2, <2>3, <2>4, Writers
<1>2. \A a \in Attempts : attemptStatus[a] # NoRow => attemptCR'[a] = attemptCR[a]
  <2>1. CASE Start
    BY <2>1 DEF Start, StartAuthoritativeAttempt, StandingAfterStart, TypeOK
  <2>2. QED
    BY <2>1, Writers
<1>3. QED
  BY <1>1, <1>2

\* An intent is enqueued at the revision its bypass creates, and revisions
\* never go back.
LEMMA IntentsAreOfPastRevisionsNext ==
  ASSUME TypeOK, RowsExist, DeliveredIntentsExist, AuthorityIsOfTheRequest,
         IntentsAreOfPastRevisions, [Next]_vars
  PROVE  IntentsAreOfPastRevisions'
<1> SUFFICES ASSUME NEW b \in Attempts, NEW q \in Revisions, syncStatus'[b][q] # NoRow
             PROVE  q <= revision'[attemptCR'[b]]
  BY DEF IntentsAreOfPastRevisions
<1>1. CASE syncStatus[b][q] # NoRow
  <2>1. /\ attemptStatus[b] # NoRow
        /\ attemptCR[b] \in ChangeRequests
    BY <1>1 DEF RowsExist
  <2>2. /\ attemptCR'[b] = attemptCR[b]
        /\ revision'[attemptCR[b]] \in {revision[attemptCR[b]], revision[attemptCR[b]] + 1}
    BY <2>1, RevisionsGrow
  <2>3. q \in Nat /\ revision[attemptCR[b]] \in Nat
    BY <2>1, ConstantsAssumption DEF TypeOK, Revisions
  <2>4. q <= revision[attemptCR[b]]
    BY <1>1 DEF IntentsAreOfPastRevisions
  <2>5. QED
    BY <2>2, <2>3, <2>4
<1>2. CASE syncStatus[b][q] = NoRow
  <2>1. PICK c \in ChangeRequests, a \in Attempts, f \in Findings : ApplyFindingBypass(c, a, f)
    <3>1. \A x : SupersededIntents(x)[b][q] = NoRow
      BY <1>2 DEF SupersededIntents, LiveSync, NoRow
    <3>2. ~Start
      BY <3>1 DEF Start, StartAuthoritativeAttempt, StandingAfterStart
    <3>3. ~Invalidate
      BY <3>1 DEF Invalidate, InvalidateStandingDecision
    <3>4. \A a \in Attempts, r \in Revisions, s \in SyncStatus :
            syncStatus[a][r] # NoRow => [syncStatus EXCEPT ![a][r] = s][b][q] = NoRow
      BY <1>2 DEF TypeOK
    <3>5. ~ClaimSync
      <4>1. SUFFICES ASSUME NEW w \in Workers, NEW a \in Attempts, NEW r \in Revisions,
                            ClaimStandingCheckSync(w, a, r)
                     PROVE  FALSE
        BY DEF ClaimSync
      <4>2. /\ syncStatus[a][r] # NoRow
            /\ \E s \in SyncStatus : syncStatus' = [syncStatus EXCEPT ![a][r] = s]
        BY <4>1 DEF ClaimStandingCheckSync, LiveSync, NoRow, SyncStatus
      <4>3. QED
        BY <3>4, <4>2
    <3>6. ~VerifySync
      <4>1. SUFFICES ASSUME NEW w \in Workers, VerifyStandingCheckSync(w)
                     PROVE  FALSE
        BY DEF VerifySync
      <4>2. /\ syncing[w] # NoIntent
            /\ \/ syncStatus' = syncStatus
               \/ syncStatus' = [syncStatus EXCEPT ![syncing[w][1]][syncing[w][2]] = "superseded"]
        BY <4>1 DEF VerifyStandingCheckSync
      <4>3. /\ syncing[w][1] \in Attempts /\ syncing[w][2] \in Revisions
            /\ syncStatus[syncing[w][1]][syncing[w][2]] # NoRow
        BY <4>2 DEF DeliveredIntentsExist, TypeOK, Intents
      <4>4. "superseded" \in SyncStatus
        BY DEF SyncStatus
      <4>5. [syncStatus EXCEPT ![syncing[w][1]][syncing[w][2]] = "superseded"][b][q] = NoRow
        BY <3>4, <4>3, <4>4
      <4>6. QED
        BY <1>2, <4>2, <4>5
    <3>7. ~MarkSync
      <4>1. SUFFICES ASSUME NEW w \in Workers, NEW s \in {"published", "queued", "failed"},
                            MarkStandingCheckSync(w, s)
                     PROVE  FALSE
        BY DEF MarkSync
      <4>2. /\ syncing[w] # NoIntent
            /\ syncStatus' = [syncStatus EXCEPT ![syncing[w][1]][syncing[w][2]] = s]
        BY <4>1 DEF MarkStandingCheckSync
      <4>3. /\ syncing[w][1] \in Attempts /\ syncing[w][2] \in Revisions
            /\ syncStatus[syncing[w][1]][syncing[w][2]] # NoRow
        BY <4>2 DEF DeliveredIntentsExist, TypeOK, Intents
      <4>4. s \in SyncStatus
        BY DEF SyncStatus
      <4>5. QED
        BY <3>4, <4>2, <4>3, <4>4
    <3>8. ~UNCHANGED syncStatus
      BY <1>2
    <3>9. QED
      BY <3>2, <3>3, <3>5, <3>6, <3>7, <3>8, Writers DEF Bypass
  <2>2. /\ syncStatus' = [SupersededIntents(a) EXCEPT ![a][revision[c] + 1] = "queued"]
        /\ revision' = [revision EXCEPT ![c] = @ + 1]
        /\ UNCHANGED attemptCR
        /\ authority[c] = a
    BY <2>1 DEF ApplyFindingBypass, EnqueuedIntent, attemptVars
  <2>3. attemptCR[a] = c
    BY <2>2, ConstantsAssumption DEF AuthorityIsOfTheRequest
  <2>4. b = a /\ q = revision[c] + 1
    <3>1. SupersededIntents(a)[b][q] = NoRow
      BY <1>2 DEF SupersededIntents, LiveSync, NoRow
    <3>2. SupersededIntents(a) \in [Attempts -> [Revisions -> SyncStatus \cup {NoRow}]]
      BY SupersededIntentsType
    <3>3. QED
      BY <2>2, <3>1, <3>2
  <2>5. QED
    BY <2>2, <2>3, <2>4, ConstantsAssumption DEF TypeOK
<1>3. QED
  BY <1>1, <1>2

\* A start takes the standing decision away with the authority, and only the
\* Attempt in authority is given one.
LEMMA StandingIsAuthoritativeNext ==
  ASSUME TypeOK, RowsExist, AuthorityIsOfTheRequest, StandingIsAuthoritative, [Next]_vars
  PROVE  StandingIsAuthoritative'
<1>1. ASSUME NEW c \in ChangeRequests, NEW a \in Attempts, NEW k \in Keys,
             NEW expected \in Attempts \cup {None}, NEW d \in Deliveries \cup {None},
             StartAuthoritativeAttempt(c, a, k, expected, d)
      PROVE  StandingIsAuthoritative'
  <2> SUFFICES ASSUME NEW e \in ChangeRequests, standing'[e] # None
               PROVE  /\ authority'[e] = standing'[e]
                      /\ attemptKey'[standing'[e]] = requestKey'[e]
                      /\ decisionStanding'[standing'[e]]
                      /\ decisionGate'[standing'[e]] = gate'[e]
    BY DEF StandingIsAuthoritative
  <2>1. e # c
    BY <1>1 DEF StartAuthoritativeAttempt, StandingAfterStart, TypeOK
  <2>2. /\ standing'[e] = standing[e] /\ gate'[e] = gate[e] /\ authority'[e] = authority[e]
        /\ requestKey'[e] = requestKey[e]
        /\ UNCHANGED decisionGate
        /\ decisionStanding' = NoStandingDecision(c)
        /\ attemptKey' = [attemptKey EXCEPT ![a] = k]
        /\ attemptStatus[a] = NoRow
    BY <1>1, <2>1 DEF StartAuthoritativeAttempt, StandingAfterStart, TypeOK
  <2>3. /\ standing[e] \in Attempts
        /\ authority[e] = standing[e]
        /\ attemptCR[standing[e]] = e
        /\ standing[e] # a
    BY <2>2, ConstantsAssumption
    DEF StandingIsAuthoritative, AuthorityIsOfTheRequest, RowsExist, TypeOK
  <2>4. QED
    BY <2>1, <2>2, <2>3 DEF StandingIsAuthoritative, NoStandingDecision, TypeOK
<1>2. ASSUME NEW w \in Workers, NEW a \in Attempts, PublishIfAuthoritative(w, a)
      PROVE  StandingIsAuthoritative'
  <2> DEFINE c == attemptCR[a]
  <2> SUFFICES ASSUME NEW e \in ChangeRequests, standing'[e] # None
               PROVE  /\ authority'[e] = standing'[e]
                      /\ attemptKey'[standing'[e]] = requestKey'[e]
                      /\ decisionStanding'[standing'[e]]
                      /\ decisionGate'[standing'[e]] = gate'[e]
    BY DEF StandingIsAuthoritative
  <2>1. /\ authority[c] = a /\ requestKey[c] = attemptKey[a]
        /\ standing' = [standing EXCEPT ![c] = a]
        /\ gate' = [gate EXCEPT ![c] = reportGate[a]]
        /\ decisionStanding' = [NoStandingDecision(c) EXCEPT ![a] = TRUE]
        /\ decisionGate' = [decisionGate EXCEPT ![a] = reportGate[a]]
        /\ UNCHANGED <<authority, attemptKey, requestKey>>
    BY <1>2 DEF PublishIfAuthoritative, PublicationInputsMatch
  <2>2. NoStandingDecision(c) \in [Attempts -> BOOLEAN]
    BY NoStandingDecisionType
  <2>3. CASE e = c
    BY <2>1, <2>2, <2>3 DEF TypeOK
  <2>4. CASE e # c
    <3>1. /\ standing'[e] = standing[e] /\ gate'[e] = gate[e]
      BY <2>1, <2>4 DEF TypeOK
    <3>2. /\ standing[e] \in Attempts /\ attemptCR[standing[e]] = e /\ standing[e] # a
          /\ authority[e] = standing[e]
      BY <2>4, <3>1 DEF StandingIsAuthoritative, AuthorityIsOfTheRequest, TypeOK
    <3>3. decisionStanding'[standing[e]] /\ decisionGate'[standing[e]] = decisionGate[standing[e]]
      BY <2>1, <2>2, <2>4, <3>1, <3>2 DEF StandingIsAuthoritative, NoStandingDecision, TypeOK
    <3>4. QED
      BY <2>1, <3>1, <3>2, <3>3 DEF StandingIsAuthoritative
  <2>5. QED
    BY <2>3, <2>4
<1>3. CASE Invalidate
  BY <1>3
  DEF Invalidate, InvalidateStandingDecision, StandingIsAuthoritative, TypeOK, attemptVars, decisionVars
<1>4. ASSUME NEW c \in ChangeRequests, NEW a \in Attempts, NEW f \in Findings,
             ApplyFindingBypass(c, a, f)
      PROVE  StandingIsAuthoritative'
  <2> SUFFICES ASSUME NEW e \in ChangeRequests, standing'[e] # None
               PROVE  /\ authority'[e] = standing'[e]
                      /\ attemptKey'[standing'[e]] = requestKey'[e]
                      /\ decisionStanding'[standing'[e]]
                      /\ decisionGate'[standing'[e]] = gate'[e]
    BY DEF StandingIsAuthoritative
  <2>1. \/ /\ gate' = [gate EXCEPT ![c] = "Blocked"]
           /\ decisionGate' = [decisionGate EXCEPT ![a] = @]
        \/ /\ gate' = [gate EXCEPT ![c] = "Passed with bypass"]
           /\ decisionGate' =
                [decisionGate EXCEPT ![a] = IF decisionStanding[a] THEN "Passed with bypass" ELSE @]
    <3>1. CASE Remaining(a, f) = {}
      BY <1>4, <3>1 DEF ApplyFindingBypass
    <3>2. CASE Remaining(a, f) # {}
      BY <1>4, <3>2 DEF ApplyFindingBypass
    <3>3. QED
      BY <3>1, <3>2
  <2>2. /\ UNCHANGED <<requestKey, authority, standing, attemptKey, decisionStanding>>
        /\ standing[c] = a /\ gate[c] = "Blocked"
    BY <1>4 DEF ApplyFindingBypass, attemptVars
  <2>3. /\ authority[c] = a /\ attemptKey[a] = requestKey[c]
        /\ decisionStanding[a] /\ decisionGate[a] = "Blocked"
        /\ attemptCR[a] = c
    BY <2>2, ConstantsAssumption DEF StandingIsAuthoritative, AuthorityIsOfTheRequest
  <2>4. decisionGate'[a] = gate'[c]
    <3>1. DOMAIN gate = ChangeRequests /\ DOMAIN decisionGate = Attempts
      BY DEF TypeOK
    <3>2. QED
      BY <2>1, <2>3, <3>1
  <2>5. /\ gate'[e] = gate[e] \/ e = c
        /\ \A b \in Attempts : b = a \/ decisionGate'[b] = decisionGate[b]
    BY <2>1 DEF TypeOK
  <2>6. CASE e = c
    BY <2>2, <2>3, <2>4, <2>6
  <2>7. CASE e # c
    <3>1. standing[e] \in Attempts /\ attemptCR[standing[e]] = e /\ standing[e] # a
      BY <2>2, <2>3, <2>7 DEF StandingIsAuthoritative, AuthorityIsOfTheRequest, TypeOK
    <3>2. QED
      BY <2>2, <2>5, <2>7, <3>1 DEF StandingIsAuthoritative
  <2>8. QED
    BY <2>6, <2>7
<1>5. CASE UNCHANGED <<standing, gate, revision>>
           /\ UNCHANGED <<requestKey, authority, attemptCR, attemptKey, delivered>>
           /\ UNCHANGED decisionGate /\ UNCHANGED decisionStanding
  BY <1>5 DEF StandingIsAuthoritative
<1>6. QED
  BY <1>1, <1>2, <1>3, <1>4, <1>5, Writers DEF Start, Publish, Bypass

\* A start and a publication both clear the earlier standing marks.
LEMMA OneStandingDecisionNext ==
  ASSUME TypeOK, RowsExist, OneStandingDecision, [Next]_vars
  PROVE  OneStandingDecision'
<1>1. ASSUME NEW c \in ChangeRequests, NEW a \in Attempts, NEW k \in Keys,
             NEW expected \in Attempts \cup {None}, NEW d \in Deliveries \cup {None},
             StartAuthoritativeAttempt(c, a, k, expected, d)
      PROVE  OneStandingDecision'
  <2>1. /\ authority' = [authority EXCEPT ![c] = a]
        /\ attemptCR' = [attemptCR EXCEPT ![a] = c]
        /\ decisionStanding' = NoStandingDecision(c)
        /\ attemptStatus[a] = NoRow
    BY <1>1 DEF StartAuthoritativeAttempt, StandingAfterStart
  <2>2. ~decisionStanding[a]
    BY <2>1 DEF RowsExist
  <2>3. QED
    BY <2>1, <2>2 DEF OneStandingDecision, NoStandingDecision, TypeOK
<1>2. ASSUME NEW w \in Workers, NEW a \in Attempts, PublishIfAuthoritative(w, a)
      PROVE  OneStandingDecision'
  <2>1. /\ authority[attemptCR[a]] = a
        /\ decisionStanding' = [NoStandingDecision(attemptCR[a]) EXCEPT ![a] = TRUE]
        /\ UNCHANGED <<authority, attemptCR>>
    BY <1>2 DEF PublishIfAuthoritative, PublicationInputsMatch
  <2>2. QED
    BY <2>1 DEF OneStandingDecision, NoStandingDecision
<1>3. CASE UNCHANGED decisionStanding
           /\ UNCHANGED <<requestKey, authority, attemptCR, attemptKey, delivered>>
  BY <1>3 DEF OneStandingDecision
<1>4. QED
  BY <1>1, <1>2, <1>3, Writers DEF Start, Publish

\* A start supersedes the prior Attempt, and a claim checks authority.
LEMMA LostAuthorityIsFinalNext ==
  ASSUME TypeOK, RowsExist, LostAuthorityIsFinal, [Next]_vars
  PROVE  LostAuthorityIsFinal'
<1>1. ASSUME NEW c \in ChangeRequests, NEW a \in Attempts, NEW k \in Keys,
             NEW expected \in Attempts \cup {None}, NEW d \in Deliveries \cup {None},
             StartAuthoritativeAttempt(c, a, k, expected, d)
      PROVE  LostAuthorityIsFinal'
  <2>1. /\ authority' = [authority EXCEPT ![c] = a]
        /\ attemptCR' = [attemptCR EXCEPT ![a] = c]
    BY <1>1 DEF StartAuthoritativeAttempt, StandingAfterStart
  <2>2. ASSUME NEW b \in Attempts, b # a,
               attemptStatus'[b] \in {"queued", "running", "published"}
        PROVE  b # authority[c] /\ attemptStatus'[b] = attemptStatus[b]
    BY <1>1, <2>2 DEF StartAuthoritativeAttempt, StandingAfterStart
  <2>3. ASSUME NEW b \in Attempts, b # a,
               attemptStatus'[b] \in {"queued", "running", "published"}
        PROVE  authority'[attemptCR'[b]] = b
    <3>1. authority[attemptCR[b]] = b /\ b # authority[c]
      BY <2>2, <2>3 DEF LostAuthorityIsFinal
    <3>2. attemptCR'[b] = attemptCR[b] /\ attemptCR[b] # c
      BY <2>1, <2>3, <3>1 DEF TypeOK
    <3>3. attemptCR[b] \in ChangeRequests
      BY <2>2, <2>3 DEF RowsExist, NoRow
    <3>4. QED
      BY <2>1, <3>1, <3>2, <3>3 DEF TypeOK
  <2>4. authority'[attemptCR'[a]] = a
    BY <2>1 DEF TypeOK
  <2>5. QED
    BY <2>3, <2>4 DEF LostAuthorityIsFinal
<1>2. ASSUME NEW w \in Workers, NEW a \in Attempts, ClaimAttemptJob(w, a)
      PROVE  LostAuthorityIsFinal'
  BY <1>2 DEF ClaimAttemptJob, ClaimedStatus, LostAuthorityIsFinal, TypeOK, crVars
<1>3. ASSUME NEW w \in Workers, NEW a \in Attempts, PublishIfAuthoritative(w, a)
      PROVE  LostAuthorityIsFinal'
  BY <1>3 DEF PublishIfAuthoritative, PublicationInputsMatch, LostAuthorityIsFinal, TypeOK
<1>4. ASSUME NEW w \in Workers, NEW a \in Attempts, PublishAuditOnly(w, a)
      PROVE  LostAuthorityIsFinal'
  BY <1>4 DEF PublishAuditOnly, LostAuthorityIsFinal, TypeOK, crVars
<1>5. CASE UNCHANGED attemptStatus
           /\ UNCHANGED <<requestKey, authority, attemptCR, attemptKey, delivered>>
  BY <1>5 DEF LostAuthorityIsFinal
<1>6. QED
  BY <1>1, <1>2, <1>3, <1>4, <1>5, Writers DEF Start, Claim, Publish, Audit

\* A publication ends the job, and no transaction reopens it.
LEMMA PublishedIsNotExecutedAgainNext ==
  ASSUME TypeOK, RowsExist, PublishedIsNotExecutedAgain, [Next]_vars
  PROVE  PublishedIsNotExecutedAgain'
<1>1. ASSUME NEW c \in ChangeRequests, NEW a \in Attempts, NEW k \in Keys,
             NEW expected \in Attempts \cup {None}, NEW d \in Deliveries \cup {None},
             StartAuthoritativeAttempt(c, a, k, expected, d)
      PROVE  PublishedIsNotExecutedAgain'
  <2>1. /\ attemptStatus'[a] = "queued" /\ jobStatus'[a] = "queued"
        /\ UNCHANGED reportGate
    BY <1>1 DEF StartAuthoritativeAttempt, StandingAfterStart, reportVars
  <2>2. ASSUME NEW b \in Attempts, b # a
        PROVE  /\ attemptStatus'[b] \in {attemptStatus[b], "superseded"}
               /\ jobStatus'[b] \in {jobStatus[b], "superseded"}
    BY <1>1, <2>2 DEF StartAuthoritativeAttempt, StandingAfterStart
  <2>3. QED
    BY <2>1, <2>2 DEF PublishedIsNotExecutedAgain, TerminalJob
<1>2. CASE Claim
  BY <1>2, ClaimedStatusType
  DEF Claim, ClaimAttemptJob, PublishedIsNotExecutedAgain, TypeOK, TerminalJob, reportVars
<1>3. CASE Retryable
  BY <1>3
  DEF Retryable, MarkJobRetryable, PublishedIsNotExecutedAgain, TypeOK, TerminalJob, reportVars,
      attemptVars
<1>4. CASE Recover
  BY <1>4
  DEF Recover, RecoverInterruptedJobs, PublishedIsNotExecutedAgain, TerminalJob, reportVars,
      attemptVars
<1>5. CASE Publish
  BY <1>5
  DEF Publish, PublishIfAuthoritative, PublishedIsNotExecutedAgain, CompletedJob, TypeOK, TerminalJob,
      reportVars
<1>6. CASE Audit
  BY <1>6
  DEF Audit, PublishAuditOnly, PublishedIsNotExecutedAgain, CompletedJob, TypeOK, TerminalJob,
      reportVars
<1>7. CASE Finalize
  BY <1>7
  DEF Finalize, FinalizeAttemptJob, PublishedIsNotExecutedAgain, TypeOK, TerminalJob, reportVars,
      attemptVars
<1>8. ASSUME NEW w \in Workers, NEW g \in ReportGates, NEW blocking \in SUBSET Findings,
             SaveReviewResult(w, g, blocking)
      PROVE  PublishedIsNotExecutedAgain'
  <2>1. /\ reportGate' = [reportGate EXCEPT ![executing[w]] = g]
        /\ UNCHANGED <<attemptStatus, jobStatus>>
    BY <1>8 DEF SaveReviewResult, attemptVars, jobVars
  <2>2. g # NoneGate
    BY DEF ReportGates, NoneGate
  <2>3. QED
    BY <2>1, <2>2 DEF PublishedIsNotExecutedAgain, TypeOK
<1>9. CASE UNCHANGED attemptStatus /\ UNCHANGED jobStatus /\ UNCHANGED reportVars
  BY <1>9 DEF PublishedIsNotExecutedAgain, reportVars
<1>10. QED
  BY <1>1, <1>2, <1>3, <1>4, <1>5, <1>6, <1>7, <1>8, <1>9, Writers DEF Start, SaveResult

\* A decided Attempt has no job a claim could set running.
LEMMA RunningIsUndecidedNext ==
  ASSUME TypeOK, RowsExist, AuthorityIsOfTheRequest, StandingIsAuthoritative, DecidedJobsAreOver,
         RunningIsUndecided, [Next]_vars
  PROVE  RunningIsUndecided'
<1>1. ASSUME NEW c \in ChangeRequests, NEW a \in Attempts, NEW k \in Keys,
             NEW expected \in Attempts \cup {None}, NEW d \in Deliveries \cup {None},
             StartAuthoritativeAttempt(c, a, k, expected, d)
      PROVE  RunningIsUndecided'
  <2>1. /\ \A b \in Attempts : b = a \/ attemptStatus'[b] \in {attemptStatus[b], "superseded"}
        /\ UNCHANGED decisionGate
        /\ attemptStatus[a] = NoRow
    BY <1>1 DEF StartAuthoritativeAttempt, StandingAfterStart
  <2>2. QED
    BY <2>1 DEF RunningIsUndecided, RowsExist
<1>2. CASE Claim
  BY <1>2
  DEF Claim, ClaimAttemptJob, RunningIsUndecided, DecidedJobsAreOver, TypeOK, TerminalJob, decisionVars
<1>3. CASE Publish
  BY <1>3 DEF Publish, PublishIfAuthoritative, RunningIsUndecided, TypeOK
<1>4. CASE Audit
  BY <1>4 DEF Audit, PublishAuditOnly, RunningIsUndecided, TypeOK, decisionVars
<1>5. ASSUME NEW c \in ChangeRequests, NEW a \in Attempts, NEW f \in Findings,
             ApplyFindingBypass(c, a, f)
      PROVE  RunningIsUndecided'
  <2>1. decisionGate[a] # NoneGate
    BY <1>5, ConstantsAssumption DEF ApplyFindingBypass, StandingIsAuthoritative, NoneGate
  <2>2. QED
    BY <1>5, <2>1 DEF ApplyFindingBypass, RunningIsUndecided, TypeOK, attemptVars
<1>6. CASE UNCHANGED attemptStatus /\ UNCHANGED decisionGate
  BY <1>6 DEF RunningIsUndecided
<1>7. QED
  BY <1>1, <1>2, <1>3, <1>4, <1>5, <1>6, Writers DEF Start, Bypass

\* A bypass is one of an Attempt with a row.
LEMMA ActiveBypassHasRow ==
  ASSUME RowsExist, NEW b \in Attempts, NEW f \in Findings, bypass[b][f] = "active"
  PROVE  attemptStatus[b] # NoRow /\ attemptCR[b] \in ChangeRequests
<1>1. "active" # NoRow
  BY DEF NoRow
<1>2. QED
  BY <1>1 DEF RowsExist

\* Whatever takes the standing decision away expires its bypasses.
LEMMA BypassBindsToStandingDecisionNext ==
  ASSUME TypeOK, RowsExist, AuthorityIsOfTheRequest, StandingIsAuthoritative,
         BypassesAreOfBlockedReports, BypassBindsToStandingDecision, [Next]_vars
  PROVE  BypassBindsToStandingDecision'
<1>1. ASSUME NEW c \in ChangeRequests, NEW a \in Attempts, NEW k \in Keys,
             NEW expected \in Attempts \cup {None}, NEW d \in Deliveries \cup {None},
             StartAuthoritativeAttempt(c, a, k, expected, d)
      PROVE  BypassBindsToStandingDecision'
  <2>1. /\ standing' = [standing EXCEPT ![c] = None]
        /\ bypass' = InvalidatedBypasses(c)
        /\ attemptCR' = [attemptCR EXCEPT ![a] = c]
        /\ UNCHANGED <<identity, reportBlocking, reportIdentity>>
        /\ attemptStatus[a] = NoRow
    BY <1>1 DEF StartAuthoritativeAttempt, StandingAfterStart, reportVars
  <2>2. ASSUME NEW b \in Attempts, NEW f \in Findings, bypass'[b][f] = "active"
        PROVE  /\ bypass[b][f] = "active"
               /\ attemptCR'[b] = attemptCR[b]
               /\ standing'[attemptCR[b]] = standing[attemptCR[b]]
    <3>1. bypass[b][f] = "active" /\ attemptCR[b] # c
      BY <2>1, <2>2 DEF InvalidatedBypasses
    <3>2. b # a /\ attemptCR[b] \in ChangeRequests
      BY <2>1, <3>1, ActiveBypassHasRow
    <3>3. QED
      BY <2>1, <3>1, <3>2 DEF TypeOK
  <2>3. QED
    BY <2>1, <2>2 DEF BypassBindsToStandingDecision
<1>2. ASSUME NEW w \in Workers, NEW a \in Attempts, PublishIfAuthoritative(w, a)
      PROVE  BypassBindsToStandingDecision'
  <2>1. /\ standing' = [standing EXCEPT ![attemptCR[a]] = a]
        /\ authority[attemptCR[a]] = a
        /\ UNCHANGED <<bypass, attemptCR, identity, reportBlocking, reportIdentity>>
    BY <1>2 DEF PublishIfAuthoritative, PublicationInputsMatch, reportVars
  <2>2. ASSUME NEW b \in Attempts, standing[attemptCR[b]] = b, attemptCR[b] \in ChangeRequests
        PROVE  standing'[attemptCR[b]] = b
    BY <2>1, <2>2, ConstantsAssumption DEF StandingIsAuthoritative, TypeOK
  <2>3. QED
    BY <2>1, <2>2, ActiveBypassHasRow DEF BypassBindsToStandingDecision
<1>3. CASE Invalidate
  <2>1. PICK c \in ChangeRequests : InvalidateStandingDecision(c)
    BY <1>3 DEF Invalidate
  <2>2. /\ standing' = [standing EXCEPT ![c] = None]
        /\ bypass' = InvalidatedBypasses(c)
        /\ UNCHANGED <<attemptCR, identity, reportBlocking, reportIdentity>>
    BY <2>1 DEF InvalidateStandingDecision, reportVars, attemptVars
  <2>3. ASSUME NEW b \in Attempts, NEW f \in Findings, bypass'[b][f] = "active"
        PROVE  bypass[b][f] = "active" /\ attemptCR[b] # c
    BY <2>2, <2>3 DEF InvalidatedBypasses
  <2>4. QED
    BY <2>2, <2>3 DEF BypassBindsToStandingDecision, TypeOK
<1>4. ASSUME NEW c \in ChangeRequests, NEW a \in Attempts, NEW f \in Findings,
             ApplyFindingBypass(c, a, f)
      PROVE  BypassBindsToStandingDecision'
  <2>1. /\ authority[c] = a /\ standing[c] = a /\ identity[a] = reportIdentity[a]
        /\ f \in reportBlocking[a]
        /\ bypass' = [bypass EXCEPT ![a][f] = "active"]
        /\ UNCHANGED <<standing, attemptCR, identity, reportBlocking, reportIdentity>>
    BY <1>4 DEF ApplyFindingBypass, reportVars, attemptVars
  <2>2. attemptCR[a] = c
    BY <2>1, ConstantsAssumption DEF AuthorityIsOfTheRequest
  <2>3. QED
    BY <2>1, <2>2 DEF BypassBindsToStandingDecision, TypeOK
<1>5. CASE RecordIdentity
  <2>1. PICK w \in Workers, i \in Identities : RecordReviewIdentity(w, i)
    BY <1>5 DEF RecordIdentity
  <2>2. /\ identity[executing[w]] \in {None, i}
        /\ identity' = [identity EXCEPT ![executing[w]] = i]
        /\ UNCHANGED <<standing, bypass, attemptCR, reportBlocking, reportIdentity>>
    BY <2>1 DEF RecordReviewIdentity, crVars, reportVars
  <2>3. \A b \in Attempts : identity[b] # None => identity'[b] = identity[b]
    BY <2>2 DEF TypeOK
  <2>4. QED
    BY <2>2, <2>3 DEF BypassBindsToStandingDecision, BypassesAreOfBlockedReports
<1>6. CASE SaveResult
  <2>1. PICK w \in Workers, g \in ReportGates, blocking \in SUBSET Findings :
          SaveReviewResult(w, g, blocking)
    BY <1>6 DEF SaveResult
  <2>2. /\ reportGate[executing[w]] = NoneGate
        /\ \A b \in Attempts : b # executing[w] =>
             reportBlocking'[b] = reportBlocking[b] /\ reportIdentity'[b] = reportIdentity[b]
        /\ UNCHANGED <<standing, bypass, attemptCR, identity>>
    BY <2>1 DEF SaveReviewResult, crVars, attemptVars, TypeOK
  <2>3. QED
    BY <2>2 DEF BypassBindsToStandingDecision, BypassesAreOfBlockedReports, NoneGate
<1>7. CASE /\ UNCHANGED <<standing, gate, revision>>
           /\ UNCHANGED <<requestKey, authority, attemptCR, attemptKey, delivered>>
           /\ UNCHANGED identity /\ UNCHANGED bypass /\ UNCHANGED reportVars
  BY <1>7 DEF BypassBindsToStandingDecision, reportVars
<1>8. QED
  BY <1>1, <1>2, <1>3, <1>4, <1>5, <1>6, <1>7, Writers DEF Start, Publish, Bypass

\* A bypass turns the gate exactly when it is the last one missing.
LEMMA GateIsReportPlusAcceptedRisksNext ==
  ASSUME TypeOK, RowsExist, AuthorityIsOfTheRequest, ReportsBackDecisions, StandingIsAuthoritative,
         BypassBindsToStandingDecision, RunningIsUndecided, GateIsReportPlusAcceptedRisks,
         [Next]_vars
  PROVE  GateIsReportPlusAcceptedRisks'
<1> SUFFICES ASSUME NEW e \in ChangeRequests, NEW s \in Attempts, standing'[e] = s
             PROVE  gate'[e] = GateWithRisks(s)'
  <2>1. standing' \in [ChangeRequests -> Attempts \cup {None}]
    BY TypeOKNext DEF TypeOK
  <2>2. QED
    BY <2>1 DEF GateIsReportPlusAcceptedRisks, GateWithRisks, ActiveBypasses
\* What stands and keeps its report and its bypasses keeps its gate.
<1>1. ASSUME standing[e] = s, gate'[e] = gate[e],
             reportGate'[s] = reportGate[s], reportBlocking'[s] = reportBlocking[s],
             bypass'[s] = bypass[s]
      PROVE  gate'[e] = GateWithRisks(s)'
  <2>1. gate[e] = GateWithRisks(s)
    BY <1>1, ConstantsAssumption DEF GateIsReportPlusAcceptedRisks
  <2>2. QED
    BY <1>1, <2>1 DEF GateWithRisks, ActiveBypasses
<1>2. ASSUME standing[e] = s
      PROVE  attemptCR[s] = e /\ reportGate[s] # NoneGate
  <2>1. standing[e] # None
    BY <1>2, ConstantsAssumption
  <2>2. attemptCR[s] = e
    BY <1>2, <2>1 DEF StandingIsAuthoritative, AuthorityIsOfTheRequest
  <2>3. reportGate[s] # NoneGate
    BY <1>2, <2>1 DEF ReportsBackDecisions
  <2>4. QED
    BY <2>2, <2>3
<1>3. ASSUME NEW c \in ChangeRequests, bypass' = InvalidatedBypasses(c), UNCHANGED reportVars,
             standing' = [standing EXCEPT ![c] = None], gate' = [gate EXCEPT ![c] = NoneGate]
      PROVE  gate'[e] = GateWithRisks(s)'
  <2>1. e # c /\ standing[e] = s /\ gate'[e] = gate[e]
    BY <1>3, ConstantsAssumption DEF TypeOK
  <2>2. InvalidatedBypasses(c)[s] = bypass[s]
    BY <1>2, <2>1 DEF InvalidatedBypasses, TypeOK
  <2>3. QED
    BY <1>1, <1>3, <2>1, <2>2 DEF reportVars
<1>4. DOMAIN gate = ChangeRequests /\ DOMAIN bypass = Attempts
  BY DEF TypeOK
<1>5. CASE Start
  BY <1>3, <1>5 DEF Start, StartAuthoritativeAttempt, StandingAfterStart
<1>6. CASE Invalidate
  BY <1>3, <1>6 DEF Invalidate, InvalidateStandingDecision
<1>7. ASSUME NEW w \in Workers, NEW a \in Attempts, PublishIfAuthoritative(w, a)
      PROVE  gate'[e] = GateWithRisks(s)'
  <2>1. /\ standing' = [standing EXCEPT ![attemptCR[a]] = a]
        /\ gate' = [gate EXCEPT ![attemptCR[a]] = reportGate[a]]
        /\ attemptStatus[a] = "running"
        /\ UNCHANGED <<reportGate, reportBlocking, bypass>>
    BY <1>7 DEF PublishIfAuthoritative, reportVars
  <2>2. ActiveBypasses(a) = {}
    <3>1. SUFFICES ASSUME NEW f \in Findings, bypass[a][f] = "active"
                   PROVE  FALSE
      BY DEF ActiveBypasses
    <3>2. standing[attemptCR[a]] = a /\ attemptCR[a] \in ChangeRequests
      BY <3>1, ActiveBypassHasRow DEF BypassBindsToStandingDecision
    <3>3. decisionGate[a] # NoneGate
      BY <3>2, ConstantsAssumption DEF StandingIsAuthoritative, ReportsBackDecisions
    <3>4. QED
      BY <2>1, <3>3 DEF RunningIsUndecided
  <2>3. CASE e = attemptCR[a]
    <3>1. standing'[e] = a /\ gate'[e] = reportGate[a]
      BY <2>1, <2>3 DEF TypeOK
    <3>2. ActiveBypasses(a)' = {}
      BY <2>1, <2>2 DEF ActiveBypasses
    <3>3. reportGate[a] = "Blocked" => reportBlocking[a] # {}
      BY DEF ReportsBackDecisions
    <3>4. QED
      BY <2>1, <3>1, <3>2, <3>3 DEF GateWithRisks
  <2>4. CASE e # attemptCR[a]
    BY <1>1, <2>1, <2>4 DEF TypeOK
  <2>5. QED
    BY <2>3, <2>4
<1>8. ASSUME NEW c \in ChangeRequests, NEW a \in Attempts, NEW f \in Findings,
             ApplyFindingBypass(c, a, f)
      PROVE  gate'[e] = GateWithRisks(s)'
  <2>1. /\ reportGate[a] = "Blocked" /\ f \in reportBlocking[a]
        /\ gate' = [gate EXCEPT ![c] = IF Remaining(a, f) = {} THEN "Passed with bypass" ELSE "Blocked"]
        /\ UNCHANGED <<standing, reportGate, reportBlocking>>
    BY <1>8 DEF ApplyFindingBypass, reportVars
  <2>2. standing[c] = a /\ standing[c] # None
    BY <1>8, ConstantsAssumption DEF ApplyFindingBypass
  <2>3. bypass' = [bypass EXCEPT ![a][f] = "active"]
    BY <1>8 DEF ApplyFindingBypass
  <2>4. CASE e = c
    <3>1. bypass \in [Attempts -> [Findings -> BypassStatus \cup {NoRow}]]
      BY DEF TypeOK
    <3>2. \A g \in Findings : bypass'[a][g] = IF g = f THEN "active" ELSE bypass[a][g]
      BY <2>3, <3>1
    <3>3. ActiveBypasses(a)' = ActiveBypasses(a) \cup {f}
      BY <3>2 DEF ActiveBypasses
    <3>4. Remaining(a, f) = {} <=> reportBlocking[a] \subseteq ActiveBypasses(a) \cup {f}
      BY DEF Remaining
    <3>5. gate'[c] = IF Remaining(a, f) = {} THEN "Passed with bypass" ELSE "Blocked"
      BY <2>1, <1>4
    <3>6. QED
      BY <2>1, <2>2, <2>4, <3>3, <3>4, <3>5 DEF GateWithRisks
  <2>5. CASE e # c
    <3>1. attemptCR[a] = c
      BY <2>2 DEF StandingIsAuthoritative, AuthorityIsOfTheRequest
    <3>2. standing[e] = s /\ s # a
      BY <1>2, <2>1, <2>5, <3>1
    <3>3. gate'[e] = gate[e] /\ bypass'[s] = bypass[s]
      BY <2>1, <2>3, <2>5, <3>2, <1>4
    <3>4. QED
      BY <1>1, <2>1, <3>2, <3>3
  <2>6. QED
    BY <2>4, <2>5
<1>9. CASE SaveResult
  <2>1. PICK w \in Workers, g \in ReportGates, blocking \in SUBSET Findings :
          SaveReviewResult(w, g, blocking)
    BY <1>9 DEF SaveResult
  <2>2. /\ reportGate[executing[w]] = NoneGate
        /\ reportGate' = [reportGate EXCEPT ![executing[w]] = g]
        /\ reportBlocking' = [reportBlocking EXCEPT ![executing[w]] = blocking]
        /\ UNCHANGED <<standing, gate, bypass>>
    BY <2>1 DEF SaveReviewResult, crVars
  <2>3. standing[e] = s /\ s # executing[w]
    BY <1>2, <2>2
  <2>4. reportGate'[s] = reportGate[s] /\ reportBlocking'[s] = reportBlocking[s]
    BY <2>2, <2>3 DEF TypeOK
  <2>5. QED
    BY <1>1, <2>2, <2>3, <2>4
<1>10. CASE UNCHANGED <<standing, gate, revision>> /\ UNCHANGED bypass /\ UNCHANGED reportVars
  BY <1>1, <1>10 DEF reportVars
<1>11. QED
  BY <1>5, <1>6, <1>7, <1>8, <1>9, <1>10, Writers DEF Publish, Bypass

\* Only the intents of older revisions are superseded while a decision stands.
LEMMA LatestRevisionIsDueToTheCheckNext ==
  ASSUME TypeOK, RowsExist, DeliveredIntentsExist, AuthorityIsOfTheRequest, ReportsBackDecisions,
         IntentsAreOfPastRevisions, StandingIsAuthoritative, BypassBindsToStandingDecision,
         RunningIsUndecided, LatestRevisionIsDueToTheCheck, [Next]_vars
  PROVE  LatestRevisionIsDueToTheCheck'
<1> SUFFICES ASSUME NEW e \in ChangeRequests, NEW s \in Attempts, standing'[e] = s,
                    NEW f \in Findings, bypass'[s][f] = "active"
             PROVE  syncStatus'[s][revision'[e]] \notin {NoRow, "superseded"}
  <2>1. standing' \in [ChangeRequests -> Attempts \cup {None}]
    BY TypeOKNext DEF TypeOK
  <2>2. QED
    BY <2>1 DEF LatestRevisionIsDueToTheCheck, ActiveBypasses
<1>1. standing[e] = s => attemptCR[s] = e
  BY ConstantsAssumption DEF StandingIsAuthoritative, AuthorityIsOfTheRequest
<1>2. ASSUME standing[e] = s, revision'[e] = revision[e], bypass'[s] = bypass[s],
             syncStatus'[s][revision[e]] = syncStatus[s][revision[e]]
      PROVE  syncStatus'[s][revision'[e]] \notin {NoRow, "superseded"}
  <2>1. syncStatus[s][revision[e]] \notin {NoRow, "superseded"}
    BY <1>2, ConstantsAssumption DEF LatestRevisionIsDueToTheCheck, ActiveBypasses
  <2>2. QED
    BY <1>2, <2>1
<1>3. ASSUME NEW c \in ChangeRequests, NEW r, bypass' = InvalidatedBypasses(c),
             standing' = [standing EXCEPT ![c] = None],
             revision' = [revision EXCEPT ![c] = r],
             syncStatus' = SupersededIntents(standing[c])
      PROVE  syncStatus'[s][revision'[e]] \notin {NoRow, "superseded"}
  <2>1. e # c /\ standing[e] = s /\ revision'[e] = revision[e]
    BY <1>3, ConstantsAssumption DEF TypeOK
  <2>2. s # standing[c]
    BY <1>1, <2>1, ConstantsAssumption
    DEF StandingIsAuthoritative, AuthorityIsOfTheRequest
  <2>3. bypass'[s] = bypass[s]
    BY <1>1, <1>3, <2>1 DEF InvalidatedBypasses, TypeOK
  <2>4. SupersededIntents(standing[c])[s] = syncStatus[s]
    BY <2>2 DEF SupersededIntents, TypeOK
  <2>5. QED
    BY <1>2, <1>3, <2>1, <2>3, <2>4
<1>4. CASE Start
  BY <1>3, <1>4 DEF Start, StartAuthoritativeAttempt, StandingAfterStart
<1>5. CASE Invalidate
  BY <1>3, <1>5 DEF Invalidate, InvalidateStandingDecision
<1>6. ASSUME NEW w \in Workers, NEW a \in Attempts, PublishIfAuthoritative(w, a)
      PROVE  syncStatus'[s][revision'[e]] \notin {NoRow, "superseded"}
  <2>1. /\ standing' = [standing EXCEPT ![attemptCR[a]] = a]
        /\ revision' = [revision EXCEPT ![attemptCR[a]] = @ + 1]
        /\ attemptStatus[a] = "running"
        /\ UNCHANGED <<syncStatus, bypass>>
    BY <1>6 DEF PublishIfAuthoritative, syncVars
  <2>2. ActiveBypasses(a) = {}
    <3>1. SUFFICES ASSUME NEW g \in Findings, bypass[a][g] = "active"
                   PROVE  FALSE
      BY DEF ActiveBypasses
    <3>2. standing[attemptCR[a]] = a /\ attemptCR[a] \in ChangeRequests
      BY <3>1, ActiveBypassHasRow DEF BypassBindsToStandingDecision
    <3>3. decisionGate[a] # NoneGate
      BY <3>2, ConstantsAssumption DEF StandingIsAuthoritative, ReportsBackDecisions
    <3>4. QED
      BY <2>1, <3>3 DEF RunningIsUndecided
  <2>3. e # attemptCR[a]
    BY <2>1, <2>2 DEF ActiveBypasses, TypeOK
  <2>4. QED
    BY <1>2, <2>1, <2>3 DEF TypeOK
<1>7. ASSUME NEW c \in ChangeRequests, NEW a \in Attempts, NEW g \in Findings,
             ApplyFindingBypass(c, a, g)
      PROVE  syncStatus'[s][revision'[e]] \notin {NoRow, "superseded"}
  <2>1. /\ standing[c] = a /\ revision[c] < MaxRevision
        /\ revision' = [revision EXCEPT ![c] = @ + 1]
        /\ syncStatus' = [SupersededIntents(a) EXCEPT ![a][revision[c] + 1] = "queued"]
        /\ bypass' = [bypass EXCEPT ![a][g] = "active"]
        /\ UNCHANGED standing
    BY <1>7 DEF ApplyFindingBypass, EnqueuedIntent
  <2>2. revision[c] + 1 \in Revisions /\ revision'[c] = revision[c] + 1
    BY <2>1, ConstantsAssumption DEF TypeOK, Revisions
  <2>3. SupersededIntents(a) \in [Attempts -> [Revisions -> SyncStatus \cup {NoRow}]]
    BY SupersededIntentsType
  <2>4. CASE e = c
    <3>1. syncStatus'[a][revision'[c]] = "queued"
      BY <2>1, <2>2, <2>3
    <3>2. QED
      BY <2>1, <2>4, <3>1 DEF NoRow
  <2>5. CASE e # c
    <3>1. attemptCR[a] = c
      BY <2>1, ConstantsAssumption DEF StandingIsAuthoritative, AuthorityIsOfTheRequest
    <3>2. standing[e] = s /\ s # a
      BY <1>1, <2>1, <2>5, <3>1
    <3>3. SupersededIntents(a)[s] = syncStatus[s]
      BY <3>2 DEF SupersededIntents, TypeOK
    <3>4. syncStatus'[s] = syncStatus[s]
      BY <2>1, <2>3, <3>2, <3>3
    <3>5. DOMAIN revision = ChangeRequests /\ DOMAIN bypass = Attempts
      BY DEF TypeOK
    <3>6. revision'[e] = revision[e] /\ bypass'[s] = bypass[s]
      BY <2>1, <2>5, <3>2, <3>5
    <3>7. QED
      BY <1>2, <3>2, <3>4, <3>6
  <2>6. QED
    BY <2>4, <2>5
\* A delivery supersedes only an intent that is not of the current revision.
<1>8. ASSUME UNCHANGED <<standing, revision, bypass>>,
             NEW a \in Attempts, NEW r \in Revisions, NEW v \in SyncStatus,
             syncStatus' = [syncStatus EXCEPT ![a][r] = v],
             v = "superseded" => standing[e] # a \/ revision[e] # r
      PROVE  syncStatus'[s][revision'[e]] \notin {NoRow, "superseded"}
  <2>1. syncStatus \in [Attempts -> [Revisions -> SyncStatus \cup {NoRow}]]
    BY DEF TypeOK
  <2>2. CASE a = standing[e] /\ r = revision[e]
    <3>1. syncStatus'[a][r] = v
      BY <1>8, <2>1
    <3>2. QED
      BY <1>8, <2>2, <3>1 DEF SyncStatus, NoRow
  <2>3. CASE ~(a = standing[e] /\ r = revision[e])
    <3>1. syncStatus'[standing[e]][revision[e]] = syncStatus[standing[e]][revision[e]]
      BY <1>1, <1>8, <2>1, <2>3
    <3>2. QED
      BY <1>2, <1>8, <3>1
  <2>4. QED
    BY <2>2, <2>3
<1>9. ASSUME NEW w \in Workers, NEW a \in Attempts, NEW r \in Revisions,
             ClaimStandingCheckSync(w, a, r)
      PROVE  syncStatus'[s][revision'[e]] \notin {NoRow, "superseded"}
  <2>1. UNCHANGED <<standing, revision, bypass>>
    BY <1>9 DEF ClaimStandingCheckSync, crVars
  <2>2. CASE Outdated(a, r)
    <3>1. syncStatus' = [syncStatus EXCEPT ![a][r] = "superseded"]
      BY <1>9, <2>2 DEF ClaimStandingCheckSync
    <3>2. PICK newer \in Revisions : newer > r /\ syncStatus[a][newer] \in LiveSync
      BY <2>2 DEF Outdated
    <3>3. newer <= revision[attemptCR[a]]
      BY <3>2 DEF IntentsAreOfPastRevisions, LiveSync, NoRow
    <3>4. newer \in Nat /\ r \in Nat /\ revision[e] \in Nat
      BY ConstantsAssumption DEF Revisions, TypeOK
    <3>5. ASSUME standing[e] = a, revision[e] = r
          PROVE  FALSE
      <4>1. standing[e] # None
        BY <3>5, ConstantsAssumption
      <4>2. attemptCR[a] = e
        BY <3>5, <4>1 DEF StandingIsAuthoritative, AuthorityIsOfTheRequest
      <4>3. newer <= r
        BY <3>3, <3>5, <4>2
      <4>4. QED
        BY <3>2, <3>4, <4>3
    <3>6. QED
      BY <1>8, <2>1, <3>1, <3>5 DEF SyncStatus
  <2>3. CASE ~Outdated(a, r)
    <3>1. syncStatus' = [syncStatus EXCEPT ![a][r] = "in_progress"]
      BY <1>9, <2>3 DEF ClaimStandingCheckSync
    <3>2. QED
      BY <1>8, <2>1, <3>1 DEF SyncStatus
  <2>4. QED
    BY <2>2, <2>3
<1>10. ASSUME NEW w \in Workers, VerifyStandingCheckSync(w)
       PROVE  syncStatus'[s][revision'[e]] \notin {NoRow, "superseded"}
  <2> DEFINE a == syncing[w][1]
             r == syncing[w][2]
  <2>1. a \in Attempts /\ r \in Revisions
    BY <1>10 DEF VerifyStandingCheckSync, TypeOK, Intents
  <2>2. UNCHANGED <<standing, revision, bypass>>
    BY <1>10 DEF VerifyStandingCheckSync, crVars
  <2>3. CASE standing[attemptCR[a]] = a /\ revision[attemptCR[a]] = r
    <3>1. UNCHANGED syncStatus
      BY <1>10, <2>3 DEF VerifyStandingCheckSync
    <3>2. QED
      BY <1>2, <2>2, <3>1
  <2>4. CASE ~(standing[attemptCR[a]] = a /\ revision[attemptCR[a]] = r)
    <3>1. syncStatus' = [syncStatus EXCEPT ![a][r] = "superseded"]
      BY <1>10, <2>4 DEF VerifyStandingCheckSync
    <3>2. standing[e] # a \/ revision[e] # r
      BY <1>1, <2>1, <2>2, <2>4, ConstantsAssumption
    <3>3. QED
      BY <1>8, <2>1, <2>2, <3>1, <3>2 DEF SyncStatus
  <2>5. QED
    BY <2>3, <2>4
<1>11. ASSUME NEW w \in Workers, NEW v \in {"published", "queued", "failed"},
              MarkStandingCheckSync(w, v)
       PROVE  syncStatus'[s][revision'[e]] \notin {NoRow, "superseded"}
  <2>1. syncing[w][1] \in Attempts /\ syncing[w][2] \in Revisions
    BY <1>11 DEF MarkStandingCheckSync, TypeOK, Intents
  <2>2. /\ syncStatus' = [syncStatus EXCEPT ![syncing[w][1]][syncing[w][2]] = v]
        /\ UNCHANGED <<standing, revision, bypass>>
    BY <1>11 DEF MarkStandingCheckSync, crVars
  <2>3. QED
    BY <1>8, <2>1, <2>2 DEF SyncStatus
<1>12. CASE UNCHANGED <<standing, gate, revision>> /\ UNCHANGED bypass /\ UNCHANGED syncStatus
  BY <1>2, <1>12
<1>13. QED
  BY <1>4, <1>5, <1>6, <1>7, <1>9, <1>10, <1>11, <1>12, Writers
  DEF Publish, Bypass, ClaimSync, VerifySync, MarkSync


-----------------------------------------------------------------------------
(* The theorems.                                                           *)

\* The inductive step, one lemma per part.
LEMMA IndInvNext == TypeOK /\ IndInv /\ [Next]_vars => IndInv'
<1> SUFFICES ASSUME TypeOK, IndInv, [Next]_vars
             PROVE  IndInv'
  OBVIOUS
<1> USE DEF IndInv
<1>1. /\ RowsExist' /\ DeliveredIntentsExist' /\ AuthorityIsOfTheRequest'
      /\ ReportsBackDecisions' /\ DecidedJobsAreOver' /\ BypassesAreOfBlockedReports'
      /\ IntentsAreOfPastRevisions'
  BY RowsExistNext, DeliveredIntentsExistNext, AuthorityIsOfTheRequestNext,
     ReportsBackDecisionsNext, DecidedJobsAreOverNext, BypassesAreOfBlockedReportsNext,
     IntentsAreOfPastRevisionsNext
<1>2. StandingIsAuthoritative' /\ OneStandingDecision' /\ LostAuthorityIsFinal'
  BY StandingIsAuthoritativeNext, OneStandingDecisionNext, LostAuthorityIsFinalNext
<1>3. /\ GateIsReportPlusAcceptedRisks' /\ BypassBindsToStandingDecision'
      /\ LatestRevisionIsDueToTheCheck'
  BY GateIsReportPlusAcceptedRisksNext, BypassBindsToStandingDecisionNext,
     LatestRevisionIsDueToTheCheckNext
<1>4. PublishedIsNotExecutedAgain' /\ RunningIsUndecided'
  BY PublishedIsNotExecutedAgainNext, RunningIsUndecidedNext
<1>5. QED
  BY <1>1, <1>2, <1>3, <1>4

\* The store keeps its inductive invariant: the base of every theorem below.
THEOREM Invariant == Spec => [](TypeOK /\ IndInv)
<1>1. TypeOK /\ IndInv /\ [Next]_vars => (TypeOK /\ IndInv)'
  BY TypeOKNext, IndInvNext
<1>2. QED
  BY <1>1, TypeOKInit, IndInvInit, PTL DEF Spec

\* The standing decision is always the one of the Attempt in authority.
THEOREM StandingAuthority == Spec => []StandingIsAuthoritative
<1>1. IndInv => StandingIsAuthoritative
  BY DEF IndInv
<1>2. QED
  BY <1>1, Invariant, PTL

\* At most one gate decision per change request is marked standing, and it is
\* one of the Attempt in authority.
THEOREM SingleDecision == Spec => []OneStandingDecision
<1>1. IndInv => OneStandingDecision
  BY DEF IndInv
<1>2. QED
  BY <1>1, Invariant, PTL

\* D8: what stands was decided by the Attempt in authority, for the current
\* key, and is marked on one decision row only.
THEOREM StandingSound == Spec => []StandingDecisionIsSound
BY StandingAuthority, SingleDecision, PTL DEF StandingDecisionIsSound

\* An Attempt that lost authority never comes back to a live status.
THEOREM AuthorityLoss == Spec => []LostAuthorityIsFinal
<1>1. IndInv => LostAuthorityIsFinal
  BY DEF IndInv
<1>2. QED
  BY <1>1, Invariant, PTL

\* The standing gate is the saved report with the risks accepted so far.
THEOREM GateCorrect == Spec => []GateIsReportPlusAcceptedRisks
<1>1. IndInv => GateIsReportPlusAcceptedRisks
  BY DEF IndInv
<1>2. QED
  BY <1>1, Invariant, PTL

\* An active bypass is one of the decision that stands.
THEOREM BypassBinding == Spec => []BypassBindsToStandingDecision
<1>1. IndInv => BypassBindsToStandingDecision
  BY DEF IndInv
<1>2. QED
  BY <1>1, Invariant, PTL

\* While accepted risks stand, the GitHub Check is due the current revision.
THEOREM CheckIsDue == Spec => []LatestRevisionIsDueToTheCheck
<1>1. IndInv => LatestRevisionIsDueToTheCheck
  BY DEF IndInv
<1>2. QED
  BY <1>1, Invariant, PTL

\* A published Attempt has no job left that a worker could claim.
THEOREM NoSecondExecution == Spec => []PublishedIsNotExecutedAgain
<1>1. IndInv => PublishedIsNotExecutedAgain
  BY DEF IndInv
<1>2. QED
  BY <1>1, Invariant, PTL

\* An Attempt that can still be published has no decision row yet.
THEOREM DecisionIsInsertedOnce == Spec => []RunningIsUndecided
<1>1. IndInv => RunningIsUndecided
  BY DEF IndInv
<1>2. QED
  BY <1>1, Invariant, PTL

\* However many workers hold a lease on it, an Attempt is decided once and
\* executed no more once it was published.
THEOREM DecidedOnce == Spec => []AttemptIsDecidedOnce
BY NoSecondExecution, DecisionIsInsertedOnce, PTL DEF AttemptIsDecidedOnce

-----------------------------------------------------------------------------
(* Action properties.                                                      *)

\* A step that changes the standing decision moves the revision by one.
LEMMA RevisionStep ==
  ASSUME TypeOK, RowsExist, [Next]_vars, NEW c \in ChangeRequests,
         <<standing'[c], gate'[c]>> # <<standing[c], gate[c]>>, IndInv
  PROVE  revision'[c] = revision[c] + 1
<1>1. DOMAIN standing = ChangeRequests /\ DOMAIN gate = ChangeRequests
      /\ DOMAIN revision = ChangeRequests
  BY DEF TypeOK
<1>2. ASSUME NEW e \in ChangeRequests, NEW v, NEW g,
             standing' = [standing EXCEPT ![e] = v],
             gate' = [gate EXCEPT ![e] = g],
             revision' = [revision EXCEPT ![e] = @ + 1]
      PROVE  revision'[c] = revision[c] + 1
  BY <1>1, <1>2
<1>3. ASSUME NEW e \in ChangeRequests, NEW a \in Attempts, NEW k \in Keys,
             NEW expected \in Attempts \cup {None}, NEW d \in Deliveries \cup {None},
             StartAuthoritativeAttempt(e, a, k, expected, d)
      PROVE  revision'[c] = revision[c] + 1
  <2>1. /\ standing' = [standing EXCEPT ![e] = None]
        /\ gate' = [gate EXCEPT ![e] = NoneGate]
        /\ revision' = [revision EXCEPT ![e] = RevisionAfterStart(e)]
    BY <1>3 DEF StartAuthoritativeAttempt, StandingAfterStart
  <2>2. e = c /\ (standing[c] # None \/ gate[c] # NoneGate)
    BY <1>1, <2>1
  <2>3. standing[c] # None
    BY <2>2 DEF IndInv, ReportsBackDecisions
  <2>4. standing[c] \in Attempts /\ authority[c] = standing[c]
    BY <2>3 DEF IndInv, StandingIsAuthoritative, TypeOK
  <2>5. QED
    BY <1>1, <2>1, <2>2, <2>3, <2>4 DEF RevisionAfterStart
<1>4. ASSUME NEW w \in Workers, NEW a \in Attempts, PublishIfAuthoritative(w, a)
      PROVE  revision'[c] = revision[c] + 1
  <2>1. /\ standing' = [standing EXCEPT ![attemptCR[a]] = a]
        /\ gate' = [gate EXCEPT ![attemptCR[a]] = reportGate[a]]
        /\ revision' = [revision EXCEPT ![attemptCR[a]] = @ + 1]
    BY <1>4 DEF PublishIfAuthoritative
  <2>2. attemptCR[a] = c
    BY <1>1, <2>1
  <2>3. QED
    BY <1>1, <2>1, <2>2
<1>5. ASSUME NEW e \in ChangeRequests, InvalidateStandingDecision(e)
      PROVE  revision'[c] = revision[c] + 1
  BY <1>2, <1>5 DEF InvalidateStandingDecision
<1>6. ASSUME NEW e \in ChangeRequests, NEW a \in Attempts, NEW f \in Findings,
             ApplyFindingBypass(e, a, f)
      PROVE  revision'[c] = revision[c] + 1
  <2>1. /\ standing' = standing
        /\ \E g : gate' = [gate EXCEPT ![e] = g]
        /\ revision' = [revision EXCEPT ![e] = @ + 1]
    BY <1>6 DEF ApplyFindingBypass
  <2>2. PICK g : gate' = [gate EXCEPT ![e] = g]
    BY <2>1
  <2>3. e = c
    BY <1>1, <2>1, <2>2
  <2>4. QED
    BY <1>1, <2>1, <2>3
<1>7. CASE UNCHANGED <<standing, gate, revision>>
  BY <1>7
<1>8. QED
  BY <1>3, <1>4, <1>5, <1>6, <1>7, Writers DEF Start, Publish, Invalidate, Bypass

\* Every change of the standing decision is exactly one new revision.
THEOREM RevisionsCountDecisions == Spec => EveryDecisionChangeIsARevision
<1> DEFINE Step == \A c \in ChangeRequests :
                     /\ revision'[c] \in {revision[c], revision[c] + 1}
                     /\ <<standing'[c], gate'[c]>> # <<standing[c], gate[c]>> =>
                          revision'[c] = revision[c] + 1
<1>1. TypeOK /\ IndInv /\ [Next]_vars => Step
  BY RevisionStep, RevisionsGrow DEF IndInv
<1>2. TypeOK /\ IndInv /\ [Next]_vars => [Step]_vars
  BY <1>1
<1> HIDE DEF Step
<1>3. Spec => [][Step]_vars
  BY <1>2, Invariant, PTL DEF Spec
<1>4. QED
  BY <1>3 DEF EveryDecisionChangeIsARevision, Step

\* A step leaves a job that ended as it is.
LEMMA TerminalJobStep ==
  ASSUME TypeOK, RowsExist, [Next]_vars, NEW b \in Attempts, jobStatus[b] \in TerminalJob
  PROVE  jobStatus'[b] = jobStatus[b]
<1>1. jobStatus[b] \notin {"queued", "running", "retryable", NoRow}
  BY DEF TerminalJob, NoRow
<1>2. DOMAIN jobStatus = Attempts
  BY DEF TypeOK
<1>3. CASE Start
  <2>1. PICK c \in ChangeRequests, a \in Attempts, k \in Keys,
             expected \in Attempts \cup {None}, d \in Deliveries \cup {None} :
               StartAuthoritativeAttempt(c, a, k, expected, d)
    BY <1>3 DEF Start
  <2>2. /\ attemptStatus[a] = NoRow
        /\ jobStatus' = [x \in Attempts |->
             IF x = a THEN "queued"
             ELSE IF x = authority[c] /\ jobStatus[x] = "queued" THEN "superseded"
             ELSE jobStatus[x]]
    BY <2>1 DEF StartAuthoritativeAttempt, StandingAfterStart
  <2>3. a # b
    BY <1>1, <2>2 DEF RowsExist
  <2>4. QED
    BY <1>1, <2>2, <2>3
<1>4. CASE Claim
  BY <1>1, <1>2, <1>4 DEF Claim, ClaimAttemptJob
<1>5. CASE Retryable
  BY <1>1, <1>2, <1>5 DEF Retryable, MarkJobRetryable
<1>6. CASE Recover
  <2>1. PICK w \in Workers, expired \in SUBSET Attempts : RecoverInterruptedJobs(w, expired)
    BY <1>6 DEF Recover
  <2>2. b \notin expired
    BY <1>1, <2>1 DEF RecoverInterruptedJobs
  <2>3. QED
    BY <1>1, <2>1, <2>2 DEF RecoverInterruptedJobs
<1>7. CASE Publish
  BY <1>2, <1>7 DEF Publish, PublishIfAuthoritative, CompletedJob
<1>8. CASE Audit
  BY <1>2, <1>8 DEF Audit, PublishAuditOnly, CompletedJob
<1>9. CASE Finalize
  BY <1>2, <1>9 DEF Finalize, FinalizeAttemptJob
<1>10. QED
  BY <1>3, <1>4, <1>5, <1>6, <1>7, <1>8, <1>9, Writers

\* A job that ended stays as it ended.
THEOREM TerminalJobs == Spec => TerminalJobsStayTerminal
<1> DEFINE Step == \A a \in Attempts :
                     jobStatus[a] \in TerminalJob => jobStatus'[a] = jobStatus[a]
<1>1. TypeOK /\ IndInv /\ [Next]_vars => Step
  BY TerminalJobStep DEF IndInv
<1>2. TypeOK /\ IndInv /\ [Next]_vars => [Step]_vars
  BY <1>1
<1> HIDE DEF Step
<1>3. Spec => [][Step]_vars
  BY <1>2, Invariant, PTL DEF Spec
<1>4. QED
  BY <1>3 DEF TerminalJobsStayTerminal, Step

-----------------------------------------------------------------------------
(* With one worker.                                                        *)

\* The one-worker invariant holds of an empty store.
LEMMA OneWorkerInvInit == Init => OneWorkerInv
  BY ConstantsAssumption DEF Init, OneWorkerInv, StandingIsPublished

\* With one worker no step breaks it: between the claim of an execution and its
\* report nobody else saves one.
LEMMA OneWorkerInvNext ==
  ASSUME NEW w0, Workers = {w0}, TypeOK, IndInv, OneWorkerInv, [Next]_vars
  PROVE  OneWorkerInv'
<1> DEFINE Executed == \A w \in Workers :
             executing[w] # None => reportGate[executing[w]] = NoneGate
           KeyOfIdentity == \A a \in Attempts :
             identity[a] # None => IdentityKey[identity[a]] = attemptKey[a]
           ReviewedIdentity == \A c \in ChangeRequests : standing[c] # None =>
             identity[standing[c]] = reportIdentity[standing[c]]
<1>1. Executed'
  <2>1. CASE Claim
    BY <2>1 DEF Claim, ClaimAttemptJob, MayBeListed, OneWorkerInv, TypeOK, reportVars
  <2>2. CASE SaveResult
    BY <2>2 DEF SaveResult, SaveReviewResult, OneWorkerInv, TypeOK
  <2>3. CASE Retryable
    BY <2>3 DEF Retryable, MarkJobRetryable, OneWorkerInv, TypeOK, reportVars
  <2>4. CASE Crash
    BY <2>4 DEF Crash, CrashWorker, OneWorkerInv, TypeOK, reportVars
  <2>5. CASE UNCHANGED executing /\ UNCHANGED reportVars
    BY <2>5 DEF OneWorkerInv, reportVars
  <2>6. QED
    BY <2>1, <2>2, <2>3, <2>4, <2>5, Writers
<1>2. KeyOfIdentity'
  <2>1. CASE Start
    <3>1. PICK c \in ChangeRequests, a \in Attempts, k \in Keys,
               expected \in Attempts \cup {None}, d \in Deliveries \cup {None} :
                 StartAuthoritativeAttempt(c, a, k, expected, d)
      BY <2>1 DEF Start
    <3>2. /\ attemptStatus[a] = NoRow
          /\ attemptKey' = [attemptKey EXCEPT ![a] = k]
          /\ UNCHANGED identity
      BY <3>1 DEF StartAuthoritativeAttempt, StandingAfterStart
    <3>3. identity[a] = None
      BY <3>2 DEF IndInv, RowsExist
    <3>4. QED
      BY <3>2, <3>3 DEF OneWorkerInv, TypeOK
  <2>2. CASE RecordIdentity
    <3>1. UNCHANGED attemptKey
      BY <2>2 DEF RecordIdentity, RecordReviewIdentity
    <3>2. QED
      BY <2>2, <3>1 DEF RecordIdentity, RecordReviewIdentity, OneWorkerInv, TypeOK
  <2>3. CASE UNCHANGED attemptKey /\ UNCHANGED identity
    BY <2>3 DEF OneWorkerInv
  <2>4. QED
    BY <2>1, <2>2, <2>3, Writers
\* What stands has a report, so neither its Identity nor its report is written.
<1>3. ASSUME NEW c \in ChangeRequests, standing[c] # None
      PROVE  /\ standing[c] \in Attempts
             /\ identity'[standing[c]] = identity[standing[c]]
             /\ reportIdentity'[standing[c]] = reportIdentity[standing[c]]
  <2>1. standing[c] \in Attempts /\ reportGate[standing[c]] # NoneGate
    BY <1>3 DEF IndInv, ReportsBackDecisions, TypeOK
  <2>2. CASE RecordIdentity
    <3>1. PICK w \in Workers, i \in Identities : RecordReviewIdentity(w, i)
      BY <2>2 DEF RecordIdentity
    <3>2. /\ executing[w] # None
          /\ identity' = [identity EXCEPT ![executing[w]] = i]
          /\ UNCHANGED reportIdentity
      BY <3>1 DEF RecordReviewIdentity, reportVars
    <3>3. executing[w] # standing[c]
      BY <2>1, <3>2 DEF OneWorkerInv
    <3>4. QED
      BY <2>1, <3>2, <3>3 DEF TypeOK
  <2>3. CASE SaveResult
    <3>1. PICK w \in Workers, g \in ReportGates, blocking \in SUBSET Findings :
            SaveReviewResult(w, g, blocking)
      BY <2>3 DEF SaveResult
    <3>2. /\ reportGate[executing[w]] = NoneGate
          /\ reportIdentity' = [reportIdentity EXCEPT ![executing[w]] =
                IF recorded[w] THEN identity[executing[w]] ELSE None]
          /\ UNCHANGED identity
      BY <3>1 DEF SaveReviewResult, attemptVars
    <3>3. executing[w] # standing[c]
      BY <2>1, <3>2
    <3>4. QED
      BY <2>1, <3>2, <3>3 DEF TypeOK
  <2>4. QED
    BY <2>1, <2>2, <2>3, Writers DEF reportVars
<1>4. ReviewedIdentity'
  <2>1. ASSUME NEW c \in ChangeRequests, standing'[c] # None,
               standing'[c] = standing[c]
        PROVE  identity'[standing'[c]] = reportIdentity'[standing'[c]]
    BY <1>3, <2>1 DEF OneWorkerInv
  <2>2. ASSUME NEW c \in ChangeRequests, standing'[c] # None,
               standing'[c] # standing[c]
        PROVE  identity'[standing'[c]] = reportIdentity'[standing'[c]]
    <3>1. CASE Publish
      <4>1. PICK w \in Workers, a \in Attempts : PublishIfAuthoritative(w, a)
        BY <3>1 DEF Publish
      <4>2. /\ standing' = [standing EXCEPT ![attemptCR[a]] = a]
            /\ identity[a] = reportIdentity[a]
            /\ UNCHANGED <<identity, reportIdentity>>
        BY <4>1 DEF PublishIfAuthoritative, PublicationInputsMatch, reportVars
      <4>3. standing'[c] = a
        BY <2>2, <4>2 DEF TypeOK
      <4>4. QED
        BY <4>2, <4>3
    <3>2. CASE Start \/ Invalidate
      BY <2>2, <3>2
      DEF Start, StartAuthoritativeAttempt, StandingAfterStart, Invalidate, InvalidateStandingDecision, TypeOK
    <3>3. CASE Bypass
      BY <2>2, <3>3 DEF Bypass, ApplyFindingBypass
    <3>4. QED
      BY <2>2, <3>1, <3>2, <3>3, Writers
  <2>3. QED
    BY <2>1, <2>2
<1>5. StandingIsPublished'
  <2>1. ASSUME NEW c \in ChangeRequests, standing'[c] # None, standing'[c] = standing[c]
        PROVE  attemptStatus'[standing'[c]] = "published"
    <3> DEFINE s == standing[c]
    <3>1. /\ s \in Attempts /\ s # None /\ attemptStatus[s] = "published"
          /\ authority[c] = s /\ attemptCR[s] = c /\ requestKey[c] = attemptKey[s]
          /\ decisionGate[s] # NoneGate
      BY <2>1 DEF OneWorkerInv, StandingIsPublished, IndInv, StandingIsAuthoritative,
                  AuthorityIsOfTheRequest, ReportsBackDecisions, TypeOK
    <3>2. CASE Start
      <4>1. PICK e \in ChangeRequests, a \in Attempts, k \in Keys,
                 expected \in Attempts \cup {None}, d \in Deliveries \cup {None} :
                   StartAuthoritativeAttempt(e, a, k, expected, d)
        BY <3>2 DEF Start
      <4>2. /\ attemptStatus[a] = NoRow
            /\ standing' = [standing EXCEPT ![e] = None]
            /\ attemptStatus' = [b \in Attempts |->
                 IF b = a THEN "queued"
                 ELSE IF b = authority[e] /\ attemptStatus[b] # "audit-only" THEN "superseded"
                 ELSE attemptStatus[b]]
        BY <4>1 DEF StartAuthoritativeAttempt, StandingAfterStart
      <4>3. a # s /\ e # c
        BY <2>1, <3>1, <4>2 DEF NoRow, TypeOK
      <4>4. s # authority[e]
        BY <3>1, <4>3 DEF IndInv, AuthorityIsOfTheRequest
      <4>5. QED
        BY <2>1, <3>1, <4>2, <4>3, <4>4
    <3>3. CASE Claim
      <4>1. PICK w \in Workers, a \in Attempts : ClaimAttemptJob(w, a)
        BY <3>3 DEF Claim
      <4>2. /\ jobStatus[a] \in {"queued", "running"}
            /\ attemptStatus' = [attemptStatus EXCEPT ![a] = ClaimedStatus(a)]
        BY <4>1 DEF ClaimAttemptJob
      <4>3. jobStatus[s] \in TerminalJob
        BY <3>1 DEF IndInv, DecidedJobsAreOver
      <4>4. a # s
        BY <4>2, <4>3 DEF TerminalJob
      <4>5. QED
        BY <2>1, <3>1, <4>2, <4>4 DEF TypeOK
    <3>4. CASE Publish
      BY <2>1, <3>1, <3>4 DEF Publish, PublishIfAuthoritative, TypeOK
    <3>5. CASE Audit
      <4>1. PICK w \in Workers, a \in Attempts : PublishAuditOnly(w, a)
        BY <3>5 DEF Audit
      <4>2. /\ ~PublicationInputsMatch(a)
            /\ attemptStatus' = [attemptStatus EXCEPT ![a] = "audit-only"]
        BY <4>1 DEF PublishAuditOnly
      <4>3. PublicationInputsMatch(s)
        BY <2>1, <3>1 DEF PublicationInputsMatch, OneWorkerInv
      <4>4. a # s
        BY <4>2, <4>3
      <4>5. QED
        BY <2>1, <3>1, <4>2, <4>4 DEF TypeOK
    <3>6. QED
      BY <2>1, <3>1, <3>2, <3>3, <3>4, <3>5, Writers
  <2>2. ASSUME NEW c \in ChangeRequests, standing'[c] # None, standing'[c] # standing[c]
        PROVE  attemptStatus'[standing'[c]] = "published"
    <3>1. CASE Publish
      <4>1. PICK w \in Workers, a \in Attempts : PublishIfAuthoritative(w, a)
        BY <3>1 DEF Publish
      <4>2. /\ standing' = [standing EXCEPT ![attemptCR[a]] = a]
            /\ attemptStatus' = [attemptStatus EXCEPT ![a] = "published"]
        BY <4>1 DEF PublishIfAuthoritative
      <4>3. standing'[c] = a
        BY <2>2, <4>2 DEF TypeOK
      <4>4. QED
        BY <4>2, <4>3 DEF TypeOK
    <3>2. CASE Start \/ Invalidate
      BY <2>2, <3>2
      DEF Start, StartAuthoritativeAttempt, StandingAfterStart, Invalidate, InvalidateStandingDecision, TypeOK
    <3>3. CASE Bypass
      BY <2>2, <3>3 DEF Bypass, ApplyFindingBypass
    <3>4. QED
      BY <2>2, <3>1, <3>2, <3>3, Writers
  <2>3. QED
    BY <2>1, <2>2 DEF StandingIsPublished
<1>6. QED
  BY <1>1, <1>2, <1>4, <1>5 DEF OneWorkerInv

\* In the shipped deployment, one durable worker, the standing decision is one
\* of a published Attempt: nothing puts the standing Attempt aside.
THEOREM StandingPublished ==
  ASSUME NEW w0, Workers = {w0}
  PROVE  Spec => []StandingIsPublished
<1>1. TypeOK /\ IndInv /\ OneWorkerInv /\ [Next]_vars => OneWorkerInv'
  BY OneWorkerInvNext
<1>2. OneWorkerInv => StandingIsPublished
  BY DEF OneWorkerInv
<1>3. QED
  BY <1>1, <1>2, OneWorkerInvInit, Invariant, PTL DEF Spec

-----------------------------------------------------------------------------
(* The store implements AttemptAuthority.                                  *)

\* An empty store is an initial state of AttemptAuthority.
LEMMA AuthorityInit == Init => Authority!Init
  BY DEF Init, Authority!Init, GateOrNone, Used, Decided

\* Every transaction is a step of AttemptAuthority or leaves what it sees alone.
LEMMA AuthorityStep ==
  TypeOK /\ IndInv /\ [Next]_vars => [Authority!Next]_(Authority!authorityVars)
<1> SUFFICES ASSUME TypeOK, IndInv, [Next]_vars
             PROVE  Authority!Next \/ UNCHANGED Authority!authorityVars
  OBVIOUS
<1> USE DEF Authority!authorityVars
<1>1. /\ DOMAIN gate = ChangeRequests /\ DOMAIN attemptStatus = Attempts
      /\ DOMAIN decisionGate = Attempts
  BY DEF TypeOK
<1>2. \A a \in Attempts : attemptStatus[a] = NoRow => attemptCR[a] = None /\ jobStatus[a] = NoRow
  BY DEF IndInv, RowsExist
\* How the mapped gate follows a write of the gate.
<1>3. ASSUME NEW c \in ChangeRequests, NEW g, gate' = [gate EXCEPT ![c] = g]
      PROVE  GateOrNone' = [GateOrNone EXCEPT ![c] = IF g = NoneGate THEN None ELSE g]
  BY <1>1, <1>3 DEF GateOrNone
<1>4. ASSUME NEW c \in ChangeRequests, NEW a \in Attempts, NEW k \in Keys,
             NEW expected \in Attempts \cup {None}, NEW d \in Deliveries \cup {None},
             StartAuthoritativeAttempt(c, a, k, expected, d)
      PROVE  Authority!TakeAuthority(c, a)
  <2>1. /\ attemptStatus[a] = NoRow
        /\ authority' = [authority EXCEPT ![c] = a]
        /\ standing' = [standing EXCEPT ![c] = None]
        /\ gate' = [gate EXCEPT ![c] = NoneGate]
        /\ UNCHANGED decisionGate
    BY <1>4 DEF StartAuthoritativeAttempt, StandingAfterStart
  <2>2. attemptStatus' = [b \in Attempts |->
          IF b = a THEN "queued"
          ELSE IF b = authority[c] /\ attemptStatus[b] # "audit-only" THEN "superseded"
          ELSE attemptStatus[b]]
    BY <1>4 DEF StartAuthoritativeAttempt, StandingAfterStart
  <2>3. \A b \in Attempts : b = authority[c] => attemptStatus[b] # NoRow
    BY <1>2, ConstantsAssumption DEF IndInv, AuthorityIsOfTheRequest
  <2>4. a \notin Used /\ Used' = Used \cup {a}
    BY <2>1, <2>2, <2>3 DEF Used, NoRow
  <2>5. Decided' = Decided
    BY <2>1 DEF Decided
  <2>6. GateOrNone' = [GateOrNone EXCEPT ![c] = None]
    BY <1>3, <2>1
  <2>7. revision' = [revision EXCEPT ![c] = IF authority[c] = None THEN @ ELSE @ + 1]
    BY <1>4 DEF StartAuthoritativeAttempt, StandingAfterStart, RevisionAfterStart
  <2>8. QED
    BY <2>1, <2>4, <2>5, <2>6, <2>7 DEF Authority!TakeAuthority
<1>5. ASSUME NEW w \in Workers, NEW a \in Attempts, PublishIfAuthoritative(w, a)
      PROVE  \E c \in ChangeRequests, g \in Authority!ReportGates : Authority!Decide(c, g)
  <2> DEFINE c == attemptCR[a]
             g == reportGate[a]
  <2>1. /\ attemptStatus[a] = "running" /\ g # NoneGate /\ authority[c] = a
        /\ standing' = [standing EXCEPT ![c] = a]
        /\ gate' = [gate EXCEPT ![c] = g]
        /\ revision' = [revision EXCEPT ![c] = @ + 1]
        /\ UNCHANGED authority
    BY <1>5 DEF PublishIfAuthoritative, PublicationInputsMatch
  <2>2. /\ attemptStatus' = [attemptStatus EXCEPT ![a] = "published"]
        /\ decisionGate' = [decisionGate EXCEPT ![a] = g]
    BY <1>5 DEF PublishIfAuthoritative
  <2>3. c \in ChangeRequests
    BY <2>1 DEF IndInv, RowsExist, NoRow
  <2>4. g \in Authority!ReportGates
    BY <2>1 DEF TypeOK, ReportGates, Authority!ReportGates
  <2>5. a \notin Decided /\ Decided' = Decided \cup {a}
    BY <1>1, <2>1, <2>2 DEF IndInv, RunningIsUndecided, Decided
  <2>6. Used' = Used
    BY <1>1, <2>1, <2>2 DEF Used, NoRow
  <2>7. GateOrNone' = [GateOrNone EXCEPT ![c] = g]
    BY <1>3, <2>1, <2>3
  <2>8. a # None
    BY ConstantsAssumption
  <2>9. Authority!Decide(c, g)
    BY <2>1, <2>5, <2>6, <2>7, <2>8 DEF Authority!Decide
  <2>10. QED
    BY <2>3, <2>4, <2>9
<1>6. ASSUME NEW c \in ChangeRequests, InvalidateStandingDecision(c)
      PROVE  Authority!Withdraw(c)
  <2>1. /\ authority[c] # None
        /\ standing' = [standing EXCEPT ![c] = None]
        /\ gate' = [gate EXCEPT ![c] = NoneGate]
        /\ revision' = [revision EXCEPT ![c] = @ + 1]
        /\ UNCHANGED <<authority, attemptStatus, decisionGate>>
    BY <1>6 DEF InvalidateStandingDecision, attemptVars, decisionVars
  <2>2. Used' = Used /\ Decided' = Decided
    BY <2>1 DEF Used, Decided
  <2>3. GateOrNone' = [GateOrNone EXCEPT ![c] = None]
    BY <1>3, <2>1
  <2>4. QED
    BY <2>1, <2>2, <2>3 DEF Authority!Withdraw
<1>7. ASSUME NEW c \in ChangeRequests, NEW a \in Attempts, NEW f \in Findings,
             ApplyFindingBypass(c, a, f)
      PROVE  Authority!AcceptRisk(c)
  <2> DEFINE g == IF Remaining(a, f) = {} THEN "Passed with bypass" ELSE "Blocked"
  <2>1. /\ standing[c] = a /\ gate[c] = "Blocked"
        /\ gate' = [gate EXCEPT ![c] = g]
        /\ revision' = [revision EXCEPT ![c] = @ + 1]
        /\ UNCHANGED <<authority, standing, attemptStatus>>
    BY <1>7 DEF ApplyFindingBypass, attemptVars
  <2>2. decisionGate' = [decisionGate EXCEPT ![a] =
               IF Remaining(a, f) = {} /\ decisionStanding[a] THEN g ELSE @]
    BY <1>7 DEF ApplyFindingBypass
  <2>3. a # None /\ decisionGate[a] = "Blocked"
    BY <2>1, ConstantsAssumption DEF IndInv, StandingIsAuthoritative
  <2>4. decisionGate'[a] # NoneGate /\ \A b \in Attempts : b # a => decisionGate'[b] = decisionGate[b]
    BY <1>1, <2>2, <2>3 DEF NoneGate
  <2>5. Decided' = Decided
    BY <2>3, <2>4 DEF Decided, NoneGate
  <2>6. Used' = Used
    BY <2>1 DEF Used
  <2>7. g # NoneGate /\ g \in {"Blocked", "Passed with bypass"}
    BY DEF NoneGate
  <2>8. GateOrNone' = [GateOrNone EXCEPT ![c] = g]
    BY <1>3, <2>1, <2>7
  <2>9. GateOrNone[c] = "Blocked"
    BY <2>1 DEF GateOrNone, NoneGate
  <2>10. QED
    BY <2>1, <2>3, <2>5, <2>6, <2>7, <2>8, <2>9 DEF Authority!AcceptRisk
\* The other transactions leave the abstract state alone.
<1>8. ASSUME UNCHANGED <<authority, standing, gate, revision, decisionGate>>,
             \A a \in Attempts : (attemptStatus'[a] = NoRow) <=> (attemptStatus[a] = NoRow)
      PROVE  UNCHANGED Authority!authorityVars
  BY <1>8 DEF GateOrNone, Used, Decided
<1>9. CASE Claim
  <2>1. PICK w \in Workers, a \in Attempts : ClaimAttemptJob(w, a)
    BY <1>9 DEF Claim
  <2>2. /\ jobStatus[a] \in {"queued", "running"}
        /\ attemptStatus' = [attemptStatus EXCEPT ![a] = ClaimedStatus(a)]
        /\ UNCHANGED <<authority, standing, gate, revision, decisionGate>>
    BY <2>1 DEF ClaimAttemptJob, crVars, decisionVars
  <2>3. attemptStatus[a] # NoRow /\ ClaimedStatus(a) # NoRow
    BY <1>2, <2>2, ClaimedStatusType DEF NoRow
  <2>4. QED
    BY <1>1, <1>8, <2>2, <2>3
<1>10. CASE Audit
  <2>1. PICK w \in Workers, a \in Attempts : PublishAuditOnly(w, a)
    BY <1>10 DEF Audit
  <2>2. /\ reportGate[a] # NoneGate
        /\ attemptStatus' = [attemptStatus EXCEPT ![a] = "audit-only"]
        /\ UNCHANGED <<authority, standing, gate, revision, decisionGate>>
    BY <2>1 DEF PublishAuditOnly, crVars, decisionVars
  <2>3. attemptStatus[a] # NoRow
    BY <2>2 DEF IndInv, RowsExist
  <2>4. QED
    BY <1>1, <1>8, <2>2, <2>3 DEF NoRow
<1>11. CASE UNCHANGED <<authority, standing, gate, revision, decisionGate, attemptStatus>>
  BY <1>8, <1>11
<1>12. Start \/ Publish \/ Invalidate \/ Bypass => Authority!Next
  BY <1>4, <1>5, <1>6, <1>7 DEF Start, Publish, Invalidate, Bypass, Authority!Next
<1>13. QED
  BY <1>9, <1>10, <1>11, <1>12, Writers

\* The store implements AttemptAuthority: an Attempt takes authority once, is
\* decided at most once and only while in authority, and every change of the
\* standing decision is one revision.
THEOREM Refinement == Spec => ImplementsAuthority
<1>1. Spec => Authority!Init
  BY AuthorityInit DEF Spec
<1>2. Spec => [][Authority!Next]_(Authority!authorityVars)
  BY AuthorityStep, Invariant, PTL DEF Spec
<1>3. QED
  BY <1>1, <1>2 DEF ImplementsAuthority, Authority!Spec
=============================================================================
