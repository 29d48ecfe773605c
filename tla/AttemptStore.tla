---------------------------- MODULE AttemptStore ----------------------------
(***************************************************************************)
(* The authoritative state store of the GitHub App (server/state.py, the   *)
(* PostgreSQL class, and the review result table of persistence.py): the   *)
(* rows it keeps and its operations, one action per transaction.           *)
(*                                                                         *)
(* A transaction is atomic here because every row it decides on is read    *)
(* FOR UPDATE.  A variable is a column: a function from the primary key to *)
(* the column's value, None where the row does not exist.  Audit events,   *)
(* error texts and timestamps are left out: a lease that expires (30       *)
(* minutes for a job, 2 minutes for a Check sync) is a choice the action   *)
(* makes, because any amount of time can pass between two steps.           *)
(*                                                                         *)
(* The callers (webhooks, retries, the durable worker, the bypass          *)
(* coordinator) are present through what they can ask for: an execution    *)
(* needs a claim, a publication a saved report and an idle worker, a       *)
(* bypass a complete Blocked report.  A worker runs one execution at a     *)
(* time, or delivers one Check sync, and a worker whose lease expired is   *)
(* never told: it goes on.  One worker is the shipped deployment; two are  *)
(* a restart that overlaps.                                                *)
(***************************************************************************)
EXTENDS Naturals

CONSTANTS
  ChangeRequests,  \* (installation, repository, pull request) locators
  Attempts,        \* Attempt ids: UUIDs, drawn fresh by every start
  Keys,            \* Review Request Keys
  Identities,      \* Review Identities
  IdentityKey,     \* the Review Request Key an Identity was derived from
  Findings,        \* finding fingerprints
  Deliveries,      \* webhook and retry delivery ids
  Workers,         \* durable worker loops, one per server process
  None,            \* SQL NULL, or a row that does not exist
  MaxJobAttempts,  \* DEFAULT_MAX_JOB_ATTEMPTS
  MaxRetries,      \* bound of the model on review_jobs.retry_count
  MaxRevision,     \* bound of the model on change_requests.standing_revision
  MaxSyncAttempts, \* MAX_PUBLICATION_ATTEMPTS, the budget of a Check sync
  MaxSyncClaims    \* bound of the model on standing_check_outbox.attempt_count

ASSUME ConstantsAssumption ==
  /\ None \notin Attempts \cup ChangeRequests \cup Keys \cup Identities
  /\ IdentityKey \in [Identities -> Keys]
  /\ MaxJobAttempts \in Nat
  /\ MaxRetries \in Nat
  /\ MaxRevision \in Nat
  /\ MaxSyncAttempts \in Nat
  /\ MaxSyncClaims \in Nat

NoneGate == "no gate"      \* NULL in a gate_state column
NoRow == "no row"          \* status of a row that does not exist
NoIntent == <<>>           \* a worker that delivers no Check sync

AttemptStatus == {"queued", "running", "superseded", "published", "audit-only"}
JobStatus == {"queued", "running", "superseded", "completed", "retryable", "failed"}
TerminalJob == {"completed", "failed", "superseded"}
ReportGates == {"Passed", "Blocked", "Error"}
Gates == ReportGates \cup {"Passed with bypass"}
BypassStatus == {"active", "invalidated"}
SyncStatus == {"queued", "in_progress", "published", "failed", "superseded"}
LiveSync == {"queued", "in_progress"}
Revisions == 1..MaxRevision
\* A claimed Check sync intent: its Attempt, its standing revision, and its
\* attempt_count as the claim left it.
Intents == Attempts \X Revisions \X (1..MaxSyncClaims)

VARIABLES
  \* change_requests
  requestKey, authority, standing, gate, revision,
  \* review_attempts
  attemptCR, attemptKey, attemptStatus, identity,
  \* review_jobs
  jobStatus, retryCount,
  \* the Attempt a worker executes, and whether it recorded its Identity yet
  executing, recorded,
  \* the Check sync intent a worker delivers, and whether it already found it
  \* to be of the current standing revision
  syncing, verified,
  \* gate_decisions
  decisionGate, decisionStanding,
  \* retry_deliveries
  delivered,
  \* bypasses
  bypass,
  \* standing_check_outbox, by Attempt and standing revision
  syncStatus, syncClaims,
  \* github_review_results
  reportGate, reportBlocking, reportIdentity

crVars == <<requestKey, authority, standing, gate, revision>>
attemptVars == <<attemptCR, attemptKey, attemptStatus, identity>>
jobVars == <<jobStatus, retryCount>>
executionVars == <<executing, recorded>>
deliveryVars == <<syncing, verified>>
workerVars == <<executionVars, deliveryVars>>
decisionVars == <<decisionGate, decisionStanding>>
syncVars == <<syncStatus, syncClaims>>
reportVars == <<reportGate, reportBlocking, reportIdentity>>
vars == <<crVars, attemptVars, jobVars, workerVars, decisionVars, delivered,
          bypass, syncVars, reportVars>>

Init ==
  /\ requestKey = [c \in ChangeRequests |-> None]
  /\ authority = [c \in ChangeRequests |-> None]
  /\ standing = [c \in ChangeRequests |-> None]
  /\ gate = [c \in ChangeRequests |-> NoneGate]
  /\ revision = [c \in ChangeRequests |-> 0]
  /\ attemptCR = [a \in Attempts |-> None]
  /\ attemptKey = [a \in Attempts |-> None]
  /\ attemptStatus = [a \in Attempts |-> NoRow]
  /\ identity = [a \in Attempts |-> None]
  /\ jobStatus = [a \in Attempts |-> NoRow]
  /\ retryCount = [a \in Attempts |-> 0]
  /\ executing = [w \in Workers |-> None]
  /\ recorded = [w \in Workers |-> FALSE]
  /\ syncing = [w \in Workers |-> NoIntent]
  /\ verified = [w \in Workers |-> FALSE]
  /\ decisionGate = [a \in Attempts |-> NoneGate]
  /\ decisionStanding = [a \in Attempts |-> FALSE]
  /\ delivered = [d \in Deliveries |-> None]
  /\ bypass = [a \in Attempts |-> [f \in Findings |-> NoRow]]
  /\ syncStatus = [a \in Attempts |-> [r \in Revisions |-> NoRow]]
  /\ syncClaims = [a \in Attempts |-> [r \in Revisions |-> 0]]
  /\ reportGate = [a \in Attempts |-> NoneGate]
  /\ reportBlocking = [a \in Attempts |-> {}]
  /\ reportIdentity = [a \in Attempts |-> None]

-----------------------------------------------------------------------------
(* What the transactions compute.  An operator whose name ends in _Slip is a *)
(* mistake the code could make there; no action uses one: see "mutants".     *)

\* UPDATE gate_decisions SET standing = FALSE, for one change request.
NoStandingDecision_Slip(c) == decisionStanding
NoStandingDecision(c) ==
  [a \in Attempts |-> decisionStanding[a] /\ attemptCR[a] # c]

\* Every active bypass of the change request expires.
InvalidatedBypasses_Slip(c) == bypass
InvalidatedBypasses(c) ==
  [a \in Attempts |->
    [f \in Findings |->
      IF attemptCR[a] = c /\ bypass[a][f] = "active"
        THEN "invalidated" ELSE bypass[a][f]]]

\* The undelivered Check sync intents of one Attempt become superseded.
SupersededIntents(b) ==
  [a \in Attempts |->
    [r \in Revisions |->
      IF a = b /\ syncStatus[a][r] \in LiveSync
        THEN "superseded" ELSE syncStatus[a][r]]]

\* A new intent for revision r, after those of earlier revisions were superseded.
EnqueuedIntent(a, r) == [SupersededIntents(a) EXCEPT ![a][r] = "queued"]

\* The fingerprints of the active bypasses of an Attempt.
ActiveBypasses(a) == {f \in Findings : bypass[a][f] = "active"}

\* The blocking findings left once f is accepted too.
Remaining_Slip(a, f) == reportBlocking[a] \ {f}
Remaining(a, f) == reportBlocking[a] \ (ActiveBypasses(a) \cup {f})

\* Losing the prior Attempt is a revision; a new change request starts at 0.
RevisionAfterStart(c) ==
  IF authority[c] = None THEN revision[c] ELSE revision[c] + 1

\* Nothing stands while the new Attempt is reviewed.
StandingAfterStart_Slip(c) == standing
StandingAfterStart(c) == [standing EXCEPT ![c] = None]

\* A worker does one thing at a time.
Idle(w) == executing[w] = None /\ syncing[w] = NoIntent

\* The worker lists Attempts without a saved result; by the time it claims
\* one, only another worker can have saved a result.
MayBeListed(w, a) == reportGate[a] # NoneGate => Workers # {w}

\* Only the Attempt in authority is executed.
ClaimedStatus_Slip(a) == "running"
ClaimedStatus(a) == IF authority[attemptCR[a]] = a THEN "running" ELSE "superseded"

\* Only the newest revision of an Attempt is delivered: an intent older than
\* another live one is outdated.
Outdated_Slip(a, r) == \E other \in Revisions \ {r} : syncStatus[a][other] \in LiveSync
Outdated(a, r) == \E newer \in Revisions : newer > r /\ syncStatus[a][newer] \in LiveSync

\* What publish_if_authoritative compares before it decides.
PublicationInputsMatch(a) ==
  LET c == attemptCR[a]
  IN /\ authority[c] = a
     /\ requestKey[c] = attemptKey[a]
     /\ identity[a] = reportIdentity[a]
     /\ identity[a] # None => IdentityKey[identity[a]] = attemptKey[a]

\* A publication completes the job, whatever its lease became, unless it ended.
CompletedJob_EnumSlip(a) ==
  [jobStatus EXCEPT ![a] = IF @ \in TerminalJob THEN @ ELSE "published"]
CompletedJob_LeaseSlip(a) ==
  [jobStatus EXCEPT ![a] = IF @ = "running" THEN "completed" ELSE @]
CompletedJob_ReopenSlip(a) == [jobStatus EXCEPT ![a] = "completed"]
CompletedJob(a) ==
  [jobStatus EXCEPT ![a] = IF @ \in TerminalJob THEN @ ELSE "completed"]

-----------------------------------------------------------------------------
(* The transactions.                                                       *)

\* A webhook or a retry starts a new authoritative Attempt.  A delivery that
\* is already recorded, and a retry whose expected Attempt lost authority,
\* change nothing.
StartAuthoritativeAttempt(c, a, k, expected, d) ==
  /\ attemptStatus[a] = NoRow
  /\ d # None => delivered[d] = None
  /\ expected # None => authority[c] = expected
  /\ LET prior == authority[c] IN
     /\ prior # None => revision[c] < MaxRevision
     /\ attemptStatus' = [b \in Attempts |->
          IF b = a THEN "queued"
          ELSE IF b = prior /\ attemptStatus[b] # "audit-only" THEN "superseded"
          ELSE attemptStatus[b]]
     /\ jobStatus' = [b \in Attempts |->
          IF b = a THEN "queued"
          ELSE IF b = prior /\ jobStatus[b] = "queued" THEN "superseded"
          ELSE jobStatus[b]]
     /\ bypass' = InvalidatedBypasses(c)
     /\ syncStatus' = SupersededIntents(standing[c])
     /\ revision' = [revision EXCEPT ![c] = RevisionAfterStart(c)]
  /\ requestKey' = [requestKey EXCEPT ![c] = k]
  /\ authority' = [authority EXCEPT ![c] = a]
  /\ standing' = StandingAfterStart(c)
  /\ gate' = [gate EXCEPT ![c] = NoneGate]
  /\ decisionStanding' = NoStandingDecision(c)
  /\ attemptCR' = [attemptCR EXCEPT ![a] = c]
  /\ attemptKey' = [attemptKey EXCEPT ![a] = k]
  /\ delivered' = [e \in Deliveries |-> IF e = d THEN a ELSE delivered[e]]
  /\ UNCHANGED <<identity, retryCount, workerVars, decisionGate, syncClaims,
                 reportVars>>

\* An idle worker claims a queued job, or a running one whose lease expired,
\* and starts to execute it.  A job whose Attempt lost authority ends
\* superseded and gives no lease.
ClaimAttemptJob(w, a) ==
  /\ Idle(w)
  /\ jobStatus[a] \in {"queued", "running"}
  /\ MayBeListed(w, a)
  /\ LET expired == jobStatus[a] = "running"
         status == ClaimedStatus(a)
     IN /\ expired => retryCount[a] < MaxRetries
        /\ retryCount' = [retryCount EXCEPT ![a] = IF expired THEN @ + 1 ELSE @]
        /\ jobStatus' = [jobStatus EXCEPT ![a] = status]
        /\ attemptStatus' = [attemptStatus EXCEPT ![a] = status]
        /\ executing' = [executing EXCEPT ![w] = IF status = "running" THEN a ELSE None]
        /\ recorded' = [recorded EXCEPT ![w] = FALSE]
  /\ UNCHANGED <<crVars, attemptCR, attemptKey, identity, deliveryVars, decisionVars,
                 delivered, bypass, syncVars, reportVars>>

\* An execution raised (the pipeline, an Identity conflict, a second result):
\* its job, if still running, waits for recovery.
MarkJobRetryable(w) ==
  /\ executing[w] # None
  /\ LET a == executing[w] IN
     /\ jobStatus[a] = "running" => retryCount[a] < MaxRetries
     /\ jobStatus' = [jobStatus EXCEPT ![a] = IF @ = "running" THEN "retryable" ELSE @]
     /\ retryCount' = [retryCount EXCEPT ![a] =
          IF jobStatus[a] = "running" THEN @ + 1 ELSE @]
  /\ executing' = [executing EXCEPT ![w] = None]
  /\ UNCHANGED <<crVars, attemptVars, recorded, deliveryVars, decisionVars, delivered,
                 bypass, syncVars, reportVars>>

\* The process of a worker dies in the middle of an execution or a delivery.
CrashWorker(w) ==
  /\ ~Idle(w)
  /\ executing' = [executing EXCEPT ![w] = None]
  /\ syncing' = [syncing EXCEPT ![w] = NoIntent]
  /\ UNCHANGED <<crVars, attemptVars, jobVars, recorded, verified, decisionVars,
                 delivered, bypass, syncVars, reportVars>>

\* One recovery pass over every retryable job and the running jobs whose
\* lease is found expired: requeued, or failed once the budget is spent.
RecoverInterruptedJobs(w, expired) ==
  LET interrupted == {a \in Attempts : jobStatus[a] = "retryable"} \cup expired
      count(a) == IF a \in expired THEN retryCount[a] + 1 ELSE retryCount[a]
  IN /\ Idle(w)
     /\ interrupted # {}
     /\ \A a \in expired : jobStatus[a] = "running" /\ retryCount[a] < MaxRetries
     /\ jobStatus' = [a \in Attempts |->
          IF a \notin interrupted THEN jobStatus[a]
          ELSE IF count(a) >= MaxJobAttempts THEN "failed" ELSE "queued"]
     /\ retryCount' = [a \in Attempts |-> count(a)]
     /\ UNCHANGED <<crVars, attemptVars, workerVars, decisionVars, delivered, bypass,
                    syncVars, reportVars>>

\* An execution binds the Attempt to the Identity its review derived; another
\* Identity than the one already bound is a conflict (MarkJobRetryable).
RecordReviewIdentity(w, i) ==
  /\ executing[w] # None
  /\ ~recorded[w]
  /\ LET a == executing[w] IN
     /\ IdentityKey[i] = attemptKey[a]
     /\ identity[a] \in {None, i}
     /\ identity' = [identity EXCEPT ![a] = i]
  /\ recorded' = [recorded EXCEPT ![w] = TRUE]
  /\ UNCHANGED <<crVars, attemptCR, attemptKey, attemptStatus, jobVars, executing,
                 deliveryVars, decisionVars, delivered, bypass, syncVars, reportVars>>

\* An execution saves its report and is over.  The report carries the
\* Identity it recorded, or none when no merge candidate could be built, and
\* then it is an Error.  The result row is inserted once: a second insert is
\* a key violation (MarkJobRetryable).
SaveReviewResult(w, g, blocking) ==
  /\ executing[w] # None
  /\ ~recorded[w] => g = "Error"
  /\ (blocking # {}) <=> (g = "Blocked")
  /\ LET a == executing[w] IN
     /\ reportGate[a] = NoneGate
     /\ reportGate' = [reportGate EXCEPT ![a] = g]
     /\ reportBlocking' = [reportBlocking EXCEPT ![a] = blocking]
     /\ reportIdentity' = [reportIdentity EXCEPT ![a] =
          IF recorded[w] THEN identity[a] ELSE None]
  /\ executing' = [executing EXCEPT ![w] = None]
  /\ UNCHANGED <<crVars, attemptVars, jobVars, recorded, deliveryVars, decisionVars,
                 delivered, bypass, syncVars>>

\* The saved report of a running, authoritative Attempt becomes the standing
\* decision.
PublishIfAuthoritative(w, a) ==
  LET c == attemptCR[a]
  IN /\ Idle(w)
     /\ reportGate[a] # NoneGate
     /\ attemptStatus[a] = "running"
     /\ PublicationInputsMatch(a)
     /\ revision[c] < MaxRevision
     /\ decisionStanding' = [NoStandingDecision(c) EXCEPT ![a] = TRUE]
     /\ decisionGate' = [decisionGate EXCEPT ![a] = reportGate[a]]
     /\ standing' = [standing EXCEPT ![c] = a]
     /\ gate' = [gate EXCEPT ![c] = reportGate[a]]
     /\ revision' = [revision EXCEPT ![c] = @ + 1]
     /\ attemptStatus' = [attemptStatus EXCEPT ![a] = "published"]
     /\ jobStatus' = CompletedJob(a)
     /\ UNCHANGED <<requestKey, authority, attemptCR, attemptKey, identity, retryCount,
                    workerVars, delivered, bypass, syncVars, reportVars>>

\* The saved report of an Attempt that no longer matches is kept for audit.
PublishAuditOnly(w, a) ==
  /\ Idle(w)
  /\ reportGate[a] # NoneGate
  /\ attemptStatus[a] # "audit-only"
  /\ ~PublicationInputsMatch(a)
  /\ attemptStatus' = [attemptStatus EXCEPT ![a] = "audit-only"]
  /\ jobStatus' = CompletedJob(a)
  /\ UNCHANGED <<crVars, attemptCR, attemptKey, identity, retryCount, workerVars,
                 decisionVars, delivered, bypass, syncVars, reportVars>>

\* The outbox of a saved report spent its delivery budget: its job fails.
FinalizeAttemptJob(w, a) ==
  /\ Idle(w)
  /\ reportGate[a] # NoneGate
  /\ jobStatus[a] \notin TerminalJob
  /\ jobStatus' = [jobStatus EXCEPT ![a] = "failed"]
  /\ UNCHANGED <<crVars, attemptVars, retryCount, workerVars, decisionVars,
                 delivered, bypass, syncVars, reportVars>>

\* The standing decision is withdrawn (target branch pushed, converted to
\* draft, base retargeted).  gate_decisions.standing is left as it was.
InvalidateStandingDecision(c) ==
  /\ authority[c] # None
  /\ revision[c] < MaxRevision
  /\ standing' = [standing EXCEPT ![c] = None]
  /\ gate' = [gate EXCEPT ![c] = NoneGate]
  /\ revision' = [revision EXCEPT ![c] = @ + 1]
  /\ bypass' = InvalidatedBypasses(c)
  /\ syncStatus' = SupersededIntents(standing[c])
  /\ UNCHANGED <<requestKey, authority, attemptVars, jobVars, workerVars, decisionVars,
                 delivered, syncClaims, reportVars>>

\* A maintainer accepts the risk of one blocking finding of the standing
\* Attempt.  Accepting the last one turns the gate; every acceptance is a
\* new revision with a Check sync intent of its own.
ApplyFindingBypass(c, a, f) ==
  /\ authority[c] = a
  /\ standing[c] = a
  /\ identity[a] # None
  /\ identity[a] = reportIdentity[a]
  /\ reportGate[a] = "Blocked"
  /\ f \in reportBlocking[a]
  /\ bypass[a][f] = NoRow
  /\ gate[c] = "Blocked"
  /\ revision[c] < MaxRevision
  /\ bypass' = [bypass EXCEPT ![a][f] = "active"]
  /\ LET remaining == Remaining(a, f)
         newGate == IF remaining = {} THEN "Passed with bypass" ELSE "Blocked"
     IN /\ gate' = [gate EXCEPT ![c] = newGate]
        /\ decisionGate' = [decisionGate EXCEPT ![a] =
             IF remaining = {} /\ decisionStanding[a] THEN newGate ELSE @]
  /\ revision' = [revision EXCEPT ![c] = @ + 1]
  /\ syncStatus' = EnqueuedIntent(a, revision[c] + 1)
  /\ UNCHANGED <<requestKey, authority, standing, attemptVars, jobVars, workerVars,
                 decisionStanding, delivered, syncClaims, reportVars>>

\* An idle worker claims a queued sync intent whose backoff elapsed, or one in
\* progress whose lease expired; an outdated one is superseded instead.
ClaimStandingCheckSync(w, a, r) ==
  /\ Idle(w)
  /\ syncStatus[a][r] \in LiveSync
  /\ IF Outdated(a, r)
       THEN /\ syncStatus' = [syncStatus EXCEPT ![a][r] = "superseded"]
            /\ UNCHANGED <<deliveryVars, syncClaims>>
       ELSE /\ syncClaims[a][r] < MaxSyncClaims
            /\ syncStatus' = [syncStatus EXCEPT ![a][r] = "in_progress"]
            /\ syncClaims' = [syncClaims EXCEPT ![a][r] = @ + 1]
            /\ syncing' = [syncing EXCEPT ![w] = <<a, r, syncClaims[a][r] + 1>>]
            /\ verified' = [verified EXCEPT ![w] = FALSE]
  /\ UNCHANGED <<crVars, attemptVars, jobVars, executionVars, decisionVars, delivered,
                 bypass, reportVars>>

\* Before it touches GitHub the worker reads the standing decision: the intent
\* of a revision that passed ends superseded.  Revisions never come back, so
\* reading and marking can be one step.
VerifyStandingCheckSync(w) ==
  /\ syncing[w] # NoIntent
  /\ ~verified[w]
  /\ LET a == syncing[w][1]
         r == syncing[w][2]
     IN IF standing[attemptCR[a]] = a /\ revision[attemptCR[a]] = r
          THEN /\ verified' = [verified EXCEPT ![w] = TRUE]
               /\ UNCHANGED <<syncing, syncStatus>>
          ELSE /\ syncStatus' = [syncStatus EXCEPT ![a][r] = "superseded"]
               /\ syncing' = [syncing EXCEPT ![w] = NoIntent]
               /\ UNCHANGED verified
  /\ UNCHANGED <<crVars, attemptVars, jobVars, executionVars, decisionVars, delivered,
                 bypass, syncClaims, reportVars>>

\* The worker writes how the delivery ended, whatever the row became in the
\* meantime: published, or after an error queued again or failed once the
\* budget its claim counted is spent.
MarkStandingCheckSync(w, s) ==
  /\ syncing[w] # NoIntent
  /\ LET a == syncing[w][1]
         r == syncing[w][2]
         claims == syncing[w][3]
     IN /\ s = "published" => verified[w]
        /\ s = "queued" => claims < MaxSyncAttempts
        /\ s = "failed" => claims >= MaxSyncAttempts
        /\ syncStatus' = [syncStatus EXCEPT ![a][r] = s]
  /\ syncing' = [syncing EXCEPT ![w] = NoIntent]
  /\ UNCHANGED <<crVars, attemptVars, jobVars, executionVars, verified, decisionVars,
                 delivered, bypass, syncClaims, reportVars>>

-----------------------------------------------------------------------------
Start ==
  \E c \in ChangeRequests, a \in Attempts, k \in Keys,
     expected \in Attempts \cup {None}, d \in Deliveries \cup {None} :
    StartAuthoritativeAttempt(c, a, k, expected, d)
Claim == \E w \in Workers, a \in Attempts : ClaimAttemptJob(w, a)
Retryable == \E w \in Workers : MarkJobRetryable(w)
Crash == \E w \in Workers : CrashWorker(w)
Recover == \E w \in Workers, expired \in SUBSET Attempts : RecoverInterruptedJobs(w, expired)
RecordIdentity == \E w \in Workers, i \in Identities : RecordReviewIdentity(w, i)
SaveResult ==
  \E w \in Workers, g \in ReportGates, blocking \in SUBSET Findings :
    SaveReviewResult(w, g, blocking)
Publish == \E w \in Workers, a \in Attempts : PublishIfAuthoritative(w, a)
Audit == \E w \in Workers, a \in Attempts : PublishAuditOnly(w, a)
Finalize == \E w \in Workers, a \in Attempts : FinalizeAttemptJob(w, a)
Invalidate == \E c \in ChangeRequests : InvalidateStandingDecision(c)
Bypass ==
  \E c \in ChangeRequests, a \in Attempts, f \in Findings : ApplyFindingBypass(c, a, f)
ClaimSync == \E w \in Workers, a \in Attempts, r \in Revisions : ClaimStandingCheckSync(w, a, r)
VerifySync == \E w \in Workers : VerifyStandingCheckSync(w)
MarkSync ==
  \E w \in Workers, s \in {"published", "queued", "failed"} : MarkStandingCheckSync(w, s)

Next ==
  \/ Start \/ Claim \/ Retryable \/ Crash \/ Recover \/ RecordIdentity \/ SaveResult
  \/ Publish \/ Audit \/ Finalize \/ Invalidate \/ Bypass \/ ClaimSync
  \/ VerifySync \/ MarkSync

Spec == Init /\ [][Next]_vars
=============================================================================
