--------------------------- MODULE CheckPublication ---------------------------
(***************************************************************************)
(* How the decision on one Attempt reaches its GitHub Check:               *)
(* platform/github/publication.py and durable.py over the tables of        *)
(* persistence.py.                                                         *)
(*                                                                         *)
(* An execution announces itself: the Check shows that it is in progress.  *)
(* Its saved report has a terminal publication (publication_outbox): it is *)
(* enqueued, claimed, decided by the store, sent to GitHub, marked.  Each  *)
(* accepted risk adds a sync intent (standing_check_outbox) for its        *)
(* standing revision: claimed, verified, sent, marked.  All three write    *)
(* the same Check, and every arrow is an await: the store changes, GitHub  *)
(* or the database fails, or the process dies in between.                  *)
(*                                                                         *)
(* The store is the one of AttemptStore, seen from one Attempt: whether it *)
(* is in authority, whether its decision stands, the risks accepted on it, *)
(* and the revision; its gate follows from them                            *)
(* (GateIsReportPlusAcceptedRisks).  Identities match: AttemptStore has    *)
(* the case where they do not.  The immediate retry of execute_attempt is  *)
(* no step here: the failure it follows has just set a backoff that its    *)
(* claim respects.                                                         *)
(***************************************************************************)
EXTENDS Naturals

CONSTANTS
  Findings,       \* the blocking findings of the report, if it is Blocked
  Workers,        \* durable worker loops
  MaxDeliveries,  \* MAX_PUBLICATION_ATTEMPTS
  MaxRevision,    \* bound of the model on the standing revision
  MaxErrors,      \* bound of the model on the failures of GitHub and the database
  MaxCrashes      \* bound of the model on the workers' crashes

ASSUME BoundsAssumption ==
  /\ MaxDeliveries \in Nat \ {0}
  /\ MaxRevision \in Nat \ {0}
  /\ MaxErrors \in Nat
  /\ MaxCrashes \in Nat

NoRow == "none"             \* a row that does not exist, a status never written
\* What the Check shows until a report reaches it.
NotConcluded == [gate |-> "open", marked |-> {}]

ReportGates == {"Passed", "Blocked"}  \* "Error" is delivered as "Passed" is
Gates == ReportGates \cup {"PassedWithBypass"}
\* Where a worker is between two awaits.
Steps == {"idle", "announce", "review", "enqueue", "claim", "claim_enqueued", "decide", "patch", "mark",
          "verify", "read_bypasses"}
PublicationStatus == {"queued", "in_progress", "published", "failed", "superseded"}
LiveSync_Slip == {"queued"}
LiveSync == {"queued", "in_progress"}
Revisions == 1..MaxRevision
\* What a Check shows: a gate, and the findings marked as accepted risks.
Contents == [gate : Gates, marked : SUBSET Findings]

VARIABLES
  \* the store: the report once saved, the status of the Attempt and whether
  \* its job is over, its decision and what happened to it
  report, saved, attemptStatus, jobOver, authoritative, standing, accepted, revision,
  \* publication_outbox: status, attempt_count, whether an in-progress lease
  \* still runs; review_attempts.publication_status
  outbox, deliveries, leased, publicationStatus,
  \* standing_check_outbox, by standing revision
  syncStatus, syncClaims,
  \* a worker: where it is, what it delivers, the intent it claimed with its
  \* attempt_count, the content it sends, the status it will write
  pc, task, intent, claims, payload, mark,
  \* GitHub, and what the bounds count
  check, errors, crashes

storeVars == <<report, saved, attemptStatus, jobOver, authoritative, standing, accepted,
               revision>>
outboxVars == <<outbox, deliveries, leased, publicationStatus>>
syncVars == <<syncStatus, syncClaims>>
workVars == <<task, intent, claims, payload, mark>>
worldVars == <<check, errors, crashes>>
vars == <<storeVars, outboxVars, syncVars, pc, workVars, worldVars>>

Init ==
  /\ report \in ReportGates
  /\ saved = FALSE
  /\ attemptStatus = "running"
  /\ jobOver = FALSE
  /\ authoritative = TRUE
  /\ standing = FALSE
  /\ accepted = {}
  /\ revision = 0
  /\ outbox = NoRow
  /\ deliveries = 0
  /\ leased = FALSE
  /\ publicationStatus = NoRow
  /\ syncStatus = [r \in Revisions |-> NoRow]
  /\ syncClaims = [r \in Revisions |-> 0]
  /\ pc = [w \in Workers |-> "idle"]
  /\ task = [w \in Workers |-> "first"]
  /\ intent = [w \in Workers |-> 0]
  /\ claims = [w \in Workers |-> 0]
  /\ payload = [w \in Workers |-> [gate |-> report, marked |-> {}]]
  /\ mark = [w \in Workers |-> "published"]
  /\ check = NotConcluded
  /\ errors = 0
  /\ crashes = 0

-----------------------------------------------------------------------------
(* What the steps compute.  An operator whose name ends in _Slip is a        *)
(* mistake the code could make there; no action uses one: see "mutants".     *)

\* standing_gate_state, while the decision stands.
StandingGate ==
  IF report = "Blocked" /\ Findings \subseteq accepted THEN "PassedWithBypass" ELSE report

\* claim_publication takes the row: claimable, or in progress beyond its
\* lease, with budget left.
Claimable_BudgetSlip == outbox \in {"queued", "failed"} \/ (outbox = "in_progress" /\ ~leased)
Claimable ==
  /\ outbox \in {"queued", "failed"} \/ (outbox = "in_progress" /\ ~leased)
  /\ deliveries < MaxDeliveries

\* list_pending_publications: also a saved result without a row.
Pending ==
  /\ saved
  /\ (outbox = NoRow /\ publicationStatus # "published") \/ Claimable

\* retry_outbox has nothing to do when the claim failed and a status is written.
NothingToDo == publicationStatus \in {"published", "queued", "failed"}

\* Undelivered intents are superseded by a new one, and by losing the decision.
SupersededSyncs == [r \in Revisions |-> IF syncStatus[r] \in LiveSync THEN "superseded" ELSE syncStatus[r]]
EnqueuedSync == [SupersededSyncs EXCEPT ![revision + 1] = "queued"]

\* The worker's next step once its publication is claimed.
AfterClaim_Slip == "patch"
AfterClaim == "decide"

\* An intent is of the current standing decision.
IsCurrent(r) == standing /\ revision = r

\* What is written after GitHub answered: superseded publications are never
\* retried, failed ones are, and a sync whose claims spent the budget is not.
MarkAfter(w, ok) ==
  IF task[w] = "sync"
    THEN IF ok THEN "published" ELSE IF claims[w] >= MaxDeliveries THEN "failed" ELSE "queued"
    ELSE IF mark[w] = "superseded" \/ ok THEN mark[w] ELSE "failed"

Goto(w, from, to) == pc[w] = from /\ pc' = [pc EXCEPT ![w] = to]

\* A call to GitHub or the database fails.
SpendError == errors < MaxErrors /\ errors' = errors + 1

-----------------------------------------------------------------------------
(* The execution.                                                          *)

\* A pass lists the Attempts without a result and claims their jobs: what
\* comes of an expired lease or a lost authority is in AttemptStore.
Execute(w) ==
  /\ Goto(w, "idle", "announce")
  /\ ~saved /\ ~jobOver /\ authoritative
  /\ UNCHANGED <<storeVars, outboxVars, syncVars, workVars, worldVars>>

\* The Check goes back to in progress, whoever wrote it before.  An execution
\* that cannot announce itself fails, its update applied or not.
Announce(w) ==
  /\ \/ /\ Goto(w, "announce", "review")
        /\ check' = NotConcluded
        /\ UNCHANGED errors
     \/ /\ Goto(w, "announce", "idle")
        /\ SpendError
        /\ check' \in {check, NotConcluded}
  /\ UNCHANGED <<storeVars, outboxVars, syncVars, workVars, crashes>>

ReviewFails(w) ==
  /\ Goto(w, "review", "idle")
  /\ UNCHANGED <<storeVars, outboxVars, syncVars, workVars, worldVars>>

\* The report is saved; then the terminal event is recorded.  If that fails
\* the execution has failed, its report saved, and the scan will publish it.
SaveResult(w) ==
  /\ \/ Goto(w, "review", "enqueue") /\ UNCHANGED errors
     \/ Goto(w, "review", "idle") /\ SpendError
  /\ saved' = TRUE
  /\ task' = [task EXCEPT ![w] = "first"]
  /\ UNCHANGED <<report, attemptStatus, jobOver, authoritative, standing, accepted, revision,
                 outboxVars, syncVars, intent, claims, payload, mark, check, crashes>>

-----------------------------------------------------------------------------
(* The terminal publication.                                               *)

\* The scan found the publication pending: a retry begins.
Scan(w) ==
  /\ Goto(w, "idle", "claim")
  /\ Pending
  /\ task' = [task EXCEPT ![w] = "retry"]
  /\ UNCHANGED <<storeVars, outboxVars, syncVars, intent, claims, payload, mark, worldVars>>

Enqueue(w) ==
  /\ Goto(w, "enqueue", "claim_enqueued")
  /\ outbox' = IF outbox = "published" THEN outbox ELSE "queued"
  /\ UNCHANGED <<storeVars, deliveries, leased, publicationStatus, syncVars, workVars, worldVars>>

\* The claim itself, and where the worker goes when it gets the row or not.
Claim(w, from, otherwise) ==
  /\ IF Claimable
       THEN /\ Goto(w, from, AfterClaim)
            /\ outbox' = "in_progress"
            /\ deliveries' = deliveries + 1
            /\ leased' = TRUE
       ELSE /\ Goto(w, from, otherwise)
            /\ UNCHANGED <<outbox, deliveries, leased>>
  /\ UNCHANGED <<storeVars, publicationStatus, syncVars, workVars, worldVars>>

\* A retry that cannot claim stops, or takes it for a saved result that was
\* never enqueued.
ClaimPending(w) == Claim(w, "claim", IF NothingToDo THEN "idle" ELSE "enqueue")

\* What was just enqueued is claimed; the first delivery goes on even if not.
ClaimEnqueued(w) ==
  Claim(w, "claim_enqueued", IF task[w] = "first" THEN AfterClaim ELSE "idle")

\* publish_if_authoritative: the decision is made once, found made, refused
\* because what stands is no longer the report's gate, or kept for audit.
Decide(w) ==
  /\ IF ~authoritative
       THEN /\ Goto(w, "decide", "patch")
            /\ attemptStatus' = "audit-only"
            /\ jobOver' = TRUE
            /\ mark' = [mark EXCEPT ![w] = "superseded"]
            /\ UNCHANGED <<standing, revision>>
       ELSE IF attemptStatus = "running"
       THEN /\ Goto(w, "decide", "patch")
            /\ attemptStatus' = "published"
            /\ jobOver' = TRUE
            /\ standing' = TRUE
            /\ revision' = revision + 1
            /\ mark' = [mark EXCEPT ![w] = "published"]
       ELSE /\ IF standing /\ StandingGate = report
                 THEN /\ Goto(w, "decide", "patch")
                      /\ mark' = [mark EXCEPT ![w] = "published"]
                 ELSE /\ Goto(w, "decide", "mark")
                      /\ mark' = [mark EXCEPT ![w] = "failed"]
            /\ UNCHANGED <<attemptStatus, jobOver, standing, revision>>
  /\ payload' = [payload EXCEPT ![w] = [gate |-> report, marked |-> {}]]
  /\ UNCHANGED <<report, saved, authoritative, accepted, outboxVars, syncVars, task, intent,
                 claims, worldVars>>

\* The transaction failed: the claimed publication is released.
DecideFails(w) ==
  /\ Goto(w, "decide", "mark")
  /\ SpendError
  /\ mark' = [mark EXCEPT ![w] = "failed"]
  /\ UNCHANGED <<storeVars, outboxVars, syncVars, task, intent, claims, payload, check, crashes>>

\* GitHub updates the Check, or fails: before or after it applied the update.
Patch(w) ==
  /\ Goto(w, "patch", "mark")
  /\ \E ok \in BOOLEAN :
       /\ IF ok
            THEN check' = payload[w] /\ errors' = errors
            ELSE /\ SpendError
                 /\ check' \in {check, payload[w]}
       /\ mark' = [mark EXCEPT ![w] = MarkAfter(w, ok)]
  /\ UNCHANGED <<storeVars, outboxVars, syncVars, task, intent, claims, payload, crashes>>

\* The outcome is written whatever the row became in the meantime.
MarkPublication(w) ==
  /\ task[w] # "sync"
  /\ Goto(w, "mark", "idle")
  /\ outbox' = mark[w]
  /\ publicationStatus' = mark[w]
  /\ UNCHANGED <<storeVars, deliveries, leased, syncVars, workVars, worldVars>>

\* Writing the outcome fails: whatever it was, the publication is released as
\* failed; if that fails too, its row stays in progress.
MarkFails(w) ==
  /\ task[w] # "sync"
  /\ SpendError
  /\ IF mark[w] = "failed"
       THEN Goto(w, "mark", "idle") /\ UNCHANGED mark
       ELSE Goto(w, "mark", "mark") /\ mark' = [mark EXCEPT ![w] = "failed"]
  /\ UNCHANGED <<storeVars, outboxVars, syncVars, task, intent, claims, payload, check, crashes>>

\* list_exhausted_publications.
Exhausted_Slip == outbox = "failed" /\ deliveries > MaxDeliveries
Exhausted == outbox = "failed" /\ deliveries >= MaxDeliveries

\* A publication that spent its budget finalizes the job.
FinalizeExhausted(w) ==
  /\ pc[w] = "idle"
  /\ Exhausted
  /\ ~jobOver
  /\ jobOver' = TRUE
  /\ UNCHANGED <<report, saved, attemptStatus, authoritative, standing, accepted, revision,
                 outboxVars, syncVars, pc, workVars, worldVars>>

-----------------------------------------------------------------------------
(* The standing Check sync.                                                *)

\* An intent in progress is taken over once its lease expired (any time).
ClaimSync(w, r) ==
  /\ syncStatus[r] \in LiveSync
  /\ pc[w] = "idle"
  /\ IF \E newer \in Revisions : newer > r /\ syncStatus[newer] \in LiveSync
       THEN /\ syncStatus' = [syncStatus EXCEPT ![r] = "superseded"]
            /\ UNCHANGED <<syncClaims, pc, task, intent, claims>>
       ELSE /\ syncStatus' = [syncStatus EXCEPT ![r] = "in_progress"]
            /\ syncClaims' = [syncClaims EXCEPT ![r] = @ + 1]
            /\ pc' = [pc EXCEPT ![w] = "verify"]
            /\ task' = [task EXCEPT ![w] = "sync"]
            /\ intent' = [intent EXCEPT ![w] = r]
            /\ claims' = [claims EXCEPT ![w] = syncClaims[r] + 1]
  /\ UNCHANGED <<storeVars, outboxVars, payload, mark, worldVars>>

\* The worker reads the decision and its gate ...
VerifySync(w) ==
  /\ IF IsCurrent(intent[w])
       THEN /\ Goto(w, "verify", "read_bypasses")
            /\ payload' = [payload EXCEPT ![w].gate = StandingGate]
            /\ UNCHANGED mark
       ELSE /\ Goto(w, "verify", "mark")
            /\ mark' = [mark EXCEPT ![w] = "superseded"]
            /\ UNCHANGED payload
  /\ UNCHANGED <<storeVars, outboxVars, syncVars, task, intent, claims, worldVars>>

\* ... and then the risks accepted by now.
ReadBypasses_Slip(w) ==
  /\ Goto(w, "read_bypasses", "patch")
  /\ payload' = [payload EXCEPT ![w].marked = {}]
  /\ UNCHANGED <<storeVars, outboxVars, syncVars, task, intent, claims, mark, worldVars>>
ReadBypasses(w) ==
  /\ Goto(w, "read_bypasses", "patch")
  /\ payload' = [payload EXCEPT ![w].marked = accepted]
  /\ UNCHANGED <<storeVars, outboxVars, syncVars, task, intent, claims, mark, worldVars>>

MarkSync(w) ==
  /\ task[w] = "sync"
  /\ Goto(w, "mark", "idle")
  /\ syncStatus' = [syncStatus EXCEPT ![intent[w]] = mark[w]]
  /\ UNCHANGED <<storeVars, outboxVars, syncClaims, workVars, worldVars>>

-----------------------------------------------------------------------------
(* What happens meanwhile.                                                 *)

\* The last revision of the bound is kept for the report's own decision.
RevisionLeft == revision + 1 < MaxRevision

\* A maintainer accepts the risk of one more finding.
Bypass(f) ==
  /\ authoritative /\ standing
  /\ report = "Blocked" /\ f \notin accepted
  /\ RevisionLeft
  /\ accepted' = accepted \cup {f}
  /\ revision' = revision + 1
  /\ syncStatus' = EnqueuedSync
  /\ UNCHANGED <<report, saved, attemptStatus, jobOver, authoritative, standing, outboxVars,
                 syncClaims, pc, workVars, worldVars>>

\* The decision is withdrawn, or another Attempt takes authority: a job that
\* recovery had queued ends with it.
LoseDecision(takenOver) ==
  /\ authoritative
  /\ RevisionLeft
  /\ authoritative' = ~takenOver
  /\ attemptStatus' = IF takenOver THEN "superseded" ELSE attemptStatus
  /\ jobOver' \in {jobOver, jobOver \/ takenOver}
  /\ standing' = FALSE
  /\ accepted' = {}
  /\ revision' = revision + 1
  /\ syncStatus' = SupersededSyncs
  /\ UNCHANGED <<report, saved, outboxVars, syncClaims, pc, workVars, worldVars>>

\* Recovery finds the job's lease expired and its own budget spent.
FailJob ==
  /\ saved /\ ~jobOver
  /\ jobOver' = TRUE
  /\ UNCHANGED <<report, saved, attemptStatus, authoritative, standing, accepted, revision,
                 outboxVars, syncVars, pc, workVars, worldVars>>

ExpireLease ==
  /\ leased
  /\ leased' = FALSE
  /\ UNCHANGED <<storeVars, outbox, deliveries, publicationStatus, syncVars, pc, workVars,
                 worldVars>>

Crash(w) ==
  /\ pc[w] # "idle"
  /\ crashes < MaxCrashes
  /\ crashes' = crashes + 1
  /\ pc' = [pc EXCEPT ![w] = "idle"]
  /\ UNCHANGED <<storeVars, outboxVars, syncVars, workVars, check, errors>>

-----------------------------------------------------------------------------
\* Whatever a busy worker does next.
Continue(w) ==
  \/ Announce(w) \/ ReviewFails(w) \/ SaveResult(w)
  \/ Enqueue(w) \/ ClaimPending(w) \/ ClaimEnqueued(w) \/ Decide(w) \/ DecideFails(w)
  \/ Patch(w) \/ MarkPublication(w) \/ MarkFails(w)
  \/ VerifySync(w) \/ ReadBypasses(w) \/ MarkSync(w)
ClaimSomeSync(w) == \E r \in Revisions : ClaimSync(w, r)

Next ==
  \/ \E w \in Workers :
       \/ Execute(w) \/ Scan(w) \/ FinalizeExhausted(w) \/ ClaimSomeSync(w)
       \/ Continue(w) \/ Crash(w)
  \/ \E f \in Findings : Bypass(f)
  \/ \E takenOver \in BOOLEAN : LoseDecision(takenOver)
  \/ FailJob
  \/ ExpireLease

\* A worker never stops between two awaits, and every pass of run_forever both
\* claims Check syncs and scans the publications: neither starves the other.
\* Leases expire.  Nobody has to execute, accept or withdraw anything.
Fairness ==
  /\ WF_vars(ExpireLease)
  /\ \A w \in Workers :
       /\ WF_vars(Continue(w))
       /\ SF_vars(Scan(w))
       /\ SF_vars(FinalizeExhausted(w))
       /\ SF_vars(ClaimSomeSync(w))

Spec == Init /\ [][Next]_vars /\ Fairness
=============================================================================
