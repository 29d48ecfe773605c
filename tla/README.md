# Verification of Worktree Review

Worktree Review merges a pull request in a disposable Git worktree, lets models review the merge
along several dimensions, and turns the findings into one gate decision. The GitHub App publishes
that decision as a Check; a local web runtime and a command line run the same pipeline without
GitHub. What can silently go wrong is the part that spans several actors: one decision per pull request that
has to survive pushes, retries, crashes, leases and three writers of one GitHub Check; deliveries that
arrive twice and out of order; a report that must not pass what was never shown to a model; a
snapshot of a worktree that somebody is editing; trusted files that change between the moment they
are registered, checked and used. Each of these is a module below.

Paths are relative to the repository; `wr/` abbreviates `src/worktree_review/`.

- [1. The system](#1-the-system)
- [2. Modules](#2-modules)
- [3. AttemptStore: the authoritative state](#3-attemptstore-the-authoritative-state)
- [4. CheckPublication: from the decision to the Check](#4-checkpublication-from-the-decision-to-the-check)
- [5. LockOrder: the locks of the transactions](#5-lockorder-the-locks-of-the-transactions)
- [6. TriggerDelivery: from a webhook to a prepared Attempt](#6-triggerdelivery-from-a-webhook-to-a-prepared-attempt)
- [7. LocalRuns: the local runtime](#7-localruns-the-local-runtime)
- [8. ReviewPipeline: one review](#8-reviewpipeline-one-review)
- [9. WorktreeSnapshot: the visible worktree](#9-worktreesnapshot-the-visible-worktree)
- [10. PolicyRegistry: trusted files](#10-policyregistry-trusted-files)
- [11. Runs](#11-runs)
- [12. Proofs](#12-proofs)
- [13. Findings and divergences](#13-findings-and-divergences)
- [14. Plan](#14-plan)
- [15. Not modelled](#15-not-modelled)

## 1. The system

| Component | Source | State | Operations | What makes it correct |
|---|---|---|---|---|
| Authoritative Attempt store | `wr/server/state.py` (`PostgresStateStore`) | `change_requests`, `review_attempts`, `review_jobs`, `gate_decisions`, `retry_deliveries`, `bypasses`, `standing_check_outbox` | start, claim, fail, recover, record Identity, publish, finalize, invalidate, bypass, claim and mark Check syncs | one decision per change request, of the Attempt in authority; revisions count its changes; jobs end once; risks expire with the decision they were accepted on |
| Review result and publication store | `wr/platform/github/persistence.py`, `snapshot.py` | `github_review_results`, `publication_outbox`, `review_attempts.publication_status`, execution snapshots, Check run ids, webhook deliveries, `review_events` | save, enqueue, claim, mark, list pending, list exhausted, list recoverable, record deliveries | every saved result is delivered, superseded or failed within its budget, and only once |
| Durable worker | `wr/platform/github/durable.py`, `worker.py` | nothing of its own: it polls the tables | `run_forever`: recover, execute, scan publications, sync Checks | after a crash between any two awaits the scans find what is left |
| Check publication | `wr/platform/github/publication.py`, `checks.py` | the Check at GitHub | `publish_terminal`, `retry_outbox`, `deliver_standing_check_sync` | the Check never runs ahead of the store and ends up showing the decision that stands |
| GitHub triggers | `wr/platform/github/webhooks.py`, `triggers.py`, `comments.py`, `wr/server/app.py` | webhook deliveries | opened, synchronize, ready, draft, base changes, pushes to the target | a redelivery repeats no effect; an Attempt that was started gets its Check, once |
| Retry coordinator | `wr/platform/github/retry.py`, `authz.py` | retry deliveries | authorized retry of the Attempt in authority | at most one new Attempt per delivery, only if nothing newer took authority |
| Bypass coordinator | `wr/platform/github/bypass.py` | audit of refusals | accept the risk of one finding | only what a maintainer saw is accepted |
| GitHub App runtime | `wr/platform/github/runtime.py`, `tokens.py`, `mirrors.py`, `mapping.py` | token cache, repository mirrors | wiring, tokens, clone and fetch | no stale token, no half mirror |
| Audit log | `wr/server/audit.py` | `audit_events` | append, sanitize | one row per state change |
| Review pipeline | `wr/core/pipeline.py`, `dimension.py`, `provider.py`, `providers/` | budget, stage outcomes of one run | resolve, merge, context, dimensions, gate | every stage ends with one outcome and nothing runs past a budget |
| Gate and findings | `wr/core/gate.py`, `findings.py`, `report.py` | none (functions) | verify, deduplicate, evaluate | Blocked exactly when an enforced finding is severe and evident enough; missing reviews are Errors |
| Merge candidate and worktree | `wr/core/git.py`, `candidate.py`, `review_worktree.py`, `identity.py`, `context.py` | Git objects, a temporary worktree | merge, classify, clean up | the candidate is the one of the Review Identity |
| Policies and configuration | `wr/core/policy.py`, `config.py`, `wr/platform/github/frozen_policy.py` | none (documents) | validate, hash, resolve | an Attempt is reviewed under the policy it was frozen with |
| Review events and projections | `wr/application/` | events of an Attempt, numbered | record, project | gapless numbers, one terminal event |
| Local web runtime | `wr/platform/web/runtime.py`, `sse.py`, `worker.py`, `local_store.py` | SQLite rows, a queue, subscriber buffers | create, run, recover, stream | every run ends, and every stream ends with it |
| Web registry | `wr/platform/web/registry.py`, `provider_resolution.py` | trusted policies and providers on disk | read, write under a lock with a fingerprint | a write never hides another one |
| Web API and authentication | `wr/platform/web/api.py`, `presenters.py`, `authentication.py`, `security.py` | sessions, login attempts | handlers | views of the other components |
| Command line | `wr/cli.py`, `wr/platform/cli/` | none | one run of the pipeline | exit code follows the gate |
| Session insight | `wr/platform/session_insight/` | a journal on disk | probe, append | best effort, never read by a review |
| Schemas, prompts | `wr/schemas`, `wr/prompts` | static data | | |
| Frontend | `frontend/src` | the last event a page has, its reconnections | follow the events of an Attempt; show the API's data | a page misses no event |

How they interact. A webhook (or a retry) makes the **triggers** start an Attempt in the **store**,
freeze its policy and refs as a snapshot, and create its queued Check. The **durable worker** lists
Attempts with a queued job, claims one, runs the **pipeline** on a **mirror** and a **worktree**,
saves the result, and hands it to **Check publication**, which asks the store to publish it and then
updates the Check. A maintainer's bypass goes through the **bypass coordinator** into the store,
which enqueues a Check sync that the worker delivers. All of them share only PostgreSQL; every arrow
is an `await`, so another arrow may come in between, the process may die there, and GitHub may fail.

What is hard:

- *Authority changes under a running execution.* A push starts a new Attempt while the old one is
  still reviewed, publishing or being retried.
- *Leases.* A job lease lasts 30 minutes, the lease of a publication or of a Check sync 2 minutes, and
  nothing renews them. A slow worker is never told that it lost one.
- *Crashes between saving, enqueueing, claiming, deciding, patching and marking*, each of which is
  its own transaction or request.
- *Three writers of one Check*: an execution announces that it is in progress, the terminal publication
  sends the report, a sync sends the report with the accepted risks.
- *Budgets*: jobs, publications and syncs are retried a limited number of times, and the last
  attempt may never report back.
- *Six transactions write the standing decision* and each has to move its revision, expire bypasses
  and supersede sync intents consistently.
- *Deliveries that come twice, late and out of order*, to handlers that die between starting an
  Attempt, freezing its snapshot, creating its Check and writing down that they answered.
- *An event log with two readers and two writers*: the worker and the recovery number events, a page
  replays the store and then follows a buffer that may be full.
- *Nine stages with a short circuit at each*, any of which may fail, raise or be cancelled, and one
  report that has to account for all of them.
- *A worktree in motion*: a snapshot takes a dozen git commands and system calls, between any two of
  which the user may save a file.
- *Check, then use*: rows, files and frozen profiles are read at different moments by requests, the
  worker and an editor outside the server, with a lock that only some of them take.

`PROJECT.json` lists these hazards line by line with the property that watches each one.

## 2. Modules

A component has up to four modules: the state machine, its properties (`...Props`, with the
abstract specification's mapping and the inductive invariant where they are stated), its theorems
(`...Proofs`) and its small instances (`MC...`).

| Module | What it is |
|---|---|
| `AttemptAuthority` | abstract specification: what one standing decision per change request promises |
| `AttemptStore`, `AttemptStoreProps`, `AttemptStoreProofs`, `MCAttemptStore` | the PostgreSQL state store, one action per transaction, and the refinement of `AttemptAuthority` |
| `CheckPublication`, `CheckPublicationProps`, `CheckPublicationProofs`, `MCCheckPublication` | the delivery of a decision to its Check, one action per await |
| `LockOrder`, `LockOrderProps`, `LockOrderProofs`, `MCLockOrder` | the locks of the store's transactions, one action per granted lock |
| `TriggerDelivery`, `TriggerDeliveryProps`, `TriggerDeliveryProofs`, `MCTriggerDelivery` | webhook and retry deliveries, their handlers one action per await |
| `LocalRuns`, `LocalRunsProps`, `LocalRunsProofs`, `MCLocalRuns` | the local runtime: API, queue, worker, recovery, event fan-out, one page |
| `ContextGathering` | which paths a review shows, as operators |
| `Evidence` (on `ContextGathering`) | grounding, bands, deduplication and the gate, as operators |
| `ReviewPipeline` (on `Evidence`), `ReviewPipelineProps`, `ReviewPipelineProofs`, `MCReviewPipeline` | one run of the pipeline, one action per await |
| `WorktreeSnapshot`, `WorktreeSnapshotProps`, `WorktreeSnapshotProofs`, `MCWorktreeSnapshot` | the capture of a worktree, one action per git command or system call |
| `PolicyRegistry`, `PolicyRegistryProps`, `PolicyRegistryProofs`, `MCPolicyRegistry` | trusted policies, profiles and repositories, and the worker that uses them |

How they fit together. `AttemptStore` has every Attempt and every column of them, and treats a
worker's way from one transaction to the next as a choice of transactions; `LockOrder` justifies its
one-step transactions. `CheckPublication` has one Attempt, sees the store through what concerns it,
and has every step of the worker between the transactions; a fact it takes from the store (the gate is
the report with the accepted risks) is an invariant that is checked and proved of `AttemptStore`.
`TriggerDelivery` has every step before an Attempt is executed and takes the execution itself as one.
`ReviewPipeline` is the inside of that execution on both surfaces; its input is the tree of a merge,
which for a local review comes from `WorktreeSnapshot`. `LocalRuns` has the life of a local Attempt
around the pipeline, `PolicyRegistry` what it was configured with; they meet at the worker's fetch of
an Attempt's rows.

An operator whose name ends in `_Slip` is a mistake the code could make at that place: no action
uses it. `PROJECT.json` names, for each checked property, the slip that breaks it.

## 3. AttemptStore: the authoritative state

**State.** A variable is a column, a function from the primary key to the column's value. `None`,
`NoRow` and `NoneGate` stand for a missing row or SQL `NULL`. The model adds what a worker is doing:
the Attempt it executes and whether it recorded the Review Identity, and the Check sync it delivers
and whether it verified it.

| Variables | Table |
|---|---|
| `requestKey`, `authority`, `standing`, `gate`, `revision` | `change_requests` (`current_request_key`, `authoritative_attempt_id`, `standing_attempt_id`, `standing_gate_state`, `standing_revision`) |
| `attemptCR`, `attemptKey`, `attemptStatus`, `identity` | `review_attempts` |
| `jobStatus`, `retryCount` | `review_jobs` |
| `decisionGate`, `decisionStanding` | `gate_decisions` |
| `delivered` | `retry_deliveries` |
| `bypass` | `bypasses` |
| `syncStatus`, `syncClaims` | `standing_check_outbox` |
| `reportGate`, `reportBlocking`, `reportIdentity` | `github_review_results` |

**Actions.** One per transaction:

| Action | Code |
|---|---|
| `StartAuthoritativeAttempt` | `start_authoritative_attempt` (also the conditional start of a retry) |
| `ClaimAttemptJob`, `MarkJobRetryable`, `RecoverInterruptedJobs`, `FinalizeAttemptJob` | the methods of those names |
| `RecordReviewIdentity` | `record_review_identity` |
| `SaveReviewResult` | the end of `execute_claimed_attempt` (`wr/platform/github/worker.py`) |
| `PublishIfAuthoritative`, `PublishAuditOnly` | the two outcomes of `publish_if_authoritative` that change anything |
| `InvalidateStandingDecision` | `invalidate_standing_decision` |
| `ApplyFindingBypass` | `apply_finding_bypass` with the intent it enqueues |
| `ClaimStandingCheckSync`, `VerifyStandingCheckSync`, `MarkStandingCheckSync` | `claim_standing_check_sync`, the first and the last step of `deliver_standing_check_sync` with `mark_standing_check_sync` |
| `CrashWorker` | a process that dies |

**Abstractions.**

- A transaction is one step. Each one decides on rows it reads `FOR UPDATE` (most of them after an
  advisory lock on the change request), so two transactions that touch the same decision are
  serialized; `LockOrder` shows that what a transaction read is still so when it commits.
- A lease expires by choice: any amount of time may pass between two steps, so an expired and an
  unexpired lease differ only in what may be claimed.
- Audit rows, error texts, timestamps and the actors' names are left out; no transaction reads them.
- A Request Key is a value, a Review Identity is a value with the key it was derived from
  (`IdentityKey`): `publish_if_authoritative` compares them and nothing else.
- Callers are present through what they can ask for. A publication needs a saved report, an
  execution a claim, a bypass a complete Blocked report. Otherwise any caller may ask at any time,
  which includes every order of webhooks, retries, scans and maintainers.
- Every Check has its run id (`check_run_id` is set when an Attempt's snapshot is saved, and only
  Attempts with a snapshot are executed), so that the "not applicable" ending of a sync does not
  occur.

**Properties.** The standing decision is of the Attempt in authority, with its gate, and the only one
marked standing (`StandingDecisionIsSound`). An Attempt that lost authority never comes back
(`LostAuthorityIsFinal`). The gate is the report with the risks accepted so far
(`GateIsReportPlusAcceptedRisks`); an accepted risk belongs to the decision that stands
(`BypassBindsToStandingDecision`) and its Check is due the latest revision
(`LatestRevisionIsDueToTheCheck`). An Attempt is decided once, and not executed again once it is
published (`AttemptIsDecidedOnce`), and a job that ended stays ended as it did
(`TerminalJobsStayTerminal`). Two more are stated and proved without a run of their own: every change of
the decision is one revision (`EveryDecisionChangeIsARevision`, which the refinement contains), and with
one worker what stands is of a published Attempt (`StandingIsPublished`).

**The abstract specification.** `AttemptAuthority` has four actions: an Attempt takes authority once,
the Attempt in authority is decided once, one more risk is accepted, the decision is withdrawn. It
knows no jobs, leases, Identities or outboxes. `ImplementsAuthority` maps a null gate to `None`, the
Attempts with a row to `used`, those with a decision row to `decided`; every transaction is then one
of the four steps or a stutter.

## 4. CheckPublication: from the decision to the Check

**State.** The store as one Attempt sees it (report, status, job, authority, decision, accepted
risks, revision); the two outboxes with their claims and leases; per worker a program counter, what
it delivers and what it read; and the Check: the gate it shows and the findings it marks as accepted.

**Actions.** One per await. `Execute`, `Announce`, `ReviewFails` and `SaveResult` are `execute_claimed_attempt`
around the review: the Check goes back to in progress, the review runs, the report is saved. `Enqueue`,
`ClaimEnqueued` are `publish_terminal`; `Scan`, `ClaimPending` are `_scan_publications` and `retry_outbox`,
including the path that takes a refused claim for a result that was never enqueued; `Decide` and `DecideFails`
are `publish_if_authoritative` as the publisher sees it; `Patch` is `update_check_run`, which may fail before or
after GitHub applied it; `MarkPublication` writes the outcome, and `MarkFails` is a failure of that call, after
which the publication is released as failed or, if that fails too, stays in progress; `FinalizeExhausted` ends
the job of a publication without budget. `ClaimSync`, `VerifySync`, `ReadBypasses`, `Patch`, `MarkSync` are
`_sync_standing_checks` and `deliver_standing_check_sync`. Around them bypasses, withdrawals, takeovers, failed
jobs, expiring leases and crashes happen at any time.

**Abstractions.** Identities match (`AttemptStore` has the other case), and a report with the gate
"Error" is delivered as one that passed: neither has findings to accept. Rendering is reduced to the
gate and the marked findings. The immediate retry in `execute_attempt` is no step: the failure it
follows has just set a backoff that its claim respects, so it never claims anything. Backoff itself
is a matter of time, as a lease is. The two updates of `mark_publication`, of the outbox row and of the Attempt's
`publication_status`, are one step here, though each commits by itself. A sync whose outcome cannot be written is
released by the worker for another try, or failed (`_release_failed_sync`), which is the same as a
patch that fails after GitHub applied it. Which Attempts a pass may execute, and what an expired job
lease does to them, is in `AttemptStore`; here any idle worker executes an Attempt without a result.

**Fairness.** `Continue(w)` is weakly fair: a worker that waits for an answer gets one, or an error
(the bound on crashes says how often it dies instead). `ExpireLease` is weakly fair: time passes.
`Scan`, `FinalizeExhausted` and `ClaimSomeSync` are strongly fair, because every pass of
`run_forever` runs all of them: an action that is again and again possible is reached by some pass,
even if the worker is busy with other work in between. Saving, bypassing, withdrawing and crashing
are never required.

**Properties.** The Check never concludes before the store decided, and while a publication is marked published
the Check is concluded (`CheckFollowsDecision`). The second half is stated, checked and proved for the one
worker that is shipped: with two, an execution whose lease expired can announce itself after another one
delivered, and nothing concludes the Check again (`wr/platform/github/worker.py:127`). Every saved report
settles and its job ends, unless the worker died in the last delivery of the budget or the database could not
take its outcome (`EveryResultSettles`; section 13, *silent stall*). After a first delivery that succeeded, a
published sync means that the Check shows the decision that stands (`PublishedSyncIsShown`), and every accepted
risk gets there (`AcceptedRisksReachTheCheck`); a retried delivery may put the Check back (section 13, *accepted
risks*), which is why the two are stated for a first one.

## 5. LockOrder: the locks of the transactions

`AttemptStore` takes a transaction as one step. This module takes it apart into its lock requests and
asks what that rests on: do the transactions really have the effect of single steps, and can they
wait for each other in a circle?

**State.** The transactions that run, on a pool of connections, each with its kind, its arguments, the
request it is at (`pc`) and what it read of its change request (`seen`); and of the data what decides
which rows are locked: the change request of an Attempt, the authority, the standing decision, the
open jobs and the decided Attempts. What a transaction holds is what its position says: `Held(t)` is
the granted part of its requests.

**Actions.** A transaction begins (`Start`, `OnAttempt`, `Invalidate`, `Recover`), is granted its next
lock if nobody holds a conflicting one (`Acquire`; who locks the change request reads it then),
commits (`Commit...`, one per kind) or leaves without an effect (`Leave`: an early return, a conflict
error, a cancelled request, or a victim of PostgreSQL's deadlock detection). The requests are those
of the statements in their order: `StartLocks`, `PublishLocks`, `BypassLocks`, `InvalidateLocks`,
`ClaimLocks`, `RecoverLocks`, and one row for the others. PostgreSQL's conflict table is reduced to
the modes that occur: `FOR UPDATE`, `UPDATE`, and the key-share lock of a foreign key.

**Abstractions.** An `UPDATE ... WHERE` that may match no row is taken to lock it, so a wait in the code
is one here. The queue of waiting transactions is not modelled: every waiting one may be next. Claims of Check
syncs use `SKIP LOCKED` and never wait. One durable worker recovers jobs, as `server/app.py` starts
one; two recoveries that scan in different orders could wait for each other.

**Properties.** `ReadsStayCurrent`: authority and standing decision are at the commit what the
transaction read under its lock. `NoDeadlock`: they never wait for each other in a circle. It
does not hold (section 13); `EveryCircleHasAClaim` does: claims are the only reason.

## 6. TriggerDelivery: from a webhook to a prepared Attempt

**State.** GitHub's pull request and the deliveries it sent, each with the pull request as it was then;
the version of the trusted Review Policy file; of the store the request key of each Attempt, authority,
standing decision, `retry_deliveries` (`startedBy`) and `webhook_idempotency` (`digest`); per Attempt
its snapshot, the recorded Check run, the Checks that GitHub made and whether it was executed; and per
handler its position with what it carries from one await to the next.

**Actions.** Commits, a branch that is retargeted, a draft, a push to the target and the click on
"retry" send a delivery; `Receive` takes any of them, in any order and again, with the first
transaction of its handler. Then one action per await of `_start_attempt` and `request_retry`: `ReadState`
and `Resolve` (retry only), `Start` (a new Attempt, a replay, or a conflict), `ReadDigest` and
`InsertDigest` (the two statements of `record_webhook_idempotency`), `CheckExisting`, `SaveSnapshot`,
`CreateCheck`, `SetCheckRun`. `Fail` ends a handler at any of them. `Execute` is the durable worker with
all of `AttemptStore` and `CheckPublication` behind it: it takes what `list_recoverable_queued` lists.

**Abstractions.** One pull request that was opened and reviewed before; a branch is one of two, a commit
a count. Signatures, roles and the texts of answers are left out; a denied authorization is a choice.
The bypass deliveries are in `AttemptStore`.

**Fairness.** A handler that waits gets an answer or an error; the worker polls; a delivery that was
not answered with success is delivered again, by GitHub or by a maintainer who sees it failed
(`docs/TECH-DESIGN.md`, D8), as often as the bound on receipts allows (`SF`, since a handler is not
always free).

**Properties.** A delivery has its effect once, one Attempt and one Check for each time it was received
(`DeliveryHasItsEffectOnce`); a webhook start that was answered has an Attempt the worker can list
(`AnsweredIsPrepared`); a snapshot freezes the commits its Attempt was started for, whoever prepares it
and when (`SnapshotIsOfItsAttempt`); what an undisturbed handler takes over from one that failed
is executed (`WebhookStartIsExecuted`). The last says of a policy file that changed nothing, since
the redelivery then has another digest and is refused, and nothing of retries, whose replay returns early.

## 7. LocalRuns: the local runtime

**State.** What SQLite and the journal's files keep over a crash (`status`, `log`, `result`, `keys`,
`registered`, `journal`) and what the process loses (`accepted`, `queue`, `counter`, `sending`,
`worker`, `pending`, `progress`, `drainer`), with one page that follows one Attempt.

**Actions.** `Post` is `create_local_run`, by a new idempotency key, by a known one (`ReplayCreate`) or
with a conflict, and `Enqueue` what its handler does after the transaction. The worker goes from
`Take` over `Prepare`, `Refuse`, `Announce`, `Start`, `BuildProvider`, `PipelineEnds`, `AwaitDrainer`,
`SaveResult` and `Complete` to the end, or over `FailStatus` and `FailEvent`. Recording an event is two
steps, the append and `Publish` (subscribers, then the journal). `Progress` and `Drain` are the
callback and the task behind it. `Crash` and `Restart` surround everything; `Recover`, `Resume`, `Requeue`
are `recover_interrupted`; an exception in the middle of a recovery may come before or after the Attempt was marked
interrupted, and the journal's backfill may stop halfway, which `journal.py` swallows. `ListStored`,
`DeliverStored`, `DeliverLive` are `event_stream`; `Open`, `Lose`, `Reconnect`, `GiveUp` are the page and its client
(`frontend/src/data/sources/review-events.ts`). Every store call may raise, and so may every write of the
journal.

**Abstractions.** The pipeline is one step that returns or raises (section 8 has the inside). Recovery
handles incomplete Attempts in any order where the code goes by age. The payload of an event is its
kind and, for a failure, its reason. The client gives up after four reconnections in a row that brought nothing
new; here it may do so whenever the connection is lost, which includes that. It also drops an event that is not newer
than the last one; the model has no such filter, and `PageSeesPrefix` shows that the stream needs none.

**Fairness.** The event loop runs every task that can go on, and the process is started again
after a crash. Nobody has to post, to watch or to fail.

**Properties.** While the process lives, an Attempt that has not ended is in exactly one place: with the
API, in the queue, in recovery or with the worker (`EachRunIsHeldOnce`). The terminal event is the
last one, and the journal repeats the store's events, none twice (`LogIsSound`). An accepted Attempt ends
(`AcceptedRunEnds`). A page sees a gapless beginning of the log (`PageSeesPrefix`), and its stream
closes after the terminal event, as long as it is still subscribed (`PageIsTold`). `RefusalIsExplained`
does not hold (section 13).

## 8. ReviewPipeline: one review

**State.** The two inputs (the resolved request; the target tree and the merge's tree), the stage, the
directory of the Review Worktree, the execution record, what the progress callback was told, the gathered
context, the dimensions that ran with what they cost, and the report.

**Actions.** One per await of `run_review_pipeline`: `Construct`, `MakeContainer`, `Materialize`, `Gather`,
`PlanCalls`, `StartDimension`, `AnswerCall`, `EndDimensions`, `Verify`, `CompleteReport`, `Cleanup`. Each has
the stage's error as an outcome; `Raise` is any other exception (a full disk, a missing program, a path with a
NUL in an answer, `EstimateRaises` for a request whose size cannot be estimated) and `Cancel` a task that is
cancelled. Short circuits (a conflict, an unusable provider, an incomplete context, a spent budget) record what
they skip and hand over to `_complete_report`.

`ContextGathering` is `gather_context` as operators: which paths are changed, mandatory or optional,
which content a model cannot be shown, and when the coverage is complete. `Evidence` has
`findings.py` and `gate.py`: the span of a finding is looked up in the source and snapshot it names
(`Grounded`), a band is derived, findings of one fingerprint become one (`MergeDuplicates`), and
`EvaluateGate` decides.

**Abstractions.** A file has one line and a content among two texts, a link, a link that leads out, a content no
model can be shown, and a submodule. Evidence is not looked up in such a content, although `findings.py:172`
would read it if it is UTF-8 (a file that is too large, a pointer file). Prompts and requests are left out; a
call comes back with findings, a refused payload or an error, with usage that may be unknown. The merge is a
choice between a conflict and a tree. What the progress callback was told is the sequence of phases, names and
statuses; `Dimensions` are those a policy may require.

**Properties.** They are stated against the trees and the answers, not against what the pipeline recorded. A
gate that passed means that every required dimension answered, every file in scope was shown with its text, and
no answer holds a real finding that blocks (`PassedMeansReviewed`). A gate that blocks rests on a quote that
exists where it says (`BlockedMeansGrounded`). Deduplication merges findings of one dimension, since the
fingerprint contains it, and loses nothing (`NoFindingIsLost`). The record has every stage once, agrees with
what the surface was told, and explains an Error (`ReportAccountsForTheRun`). No call starts past the budget
(`NoCallPastBudget`). The directory is gone at the end, but for three cases: a clean-up that failed itself, a
cancellation while the tree is written, and a directory that was made where none is accepted or where that could
not be told (`ContainerIsRemoved`; section 13, *temporary directory*).

## 9. WorktreeSnapshot: the visible worktree

**State.** What the user has (disk, index with its flags and conflicts, ignored paths, commits), what the
invocation read so far (target, parent, listed paths, the temporary index), and the history that
the properties speak of: what was on the disk since the invocation began (`seen`), who disturbed it
(`disturbed`), and which paths were hashed while a link stood at or above them (`followed`).

**Actions.** The user puts and removes entries, stages, commits, sets flags, ignores and starts merges.
The invocation resolves its options (`Begin`, `RequireClean`, `ResolveTarget`, `ResolveProposed`)
and captures: the listings of changes, of untracked and of hidden paths, the temporary index, and for each
path an `lstat` and a separate read or hash. The behaviour of `git status`, `diff`, `ls-files`, `hash-object`,
`update-index` and `read-tree` on the states of the model was compared with git 2.39.

**Clean filters.** `git diff` and `git status` compare what a file would become if it were added: `Clean` maps the
content of each path to what its filters make of it (line endings, `ident`, LFS; the identity where there are
none), and `Stored` applies it to files, not to links. The capture's own hashing is with `--no-filters`, so that a
path that is listed enters the snapshot with its raw bytes. `git status` may also report a file as changed
that only looks so, when its stat data are stale (`MayLookModified`, a choice). A checkout writes what cleans to
the commit's content; a commit that holds content its filters would change has no initial state.

**Abstractions.** Git commands do not fail by themselves; the inside of a nested repository is not
modelled. `lstat` of the directories above a path, `lstat` of the path and `readlink` are one step (`Look`): no
await lies between them, only another process can. A nested repository is listed by git with a trailing `/`,
which the model leaves to the refusal that follows. An entry with both flags, and a path taken out of the index that
is ignored by now, depart from the documentation; `Departs` names them and the properties leave them out.

**Properties.** A quiet snapshot is, path by path, the visible worktree as the user guide describes it, or what
HEAD has of a file that HEAD, the index and the filters agree on (`QuietSnapshotIsVisible`). The latter
need not be "the current bytes" (section 13, *old bytes*). A quiet
capture fails only over what a tree cannot hold, a changed submodule, or a tracked path behind a link
(`FailureHasACause`); the last two are refusals of the code, and the last one is not what the guide says
(section 13, *linked directory*). While files are edited the snapshot may mix moments, but each entry has a
mode and a content that were at its path meanwhile (`SnapshotWasOnDisk`; commits, staging and flags during the
capture are exempt). There is one window in which the content can be another: a link that is swapped in at or
above the path after `lstat` and before `git hash-object` opens it, which follows the link, out of the
repository too; `followed` marks exactly those paths, and the mode is then still that of the `lstat`. An
explicit committed source is accepted only over a worktree that shows nothing but HEAD at the paths without a
flag (`CommittedSourceHidesNoChange`); at the others it is accepted over a change (section 13, *hidden
omission*).

## 10. PolicyRegistry: trusted files

**State.** The policy files on the disk; the tables of policies, profiles and repositories; the lock of
each file; per editor page the request that is handled and the text it was shown; the Attempts with
their frozen profile; and the history: the documents each row has named (`adopted`), what was executed, who
made a file (`maker`) and which files were written or removed past the lock (`disturbed`).

**Actions.** Registration (`Register...`, with the managed creation and its clean-up `Managed...`), reading
and saving a document (`Read...`, `Save...`: compare, replace, record under the lock), profiles,
repositories, and the creation of a review, each taken apart where the handler awaits. The worker fetches
the rows of an Attempt, later loads the file and compares, and executes. `OutsideEdit` is any editor on the
server, `Crash` a restart.

**Abstractions.** Compute Policies only: Review Policies go the same way without the profile. A document's
identity is the document, its text the document with a remark. Changes of a profile or a
repository are single transactions. I/O errors inside a write are not modelled.

**Properties.** What an Attempt executes with is trusted: a document its row has named, with the command it
pins, and of a file outside the repository it reviews (`ExecutedIsTrusted`; a policy inside another registered
repository can be registered, since the two registrations look at each other's tables before they write). A row
names the document of its file unless a save is between its two writes, the file was edited past the lock, or a
crash or a failed managed creation cut in, or the row was removed while another request about the same file was under
way: a registration that read the file before a save replaced it may then insert what it read
(`QuietRegistryAgreesWithDisk`). A save replaces what its page was shown (`SaveReplacesWhatWasShown`). A
managed creation cleans up its own file (`CleanupRemovesOwnFile`). That a lock belongs to a live save
(`LockBelongsToALiveSave`) is proved without a run of its own.

## 11. Runs

| Run | Instance | Question |
|---|---|---|
| `store` | 1 change request, 2 keys, 2 Attempts, 2 findings, 1 delivery, 1 worker, 4 revisions, budget 2 | is the decision consistent, is its latest revision due to the Check, and does the store implement `AttemptAuthority`? |
| `store_overlap` | 2 change requests, 2 keys, 2 Attempts, 2 workers, 1 finding, 3 revisions | what can late claims, reports and failures of overlapping executions do to an Attempt and its job? |
| `publication` | 1 worker, 2 findings, 2 deliveries, 5 revisions, 2 errors, 1 crash | does every result settle, and every accepted risk reach its Check? |
| `lock_order` | 3 transactions of all kinds, 2 change requests, 2 Attempts, 1 retry delivery | do reads stay current, and is a claim in every circle of waits? |
| `claim_deadlock` (violated) | the same | do transactions never wait in a circle? |
| `trigger_delivery` | 3 deliveries, 2 handlers, 1 repetition, 1 failure, 2 policy versions | does each delivery have its effect once, and does it have it? |
| `local_runs` | 2 Attempts, 2 idempotency keys, 2 progress events, 2 troubles | is each accepted Attempt carried out once, to its end, over restarts? |
| `event_stream` | 1 Attempt, 1 page, a buffer of 1 event, 3 progress events, 3 troubles | does the page see the log, and its end? |
| `refusal_explained` (violated) | 2 Attempts, no trouble | is a refused Attempt told why? |
| `review_pipeline` | 2 files, 2 dimensions, 9 answers, 4 context policies, 7 budgets | what does a report say about the review? |
| `worktree_snapshot` | a file with a clean filter, a directory with a file, 2 contents, 2 steps before and 1 during the capture | is the snapshot the visible worktree, as far as git shows it? |
| `policy_registry` | 2 pages, 3 requests, 1 Attempt, a file inside a repository and a managed one, 1 fault | is what runs trusted, and do rows and files agree? |

Why the bounds are enough. Two Attempts give a prior and a new one, which is what every transaction
distinguishes; the second worker is what makes a lease expire under somebody, the second change request what a
write may wrongly touch. Two findings separate a partial from a complete bypass. A budget of two makes a retry,
a last attempt and an exhausted row happen. Four revisions hold a decision, two bypasses and a withdrawal or
takeover after them, so that three sync intents of one Attempt can be alive in any order, and a late outcome
meets a newer revision. In `publication` the last revision is kept for the report's own decision, so that the
bound never refuses it; two errors and one crash reach every combination of a failed first delivery, a failed
sync, a failed announcement, an outcome that cannot be written twice, and a death in the last attempt. Three
transactions make circles of two and three possible, and recoveries of two jobs hold one and wait for another.

In `trigger_delivery` the first delivery was reviewed before; two more with a repetition make a delivery
overtake another, overlap with itself and come after a failure. In `local_runs` two troubles give a crash after
a failed call and a crash during recovery; a second Attempt makes the queue, a retry and a replayed key matter.
In `event_stream` a buffer of one event fills with two, and three troubles break the connection between two
crashes. Two dimensions give a failing one next to an answering one and two findings with one fingerprint; the
nine answers cover each way a quote can be right or wrong. Two steps before a capture reach each pair of a
change on the disk and one in the index; one during it falls between any two commands. One file with a filter
beside two without shows what a filter hides and what it does not. Three requests with two in flight give a save
against a save, a registration or an unregistration, with a third that made their state.

Symmetry is used over change requests, Attempts, findings, Identities, deliveries and workers of the
store, in runs without liveness. Counters that the code does not bound (`retry_count`, revisions,
claims of a sync) have a bound in the guard of the action that counts, named as such where it is
declared. TLC's deadlock check is on in the two runs of `LockOrder` only: elsewhere, when every
Attempt is used and every bound reached, the system has nothing left to do.

## 12. Proofs

Every safety property of a run that is expected to pass is also a theorem, for every value of the constants: any
number of change requests, Attempts, workers, deliveries, paths, dimensions, policies, pages and steps of the
user (the delivery's two, beyond types, for the one worker that is shipped). Eight modules hold the proofs. What
they assume of the constants is named in the module that declares them, and TLC evaluates it in the runs of that
module:

| Assumption | What it asks, and why the code justifies it |
|---|---|
| `ConstantsAssumption` (store) | `None` is no id, bounds are natural numbers, every Identity has a key: ids are UUIDs, an Identity contains its request key |
| `BoundsAssumption` (delivery), `LockAssumption`, `RegistryAssumption` | bounds are natural numbers, the sets of ids and files fit together |
| `TriggerAssumption` | at least one handler, one delivery and one version of the policy |
| `LocalRunsAssumption` | finitely many Attempts, numbered as they are created; a buffer has a place |
| `PipelineAssumption` | what the schemas of policies and payloads admit: a policy names each dimension once and at least one, severities and bands exist, counts and prices are natural numbers or unknown |
| `SnapshotAssumption` | finitely many paths; lying in a directory is irreflexive and transitive; what is checked out first is a tree |

*The store.* `TypeCorrect` is inductive by itself. None of the safety invariants is. For example
"the standing decision is of the Attempt in authority" survives a publication only if the authority
is of the change request and of its key (`AuthorityIsOfTheRequest`), and "the Check is due the latest
revision" survives a late `mark_standing_check_sync` only because a worker that marks an intent
superseded has seen a decision that no longer stands, and no intent is ahead of its revision
(`IntentsAreOfPastRevisions`). `IndInv` is the conjunction of the safety invariants with these named
facts: rows exist before they are used, delivered intents have rows, reports back decisions, decided
jobs are over, bypasses are of Blocked reports. One lemma per conjunct says which transactions can
disturb it and why they do not; `Writers` says once which transactions write which columns, so that
a lemma only treats those.

`StandingPublished` needs the shipped deployment, `Workers = {w0}`: with two workers one execution may
save an Error without an Identity after which the other records one, and the published Attempt is put
aside by a later republication. `OneWorkerInv` adds what makes the difference: what is executed has
no report, and what stands was published under the Identity it was reviewed under.

`Refinement` shows `Init => Authority!Init` and that every transaction is a step of
`AttemptAuthority` or leaves what it sees unchanged, using the inductive invariant where a guard of
the abstract action speaks of the past (an Attempt without a row was never used, a running one was
never decided).

*The delivery.* `DeliveryInv` holds for any number of workers: a worker about to patch has a decision behind it,
and so has a concluded Check. The decision is never undone by a withdrawal: `attemptStatus` leaves "running"
once. The rest needs the shipped deployment, `Workers = {w0}`, as the two theorems say in their hypothesis.
`CheckFollows` (`CheckFollowsDecision`) does because an execution that announces itself reopens the Check
whatever it shows; one worker is not executing while it delivers, and executes nothing again that has a result
(`ConcludedInv`, `FirstInv`). `SyncsAreShown` (`PublishedSyncIsShown`) does because a second worker could
publish the sync of an accepted risk between the decision of the first delivery and its patch, which then puts
the Check back (TLC finds both with two workers). Their invariant `OneWorkerInv` follows a delivery: what is
marked or about to be marked published has a concluded Check (`ConcludedInv`), before the first delivery ends no
intent is claimed (`FirstInv`), no intent is ahead of the revision (`IntentInv`), and a worker on its way with
the intent of the current revision carries what the store decided by then (`CarriedInv`), which only a newer
revision changes.

*The locks.* `LockInv` says that held locks never conflict (`Exclusion`), where each transaction is
(`Positions`), that it works on Attempts of its own change request (`Arguments`, `OwnAttempts`), that one
recovery runs, and that whoever locked a change request knows its rows (`Current`); the last is
`ReadsStayCurrent` once the transaction is complete. `DeadlockNeedsClaim` takes a circle without
a claim to a contradiction: who waits and is waited for (`Busy`) holds an advisory lock or
is the recovery, since the others lock one row. Two holders of advisory locks are on different change
requests, so on different rows: they meet at the delivery of a redelivered retry only, and the one that is waited
for there is beyond it. Beyond it, one waits for the recovery only, and at the job. The recovery waits
for a start that holds the job, and that one is beyond the job and waits for nobody in the circle.

*The webhooks.* Three invariants make `TriggerInv`. `StoreInv`: Attempts are started one per delivery, and the
key of a webhook's Attempt is its payload's. `HandlersInv`: what a handler carries from one await to the next
belongs to its delivery. `CountInv` is the one that makes redeliveries harmless: every Check of an Attempt, and every
handler that may still create one, is paid for by a receipt of the delivery, and of a retry only the
handler that started the Attempt gets that far. Since `CheckExisting` lies two awaits before
`SetCheckRun`, two handlers can both find no Check; the count says that this costs a Check per receipt and
nothing more. `NothingIsTakenBack` says of every step that it only adds.

*The local runtime.* `LocalInv` puts an Attempt in one place. `HeldInv` keeps API, queue, recovery and worker
disjoint; `WorkerInv` says what the worker may have done at its position; `KeptInv` that nothing that has not
ended is forgotten as long as no store call raised; `NumberInv` that the recorder numbers what it holds beyond
what is persisted, although a crash loses its counters, except for an Attempt whose creation it has not yet been
told; `EndInv` that an Attempt whose terminal event is persisted is nowhere any more, which is why that event is
the last one; `JournalInv` compares the journal with the store; `PageInv` says that what a page has, what its
replay still holds, its buffer and the events being sent continue each other without a gap, which is what a
reconnection in the middle of a replay would break. `LogsGrowAtTheirEnd` is what `PageInv` stands on.

*The pipeline.* `PipelineInv` has one conjunct for each thing that runs along with the stages: the directory
(`ContainerInv`: at each stage what it may be, and that out of one that was refused nothing is read), the budget
(`SpendInv`), the dimensions that ran (`RunsInv`), what a branch hands to `_complete_report` (`ArgsInv`), and
the record with what the surface was told (`RecordInv`: the first stages are recorded and announced, how many of
them is a function of the position). From it and lemmas about `Evidence` and `ContextGathering` follow the
properties against the trees: a group of duplicates is represented as severely and as well supported as its
strongest member (`MergedIs`, `Deduplicated`), a quote is grounded in the record it names only
(`GroundedMeans`), a complete coverage shows every file in scope (`ContextIsShown`). Two more are about the gate
alone: `GateIsMonotone`, and `MergingKeepsTheGate`, whose hypothesis on the policy matters (section 13, *merged
duplicate*).

*The snapshot.* `Typed` is inductive by itself; that the temporary index stays a tree rests on `update-index`
refusing what conflicts. The clean filters are an arbitrary function of path and content. `QuietInv` knows what
each listing of an undisturbed worktree comes to (`Changed`) and what the capture makes of each path in the end
(`Final`), and says how far it has got. Three lemmas about one state do the rest: `FinalIsVisible` compares
`Final` with the documented `Visible` case by case, `RefusedHasCause` finds the reason of each refusal, and
`QuietFits` shows that the temporary index has no reason to refuse: what lies above or below a changed file is
removed from the baseline or is itself gone from the disk. `DiskInv` is the weaker companion for a user who
edits files: it keeps, for each path a listing left out, the moment at which git saw the disk agree with the
index, and for each entry of the temporary index the reason it may be there (`Kept`); reasons stay, since what
was seen is never unseen. Both need `BaselineInv`: as long as nobody commits, the baseline is HEAD.

*The registry.* `Typed` (types, identifiers given once and in order, and what a handler carries fits its
step) is inductive, and the lock's invariant is inductive with it. `ExecutionIsTrusted` rests on
`RowsAreAdopted`: each row, and each row a worker has fetched, names an adopted document, and the worker
executes only a file that agrees with the row it fetched. `SaveReplacesShown` and `CleanupIsOfOwnFile`
follow from what a handler knows between its comparison and its write: as long as it holds the lock, or
as the file exists, nobody but a writer past the lock changes it, and `disturbed` records those.
`RegistryFollowsDisk` needs also that a registration carries the text of its file until it inserts, and
a save the row of its file.

Model-checked only: liveness (`EveryResultSettles`, `AcceptedRisksReachTheCheck`, `WebhookStartIsExecuted`,
`AcceptedRunEnds`, `PageIsTold`), which is out of the prover's reach. The findings are counterexamples. The
invariants the proofs rest on were checked by TLC on the instances of section 11 before they were
proved; they are not among the properties of the runs.

## 13. Findings and divergences

Two sentences of the source are refuted by a run.

1. *A claim and a start deadlock* (`claim_deadlock`). `claim_attempt_job` locks the Attempt, its job
   and its change request, without the advisory lock; a start that replaces that Attempt holds the
   change request and updates the Attempt. PostgreSQL aborts one of them: the webhook or the
   retry that wanted to start fails with an error, or the claim does and is tried in a later pass.
   "Every transaction that touches both review_attempts and change_requests takes this transaction-scoped
   advisory lock first, so the row-lock order inside can never deadlock across paths"
   (`_lock_change_request`, `wr/server/state.py:468`). Claims apart, the sentence holds, and is proved.
2. *A refused local Attempt is told an internal error* (`refusal_explained`). When a repository or a policy
   was unregistered while the Attempt waited, the worker records the reason before the recorder has
   read the number of `attempt.created`; the row is a duplicate, the insert raises, and what the page
   shows is the failure of the insert (`wr/platform/web/worker.py:157`).

Divergences: the models contain the following behaviours, and the properties are worded around them,
where a sentence of the repository says something else.

- *Silent stall.* A crash in the last delivery of the budget, or a database that can neither take its outcome nor
  release it, leaves the outbox row `in_progress` with a spent budget; `list_pending_publications` wants budget left, `list_exhausted_publications` wants `failed`
  (`wr/platform/github/persistence.py:724`). "A queryable terminal state, never a silent stall" (`:20`).
  `EveryResultSettles` has it as its exception.
- *Accepted risks.* GitHub fails in the first delivery, a maintainer accepts one of two findings, the sync
  shows it, and the retry of the terminal publication sends the report again, without accepted risks
  (`wr/platform/github/publication.py:242`). "Never silently dropped" (`:61`).
- *Superseded sync.* `mark_standing_check_sync` writes its outcome whatever the row became
  (`wr/server/state.py:3083`): a superseded intent becomes published, queued or failed. "Older revisions go
  terminal-superseded and only the newest is ever delivered" (`:1514`). `LatestRevisionIsDueToTheCheck` shows
  that the newest one is delivered nevertheless.
- *Audit-only authority.* The process dies after recording the Identity, the second execution ends in an
  Error without one, and the report of the Attempt in authority is put aside as superseded
  (`wr/server/state.py:2256`), which `wr/application/lifecycle.py:39` reserves for one that lost authority.
- *Leased delivery.* During a first delivery `publication_status` is null, so a retry whose claim the lease
  refused takes it for a result that was never enqueued (`wr/platform/github/publication.py:161`). "Another
  worker holds the claim lease -- nothing to do this pass" (`:171`). A single worker hides it.
- *Draft standing.* A start that is received late, after the delivery that converted the pull request to
  a draft, makes a decision that stands (`wr/platform/github/triggers.py:101`); "Draft pull requests have no standing
  passing decision" (`docs/PRD.md:893`).
- *Optional context.* An optional file that cannot be read (it is gone, or leads out of the tree) becomes an
  item without a body and is not listed as missing (`wr/core/context.py:435`); "the missing context is
  disclosed in coverage" (`docs/PRD.md:513`).
- *Ignored file.* A path taken out of the index that an exclude file matches is part of the snapshot
  (`wr/core/git.py:371`); "Ignored untracked files are not included" (`USAGE.md:425`).
- *Old bytes.* The changed paths of a snapshot come from `git diff`, which compares a file after its clean filter
  (`wr/core/git.py:363`); only listed paths are hashed, with `--no-filters`. A tracked file whose bytes differ from HEAD
  before the filter only (`eol=crlf`, `ident`, LFS) keeps the bytes of HEAD. "The current bytes of tracked files,
  including staged and unstaged changes" (`USAGE.md:421`, also `wr/core/git.py:586`). `QuietSnapshotIsVisible` has
  such files (`EqualInGit`) as its exception; TLC refutes it without.
- *Linked directory.* The deleted files of a tracked directory that a symlink replaced lie behind that link,
  `_safe_git_working_tree_path` refuses them and the capture fails (`wr/core/git.py:422`). A tree can hold the deletion
  and the link; snapshots include "tracked file additions, deletions, mode changes, and symlinks" (`USAGE.md:423`).
  `FailureHasACause` names it (`BehindLink`); TLC refutes it without.
- *Hidden omission.* `worktree_is_clean` asks `git status`, which shows no change of an entry with assume-unchanged or
  skip-worktree (`wr/core/git.py:123`), while the capture of the default source looks for them. "An explicit committed
  proposed ref cannot be combined with uncommitted worktree changes, preventing silent omission"
  (`docs/TECH-DESIGN.md:178`). `CommittedSourceHidesNoChange` has entries with a flag as its exception; TLC refutes
  it without.
- *Merged duplicate.* A policy may block "major" but not "critical". A finding of major severity that blocks, with
  a critical duplicate, becomes one critical finding that does not (`wr/core/findings.py:406`,
  `wr/core/gate.py:36`), where "input/provider order cannot discard a stronger finding"
  (`docs/TECH-DESIGN.md:252`). `MergingKeepsTheGate` has as its hypothesis what the default policy satisfies, that
  with a severity every higher one blocks.
- *Managed clean-up.* "Only this creator holds the exclusive file; safe to remove on failure"
  (`wr/platform/web/registry.py:651`): another request may register the new file by its path first; the
  creation then fails at its insert and removes the file that is registered by now.
  `QuietRegistryAgreesWithDisk` has such clean-ups as an exception, and so does `CleanupRemovesOwnFile`,
  since a further creation can take the path after the first clean-up.

Behaviours that no document speaks of, and a reader should know: a withdrawn decision enqueues no Check sync
(`wr/server/state.py:2590`); a push to the target leaves a running Attempt in authority (`triggers.py:85`); a
webhook that arrives late starts a review of older commits (`triggers.py:115`); a repeated retry finishes
nothing (`retry.py:103`); recovery numbers its event on GitHub's surface by the count of rows
(`durable.py:178`); a local run that dies after its result was saved has no terminal event
(`web/worker.py:300`), and one whose store calls fail waits for a restart (`web/worker.py:90`); a subscriber
whose buffer overflows gets heartbeats forever (`web/runtime.py:74`). *Temporary directory*: it is made before
its place is checked and before the `try` that would remove it, so one that is refused, or whose check raises,
stays (`core/review_worktree.py:305`); a cancellation while the tree is written leaves it too (`:315`).
*Followed link*: `git hash-object` opens a path that `lstat` saw as a file, and follows a link that was swapped
in between, so that a snapshot can hold bytes from elsewhere (`core/git.py:480`). *Belated announcement*: with
several workers the announcement of an execution can reopen a Check that was delivered (`worker.py:127`).
*Saved, then failed*: an exception after the report is saved makes the execution fail and its job retryable
(`durable.py:89`); the scan publishes the report all the same, and `SaveResult` has both endings. A call of
unknown cost is not metered (`core/dimension.py:368`); the child of a cancelled local command lives on
(`core/providers/local_cli.py:83`); a clone that died halfway stays (`mirrors.py:60`); `HEAD` is resolved before
the capture starts (`cli/invocation.py:173`); an entry with both index flags is not seen as hidden
(`core/git.py:290`).

## 14. Plan

What is left, in this order.

1. More theorems of the modules that have proofs: the order of the outcomes does not matter to `EvaluateGate`; what
   two workers can do to the standing Check at most.
2. The events of GitHub's surface (`persistence.py`, `durable.py`): numbers of a recorder in memory and of
   a recovery that counts rows, with an append-only log as the abstract specification.
3. The coordinator of bypasses with its reads before the transaction; `TriggerDelivery` with several pull
   requests, so that a push to the target branch withdraws more than one decision.
4. Mirrors and worktree materialization: concurrent fetches, submodules.
5. Login attempts, sessions, the token cache.

## 15. Not modelled

The calls to models, Git, GitHub and the file system are I/O whose failures are choices of the modules that call
them. Audit rows, rendering of Checks, comments and terminal output, views, projections and presenters keep no
state a review depends on. The validation of documents against their schemas is a function of its input. The
in-memory state store of `state.py` is a test double. Annotations beyond the batch limit of GitHub are part of
rendering. The inside of nested repositories, the materialization of submodules and the merge itself are git's.
Schemas, prompts and the frontend, but for its client of the event stream, are listed in section 1 for
completeness. Sessions, login and the token cache come last in the plan: they do not touch the state of a
review.
