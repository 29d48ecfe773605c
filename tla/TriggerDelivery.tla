---------------------------- MODULE TriggerDelivery ----------------------------
(***************************************************************************)
(* From a GitHub webhook to an Attempt that a worker can execute:          *)
(* platform/github/webhooks.py, triggers.py and retry.py over the tables   *)
(* of server/state.py and persistence.py, for one pull request.            *)
(*                                                                         *)
(* GitHub sends deliveries as the pull request changes; a handler takes    *)
(* one, at any time, in any order, and again when it is redelivered.  A    *)
(* handler makes one await after the other, and may fail at each of them   *)
(* (an error of the database or of GitHub, the end of the process): what   *)
(* it did stays.  The transactions are those of AttemptStore, here with    *)
(* what a delivery adds to them.                                           *)
(***************************************************************************)
EXTENDS Naturals, Sequences, Functions

CONSTANTS
  MaxHandlers,    \* webhook requests that may be handled at the same time
  MaxSent,        \* bound of the model on what GitHub sends
  MaxRepeats,     \* bound of the model on deliveries that are received again
  MaxFaults,      \* bound of the model on handlers that fail
  MaxPolicy       \* bound of the model on the versions of the Review Policy file

ASSUME TriggerAssumption ==
  /\ MaxHandlers \in Nat \ {0} /\ MaxSent \in Nat \ {0}
  /\ MaxRepeats \in Nat /\ MaxFaults \in Nat
  /\ MaxPolicy \in Nat \ {0}

VARIABLES
  \* GitHub: the pull request, and its deliveries in the order they were sent
  pull, sent,
  \* the version of the trusted Review Policy file
  policy,
  \* the store: the request key of each Attempt, in the order they started;
  \* authority and standing decision; the Attempt of a delivery
  \* (retry_deliveries), its digest (webhook_idempotency)
  attemptKey, authority, standing, startedBy, digest,
  \* per Attempt: execution_snapshot, check_run_id, the Checks that GitHub has,
  \* and whether its execution was published or put aside
  snapshot, checkRun, checks, over,
  \* the handlers; how often a delivery was received, which deliveries were
  \* answered with success, and the failures so far
  handler, receipts, answered, faults

github == <<pull, sent>>
store == <<attemptKey, authority, standing, startedBy, digest>>
attempts == <<snapshot, checkRun, checks, over>>
web == <<receipts, answered, faults>>
vars == <<github, policy, store, attempts, handler, web>>

None == 0
Handlers == 1..MaxHandlers
Deliveries == 1..MaxSent
Attempts == 1..MaxSent            \* a delivery starts at most one
Started == 1..Len(attemptKey)
Versions == 1..MaxPolicy

NoSnapshot == [frozen |-> 0]
Idle == [pc |-> "idle"]

\* The pull request was opened and reviewed: one delivery, handled without a
\* disturbance, whose Attempt was executed and whose decision stands.
Init ==
  LET first(S, yes, no) == [x \in S |-> IF x = 1 THEN yes ELSE no]
      key == [ref |-> "main", base |-> 1, head |-> 1, policy |-> 1]
  IN
  /\ pull = [ref |-> "main", base |-> 1, head |-> 1, draft |-> FALSE]
  /\ sent = <<[kind |-> "start", ref |-> "main", base |-> 1, head |-> 1, draft |-> FALSE]>>
  /\ policy = 1
  /\ attemptKey = <<key>> /\ authority = 1 /\ standing = 1
  /\ startedBy = first(Deliveries, 1, None)
  /\ digest = first(Deliveries, key, NoSnapshot)
  /\ snapshot = first(Attempts, [key |-> key, frozen |-> 1], NoSnapshot)
  /\ checkRun = first(Attempts, 1, None)
  /\ checks = first(Attempts, 1, 0)
  /\ over = first(Attempts, TRUE, FALSE)
  /\ handler = [h \in Handlers |-> Idle]
  /\ receipts = first(Deliveries, 1, 0)
  /\ answered = {1} /\ faults = 0

-----------------------------------------------------------------------------
(* GitHub and the operator of the deployment.                              *)

\* A delivery carries the pull request as it was when it was sent.
Send(kind, new) ==
  /\ Len(sent) < MaxSent
  /\ pull' = new
  /\ sent' = Append(sent, [kind |-> kind, ref |-> new.ref, base |-> new.base,
                           head |-> new.head, draft |-> new.draft])
  /\ UNCHANGED <<policy, store, attempts, handler, web>>

\* opened, reopened or synchronize
PushCommits == Send("start", [pull EXCEPT !.head = @ + 1])
MarkReady == pull.draft /\ Send("start", [pull EXCEPT !.draft = FALSE])
ConvertToDraft == ~pull.draft /\ Send("draft", [pull EXCEPT !.draft = TRUE])
Retarget == pull.ref = "main" /\ Send("retarget", [pull EXCEPT !.ref = "other", !.base = 1])
PushTarget == Send("push", [pull EXCEPT !.base = @ + 1])
\* the requested action of a Check that GitHub shows
ClickRetry == (\E a \in Started : checks[a] > 0) /\ Send("retry", pull)

ChangePolicy ==
  /\ policy < MaxPolicy
  /\ policy' = policy + 1
  /\ UNCHANGED <<github, store, attempts, handler, web>>

-----------------------------------------------------------------------------
(* The steps of a handler.                                                 *)

At(h, pc) == handler[h].pc = pc
Event(h) == sent[handler[h].delivery]
IsRetry(h) == Event(h).kind = "retry"
Goto(h, pc) == handler' = [handler EXCEPT ![h].pc = pc]
Finish(h) == handler' = [handler EXCEPT ![h] = Idle]

\* Answered with success: the delivery counts as processed.
Answer(h) ==
  /\ Finish(h)
  /\ answered' = answered \cup {handler[h].delivery}
  /\ UNCHANGED <<receipts, faults>>

\* A conflict.
Refuse(h) == Finish(h) /\ UNCHANGED web

\* The key of a webhook start: the payload's commits, the file's policy.
PayloadKey(e) == [ref |-> e.ref, base |-> e.base, head |-> e.head, policy |-> policy]

\* invalidate_standing_decision: only a change request that exists.
Withdraw == standing' = None

\* invalidate_standing_for_target: the change request is stored under the branch.
Targets(e) == authority # None /\ attemptKey[authority].ref = e.ref

\* How many deliveries were received again.
Repeats == SumFunction([d \in Deliveries |-> IF receipts[d] = 0 THEN 0 ELSE receipts[d] - 1])

\* Handled in one transaction, or found to need none.
AnswerAtOnce(d) == answered' = answered \cup {d} /\ UNCHANGED handler

\* GitHubTriggerCoordinator.handle up to its first write, or the first lookup
\* of request_retry.
Receive(h, d) ==
  LET e == sent[d]
      take(pc, key) ==
        /\ handler' = [handler EXCEPT ![h] =
             [pc |-> pc, delivery |-> d, key |-> key, attempt |-> None, prior |-> None,
              replayed |-> FALSE, created |-> 0]]
        /\ UNCHANGED answered
      startReview == IF e.draft THEN AnswerAtOnce(d) ELSE take("start", PayloadKey(e))
  IN
  /\ At(h, "idle") /\ \A g \in 1..h - 1 : ~At(g, "idle")  \* they are interchangeable
  /\ d \in DOMAIN sent
  /\ receipts[d] > 0 => Repeats < MaxRepeats
  /\ receipts' = [receipts EXCEPT ![d] = @ + 1]
  /\ \/ e.kind = "start" /\ startReview /\ UNCHANGED standing
     \/ e.kind = "retarget" /\ Withdraw /\ startReview
     \/ e.kind = "draft" /\ Withdraw /\ AnswerAtOnce(d)
     \/ /\ e.kind = "push" /\ AnswerAtOnce(d)
        /\ IF Targets(e) THEN Withdraw ELSE UNCHANGED standing
     \/ /\ e.kind = "retry"
        /\ IF startedBy[d] # None THEN AnswerAtOnce(d) ELSE take("authorize", NoSnapshot)
        /\ UNCHANGED standing
  /\ UNCHANGED <<github, policy, attemptKey, authority, startedBy, digest, attempts, faults>>

\* may_retry asks GitHub for the live role of the actor and may deny; then
\* get_change_request_state: the Attempt to be retried is the one in authority.
ReadState(h) ==
  /\ At(h, "authorize")
  /\ \/ Finish(h)
     \/ /\ authority # None
        /\ handler' = [handler EXCEPT ![h].prior = authority, ![h].pc = "resolve"]
  /\ UNCHANGED <<github, policy, store, attempts, web>>

\* resolve_current_request: the pull request and the policy file as they are.
Resolve(h) ==
  /\ At(h, "resolve")
  /\ handler' = [handler EXCEPT ![h].key = PayloadKey(pull), ![h].pc = "start"]
  /\ UNCHANGED <<github, policy, store, attempts, web>>

\* start_authoritative_attempt for a new delivery
NewAttempt(h) ==
  LET a == Len(attemptKey) + 1 IN
  /\ attemptKey' = Append(attemptKey, handler[h].key)
  /\ authority' = a /\ standing' = None
  /\ startedBy' = [startedBy EXCEPT ![handler[h].delivery] = a]
  /\ handler' = [handler EXCEPT ![h].attempt = a,
                                ![h].pc = IF IsRetry(h) THEN "snapshot" ELSE "record"]
  /\ UNCHANGED <<digest, web>>

\* ... for one that it knows: the first Attempt.  A retry is answered, a webhook
\* goes on with the Attempt, and with the key it read itself.
EndsWithReplay(h) == IsRetry(h)
Replay(h) ==
  /\ IF EndsWithReplay(h)
       THEN Answer(h)
       ELSE /\ handler' = [handler EXCEPT ![h].attempt = startedBy[handler[h].delivery],
                                          ![h].replayed = TRUE, ![h].pc = "record"]
            /\ UNCHANGED web
  /\ UNCHANGED store

\* An operator whose name ends in _Slip is a mistake the code could make there.
KnownDelivery_Slip(h) == FALSE
KnownDelivery(h) == startedBy[handler[h].delivery] # None
LostAuthority(h) == IsRetry(h) /\ authority # handler[h].prior

Start(h) ==
  /\ At(h, "start")
  /\ \/ KnownDelivery(h) /\ Replay(h)
     \/ ~KnownDelivery(h) /\ LostAuthority(h) /\ Refuse(h) /\ UNCHANGED store
     \/ ~KnownDelivery(h) /\ ~LostAuthority(h) /\ NewAttempt(h)
  /\ UNCHANGED <<github, policy, attempts>>

\* record_webhook_idempotency reads ...
SameRequest_Slip(h) == FALSE
SameRequest(h) == digest[handler[h].delivery] = handler[h].key
ReadDigest(h) ==
  /\ At(h, "record")
  /\ \/ digest[handler[h].delivery] = NoSnapshot /\ Goto(h, "insert")
     \/ digest[handler[h].delivery] # NoSnapshot /\ SameRequest(h) /\ Goto(h, "check")
     \/ digest[handler[h].delivery] # NoSnapshot /\ ~SameRequest(h) /\ Finish(h)
  /\ UNCHANGED <<github, policy, store, attempts, web>>

\* ... and inserts, in another statement: a row that came in between is an error.
InsertDigest(h) ==
  /\ At(h, "insert")
  /\ LET d == handler[h].delivery IN
     IF digest[d] = NoSnapshot
       THEN /\ digest' = [digest EXCEPT ![d] = handler[h].key]
            /\ Goto(h, "check")
       ELSE Finish(h) /\ UNCHANGED digest
  /\ UNCHANGED <<github, policy, attemptKey, authority, standing, startedBy, attempts, web>>

\* The early return of a webhook whose Attempt has its Check.
Processed_Slip(h) == handler[h].replayed
Processed(h) == handler[h].replayed /\ checkRun[handler[h].attempt] # None

CheckExisting(h) ==
  /\ At(h, "check")
  /\ IF Processed(h) THEN Answer(h) ELSE Goto(h, "snapshot") /\ UNCHANGED web
  /\ UNCHANGED <<github, policy, store, attempts>>

\* The retry path prepares with the key of the Attempt (its lease), which is
\* also the key it asked with.
SnapshotKey_Slip(h) == PayloadKey(pull)
SnapshotKey(h) == handler[h].key

\* build_frozen_execution_snapshot reads the policy file again.
FrozenSnapshot(h) == [key |-> SnapshotKey(h), frozen |-> policy]

\* save_execution_snapshot takes the first snapshot only.
SaveSnapshot(h) ==
  LET a == handler[h].attempt
      new == FrozenSnapshot(h)
  IN
  /\ At(h, "snapshot")
  /\ IF snapshot[a] \in {NoSnapshot, new}
       THEN snapshot' = [snapshot EXCEPT ![a] = new] /\ Goto(h, "create")
       ELSE Finish(h) /\ UNCHANGED snapshot
  /\ UNCHANGED <<github, policy, store, checkRun, checks, over, web>>

\* GitHub creates one more Check for the Attempt.
CreateCheck(h) ==
  LET a == handler[h].attempt IN
  /\ At(h, "create")
  /\ checks' = [checks EXCEPT ![a] = @ + 1]
  /\ handler' = [handler EXCEPT ![h].created = checks[a] + 1, ![h].pc = "set"]
  /\ UNCHANGED <<github, policy, store, snapshot, checkRun, over, web>>

\* set_check_run_id keeps a Check that is already recorded.
SetCheckRun(h) ==
  LET a == handler[h].attempt IN
  /\ At(h, "set")
  /\ checkRun' = IF checkRun[a] = None THEN [checkRun EXCEPT ![a] = handler[h].created]
                 ELSE checkRun
  /\ Answer(h)
  /\ UNCHANGED <<github, policy, store, snapshot, checks, over>>

\* An await raises, or the process dies; a request that GitHub has carried out
\* may have lost its answer.
Fail(h) ==
  /\ ~At(h, "idle") /\ faults < MaxFaults
  /\ faults' = faults + 1
  /\ Finish(h)
  /\ UNCHANGED <<github, policy, store, attempts, receipts, answered>>

-----------------------------------------------------------------------------
(* The durable worker, which lists what it can execute.                    *)

\* list_recoverable_queued
Recoverable(a) ==
  a \in Started /\ snapshot[a] # NoSnapshot /\ checkRun[a] # None /\ ~over[a]

\* What publish_if_authoritative compares: the request that was reviewed and the
\* one that the Attempt was started for.
Reviewed(a) == [snapshot[a].key EXCEPT !.policy = snapshot[a].frozen]

Execute(a) ==
  /\ Recoverable(a)
  /\ over' = [over EXCEPT ![a] = TRUE]
  /\ standing' = IF authority = a /\ Reviewed(a) = attemptKey[a] THEN a ELSE standing
  /\ UNCHANGED <<github, policy, attemptKey, authority, startedBy, digest, snapshot, checkRun,
                 checks, handler, web>>

Step(h) ==
  \/ ReadState(h) \/ Resolve(h) \/ Start(h)
  \/ ReadDigest(h) \/ InsertDigest(h) \/ CheckExisting(h)
  \/ SaveSnapshot(h) \/ CreateCheck(h) \/ SetCheckRun(h)

Next ==
  \/ PushCommits \/ MarkReady \/ ConvertToDraft \/ Retarget \/ PushTarget \/ ClickRetry
  \/ ChangePolicy
  \/ \E h \in Handlers : Step(h) \/ Fail(h) \/ \E d \in Deliveries : Receive(h, d)
  \/ \E a \in Attempts : Execute(a)

\* A handler that waits for an answer gets one, or an error; the worker polls;
\* a delivery that was not answered is delivered again, by GitHub or by a
\* maintainer who sees it failed, while the bound on receipts allows it.
Fairness ==
  /\ \A h \in Handlers : WF_vars(Step(h))
  /\ WF_vars(\E a \in Attempts : Execute(a))
  /\ SF_vars(\E d \in Deliveries \ answered, h \in Handlers : Receive(h, d))

Spec == Init /\ [][Next]_vars /\ Fairness
================================================================================
