--------------------------- MODULE ReviewPipeline ---------------------------
(***************************************************************************)
(* One run of the review pipeline (core/pipeline.py): construct the merge  *)
(* candidate, materialize it into a Review Worktree, gather the context,   *)
(* plan and make one provider call per required dimension, verify the      *)
(* findings, evaluate the gate, and remove the Review Worktree on the way  *)
(* out.  Every step between two awaits is one action.  A stage may fail    *)
(* with an error the pipeline reports, an exception it lets through may    *)
(* end it without a report, and its task may be cancelled at any await.    *)
(***************************************************************************)
EXTENDS Evidence, Sequences

CONSTANTS
  Dimensions,     \* the dimensions a policy may require
  Requests,       \* what the invoking surface resolved: the policies
  Worlds,         \* the merge, the target's tree and the merge tree
  Answers,        \* what a provider call can come back with
  MaxOutput       \* max_output_tokens_per_call

Unknown == -1           \* a token count, a price or a cost that is not known
Measures == Nat \cup {Unknown}

(* What the schemas of the policies and of a provider's payload admit.     *)
SpanFields == {"path", "form", "line", "quote", "source", "snapshot", "kind"}

ASSUME PipelineAssumption ==
  /\ NoPath \notin Paths
  /\ MaxOutput \in Nat
  /\ \A r \in Requests :
       /\ r.dimensions \in Seq(Dimensions) /\ r.dimensions # <<>>
       /\ \A i, j \in DOMAIN r.dimensions : r.dimensions[i] = r.dimensions[j] => i = j
       /\ r.inputTokens \in Nat /\ {r.inputPrice, r.outputPrice, r.budget} \subseteq Measures
       /\ r.blocking \subseteq DOMAIN SeverityRank /\ r.minimumBand \in DOMAIN BandRank
  /\ \A w \in Worlds : {w.target, w.tree} \subseteq [Paths -> Contents]
  /\ \A a \in Answers :
       /\ {a.input, a.output} \subseteq Measures
       /\ \A d \in a.findings : d.severity \in DOMAIN SeverityRank /\ DOMAIN d.span = SpanFields

VARIABLES
  request, world, \* the inputs, fixed at the start
  pc,             \* the await or the stage the pipeline is at
  container,      \* the Review Worktree's directory on disk
  outcomes,       \* ExecutionRecord: <<stage, status>> in the order recorded
  progress,       \* what the progress callback was told: <<phase, name, status>>
  gathered,       \* the GatheredContext, once there is one
  runs,           \* the DimensionRunResults so far
  spent,          \* measured cost so far
  stopped,        \* stop_reason is set
  args,           \* what the branch taken hands to _complete_report
  report,         \* the ReviewReport, once there is one
  ending          \* how run_review_pipeline ended

vars == <<request, world, pc, container, outcomes, progress, gathered, runs, spent,
          stopped, args, report, ending>>

inputs == <<request, world>>
review == <<gathered, runs, spent, stopped>>

None == "none"

StageOrder == <<"derive-identity", "construct-merge", "prepare-review-worktree",
                "gather-context", "run-dimensions", "verify-dedup",
                "check-completeness", "evaluate-gate", "publish">>
PostFailureStages == {"check-completeness", "evaluate-gate", "publish"}

Recorded(record) == {record[i][1] : i \in DOMAIN record}

(* The stages a failure leaves unrecorded are recorded as not started;     *)
(* the last three are left to _complete_report.                            *)
Filled(record, left) ==
  LET fill[n \in 0..Len(StageOrder)] ==
        IF n = 0 THEN record
        ELSE IF StageOrder[n] \in Recorded(record) \cup left THEN fill[n - 1]
        ELSE Append(fill[n - 1], <<StageOrder[n], "not-started">>)
  IN  fill[Len(StageOrder)]

FillUnrecorded_Slip(record) == Filled(record, {})
FillUnrecorded(record) == Filled(record, PostFailureStages)

(* What the progress callback is told of a stage and of a dimension.       *)
Stage(name, status) == <<"stage", name, status>>
Dimension(name, status) == <<"dimension", name, status>>

(* The cost of a usage record under the policy's prices: unknown when a    *)
(* count that is present has no price, or when no count is present.        *)
UsagePrice(input, output, policy) ==
  IF \/ input # Unknown /\ policy.inputPrice = Unknown
     \/ output # Unknown /\ policy.outputPrice = Unknown
     \/ input = Unknown /\ output = Unknown
    THEN Unknown
    ELSE (IF input = Unknown THEN 0 ELSE input * policy.inputPrice)
         + (IF output = Unknown THEN 0 ELSE output * policy.outputPrice)

(* The tokenizer's estimate of one call's input, with the declared output. *)
EstimateOne(policy) == UsagePrice(policy.inputTokens, MaxOutput, policy)

EstimateAll(policy) ==
  LET calls == Len(policy.dimensions)
  IN  UsagePrice(calls * policy.inputTokens, calls * MaxOutput, policy)

PreflightRefuses(policy) ==
  /\ policy.budget # Unknown
  /\ LET estimate == EstimateAll(policy)
     IN  IF estimate = Unknown THEN ~policy.allowUncertain ELSE estimate > policy.budget

(* Why the next dimension is not started, before its call.                 *)
StopsBefore(policy, cost) ==
  /\ policy.budget # Unknown
  /\ LET estimate == EstimateOne(policy)
     IN  IF estimate = Unknown THEN ~policy.allowUncertain ELSE cost + estimate > policy.budget

(* A measured cost that reaches the budget stops every later dimension.    *)
StopsAfter_Slip(policy, cost) == FALSE
StopsAfter(policy, cost) == policy.budget # Unknown /\ cost >= policy.budget

(* findings_from_payload: a finding of the Review Worktree that names no   *)
(* snapshot gets the current one; fingerprint and band are the provider's  *)
(* until the verifier replaces them.                                       *)
Drafts(answer, dimension) ==
  {[dimension |-> dimension, problem |-> d.problem, severity |-> d.severity,
    band |-> d.band, fingerprint |-> None, bypassed |-> FALSE,
    span |-> [d.span EXCEPT !.snapshot = AskedSnapshot(d.span)]] : d \in answer.findings}

Uncovered == [Coverage({}, {}, {}, {}) EXCEPT !.complete = FALSE]
NoContext == [items |-> {}, coverage |-> Uncovered]
NoReport == [gate |-> None]
NoArgs == [coverage |-> Uncovered, findings |-> {}, dimensions |-> <<>>, allow |-> FALSE,
           detail |-> FALSE]

Init ==
  /\ request \in Requests
  /\ world \in Worlds
  /\ pc = "construct"
  /\ container = None
  /\ outcomes = <<<<"derive-identity", "completed">>>>
  /\ progress = <<Stage("derive-identity", "started"), Stage("derive-identity", "completed"),
                  Stage("construct-merge", "started")>>
  /\ gathered = NoContext
  /\ runs = <<>>
  /\ spent = 0
  /\ stopped = FALSE
  /\ args = NoArgs
  /\ report = NoReport
  /\ ending = "running"

-----------------------------------------------------------------------------
(* A stage that ended well, and the announcement of the next one.          *)
Completes(stage, next) ==
  /\ outcomes' = Append(outcomes, <<stage, "completed">>)
  /\ progress' = progress \o <<Stage(stage, "completed"), Stage(next, "started")>>

(* The except WorktreeReviewError branch of a stage: it failed, what comes *)
(* after it is not started, and the report is completed without a passing  *)
(* gate.                                                                   *)
Fails(stage, arguments) ==
  /\ outcomes' = FillUnrecorded(Append(outcomes, <<stage, "failed">>))
  /\ progress' = Append(progress, Stage(stage, "failed"))
  /\ args' = arguments
  /\ pc' = "complete"

Failure == [NoArgs EXCEPT !.detail = TRUE]

(* An exception of another kind, or the cancellation of the task: only the *)
(* finally clause runs, and it knows the Review Worktree only once         *)
(* materialize_review_worktree has returned.                               *)
Escapes(how) ==
  /\ ending' = how
  /\ pc' = "cleanup"
  /\ UNCHANGED <<inputs, outcomes, review, args, report>>

(* git merge-tree yields the candidate; a conflict, unrelated histories and *)
(* missing objects are errors.                                             *)
Merges(merge) == merge = "clean"

Construct ==
  /\ pc = "construct"
  /\ \/ /\ Merges(world.merge)
        /\ Completes("construct-merge", "prepare-review-worktree")
        /\ pc' = "prepare"
        /\ UNCHANGED args
     \/ ~Merges(world.merge) /\ Fails("construct-merge", Failure)
  /\ UNCHANGED <<inputs, container, review, report, ending>>

(* The container, its marker file and the empty tree directory, up to the  *)
(* first read of the object database.  The container's place is checked    *)
(* once mkdtemp has made it and before the try that would remove it: one   *)
(* that is refused stays.  A marker that cannot be written is cleaned up.  *)
MakeContainer ==
  /\ pc = "prepare"
  /\ \/ /\ container' = "filling"
        /\ pc' = "materialize"
        /\ UNCHANGED <<outcomes, progress, args>>
     \/ /\ container' \in {None, "refused"}
        /\ Fails("prepare-review-worktree", Failure)
  /\ UNCHANGED <<inputs, review, report, ending>>

Materializable(tree) == \A p \in Paths : tree[p] # "gitlink"

(* The tree's blobs are written, compared with the tree and frozen; any    *)
(* error thaws and removes the container before it is raised.              *)
Materialize ==
  /\ pc = "materialize"
  /\ \/ /\ Materializable(world.tree)
        /\ container' = "frozen"
        /\ Completes("prepare-review-worktree", "gather-context")
        /\ pc' = "gather"
        /\ UNCHANGED args
     \/ container' = None /\ Fails("prepare-review-worktree", Failure)
  /\ UNCHANGED <<inputs, review, report, ending>>

Gathers(context) ==
  /\ gathered' = context
  /\ IF context.coverage.complete
     THEN /\ Completes("gather-context", "run-dimensions")
          /\ pc' = "plan"
          /\ UNCHANGED args
     ELSE /\ outcomes' = FillUnrecorded(Append(outcomes, <<"gather-context", "completed">>))
          /\ progress' = Append(progress, Stage("gather-context", "completed"))
          /\ args' = [Failure EXCEPT !.coverage = context.coverage]
          /\ pc' = "complete"

Gather ==
  /\ pc = "gather"
  /\ \/ \E tooLarge \in BOOLEAN :
          Gathers(GatherContext(world.target, world.tree, request.context, tooLarge))
     \/ Fails("gather-context", Failure) /\ UNCHANGED gathered
  /\ UNCHANGED <<inputs, container, runs, spent, stopped, report, ending>>

(* The provider is built, every call estimated and the sum held against    *)
(* the budget.                                                             *)
PlanCalls ==
  /\ pc = "plan"
  /\ LET fails == [Failure EXCEPT !.coverage = gathered.coverage]
     IN  IF request.provider = "unusable" \/ PreflightRefuses(request)
         THEN Fails("run-dimensions", fails)
         ELSE pc' = "dimensions" /\ UNCHANGED <<outcomes, progress, args>>
  /\ UNCHANGED <<inputs, container, review, report, ending>>

NextDimension == request.dimensions[Len(runs) + 1]

(* The next dimension is announced and, when nothing stops it, called.     *)
StartDimension ==
  /\ pc = "dimensions"
  /\ Len(runs) < Len(request.dimensions)
  /\ LET announced == Append(progress, Dimension(NextDimension, "started"))
     IN  IF stopped \/ StopsBefore(request, spent)
         THEN /\ runs' = Append(runs, [dimension |-> NextDimension, status |-> "not-started",
                                       findings |-> {}])
              /\ stopped' = TRUE
              /\ progress' = Append(announced, Dimension(NextDimension, "not-started"))
              /\ UNCHANGED pc
         ELSE /\ progress' = announced
              /\ pc' = "calling"
              /\ UNCHANGED <<runs, stopped>>
  /\ UNCHANGED <<inputs, container, outcomes, gathered, spent, args, report, ending>>

(* A call without a known cost is not metered.                             *)
Metered(cost) == IF cost = Unknown THEN spent ELSE spent + cost

(* The provider answers with findings, or with a payload that is refused,  *)
(* or with an error; usage it reported is priced and metered either way.   *)
Answered(answer) ==
  LET cost == UsagePrice(answer.input, answer.output, request)
      status == IF answer.kind = "findings" THEN "completed" ELSE "failed"
      after == Metered(cost)
  IN  /\ spent' = after
      /\ stopped' = (cost # Unknown /\ StopsAfter(request, after))
      /\ runs' = Append(runs, [dimension |-> NextDimension, status |-> status,
                               findings |-> IF status = "completed"
                                            THEN Drafts(answer, NextDimension) ELSE {}])
      /\ progress' = Append(progress, Dimension(NextDimension, status))

AnswerCall ==
  /\ pc = "calling"
  /\ \E answer \in Answers : Answered(answer)
  /\ pc' = "dimensions"
  /\ UNCHANGED <<inputs, container, outcomes, gathered, args, report, ending>>

DimensionsComplete == \A i \in DOMAIN runs : runs[i].status = "completed"

EndDimensions ==
  /\ pc = "dimensions"
  /\ Len(runs) = Len(request.dimensions)
  /\ LET status == IF DimensionsComplete THEN "completed" ELSE "failed"
     IN  /\ outcomes' = Append(outcomes, <<"run-dimensions", status>>)
         /\ progress' = progress \o <<Stage("run-dimensions", status),
                                      Stage("verify-dedup", "started")>>
  /\ pc' = "verify"
  /\ UNCHANGED <<inputs, container, review, args, report, ending>>

(* Verification runs whether or not every dimension completed, and its     *)
(* report may carry a passing gate, which the evaluator refuses when one   *)
(* did not.                                                                *)
Verified(findings) ==
  [coverage |-> gathered.coverage, findings |-> findings, dimensions |-> runs,
   allow |-> TRUE, detail |-> ~DimensionsComplete]

Verify ==
  /\ pc = "verify"
  /\ LET drafts == UNION {runs[i].findings : i \in DOMAIN runs}
     IN  \/ /\ args' = Verified(VerifyAndDeduplicate(drafts, gathered.items, world.tree))
            /\ outcomes' = Append(outcomes, <<"verify-dedup", "completed">>)
            /\ progress' = Append(progress, Stage("verify-dedup", "completed"))
            /\ pc' = "complete"
         \/ Fails("verify-dedup", [Failure EXCEPT !.coverage = gathered.coverage,
                                                  !.dimensions = runs])
  /\ UNCHANGED <<inputs, container, review, report, ending>>

NotStarted(dimensions) ==
  [i \in DOMAIN dimensions |-> [dimension |-> dimensions[i], status |-> "not-started",
                                findings |-> {}]]

(* A branch that did not verify its findings never gets a standing gate.   *)
GateOf(evaluated, allow) == IF allow THEN evaluated ELSE "error"

ReportOf(arguments) ==
  LET dimensions == IF arguments.dimensions = <<>> THEN NotStarted(request.dimensions)
                    ELSE arguments.dimensions
      evaluated == EvaluateGate(dimensions, arguments.coverage.complete, arguments.findings, request)
      gate == GateOf(evaluated, arguments.allow)
  IN  [gate |-> gate, findings |-> arguments.findings, coverage |-> arguments.coverage,
       dimensions |-> dimensions, explained |-> arguments.detail \/ gate # evaluated]

(* _complete_report: completeness, gate and publish, recorded as completed *)
(* on every path.                                                          *)
CompleteReport ==
  /\ pc = "complete"
  /\ report' = ReportOf(args)
  /\ outcomes' = outcomes \o <<<<"check-completeness", "completed">>,
                               <<"evaluate-gate", "completed">>, <<"publish", "completed">>>>
  /\ progress' = progress \o <<Stage("check-completeness", "started"),
                               Stage("check-completeness", "completed"),
                               Stage("evaluate-gate", "started"), Stage("evaluate-gate", "completed"),
                               Stage("publish", "started"), Stage("publish", "completed")>>
  /\ pc' = "cleanup"
  /\ UNCHANGED <<inputs, container, review, args, ending>>

(* The finally clause; a clean-up that raises takes the report with it.    *)
Removed_Slip == IF ending = "running" /\ container = "frozen" THEN None ELSE container
Removed == IF container = "frozen" THEN None ELSE container

Cleanup ==
  /\ pc = "cleanup"
  /\ pc' = "ended"
  /\ \/ /\ container' = Removed
        /\ ending' = IF ending = "running" THEN "report" ELSE ending
     \/ /\ container = "frozen"
        /\ container' = "unremovable"
        /\ ending' = "raised"
  /\ UNCHANGED <<inputs, outcomes, progress, review, args, report>>

(* A call whose input cannot be estimated is announced, and ends the run.  *)
EstimateRaises ==
  /\ pc = "dimensions"
  /\ Len(runs) < Len(request.dimensions)
  /\ ~stopped
  /\ progress' = progress \o <<Dimension(NextDimension, "started"), Dimension(NextDimension, "failed")>>
  /\ UNCHANGED container

(* An exception that is not a WorktreeReviewError: git is not on PATH, the *)
(* disk is full, the tokenizer's data cannot be loaded, the renderer of    *)
(* the call plan fails, a quoted path holds a NUL.  What it leaves of the  *)
(* container: nothing, one whose place could not be checked, or one that   *)
(* the except clause could not remove.                                     *)
Raise ==
  /\ \/ /\ pc \in {"construct", "gather", "plan", "verify"}
        /\ UNCHANGED <<container, progress>>
     \/ /\ pc \in {"prepare", "materialize"}
        /\ \/ container' \in {None, "unremovable"}
           \/ pc = "prepare" /\ container' = "refused"
        /\ UNCHANGED progress
     \/ EstimateRaises
  /\ Escapes("raised")

(* A shutdown or an interrupt cancels the task at an await.  No handler    *)
(* for Exception sees a cancellation.                                      *)
Cancel ==
  /\ pc \in {"construct", "materialize", "gather", "calling"}
  /\ Escapes("cancelled")
  /\ UNCHANGED <<container, progress>>

Next ==
  \/ Construct \/ MakeContainer \/ Materialize \/ Gather
  \/ PlanCalls \/ StartDimension \/ AnswerCall \/ EndDimensions
  \/ Verify \/ CompleteReport \/ Cleanup \/ Raise \/ Cancel

Spec == Init /\ [][Next]_vars
=============================================================================
