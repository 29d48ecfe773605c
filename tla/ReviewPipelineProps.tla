------------------------- MODULE ReviewPipelineProps -------------------------
(***************************************************************************)
(* What a run of the review pipeline promises (ReviewPipeline.tla).  The   *)
(* properties of a report are stated against the trees and the provider's  *)
(* answers, not against the records the pipeline keeps of them.            *)
(***************************************************************************)
EXTENDS ReviewPipeline

Reported == ending = "report"

(* A report's execution record lists every stage once and in order: every  *)
(* short-circuit of run_review_pipeline fills exactly the stages it skips, *)
(* and _complete_report adds exactly the last three (_POST_FAILURE_STAGES).*)
RecordListsEachStageOnce ==
  Reported => [i \in DOMAIN outcomes |-> outcomes[i][1]] = StageOrder

ToldOf(stage) ==
  {progress[i][3] : i \in {j \in DOMAIN progress :
                              progress[j][1] = "stage" /\ progress[j][2] = stage}}

(* What a surface was shown agrees with the record: a stage was announced  *)
(* if and only if it is not recorded as not started, and it was last shown *)
(* with the status it is recorded with, at every short-circuit.            *)
ProgressAgreesWithRecord ==
  Reported => \A i \in DOMAIN outcomes :
    ToldOf(outcomes[i][1]) =
      IF outcomes[i][2] = "not-started" THEN {} ELSE {"started", outcomes[i][2]}

(* A report without a decision says why: no branch leaves both a gate of   *)
(* Error and an empty error_detail.                                        *)
ErrorIsExplained == Reported /\ report.gate = "error" => report.explained

(* The report accounts for its run: each stage is recorded, was announced  *)
(* as it is recorded, and a run without a decision names its error.        *)
ReportAccountsForTheRun ==
  RecordListsEachStageOnce /\ ProgressAgreesWithRecord /\ ErrorIsExplained

(* A file the review has to show to the provider: one the candidate        *)
(* changes or a mandatory glob matches, and no rule excludes.              *)
InScope(path) ==
  /\ path \notin request.context.excluded
  /\ \/ world.target[path] # world.tree[path]
     \/ world.tree[path] # "absent" /\ \E g \in request.context.mandatory : path \in g

(* What git stores of a path: the text of a link is where it leads.        *)
StoredText(side, path) == IF side[path] = "escape" THEN "link" ELSE side[path]

ShownText(path) ==
  \E i \in gathered.items : i.path = path /\ i.body # NoBody /\
    i.body = StoredText(IF world.tree[path] = "absent" THEN world.target ELSE world.tree, path)

(* A finding of the provider that is about something real and that the     *)
(* policy lets block: its quote is the file's text on the side it names.   *)
Real(finding) ==
  LET side == IF finding.span.source = "target-tree" THEN world.target ELSE world.tree
  IN  /\ finding.span.form # "unsafe"
      /\ finding.span.source \in {"review-worktree", "target-tree"}
      /\ finding.span.path \in Paths
      /\ finding.span.quote = StoredText(side, finding.span.path)
      /\ finding.span.quote \in Texts

AtLeast(severity) ==
  {s \in DOMAIN SeverityRank : SeverityRank[s] >= SeverityRank[severity]}

(* PRD 14: a passing gate means that every required dimension answered,    *)
(* that every file in scope was shown with its text, and that no answer    *)
(* holds a blocking finding quoted from the Review Worktree.  It takes the *)
(* pipeline's branches, the context, the verifier and the gate to hold.    *)
(* (Under a policy that blocks a severity and not a higher one, a duplicate *)
(* of the higher severity takes a blocking finding out of the gate.)       *)
PassedMeansReviewed ==
  report.gate = "passed" =>
    /\ {runs[i].dimension : i \in {j \in DOMAIN runs : runs[j].status = "completed"}}
         = {request.dimensions[i] : i \in DOMAIN request.dimensions}
    /\ \A p \in Paths : InScope(p) => ShownText(p)
    /\ \A g \in request.context.mandatory : \E p \in g : world.tree[p] # "absent"
    /\ \A i \in DOMAIN runs : \A f \in runs[i].findings :
         ~ /\ Real(f) /\ f.span.source = "review-worktree" /\ f.span.line = 1
           /\ f.span.snapshot = "review-worktree" /\ f.span.kind = "none"
           /\ AtLeast(f.severity) \subseteq request.blocking
           /\ request.minimumBand # "verified"

(* TECH-DESIGN D6: a gate that blocks rests on a finding whose quote was   *)
(* found in the source and snapshot it names; what a provider quotes from  *)
(* nowhere, or from another snapshot, never blocks by itself.              *)
BlockedMeansGrounded ==
  report.gate = "blocked" =>
    \E i \in DOMAIN runs : \E f \in runs[i].findings :
      /\ Real(f) \/ f.span.path = DiffPath
      /\ f.span.snapshot = f.span.source
      /\ \E j \in DOMAIN runs : \E g \in runs[j].findings :
           Fingerprint(g) = Fingerprint(f) /\ g.severity \in request.blocking

(* TECH-DESIGN D6: deduplication loses no finding: each one of a verified  *)
(* report is represented by exactly one finding with its fingerprint, at   *)
(* least as severe and at least as well supported.                         *)
NoFindingIsLost ==
  (Reported /\ <<"verify-dedup", "completed">> \in {outcomes[i] : i \in DOMAIN outcomes}) =>
    \A i \in DOMAIN runs : \A f \in runs[i].findings :
      /\ Cardinality({r \in report.findings : r.fingerprint = Fingerprint(f)}) = 1
      /\ \E r \in report.findings :
           /\ r.fingerprint = Fingerprint(f)
           /\ SeverityRank[r.severity] >= SeverityRank[f.severity]
           /\ Grounded(f.span, gathered.items, world.tree) => r.band = "supported"

(* The Review Worktree's directory is gone when the pipeline has ended,    *)
(* whatever ended it, but for three cases: a removal that itself failed,   *)
(* which ends the run with an exception and never with a report; a         *)
(* cancellation while the tree is written, which the except clause of      *)
(* materialize_review_worktree does not see; and a directory that was made *)
(* where none is accepted, or where that could not be told, which no       *)
(* clause removes and out of which nothing was ever read.                  *)
ContainerIsRemoved ==
  pc = "ended" => \/ container = None
                  \/ container = "unremovable" /\ ending = "raised"
                  \/ container = "filling" /\ ending = "cancelled"
                  \/ container = "refused" /\ gathered = NoContext

(* Once the measured cost has reached the budget, no further call starts,  *)
(* whether or not the next one can be priced (TECH-DESIGN D7).             *)
NoCallPastBudget ==
  [][request.budget # Unknown /\ spent >= request.budget /\ spent > 0
       => ~(pc = "dimensions" /\ pc' = "calling")]_vars

=============================================================================
