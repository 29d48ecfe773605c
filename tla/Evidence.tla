------------------------------ MODULE Evidence ------------------------------
(***************************************************************************)
(* Findings and their evidence (core/findings.py) and the gate over them   *)
(* (core/gate.py).  A provider's finding quotes a span; the quote is       *)
(* looked up in the source and snapshot the span declares, the band and    *)
(* the fingerprint are derived here and never taken from the provider, and *)
(* findings with one fingerprint become one.                               *)
(*                                                                         *)
(* A text is one line long, so a span of line 2 is out of range.  A path   *)
(* is written plainly or with a "./" in front ("dotted"), which means the  *)
(* same path, or in a form that is refused ("unsafe").  The snapshot of a  *)
(* span is named after the source it belongs to.                           *)
(***************************************************************************)
EXTENDS ContextGathering, Integers

NoPath == "no-evidence"

BandRank == [insufficient |-> 0, supported |-> 1, verified |-> 2]
SeverityRank == [suggestion |-> 0, minor |-> 1, major |-> 2, critical |-> 3]

NormalPath(span) == IF span.form = "unsafe" THEN NoPath ELSE span.path

(* A file of the Review Worktree, read without following links.            *)
WorktreeText(tree, path) ==
  CASE path \in Paths /\ tree[path] = "escape" -> "link"
    [] path \in Paths /\ tree[path] \in Texts -> tree[path]
    [] OTHER -> NoBody

(* An empty quote grounds nothing.                                         *)
QuotedTextMatches(text, span) == span.line = 1 /\ span.quote # "" /\ span.quote = text

GatheredRecords(items) ==
  {[source |-> i.source, snapshot |-> i.source, path |-> i.path, kind |-> i.kind, text |-> i.body] :
     i \in {j \in items : j.body # NoBody}}

(* A span of the Review Worktree without a snapshot is bound to the        *)
(* current one; any other source has to name its snapshot.                 *)
AskedSnapshot(span) ==
  IF span.snapshot = "none" /\ span.source = "review-worktree"
    THEN "review-worktree" ELSE span.snapshot

RecordsForSpan_Slip(span, items, tree) ==
  {r \in GatheredRecords(items) : r.path = NormalPath(span)}

RecordsForSpan(span, items, tree) ==
  LET path == NormalPath(span)
      asked == AskedSnapshot(span)
      text == WorktreeText(tree, path)
  IN  IF path = NoPath \/ asked = "none" THEN {}
      ELSE {r \in GatheredRecords(items) :
              r.source = span.source /\ r.snapshot = asked /\ r.path = path}
           \cup (IF /\ span.source = "review-worktree"
                    /\ asked = "review-worktree"
                    /\ text # NoBody
                 THEN {[source |-> "review-worktree", snapshot |-> "review-worktree",
                        path |-> path, kind |-> "none", text |-> text]}
                 ELSE {})

Grounded(span, items, tree) ==
  \E r \in RecordsForSpan(span, items, tree) :
     /\ span.kind \in {"none", r.kind}
     /\ QuotedTextMatches(r.text, span)

(* Path, lines, dimension and problem, whatever the provider sent.         *)
Fingerprint(finding) ==
  <<NormalPath(finding.span),
    IF finding.span.form = "unsafe" THEN 0 ELSE finding.span.line,
    finding.dimension, finding.problem>>

VerifyFinding(finding, items, tree) ==
  [finding EXCEPT
     !.fingerprint = Fingerprint(finding),
     !.band = IF Grounded(finding.span, items, tree) THEN "supported" ELSE "insufficient"]

StrongestBand(group) ==
  CHOOSE band \in {f.band : f \in group} : \A f \in group : BandRank[f.band] <= BandRank[band]

StrongestSeverity(group) ==
  CHOOSE severity \in {f.severity : f \in group} :
    \A f \in group : SeverityRank[f.severity] <= SeverityRank[severity]

(* The best grounded, then most severe finding represents its group, with  *)
(* the strongest band and severity of any member, and is bypassed only if  *)
(* every member is.                                                        *)
MergeDuplicates_Slip(group) ==
  CHOOSE f \in group : \A g \in group : BandRank[g.band] <= BandRank[f.band]

MergeDuplicates(group) ==
  LET best == {f \in group : \A g \in group : BandRank[g.band] <= BandRank[f.band]}
      representative == CHOOSE f \in best :
                          \A g \in best : SeverityRank[g.severity] <= SeverityRank[f.severity]
  IN  [representative EXCEPT
         !.band = StrongestBand(group),
         !.severity = StrongestSeverity(group),
         !.bypassed = \A f \in group : f.bypassed]

VerifyAndDeduplicate(findings, items, tree) ==
  LET verified == {VerifyFinding(f, items, tree) : f \in findings}
  IN  {MergeDuplicates({f \in verified : f.fingerprint = k}) :
         k \in {f.fingerprint : f \in verified}}

(* Insufficient evidence never blocks, whatever the policy says.           *)
FindingBlocks(finding, policy) ==
  /\ finding.band # "insufficient"
  /\ finding.severity \in policy.blocking
  /\ BandRank[finding.band] >= BandRank[policy.minimumBand]

(* outcomes is the sequence of the dimensions' outcomes; a dimension with  *)
(* two of them, without one, or with one that is not complete is an error. *)
EvaluateGate_Slip(outcomes, complete, findings, policy) ==
  IF ~complete \/ \E i \in DOMAIN outcomes : outcomes[i].status = "failed"
    THEN "error"
  ELSE IF \E f \in findings : FindingBlocks(f, policy)
    THEN "blocked" ELSE "passed"

EvaluateGate(outcomes, complete, findings, policy) ==
  LET required == {policy.dimensions[i] : i \in DOMAIN policy.dimensions}
      Of(d) == {i \in DOMAIN outcomes : outcomes[i].dimension = d}
      blocking == {f \in findings : FindingBlocks(f, policy)}
  IN  IF \/ required = {}
         \/ \E i \in DOMAIN outcomes : Cardinality(Of(outcomes[i].dimension)) # 1
         \/ \E d \in required : ~\E i \in Of(d) : outcomes[i].status = "completed"
         \/ ~complete
        THEN "error"
      ELSE IF \E f \in blocking : ~f.bypassed
        THEN "blocked"
      ELSE IF blocking # {} THEN "passed-with-bypass" ELSE "passed"
=============================================================================
