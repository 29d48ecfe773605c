-------------------------- MODULE MCReviewPipeline --------------------------
(* Two files, two dimensions, and answers chosen so that quotes are right, *)
(* wrong, from the other side, or spelled differently for one finding.     *)
EXTENDS ReviewPipelineProps, TLC

At(path, form, quote, source, snapshot, kind) ==
  [path |-> path, form |-> form, line |-> 1, quote |-> quote, source |-> source,
   snapshot |-> snapshot, kind |-> kind]
InWorktree(path, quote) == At(path, "plain", quote, "review-worktree", "none", "none")
Found(problem, severity, band, span) ==
  [problem |-> problem, severity |-> severity, band |-> band, span |-> span]

Real1     == Found("p", "critical", "insufficient", InWorktree("a", "new"))
RealMinor == Found("p", "minor", "supported", At("a", "dotted", "new", "review-worktree",
                                                 "none", "none"))
Invented  == Found("p", "critical", "verified", InWorktree("a", "gone"))
Stale     == Found("p", "critical", "supported", At("a", "plain", "old", "review-worktree",
                                                   "target-tree", "none"))
Deleted   == Found("q", "critical", "supported", At("b", "plain", "old", "target-tree",
                                                   "target-tree", "deleted"))
Untied    == Found("q", "critical", "supported", At("b", "plain", "old", "target-tree",
                                                   "none", "none"))
InDiff    == Found("q", "critical", "supported", At(DiffPath, "plain", "diff", "merge-diff",
                                                   "merge-diff", "none"))
Outside   == Found("q", "critical", "verified", [At("a", "unsafe", "new", "review-worktree",
                                                    "none", "none") EXCEPT !.line = 2])

Linked    == Found("q", "critical", "supported", InWorktree("a", "link"))

Finds(findings, input, output) ==
  [kind |-> "findings", findings |-> findings, input |-> input, output |-> output]
Refusal(kind, input, output) ==
  [kind |-> kind, findings |-> {}, input |-> input, output |-> output]

MCAnswers ==
  {Finds({}, 1, 1), Finds({Real1}, Unknown, Unknown), Finds({RealMinor, Invented}, 2, 3),
   Finds({Invented, Stale}, Unknown, 5), Finds({Deleted}, 1, 1), Finds({Untied}, 1, 1),
   Finds({InDiff, Outside}, 1, 1), Finds({Linked}, 1, 1), Refusal("inverted", 1, 1), Refusal("error", Unknown, Unknown)}

Tree(a, b) == [p \in Paths |-> IF p = "a" THEN a ELSE b]
World(merge, target, tree) == [merge |-> merge, target |-> target, tree |-> tree]

Changes == {<<"old", "old">>, <<"old", "absent">>, <<"binary", "absent">>, <<"absent", "new">>,
            <<"binary", "binary">>, <<"escape", "escape">>, <<"escape", "absent">>, <<"old", "link">>,
            <<"old", "gitlink">>, <<"absent", "absent">>, <<"gitlink", "absent">>}
MCWorlds ==
  {World("conflict", Tree("old", "old"), Tree("old", "old"))} \cup
  {World("clean", Tree(a[1], b[1]), Tree(a[2], b[2])) :
     a \in {<<"old", "new">>, <<"new", "new">>, <<"old", "escape">>}, b \in Changes}

Context(excluded, mandatory, optional) ==
  [excluded |-> excluded, mandatory |-> mandatory, optional |-> optional]
MCContexts ==
  {Context({}, {}, {}), Context({"b"}, {}, {{"a", "b"}}), Context({}, {{"b"}}, {}),
   Context({}, {}, {{"b"}})}

Budget(budget, allow, inputPrice, outputPrice) ==
  [budget |-> budget, allowUncertain |-> allow, inputPrice |-> inputPrice,
   outputPrice |-> outputPrice]
MCBudgets ==
  {Budget(Unknown, FALSE, Unknown, Unknown), Budget(6, FALSE, 1, 1), Budget(3, FALSE, 1, 1),
   Budget(5, TRUE, Unknown, 1), Budget(5, FALSE, Unknown, 1), Budget(4, FALSE, 1, 1),
   Budget(3, TRUE, 1, Unknown)}

MCRequests ==
  {[dimensions |-> <<"d1", "d2">>, inputTokens |-> 1, context |-> c, provider |-> "usable",
    blocking |-> {"critical"}, minimumBand |-> m] @@ b :
      c \in MCContexts, b \in MCBudgets, m \in {"supported", "verified"}}
  \cup {[dimensions |-> <<"d1">>, inputTokens |-> 1, context |-> Context({}, {}, {}),
         provider |-> "unusable", blocking |-> {"critical"}, minimumBand |-> "insufficient"]
         @@ Budget(Unknown, FALSE, Unknown, Unknown)}
=============================================================================
