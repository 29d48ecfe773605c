-------------------------- MODULE MCWorktreeSnapshot --------------------------
(* Instances of WorktreeSnapshot for TLC: a file a and a directory d with a  *)
(* file f in it.                                                           *)
EXTENDS WorktreeSnapshotProps

MCPaths == {"a", "d", "f"}
MCAbove == [p \in MCPaths |-> IF p = "f" THEN {"d"} ELSE {}]
MCRank == [p \in MCPaths |-> CASE p = "a" -> 1 [] p = "d" -> 2 [] p = "f" -> 3]

E(kind, body) == [kind |-> kind, body |-> body]

CONSTANTS v1, v2

\* v2 is v1 with other line endings, which the filters of a normalise.
MCClean == [p \in MCPaths |-> [b \in {v1, v2} |-> IF p = "a" THEN v1 ELSE b]]

MCHeads ==
  { [p \in MCPaths |-> CASE p = "a" -> x [] p = "d" -> y[1] [] p = "f" -> y[2]] :
      x \in {None, E("file", v1)},
      y \in { <<E("file", v1), None>>, <<None, E("file", v1)>>, <<E("repo", v1), None>> } }

MCPuts == { E("file", v1), E("exec", v2), E("link", v1), E("repo", v2), Directory,
            E("other", NoBody) }

Worktree == [target |-> "", commits |-> "", proposed |-> "", trusted |-> TRUE]
MCRequests ==
  { Worktree,
    [Worktree EXCEPT !.commits = "1"],
    [Worktree EXCEPT !.proposed = "HEAD"],
    [Worktree EXCEPT !.target = "HEAD~1", !.proposed = "HEAD"],
    [Worktree EXCEPT !.target = "HEAD", !.commits = "1"],
    [Worktree EXCEPT !.trusted = FALSE] }
===============================================================================
