-------------------------- MODULE ContextGathering --------------------------
(***************************************************************************)
(* The context of a review (core/context.py): which paths of a merge       *)
(* candidate are shown to the provider, which are left out and why, and    *)
(* the coverage record the gate relies on.                                 *)
(*                                                                         *)
(* A tree maps every path to its content.  "old" and "new" are two texts   *)
(* the product can review, "link" is a symbolic link inside the tree,      *)
(* "escape" one that leads out of it, "binary" stands for every content    *)
(* unreviewable_reason refuses (too large, NUL bytes, not UTF-8, a git-lfs *)
(* pointer) and "gitlink" is a submodule.  A glob is the set of the paths  *)
(* it matches.                                                             *)
(***************************************************************************)
EXTENDS FiniteSets

CONSTANTS Paths, DiffPath       \* the repository's paths; MERGE_CANDIDATE_DIFF_PATH

Texts == {"old", "new", "link"}
Contents == Texts \cup {"absent", "binary", "escape", "gitlink"}
NoBody == "omitted"

(* What reading a file of the Review Worktree returns: nothing for a path  *)
(* that is missing or that resolves outside of the tree, the target for a  *)
(* symbolic link.                                                          *)
WorktreeBytes(tree, path) ==
  IF tree[path] \in {"absent", "escape", "gitlink"} THEN NoBody ELSE tree[path]

(* A deleted path is read from the commit it was deleted from; a submodule *)
(* has no blob there.                                                      *)
BlobBytes(tree, path) ==
  CASE tree[path] \in {"absent", "gitlink"} -> NoBody
    [] tree[path] = "escape" -> "link"
    [] OTHER -> tree[path]

ChangeKind(target, tree, path) ==
  CASE target[path] = "absent" -> "added"
    [] tree[path] = "absent" -> "deleted"
    [] OTHER -> "modified"

Changed(target, tree) == {p \in Paths : target[p] # tree[p]}

Item(path, class, source, kind, body) ==
  [path |-> path, class |-> class, source |-> source, kind |-> kind, body |-> body]

(* Bytes that cannot be read make a mandatory item unreviewable and leave  *)
(* an optional one without a body; bytes that are no text make either one  *)
(* unreviewable.                                                           *)
ItemFromBytes(path, data, class, source, kind) ==
  LET bad == \/ data = "binary"
             \/ data = NoBody /\ class = "mandatory"
  IN  Item(path, IF bad THEN "unreviewable" ELSE class, source, kind,
           IF data \in Texts THEN data ELSE NoBody)

ChangedItem(target, tree, policy, path) ==
  LET kind == ChangeKind(target, tree, path)
  IN  IF path \in policy.excluded
        THEN Item(path, "excluded", "review-worktree", kind, NoBody)
      ELSE IF kind = "deleted"
        THEN ItemFromBytes(path, BlobBytes(target, path), "mandatory", "target-tree", kind)
        ELSE ItemFromBytes(path, WorktreeBytes(tree, path), "mandatory",
                           "review-worktree", kind)

(* The unified diff of the changed paths in scope is one more item, and it *)
(* can be too large even when every file is not; without such a path it is *)
(* an empty text.                                                          *)
DiffItem(inScope, tooLarge) ==
  IF inScope = {} THEN Item(DiffPath, "mandatory", "merge-diff", "none", "")
  ELSE IF tooLarge THEN Item(DiffPath, "unreviewable", "merge-diff", "none", NoBody)
  ELSE Item(DiffPath, "mandatory", "merge-diff", "none", "diff")

WorktreePaths(tree) == {p \in Paths : tree[p] # "absent"}

Unmatched(globs, tree) == {g \in globs : g \cap WorktreePaths(tree) = {}}

(* The files a list of globs adds to those already classified.             *)
Matched(globs, tree, policy, classified) ==
  ((UNION globs) \cap WorktreePaths(tree)) \ (classified \cup policy.excluded)

WorktreeItem(tree, path, class) ==
  ItemFromBytes(path, WorktreeBytes(tree, path), class, "review-worktree", "none")

(* An optional file that is no text is listed as missing, and its item is  *)
(* an optional one without a body.                                         *)
Refused(tree, paths) ==
  {p \in paths : WorktreeItem(tree, p, "optional").class = "unreviewable"}

OptionalItems(tree, paths) ==
  {[WorktreeItem(tree, p, "optional") EXCEPT !.class = "optional"] : p \in paths}

Coverage(items, missing, optionalUnmatched, optionalMissing) ==
  [complete |-> missing = {} /\ ~\E i \in items : i.class = "unreviewable",
   missing  |-> missing,
   optionalUnmatched |-> optionalUnmatched,
   optionalMissing |-> optionalMissing,
   excluded |-> {i.path : i \in {j \in items : j.class = "excluded"}},
   unreviewable |-> {i.path : i \in {j \in items : j.class = "unreviewable"}},
   reviewed |-> {i.path : i \in {j \in items : /\ j.class \in {"mandatory", "optional"}
                                               /\ j.body # NoBody}}]

(* The whole of gather_context: the changed paths first, then the files    *)
(* the mandatory globs add, then those the optional globs add.             *)
GatherContext(target, tree, policy, tooLarge) ==
  LET changed   == Changed(target, tree)
      mandatory == Matched(policy.mandatory, tree, policy, changed)
      optional  == Matched(policy.optional, tree, policy, changed \cup mandatory)
      items == {ChangedItem(target, tree, policy, p) : p \in changed}
               \cup {DiffItem(changed \ policy.excluded, tooLarge)}
               \cup {WorktreeItem(tree, p, "mandatory") : p \in mandatory}
               \cup OptionalItems(tree, optional)
  IN  [items |-> items,
       coverage |-> Coverage(items, Unmatched(policy.mandatory, tree),
                             Unmatched(policy.optional, tree), Refused(tree, optional))]
=============================================================================
