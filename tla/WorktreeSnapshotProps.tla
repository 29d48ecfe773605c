------------------------- MODULE WorktreeSnapshotProps -------------------------
(* What the snapshot of a worktree promises (module WorktreeSnapshot).     *)
EXTENDS WorktreeSnapshot

Outcomes == {"pending", "refused", "failed", "committed", "unchanged", "captured"}

\* Every variable has its type, and every tree of git, the temporary index of
\* the capture among them, has no file where another entry needs a directory.
SnapshotTypeOK ==
  /\ disk \in [Paths -> {None} \cup Entries(DiskKinds)]
  /\ \A p \in Paths : disk[p] # None => \A q \in Above[p] : disk[q] = Directory
  /\ index \in [Paths -> {None} \cup Entries(TreeKinds)] /\ IsTree(index)
  /\ flags \in [Paths -> {"none", "assume", "skip", "both"}]
  /\ unmerged \subseteq { p \in Paths : index[p] # None }
  /\ ignored \subseteq Paths
  /\ temp \in [Paths -> {None} \cup Entries(TreeKinds)] /\ IsTree(temp)
  /\ target \in 0 .. Len(commits) /\ parent \in 0 .. Len(commits)
  /\ found \subseteq Paths /\ sparse \subseteq found /\ todo \subseteq Paths
  /\ outcome \in Outcomes
  /\ disturbed \in {"no", "disk", "git"} /\ followed \subseteq Paths

Quiet == disturbed = "no"
Tree == IF outcome = "unchanged" THEN commits[parent] ELSE temp
Ended == outcome \in {"unchanged", "captured"}

\* Two cases in which the code departs from its documentation: a path taken
\* out of the index that an exclude file matches by now, which the snapshot takes
\* for a change of a tracked file (USAGE.md:425 "Ignored untracked files are not
\* included."), and an entry with both flags, which ls-files tags "s".
Departs(p) ==
  \/ index[p] = None /\ HeadTree[p] # None /\ Excluded(p)
  \/ flags[p] = "both"

\* A submodule that is checked out as recorded, or not at all.
Submodule(p) ==
  /\ HeadTree[p].kind = "repo" /\ index[p] = HeadTree[p] /\ flags[p] = "none"
  /\ disk[p] \in {HeadTree[p], Directory}

\* What the documentation calls the visible worktree at p: the file or link on
\* the disk if it is tracked or not ignored, the submodule as recorded, and
\* what HEAD has of a skip-worktree path that is not checked out.
Visible(p) ==
  CASE disk[p].kind \in FileKinds ->
         IF index[p] # None \/ Untracked(p) \/ (HeadTree[p] # None /\ ~Excluded(p))
         THEN disk[p] ELSE None
    [] Submodule(p) -> HeadTree[p]
    [] /\ flags[p] = "skip" /\ disk[p] = None
       /\ \A q \in Above[p] : disk[q].kind \in FileKinds => ~Untracked(q) /\ index[q] = None ->
         HeadTree[p]
    [] OTHER -> None

\* HEAD, the index and what the filters make of the file agree: git shows no
\* difference, whatever the bytes on the disk are.
EqualInGit(p) ==
  /\ flags[p] = "none" /\ index[p] = HeadTree[p]
  /\ Stored(p, disk[p]) = HeadTree[p]

\* The snapshot of a worktree that nobody touches meanwhile is the visible
\* worktree: staged, unstaged, hidden, added and deleted files, links and files
\* in place of directories alike (core/git.py:582, USAGE.md:419).  A file that
\* git takes for unchanged keeps what HEAD has of it, which a filter can make
\* something else than "the current bytes of tracked files" (USAGE.md:421).
QuietSnapshotIsVisible ==
  Ended /\ Quiet =>
    \A p \in Paths :
      \/ Departs(p)
      \/ Tree[p] = Visible(p)
      \/ EqualInGit(p) /\ Tree[p] = HeadTree[p]

\* While the user goes on editing files, the snapshot may mix moments, but each
\* entry of it has a mode and a content that its path had on the disk since the
\* invocation began, or is what HEAD has of a file that passed for unchanged at
\* some moment; and a path is left out only if its file was gone at some moment,
\* is ignored or is a submodule's.  The one window in which the content is none
\* of its path's is a link that is swapped in at or above the path after lstat
\* and before git hash-object follows it: the mode is then still that of lstat.
SnapshotWasOnDisk ==
  Ended /\ disturbed # "git" =>
    \A p \in Paths :
      \/ Departs(p)
      \/ Tree[p] = HeadTree[p] /\ (HeadTree[p].kind = "repo" \/ flags[p] = "skip")
      \/ /\ Tree[p] = HeadTree[p] /\ flags[p] = "none"
         /\ \E e \in seen[p] : Stored(p, e) = Tree[p]
      \/ /\ Tree[p] = None
         /\ \/ Excluded(p)
            \/ \E q \in Above[p] : index[q].kind = "repo"
            \/ \E e \in seen[p] : e.kind \notin FileKinds
      \/ /\ \E e \in seen[p] : e.kind = Tree[p].kind
         /\ p \in followed \/ \E e \in seen[p] : e.body = Tree[p].body

\* What a tree of the outer repository cannot hold: conflicts, nested
\* repositories other than the submodules HEAD has, and special files.
Unrepresentable ==
  \/ unmerged # {}
  \/ \E p \in Paths :
       \/ disk[p].kind = "repo" /\ ~Submodule(p)
       \/ disk[p].kind = "other" /\ (index[p] # None \/ HeadTree[p] # None)

\* What the code refuses of its own accord: any change of a path that is a
\* submodule in HEAD (core/git.py:629), and a path of the index or of HEAD that
\* lies behind a link by now (core/git.py:422), although a tree can hold the link
\* and the deletion (USAGE.md:423 "deletions, mode changes, and symlinks").
SubmoduleChanged == \E p \in Paths : HeadTree[p].kind = "repo" /\ ~Submodule(p)
BehindLink ==
  \E p \in Paths : LinkAbove(p) /\ (index[p] # None \/ HeadTree[p] # None)

\* A quiet capture fails only for one of these causes.  A file that replaced a
\* directory, a directory that replaced a file, or a hidden entry is none.
FailureHasACause ==
  outcome = "failed" /\ Quiet => Unrepresentable \/ SubmoduleChanged \/ BehindLink

\* An explicit committed source is accepted only over a worktree that shows
\* nothing but HEAD: at every path but those the user told git not to look at,
\* what is visible is what HEAD has, or passes for it through the filters.  A
\* change that assume-unchanged or skip-worktree hides is omitted silently, where
\* docs/TECH-DESIGN.md:178 says "preventing silent omission".
CommittedSourceHidesNoChange ==
  outcome = "committed" /\ Quiet =>
    \A p \in Paths :
      \/ flags[p] # "none"
      \/ Visible(p) = HeadTree[p]
      \/ EqualInGit(p)
===============================================================================
