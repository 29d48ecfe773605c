--------------------------- MODULE WorktreeSnapshot ---------------------------
(***************************************************************************)
(* How a command-line or local Web review fixes what it reviews            *)
(* (platform/cli/invocation.py, core/git.py): the refs are resolved and    *)
(* the visible worktree is captured as an unreachable commit, through a    *)
(* temporary index, while the user may go on editing, staging and          *)
(* committing between any two git commands.                                *)
(*                                                                         *)
(* A tree, an index and the disk give every path an entry of one type, so  *)
(* that they can be compared.  A gitlink of a tree or an index has the     *)
(* kind "repo" of the nested repository it stands for.  What lies inside a *)
(* nested repository is not modelled.                                      *)
(***************************************************************************)
EXTENDS Naturals, Integers, Sequences, FiniteSets

CONSTANTS
  Paths,          \* repository paths
  Above,          \* Above[p]: the directories that p lies in
  Rank,           \* the sort order of the paths
  Bodies,         \* contents of files, targets of links, commits of submodules
  NoBody,         \* the body of what has none
  Clean,          \* what the clean filters of git make of a content at a path
  Puts,           \* the entries the user puts on the disk
  Heads,          \* the trees that are checked out at first
  Requests,       \* the invocations to check
  MaxPrepared,    \* bound: steps of the user before the invocation
  MaxConcurrent   \* bound: steps of the user during it

FileKinds == {"file", "exec", "link"}
TreeKinds == FileKinds \cup {"repo"}
DiskKinds == TreeKinds \cup {"dir", "other"}

Entries(kinds) ==
  { [kind |-> k, body |-> b] : k \in kinds \ {"dir", "other"}, b \in Bodies }
    \cup { [kind |-> k, body |-> NoBody] : k \in kinds \cap {"dir", "other"} }

None == [kind |-> "none", body |-> NoBody]
Directory == [kind |-> "dir", body |-> NoBody]

Empty == [p \in Paths |-> None]
Below(p) == { q \in Paths : p \in Above[q] }
\* What git add would make of an entry: the content of a file passes through
\* the filters (line endings, LFS), that of a link or a submodule does not.
Stored(p, entry) ==
  IF entry.kind \in {"file", "exec"} THEN [entry EXCEPT !.body = Clean[p][@]]
  ELSE entry

IsTree(t) ==
  \A p \in Paths : t[p] # None => \A q \in Above[p] : t[q] = None

Refs == {"", "HEAD", "HEAD~1"}
Request == [target : Refs, commits : {"", "-1", "0", "1"}, proposed : Refs,
            trusted : BOOLEAN]

ASSUME SnapshotAssumption ==
  /\ IsFiniteSet(Paths)
  /\ Above \in [Paths -> SUBSET Paths]
  /\ \A p \in Paths : p \notin Above[p] /\ \A q \in Above[p] : Above[q] \subseteq Above[p]
  /\ Rank \in [Paths -> Nat]
  /\ Clean \in [Paths -> [Bodies -> Bodies]]
  /\ Puts \subseteq Entries(DiskKinds)
  /\ Heads \subseteq [Paths -> {None} \cup Entries(TreeKinds)]
  /\ \A t \in Heads : IsTree(t)
  /\ NoBody \notin Bodies
  /\ Requests \subseteq Request
  /\ MaxPrepared \in Nat /\ MaxConcurrent \in Nat

VARIABLES
  disk,        \* the files of the worktree
  index,       \* the user's index
  flags,       \* assume-unchanged and skip-worktree bits of its entries
  unmerged,    \* paths with unresolved merge entries
  ignored,     \* paths an exclude file matches
  commits,     \* the trees of the branch, HEAD last
  edits,       \* steps the user has taken; those left over end with Begin
  pc,          \* what the invocation does next
  request,     \* its options
  target,      \* the resolved target, a position in commits
  parent,      \* HEAD as it was resolved, or 0
  found,       \* the changed paths listed so far
  sparse,      \* those whose entry is skip-worktree
  todo,        \* the changed paths still to be hashed
  looked,      \* what lstat said of the path being hashed
  temp,        \* the temporary index
  outcome,     \* how the invocation ended
  seen,        \* (history) what was on the disk since the invocation began
  disturbed,   \* (history) what the user did since: "no", "disk" or "git"
  followed     \* (history) paths hashed while a link stood at or above them

worktree == <<disk, index, flags, unmerged, ignored, commits>>
user == <<worktree, edits>>
listing == <<found, sparse>>
hashing == <<todo, looked, temp>>
history == <<seen, disturbed, followed>>
refs == <<request, target, parent>>
vars == <<user, pc, refs, listing, hashing, outcome, history>>

HeadTree == commits[Len(commits)]

\* The states a checkout starts in: two commits, the second one checked out
\* through the filters.  A commit that holds what they would change has none.
Init ==
  /\ commits \in { <<Empty, t>> : t \in Heads }
  /\ disk \in [Paths -> {None, Directory} \cup Entries(TreeKinds)]
  /\ \A p \in Paths : Stored(p, disk[p]) = IF \E q \in Below(p) : HeadTree[q] # None
                                           THEN Directory ELSE HeadTree[p]
  /\ index = HeadTree
  /\ flags = [p \in Paths |-> "none"]
  /\ unmerged = {} /\ ignored = {} /\ edits = 0
  /\ pc = "idle"
  /\ request = [target |-> "", commits |-> "", proposed |-> "", trusted |-> TRUE]
  /\ target = 0 /\ parent = 0
  /\ found = {} /\ sparse = {} /\ todo = {} /\ looked = None
  /\ temp = Empty
  /\ outcome = "pending"
  /\ seen = [p \in Paths |-> {}] /\ disturbed = "no" /\ followed = {}
-------------------------------------------------------------------------------
(* The user.                                                               *)

Busy == pc # "idle"

Act(what) ==
  /\ outcome = "pending"
  /\ edits < (IF Busy THEN MaxPrepared + MaxConcurrent ELSE MaxPrepared)
  /\ edits' = edits + 1
  /\ disturbed' = IF ~Busy THEN "no"
                  ELSE IF disturbed = "git" THEN "git" ELSE what
  /\ UNCHANGED <<pc, refs, listing, hashing, outcome, followed>>

\* Replacing p drops what lies below it and makes the directories above it.
Written(p, entry) ==
  [q \in Paths |->
     CASE q = p -> entry
       [] q \in Below(p) -> None
       [] q \in Above[p] -> IF entry = None THEN disk[q] ELSE Directory
       [] OTHER -> disk[q]]

Edit(p, entry) ==
  /\ Act("disk")
  /\ disk[p] # entry
  /\ disk' = Written(p, entry)
  /\ seen' = IF Busy THEN [q \in Paths |-> seen[q] \cup {disk'[q]}] ELSE seen
  /\ UNCHANGED <<index, flags, unmerged, ignored, commits>>

\* git add: what is staged replaces what conflicts with it in the index.
Stage(p) ==
  /\ Act("git")
  /\ disk[p].kind \in TreeKinds /\ flags[p] = "none"
  /\ index[p] # Stored(p, disk[p]) \/ p \in unmerged
  /\ index' = [q \in Paths |-> CASE q = p -> Stored(p, disk[p])
                                 [] q \in Above[p] \cup Below(p) -> None
                                 [] OTHER -> index[q]]
  /\ flags' = [q \in Paths |-> IF q \in Above[p] \cup Below(p) THEN "none" ELSE flags[q]]
  /\ unmerged' = unmerged \ ({p} \cup Above[p] \cup Below(p))
  /\ UNCHANGED <<disk, ignored, commits, seen>>

\* git rm --cached
Unstage(p) ==
  /\ Act("git")
  /\ index[p] # None
  /\ index' = [index EXCEPT ![p] = None]
  /\ flags' = [flags EXCEPT ![p] = "none"]
  /\ unmerged' = unmerged \ {p}
  /\ UNCHANGED <<disk, ignored, commits, seen>>

SetFlag(p, flag) ==
  /\ Act("git")
  /\ index[p] # None /\ p \notin unmerged /\ flags[p] # flag
  /\ flags' = [flags EXCEPT ![p] = flag]
  /\ UNCHANGED <<disk, index, unmerged, ignored, commits, seen>>

Ignore(p) ==
  /\ Act("git")
  /\ p \notin ignored
  /\ ignored' = ignored \cup {p}
  /\ UNCHANGED <<disk, index, flags, unmerged, commits, seen>>

\* A merge stops with p in conflict.
Conflict(p) ==
  /\ Act("git")
  /\ index[p].kind \in FileKinds /\ flags[p] = "none" /\ p \notin unmerged
  /\ unmerged' = unmerged \cup {p}
  /\ UNCHANGED <<disk, index, flags, ignored, commits, seen>>

CommitIndex ==
  /\ Act("git")
  /\ unmerged = {} /\ index # HeadTree
  /\ commits' = Append(commits, index)
  /\ UNCHANGED <<disk, index, flags, unmerged, ignored, seen>>

User ==
  \/ \E p \in Paths, entry \in {None} \cup Puts : Edit(p, entry)
  \/ \E p \in Paths : Stage(p) \/ Unstage(p) \/ Ignore(p) \/ Conflict(p)
  \/ \E p \in Paths, flag \in {"assume", "skip", "both"} : SetFlag(p, flag)
  \/ CommitIndex
-------------------------------------------------------------------------------
(* What git says of the worktree.                                          *)

\* git ls-files -v: the tag of an entry.
Tag(p) == CASE flags[p] = "assume" -> "h"
            [] flags[p] = "skip" -> "S"
            [] flags[p] = "both" -> "s"
            [] OTHER -> IF p \in unmerged THEN "M" ELSE "H"

\* An entry with a flag is taken for unchanged, and so is a submodule that is
\* not checked out.
Modified(p, entry) ==
  /\ index[p] # None /\ flags[p] = "none"
  /\ entry # index[p]
  /\ ~(index[p].kind = "repo" /\ entry = Directory)

\* git diff compares what the filters make of the file.
DiffersOnDisk(p) == p \in unmerged \/ Modified(p, Stored(p, disk[p]))

\* git diff --cached
DiffersInIndex(p) == p \in unmerged \/ index[p] # HeadTree[p]

Excluded(p) == ({p} \cup Above[p]) \cap ignored # {}

\* git ls-files --others --exclude-standard: neither directories nor special
\* files; a nested repository unless the index has something below it.
Untracked(p) ==
  /\ index[p] = None
  /\ ~Excluded(p)
  /\ \/ disk[p].kind \in FileKinds
     \/ disk[p].kind = "repo" /\ \A q \in Below(p) : index[q] = None
  /\ \A q \in Above[p] : index[q].kind # "repo"

\* git status --porcelain is empty, or may show a file that differs from the
\* index before the filters only, by its size.
WorktreeIsClean_Slip ==
  \A p \in Paths : ~DiffersOnDisk(p) /\ ~Untracked(p)
WorktreeIsClean ==
  \A p \in Paths : ~DiffersOnDisk(p) /\ ~DiffersInIndex(p) /\ ~Untracked(p)
MayLookModified == \E p \in Paths : Modified(p, disk[p])
-------------------------------------------------------------------------------
(* The invocation: prepare_cli_review, one action per git command.         *)

End(how) ==
  /\ outcome' = how
  /\ pc' = "done"

Resolve(ref) == IF ref = "HEAD~1" THEN Len(commits) - 1 ELSE Len(commits)

TargetRef ==
  IF request.target # "" THEN request.target
  ELSE IF request.commits \in {"", "0"} THEN "HEAD" ELSE "HEAD~1"

OptionsAgree(r) ==
  /\ ~(r.target # "" /\ r.commits # "")
  /\ r.commits # "-1"
  /\ ~(r.proposed # "" /\ r.commits # "")

\* HEAD is resolved before the policies are read.
Begin(r) ==
  /\ pc = "idle"
  /\ request' = r
  /\ \/ ~OptionsAgree(r) /\ End("refused") /\ UNCHANGED parent
     \/ /\ OptionsAgree(r)
        /\ parent' = IF r.proposed = "" \/ r.target = "" THEN Len(commits) ELSE 0
        /\ pc' = IF r.proposed = "" THEN "policies" ELSE "clean"
        /\ UNCHANGED outcome
  /\ seen' = [p \in Paths |-> {disk[p]}]
  /\ edits' = MaxPrepared
  /\ UNCHANGED <<worktree, target, listing, hashing, disturbed, followed>>

RequireClean ==
  /\ pc = "clean"
  /\ \/ WorktreeIsClean /\ pc' = "policies" /\ UNCHANGED outcome
     \/ (~WorktreeIsClean \/ MayLookModified) /\ End("refused")
  /\ UNCHANGED <<user, refs, listing, hashing, history>>

\* The policies are read before the target is resolved, without a git command
\* in between: each has to be a file outside the worktree.
ResolveTarget ==
  /\ pc = "policies"
  /\ \/ ~request.trusted /\ End("refused") /\ UNCHANGED target
     \/ /\ request.trusted
        /\ target' = Resolve(TargetRef)
        /\ pc' = IF request.proposed = "" THEN "unmerged" ELSE "proposed"
        /\ UNCHANGED outcome
  /\ UNCHANGED <<user, request, parent, listing, hashing, history>>

ResolveProposed ==
  /\ pc = "proposed"
  /\ temp' = commits[Resolve(request.proposed)]
  /\ End("committed")
  /\ UNCHANGED <<user, refs, listing, todo, looked, history>>
-------------------------------------------------------------------------------
(* The capture: snapshot_git_working_tree_as_commit.  A GitCliError of any *)
(* command ends it as an InvalidInvocationError.                           *)

ListUnmerged ==
  /\ pc = "unmerged"
  /\ \/ unmerged # {} /\ End("failed")
     \/ unmerged = {} /\ pc' = "hidden" /\ UNCHANGED outcome
  /\ UNCHANGED <<user, refs, listing, hashing, history>>

HiddenTags_Slip == {"S"}
HiddenTags == {"h", "S"}

ListHidden ==
  /\ pc = "hidden"
  /\ found' = { p \in Paths : Tag(p) \in HiddenTags }
  /\ sparse' = { p \in Paths : Tag(p) = "S" }
  /\ pc' = "diff"
  /\ UNCHANGED <<user, refs, hashing, outcome, history>>

ListChanged(step, changed, next) ==
  /\ pc = step
  /\ found' = found \cup changed
  /\ pc' = next
  /\ UNCHANGED <<user, refs, sparse, hashing, outcome, history>>

ListDiff == ListChanged("diff", { p \in Paths : DiffersOnDisk(p) }, "cached")
ListCached == ListChanged("cached", { p \in Paths : DiffersInIndex(p) }, "others")

LinkAbove(p) == \E q \in Above[p] : disk[q].kind = "link"

\* The last listing is followed at once by the filter that keeps a
\* skip-worktree path only while it is on the disk.
ListOthers ==
  /\ pc = "others"
  /\ LET changed == found \cup { p \in Paths : Untracked(p) } IN
       \/ /\ \E p \in changed \cap sparse : LinkAbove(p)
          /\ End("failed")
          /\ UNCHANGED todo
       \/ /\ \A p \in changed \cap sparse : ~LinkAbove(p)
          /\ todo' = { p \in changed : p \in sparse => disk[p] # None }
          /\ \/ todo' = {} /\ End("unchanged")
             \/ todo' # {} /\ pc' = "baseline" /\ UNCHANGED outcome
  /\ UNCHANGED <<user, refs, listing, looked, temp, history>>

\* The entries of the baseline that a changed path replaces, is or removes.
Affected_Slip(changed) ==
  { p \in Paths : \E q \in changed : p = q \/ p \in Below(q) }
Affected(changed) ==
  { p \in Paths : \E q \in changed : p = q \/ p \in Above[q] \/ p \in Below(q) }

\* Objects and the temporary index are private to the capture, so that reading
\* the parent's tree and removing what is affected are one step.
ReadBaseline ==
  /\ pc = "baseline"
  /\ temp' = [p \in Paths |-> IF p \in Affected(todo) THEN None
                              ELSE commits[parent][p]]
  /\ pc' = "look"
  /\ UNCHANGED <<user, refs, listing, todo, looked, outcome, history>>

NextPath(paths) == CHOOSE p \in paths : \A q \in paths : Rank[p] <= Rank[q]

\* git update-index --add --cacheinfo refuses a file in place of a directory
\* and a file below a file.
Conflicts_Slip(p) == \E q \in Below(p) : temp[q] # None
Conflicts(p) == \E q \in Above[p] \cup Below(p) : temp[q] # None

Add(p, entry) ==
  \/ Conflicts(p) /\ End("failed") /\ UNCHANGED <<temp, todo, looked>>
  \/ /\ ~Conflicts(p)
     /\ temp' = [temp EXCEPT ![p] = entry]
     /\ todo' = todo \ {p}
     /\ looked' = None
     /\ pc' = "look"
     /\ UNCHANGED outcome

Refused(p) ==
  \/ commits[parent][p].kind = "repo"
  \/ LinkAbove(p)
  \/ disk[p].kind \in {"repo", "other"}

\* lstat, and for a link also readlink, which follows without an await.
Look ==
  /\ pc = "look" /\ todo # {}
  /\ LET p == NextPath(todo) IN
       \/ Refused(p) /\ End("failed") /\ UNCHANGED <<temp, todo, looked>>
       \/ /\ ~Refused(p)
          /\ \/ /\ disk[p].kind \in {"none", "dir"}
                /\ todo' = todo \ {p}
                /\ UNCHANGED <<temp, looked, pc, outcome>>
             \/ disk[p].kind = "link" /\ Add(p, disk[p])
             \/ /\ disk[p].kind \in {"file", "exec"}
                /\ looked' = disk[p]
                /\ pc' = "hash"
                /\ UNCHANGED <<temp, todo, outcome>>
  /\ UNCHANGED <<user, refs, listing, history>>

\* git hash-object --no-filters opens the path again: the bytes are those of
\* now, the mode is that of lstat.  A link now leads it anywhere.
HashedBodies_Slip(p) ==
  IF index[p] # None THEN {index[p].body} ELSE {disk[p].body}
HashedBodies(p) ==
  CASE disk[p].kind \in {"file", "exec"} -> {disk[p].body}
    [] disk[p].kind = "link" -> Bodies
    [] LinkAbove(p) -> Bodies
    [] OTHER -> {}

Hash ==
  /\ pc = "hash"
  /\ LET p == NextPath(todo) IN
       /\ \/ \E b \in HashedBodies(p) : Add(p, [kind |-> looked.kind, body |-> b])
          \/ /\ HashedBodies(p) = {} \/ disk[p].kind = "link" \/ LinkAbove(p)
             /\ End("failed")
             /\ UNCHANGED <<temp, todo, looked>>
       /\ followed' = IF disk[p].kind = "link" \/ LinkAbove(p) THEN followed \cup {p} ELSE followed
  /\ UNCHANGED <<user, refs, listing, seen, disturbed>>

\* git write-tree and git commit-tree
WriteCommit ==
  /\ pc = "look" /\ todo = {}
  /\ End(IF temp = commits[parent] THEN "unchanged" ELSE "captured")
  /\ UNCHANGED <<user, refs, listing, hashing, history>>

Capture ==
  \/ ListUnmerged \/ ListHidden \/ ListDiff \/ ListCached \/ ListOthers
  \/ ReadBaseline \/ Look \/ Hash \/ WriteCommit

Next ==
  \/ User
  \/ \E r \in Requests : Begin(r)
  \/ RequireClean \/ ResolveTarget \/ ResolveProposed
  \/ Capture

Spec == Init /\ [][Next]_vars
===============================================================================
