------------------------ MODULE WorktreeSnapshotProofs ------------------------
(***************************************************************************)
(* For any finite set of paths, directories, contents, checkouts, requests *)
(* and steps of the user: what a capture makes is well typed, is the       *)
(* visible worktree when nobody touches it, and holds nothing that was not *)
(* on the disk when only files are edited meanwhile.                       *)
(***************************************************************************)
EXTENDS WorktreeSnapshotProps, FiniteSetTheorems, TLAPS

-----------------------------------------------------------------------------
(* Entries, trees and paths.                                               *)

DiskEntries == {None} \cup Entries(DiskKinds)
TreeEntries == {None} \cup Entries(TreeKinds)
Trees == {t \in [Paths -> TreeEntries] : IsTree(t)}

\* No entry but None has its kind; what a tree cannot hold has no content.
LEMMA EntriesAre ==
  /\ \A e \in Entries(DiskKinds) :
       /\ e = [kind |-> e.kind, body |-> e.body]
       /\ e.kind \in DiskKinds /\ e # None
       /\ e.kind \in TreeKinds => e.body \in Bodies /\ e \in Entries(TreeKinds)
       /\ e.kind = "dir" => e = Directory
  /\ Entries(TreeKinds) \subseteq Entries(DiskKinds)
  /\ \A e \in Entries(TreeKinds) : e.kind \in TreeKinds
  /\ \A k \in TreeKinds, b \in Bodies : [kind |-> k, body |-> b] \in Entries(TreeKinds)
  /\ Directory \in Entries(DiskKinds) /\ Directory.kind = "dir"
  /\ None.kind = "none"
<1>1. /\ TreeKinds \ {"dir", "other"} = TreeKinds
      /\ TreeKinds \cap {"dir", "other"} = {}
      /\ DiskKinds \ {"dir", "other"} = TreeKinds
      /\ DiskKinds \cap {"dir", "other"} = {"dir", "other"}
  BY DEF TreeKinds, DiskKinds, FileKinds
<1>2. Entries(TreeKinds) = {[kind |-> k, body |-> b] : k \in TreeKinds, b \in Bodies}
  BY <1>1 DEF Entries
<1>3. Entries(DiskKinds) = Entries(TreeKinds) \cup {[kind |-> k, body |-> NoBody] : k \in {"dir", "other"}}
  BY <1>1, <1>2 DEF Entries
<1>4. TreeKinds \cap {"none", "dir", "other"} = {} /\ TreeKinds \cup {"dir", "other"} = DiskKinds
  BY DEF TreeKinds, DiskKinds, FileKinds
<1>5. \A e \in Entries(TreeKinds) : /\ e = [kind |-> e.kind, body |-> e.body]
                                    /\ e.kind \in TreeKinds /\ e.body \in Bodies
  BY <1>2
<1>6. \A e \in Entries(DiskKinds) \ Entries(TreeKinds) :
        e = [kind |-> e.kind, body |-> NoBody] /\ e.kind \in {"dir", "other"} /\ e.body = NoBody
  BY <1>3
<1>7. \A e \in Entries(DiskKinds) :
       /\ e = [kind |-> e.kind, body |-> e.body]
       /\ e.kind \in DiskKinds /\ e # None
       /\ e.kind \in TreeKinds => e.body \in Bodies /\ e \in Entries(TreeKinds)
       /\ e.kind = "dir" => e = Directory
  BY <1>4, <1>5, <1>6 DEF None, Directory
<1>8. /\ \A k \in TreeKinds, b \in Bodies : [kind |-> k, body |-> b] \in Entries(TreeKinds)
      /\ Directory \in Entries(DiskKinds) /\ Directory.kind = "dir"
      /\ None.kind = "none"
  BY <1>2, <1>3 DEF Directory, None
<1> QED BY <1>3, <1>5, <1>7, <1>8

\* The filters change the content of a file, nothing else.
LEMMA StoredIs ==
  ASSUME NEW p \in Paths, NEW e \in DiskEntries
  PROVE  /\ Stored(p, e).kind = e.kind
         /\ e.kind \notin {"file", "exec"} => Stored(p, e) = e
         /\ e.kind \in TreeKinds => Stored(p, e) \in Entries(TreeKinds)
<1>1. CASE e.kind \notin {"file", "exec"}
  BY <1>1, EntriesAre DEF Stored, DiskEntries, TreeKinds, FileKinds
<1>2. CASE e.kind \in {"file", "exec"}
  <2>1. e \in Entries(DiskKinds)
    BY <1>2, EntriesAre DEF DiskEntries
  <2>2. e.kind \in TreeKinds /\ e.body \in Bodies /\ e = [kind |-> e.kind, body |-> e.body]
    BY <1>2, <2>1, EntriesAre DEF TreeKinds, FileKinds
  <2>3. Clean[p][e.body] \in Bodies
    BY <2>2, SnapshotAssumption
  <2>4. Stored(p, e) = [kind |-> e.kind, body |-> Clean[p][e.body]]
    BY <1>2, <2>2 DEF Stored
  <2> QED BY <1>2, <2>2, <2>3, <2>4, EntriesAre
<1> QED BY <1>1, <1>2

\* The relation of directories: what lies below p lies in p.
LEMMA PathsAre ==
  /\ Above \in [Paths -> SUBSET Paths]
  /\ \A p \in Paths : p \notin Above[p] /\ p \notin Below(p) /\ Below(p) \subseteq Paths
  /\ \A p, q \in Paths : q \in Below(p) <=> p \in Above[q]
  /\ \A p, q, r \in Paths : p \in Above[q] /\ q \in Above[r] => p \in Above[r]
<1>1. /\ Above \in [Paths -> SUBSET Paths]
      /\ \A p \in Paths : p \notin Above[p] /\ \A q \in Above[p] : Above[q] \subseteq Above[p]
  BY SnapshotAssumption
<1> QED BY <1>1 DEF Below

\* The path that is hashed next is one of those left.
LEMMA NextIsLeft ==
  ASSUME NEW left \in SUBSET Paths, left # {}
  PROVE  NextPath(left) \in left
<1> DEFINE Before(p) == {q \in left : Rank[q] < Rank[p]}
           T == {Before(p) : p \in left}
<1>1. IsFiniteSet(left)
  BY FS_Subset, SnapshotAssumption
<1>2. T \subseteq FiniteSubsetsOf(left) /\ T # {}
  <2>1. FiniteSubsetsOf(left) = SUBSET left
    BY <1>1, FS_FiniteSubsetsOfFinite
  <2>2. \A p \in left : Before(p) \in SUBSET left
    OBVIOUS
  <2>3. T # {}
    OBVIOUS
  <2> HIDE DEF Before
  <2> QED BY <2>1, <2>2, <2>3
<1>3. IsWellFoundedOn(StrictSubsetOrdering(left), FiniteSubsetsOf(left))
  BY FS_StrictSubsetOrderingWellFounded
<1>4. \E x \in T : \A y \in T : ~ (<<y, x>> \in StrictSubsetOrdering(left))
  <2> HIDE DEF T
  <2> QED BY <1>2, <1>3, WFMin
<1>5. PICK p \in left : \A q \in left : ~ (<<Before(q), Before(p)>> \in StrictSubsetOrdering(left))
  BY <1>4
<1>6. \A q \in left : Rank[q] \in Nat
  BY SnapshotAssumption
<1>7. ASSUME NEW q \in left, Rank[q] < Rank[p] PROVE FALSE
  <2>1. Before(q) \subseteq Before(p) /\ q \in Before(p) /\ q \notin Before(q)
    BY <1>6, <1>7
  <2>2. <<Before(q), Before(p)>> \in StrictSubsetOrdering(left)
    BY <2>1 DEF StrictSubsetOrdering
  <2> QED BY <1>5, <2>2
<1>8. \A q \in left : Rank[p] <= Rank[q]
  BY <1>6, <1>7
<1> QED BY <1>8 DEF NextPath

-----------------------------------------------------------------------------
(* Types.                                                                  *)

\* What the user has: a disk whose entries lie in directories, an index and
\* commits that are trees, and flags of entries that exist.
WorktreeOK ==
  /\ disk \in [Paths -> DiskEntries]
  /\ \A p \in Paths : disk[p] # None => \A q \in Above[p] : disk[q] = Directory
  /\ index \in Trees
  /\ flags \in [Paths -> {"none", "assume", "skip", "both"}]
  /\ \A p \in Paths : flags[p] # "none" => index[p] # None
  /\ unmerged \subseteq {p \in Paths : index[p] # None}
  /\ ignored \subseteq Paths
  /\ commits \in Seq(Trees) /\ Len(commits) >= 2

Capturing == {"unmerged", "hidden", "diff", "cached", "others", "baseline", "look", "hash"}
Positions == Capturing \cup {"idle", "clean", "policies", "proposed", "done"}

\* What the invocation has got so far.
CaptureOK ==
  /\ pc \in Positions /\ request \in Request
  /\ target \in 0 .. Len(commits) /\ parent \in 0 .. Len(commits)
  /\ found \subseteq Paths /\ sparse \subseteq found /\ todo \subseteq Paths
  /\ temp \in Trees
  /\ outcome \in Outcomes /\ (outcome = "pending" <=> pc # "done")
  /\ disturbed \in {"no", "disk", "git"}
  /\ pc = "hash" => looked.kind \in {"file", "exec"} /\ todo # {}
  /\ pc \in Capturing \cup {"policies"} /\ request.proposed = "" => parent # 0
  /\ pc \in Capturing => request.proposed = ""
  /\ pc \in {"clean", "proposed"} => request.proposed # ""

\* What was seen on the disk since the invocation began is what was there.
SeenOK ==
  /\ seen \in [Paths -> SUBSET DiskEntries] /\ followed \subseteq Paths
  /\ pc # "idle" => \A p \in Paths : disk[p] \in seen[p]

Typed == WorktreeOK /\ CaptureOK /\ SeenOK

LEMMA TypedIsOK == Typed => SnapshotTypeOK
BY DEF Typed, WorktreeOK, CaptureOK, SeenOK, SnapshotTypeOK, Trees, TreeEntries, DiskEntries

LEMMA PairIsSeq == ASSUME NEW S, NEW a \in S, NEW b \in S
                   PROVE  <<a, b>> \in Seq(S) /\ Len(<<a, b>>) = 2 /\ <<a, b>>[2] = b
OBVIOUS

LEMMA TypedInit == ASSUME Init PROVE Typed
<1>1. PICK t \in Heads : commits = <<Empty, t>>
  BY DEF Init
<1>2. t \in Trees
  BY SnapshotAssumption DEF Trees, TreeEntries
<1>3. Empty \in Trees
  BY DEF Empty, Trees, TreeEntries, IsTree
<1>4. commits \in Seq(Trees) /\ Len(commits) = 2 /\ HeadTree = t
  BY <1>1, <1>2, <1>3, PairIsSeq DEF HeadTree
<1>5. /\ disk \in [Paths -> {None, Directory} \cup Entries(TreeKinds)]
      /\ \A p \in Paths : Stored(p, disk[p]) = IF \E q \in Below(p) : t[q] # None THEN Directory ELSE t[p]
  BY <1>4 DEF Init
<1>6. disk \in [Paths -> DiskEntries]
  BY <1>5, EntriesAre DEF DiskEntries
<1>7. \A p \in Paths : disk[p] # None => \A q \in Above[p] : disk[q] = Directory
  <2> SUFFICES ASSUME NEW p \in Paths, disk[p] # None, NEW q \in Above[p] PROVE disk[q] = Directory
    OBVIOUS
  <2>0. Stored(p, disk[p]) # None
    <3>1. disk[p] \in DiskEntries /\ disk[p].kind # "none"
      BY <1>5, <1>6, EntriesAre DEF DiskKinds, TreeKinds, FileKinds
    <3> QED BY <3>1, StoredIs, EntriesAre
  <2>1. \E r \in Paths : (r = p \/ r \in Below(p)) /\ t[r] # None
    BY <1>5, <2>0, PathsAre
  <2>2. \E r \in Below(q) : t[r] # None
    BY <2>1, PathsAre
  <2>3. q \in Paths
    BY PathsAre
  <2>4. Stored(q, disk[q]) = Directory /\ disk[q] \in DiskEntries
    BY <1>5, <1>6, <2>2, <2>3
  <2>5. disk[q].kind = "dir"
    BY <2>3, <2>4, StoredIs, EntriesAre
  <2> QED BY <2>3, <2>4, <2>5, StoredIs
<1>8. /\ index = t /\ flags = [p \in Paths |-> "none"] /\ unmerged = {} /\ ignored = {}
      /\ pc = "idle" /\ outcome = "pending" /\ found = {} /\ sparse = {} /\ todo = {}
      /\ disturbed = "no" /\ target = 0 /\ parent = 0 /\ temp = Empty /\ seen = [p \in Paths |-> {}]
      /\ followed = {}
      /\ request = [target |-> "", commits |-> "", proposed |-> "", trusted |-> TRUE]
  BY <1>4 DEF Init
<1>9. WorktreeOK
  <2>1. flags \in [Paths -> {"none", "assume", "skip", "both"}] /\ \A p \in Paths : flags[p] = "none"
    BY <1>8
  <2>2. unmerged \subseteq {p \in Paths : index[p] # None} /\ ignored \subseteq Paths
    BY <1>8
  <2>3. Len(commits) >= 2
    BY <1>4
  <2>4. index \in Trees
    BY <1>2, <1>8
  <2> QED BY <1>4, <1>6, <1>7, <2>1, <2>2, <2>3, <2>4 DEF WorktreeOK
<1>10. CaptureOK
  <2>1. request \in Request
    BY <1>8 DEF Request, Refs
  <2>2. target \in 0 .. Len(commits) /\ parent \in 0 .. Len(commits)
    <3>1. Len(commits) = 2 /\ target = 0 /\ parent = 0
      BY <1>4, <1>8
    <3>2. 0 \in 0 .. 2
      OBVIOUS
    <3> QED BY <3>1, <3>2, Zenon
  <2>3. temp \in Trees
    BY <1>3, <1>8
  <2>4. pc \in Positions /\ pc \notin Capturing /\ outcome \in Outcomes
    BY <1>8 DEF Positions, Capturing, Outcomes
  <2> QED BY <1>8, <2>1, <2>2, <2>3, <2>4 DEF CaptureOK
<1>11. SeenOK
  BY <1>8 DEF SeenOK
<1> QED BY <1>9, <1>10, <1>11 DEF Typed

\* Writing an entry leaves every entry of the disk in directories.
LEMMA WrittenIs ==
  ASSUME WorktreeOK, NEW p \in Paths, NEW entry \in DiskEntries
  PROVE  /\ Written(p, entry) \in [Paths -> DiskEntries]
         /\ \A q \in Paths : Written(p, entry)[q] # None =>
              \A r \in Above[q] : Written(p, entry)[r] = Directory
<1> DEFINE W == Written(p, entry)
<1>1. /\ W = [q \in Paths |-> W[q]]
      /\ W[p] = entry
      /\ \A q \in Below(p) : W[q] = None
      /\ \A q \in Above[p] : W[q] = IF entry = None THEN disk[q] ELSE Directory
      /\ \A q \in Paths : q # p /\ q \notin Below(p) /\ q \notin Above[p] => W[q] = disk[q]
  BY PathsAre DEF Written
<1>2. None \in DiskEntries /\ Directory \in DiskEntries
  BY EntriesAre DEF DiskEntries
<1>3. \A q \in Paths : disk[q] \in DiskEntries /\ (disk[q] # None => \A r \in Above[q] : disk[r] = Directory)
  BY DEF WorktreeOK
<1> HIDE DEF W
<1>4. \A q \in Paths : W[q] \in DiskEntries
  BY <1>1, <1>2, <1>3, PathsAre
<1>5. ASSUME NEW q \in Paths, W[q] # None, NEW r \in Above[q] PROVE W[r] = Directory
  <2>1. r \in Paths /\ q \notin Below(p)
    BY <1>1, <1>5, PathsAre
  <2>2. CASE q = p
    BY <1>1, <1>5, <2>2
  <2>3. CASE q \in Above[p]
    BY <1>1, <1>3, <1>5, <2>3, PathsAre
  <2>4. CASE q # p /\ q \notin Above[p]
    <3>1. disk[r] = Directory
      BY <1>1, <1>3, <1>5, <2>1, <2>4
    <3>2. r # p /\ r \notin Below(p)
      BY <1>5, <2>1, PathsAre
    <3> QED BY <1>1, <2>1, <3>1, <3>2
  <2> QED BY <2>2, <2>3, <2>4
<1> QED BY <1>1, <1>4, <1>5 DEF W

\* An entry that replaces what conflicts with it keeps a tree a tree.
LEMMA PlacedIsTree ==
  ASSUME NEW t \in Trees, NEW p \in Paths, NEW entry \in TreeEntries,
         NEW u, u = [q \in Paths |-> CASE q = p -> entry [] q \in Above[p] \cup Below(p) -> None
                                       [] OTHER -> t[q]]
  PROVE  u \in Trees
<1>1. /\ u[p] = entry
      /\ \A q \in Above[p] \cup Below(p) : u[q] = None
      /\ \A q \in Paths : q # p /\ q \notin Below(p) /\ q \notin Above[p] => u[q] = t[q]
  BY PathsAre
<1>2. \A q \in Paths : t[q] \in TreeEntries /\ (t[q] # None => \A r \in Above[q] : t[r] = None)
  BY DEF Trees, IsTree
<1>3. u \in [Paths -> TreeEntries]
  BY <1>1, <1>2, PathsAre DEF TreeEntries
<1>4. IsTree(u)
  BY <1>1, <1>2, PathsAre DEF IsTree
<1> QED BY <1>3, <1>4 DEF Trees

\* A tree without some of its entries is one.
LEMMA RestIsTree ==
  ASSUME NEW t \in Trees, NEW gone, NEW u, u = [q \in Paths |-> IF q \in gone THEN None ELSE t[q]]
  PROVE  u \in Trees
BY PathsAre DEF Trees, IsTree, TreeEntries

\* What every step of the user leaves alone, and what it disturbs.
LEMMA UserKeeps ==
  ASSUME User
  PROVE  /\ UNCHANGED <<pc, refs, listing, hashing, outcome, followed>> /\ outcome = "pending"
         /\ pc = "idle" => disturbed' = "no" /\ seen' = seen
         /\ pc # "idle" => disturbed' \in {"disk", "git"}
         /\ pc # "idle" =>
              \/ /\ disturbed' = "git" /\ disk' = disk /\ seen' = seen
              \/ /\ disturbed' = IF disturbed = "git" THEN "git" ELSE "disk"
                 /\ UNCHANGED <<index, flags, unmerged, ignored, commits>>
                 /\ seen' = [q \in Paths |-> seen[q] \cup {disk'[q]}]
<1>1. ASSUME NEW what \in {"disk", "git"}, Act(what)
      PROVE  /\ UNCHANGED <<pc, refs, listing, hashing, outcome, followed>> /\ outcome = "pending"
             /\ pc = "idle" => disturbed' = "no"
             /\ pc # "idle" => disturbed' = IF disturbed = "git" THEN "git" ELSE what
  BY <1>1 DEF Act, Busy
<1>2. ASSUME NEW p \in Paths, NEW entry \in {None} \cup Puts, Edit(p, entry)
      PROVE  /\ Act("disk")
             /\ UNCHANGED <<index, flags, unmerged, ignored, commits>>
             /\ pc = "idle" => seen' = seen
             /\ pc # "idle" => seen' = [q \in Paths |-> seen[q] \cup {disk'[q]}]
  BY <1>2 DEF Edit, Busy
<1>3. CASE \E p \in Paths, entry \in {None} \cup Puts : Edit(p, entry)
  BY <1>1, <1>2, <1>3
<1>4. CASE Act("git") /\ disk' = disk /\ seen' = seen
  BY <1>1, <1>4
<1>5. \/ \E p \in Paths, entry \in {None} \cup Puts : Edit(p, entry)
      \/ Act("git") /\ disk' = disk /\ seen' = seen
  BY DEF User, Stage, Unstage, Ignore, Conflict, SetFlag, CommitIndex
<1> QED BY <1>3, <1>4, <1>5

\* The user's git commands keep the index a tree and its flags on entries.
LEMMA UserWorktree ==
  ASSUME WorktreeOK, User
  PROVE  WorktreeOK' /\ Len(commits') >= Len(commits)
<1>1. ASSUME NEW p \in Paths, NEW entry \in {None} \cup Puts, Edit(p, entry)
      PROVE  WorktreeOK' /\ Len(commits') >= Len(commits)
  <2>1. entry \in DiskEntries
    BY SnapshotAssumption DEF DiskEntries
  <2>2. disk' = Written(p, entry) /\ UNCHANGED <<index, flags, unmerged, ignored, commits>>
    BY <1>1 DEF Edit
  <2>3. /\ disk' \in [Paths -> DiskEntries]
        /\ \A q \in Paths : disk'[q] # None => \A r \in Above[q] : disk'[r] = Directory
    BY <2>1, <2>2, WrittenIs
  <2> QED BY <2>2, <2>3 DEF WorktreeOK
<1>2. ASSUME NEW p \in Paths, Stage(p)
      PROVE  WorktreeOK' /\ Len(commits') >= Len(commits)
  <2>1. Stored(p, disk[p]) \in TreeEntries /\ Stored(p, disk[p]) # None
    BY <1>2, StoredIs, EntriesAre DEF Stage, WorktreeOK, TreeEntries
  <2>2. index' = [q \in Paths |-> CASE q = p -> Stored(p, disk[p]) [] q \in Above[p] \cup Below(p) -> None
                                    [] OTHER -> index[q]]
    BY <1>2 DEF Stage
  <2>3. index' \in Trees
    BY <2>1, <2>2, PlacedIsTree DEF WorktreeOK
  <2>4. /\ index'[p] = Stored(p, disk[p])
        /\ \A q \in Paths : q # p /\ q \notin Below(p) /\ q \notin Above[p] => index'[q] = index[q]
    BY <2>2, PathsAre
  <2>5. /\ flags' \in [Paths -> {"none", "assume", "skip", "both"}]
        /\ \A q \in Above[p] \cup Below(p) : flags'[q] = "none"
        /\ \A q \in Paths : q \notin Above[p] \cup Below(p) => flags'[q] = flags[q]
    BY <1>2, PathsAre DEF Stage, WorktreeOK
  <2>6. \A q \in Paths : flags'[q] # "none" => index'[q] # None
    BY <2>1, <2>4, <2>5 DEF WorktreeOK
  <2>7. unmerged' \subseteq {q \in Paths : index'[q] # None}
    BY <1>2, <2>4 DEF Stage, WorktreeOK
  <2>8. UNCHANGED <<disk, ignored, commits>>
    BY <1>2 DEF Stage
  <2> QED BY <2>3, <2>5, <2>6, <2>7, <2>8 DEF WorktreeOK
<1>3. ASSUME NEW p \in Paths, Unstage(p)
      PROVE  WorktreeOK' /\ Len(commits') >= Len(commits)
  <2>1. /\ index' = [index EXCEPT ![p] = None] /\ flags' = [flags EXCEPT ![p] = "none"]
        /\ unmerged' = unmerged \ {p} /\ UNCHANGED <<disk, ignored, commits>>
    BY <1>3 DEF Unstage
  <2>2. index' = [q \in Paths |-> IF q \in {p} THEN None ELSE index[q]]
    BY <2>1 DEF WorktreeOK, Trees
  <2>3. index' \in Trees
    BY <2>2, RestIsTree DEF WorktreeOK
  <2>4. /\ flags' \in [Paths -> {"none", "assume", "skip", "both"}]
        /\ \A q \in Paths : flags'[q] # "none" => index'[q] # None
        /\ unmerged' \subseteq {q \in Paths : index'[q] # None}
    BY <2>1, <2>2 DEF WorktreeOK
  <2> QED BY <2>1, <2>3, <2>4 DEF WorktreeOK
<1>4. ASSUME NEW p \in Paths, Ignore(p) \/ Conflict(p)
      PROVE  WorktreeOK' /\ Len(commits') >= Len(commits)
  <2>1. UNCHANGED <<disk, index, flags, commits>> /\ ignored' \subseteq Paths
    BY <1>4 DEF Ignore, Conflict, WorktreeOK
  <2>2. unmerged' \subseteq {q \in Paths : index'[q] # None}
    <3>1. index[p].kind \in FileKinds => index[p] # None
      BY EntriesAre DEF FileKinds
    <3> QED BY <1>4, <2>1, <3>1 DEF Ignore, Conflict, WorktreeOK
  <2> QED BY <2>1, <2>2 DEF WorktreeOK
<1>5. ASSUME NEW p \in Paths, NEW flag \in {"assume", "skip", "both"}, SetFlag(p, flag)
      PROVE  WorktreeOK' /\ Len(commits') >= Len(commits)
  BY <1>5 DEF SetFlag, WorktreeOK
<1>6. ASSUME CommitIndex
      PROVE  WorktreeOK' /\ Len(commits') >= Len(commits)
  <2>1. commits' = Append(commits, index) /\ UNCHANGED <<disk, index, flags, unmerged, ignored>>
    BY <1>6 DEF CommitIndex
  <2>2. commits' \in Seq(Trees) /\ Len(commits') = Len(commits) + 1
    BY <2>1 DEF WorktreeOK
  <2> QED BY <2>1, <2>2 DEF WorktreeOK
<1> QED BY <1>1, <1>2, <1>3, <1>4, <1>5, <1>6 DEF User

LEMMA TypedUser ==
  ASSUME Typed, User
  PROVE  Typed'
<1>1. WorktreeOK' /\ Len(commits') >= Len(commits)
  BY UserWorktree DEF Typed
<1>2. UNCHANGED <<pc, refs, listing, hashing, outcome, followed>> /\ disturbed' \in {"no", "disk", "git"}
  BY UserKeeps
<1>3. target' \in 0 .. Len(commits') /\ parent' \in 0 .. Len(commits')
  <2>1. target' = target /\ parent' = parent
    BY <1>2 DEF refs
  <2>2. target \in 0 .. Len(commits) /\ parent \in 0 .. Len(commits)
    BY DEF Typed, CaptureOK
  <2>3. Len(commits) \in Nat /\ Len(commits') \in Nat /\ Len(commits') >= Len(commits)
    BY <1>1 DEF Typed, WorktreeOK
  <2> QED BY <2>1, <2>2, <2>3
<1>4. CaptureOK'
  BY <1>2, <1>3 DEF refs, listing, hashing, Typed, CaptureOK
<1>5. SeenOK'
  <2>1. CASE pc = "idle"
    BY <2>1, <1>2, UserKeeps DEF Typed, SeenOK
  <2>2. CASE pc # "idle" /\ disk' = disk /\ seen' = seen
    BY <2>2, <1>2 DEF Typed, SeenOK
  <2>3. CASE pc # "idle" /\ seen' = [q \in Paths |-> seen[q] \cup {disk'[q]}]
    <3>1. disk' \in [Paths -> DiskEntries]
      BY <1>1 DEF WorktreeOK
    <3> QED BY <1>2, <2>3, <3>1 DEF Typed, SeenOK
  <2> QED BY <2>1, <2>2, <2>3, UserKeeps
<1> QED BY <1>1, <1>4, <1>5 DEF Typed

Invocation == (\E r \in Requests : Begin(r)) \/ RequireClean \/ ResolveTarget \/ ResolveProposed

\* The invocation never touches the user's files, index or commits.
LEMMA InvocationKeeps ==
  ASSUME Invocation \/ Capture
  PROVE  /\ UNCHANGED worktree
         /\ disturbed' = disturbed
         /\ followed \subseteq followed' /\ (pc # "hash" => followed' = followed)
         /\ pc # "idle" => seen' = seen /\ request' = request /\ parent' = parent
         /\ pc = "idle" => seen' = [p \in Paths |-> {disk[p]}]
BY DEF Invocation, Capture, Begin, RequireClean, ResolveTarget, ResolveProposed, ListUnmerged, ListHidden,
       ListDiff, ListCached, ListChanged, ListOthers, ReadBaseline, Look, Hash, WriteCommit,
       user, refs, history

\* Only a path of the capture is hashed.
LEMMA FollowedIs ==
  ASSUME Typed, Invocation \/ Capture
  PROVE  followed' \subseteq Paths
<1>1. CASE pc # "hash"
  BY <1>1, InvocationKeeps DEF Typed, SeenOK
<1>2. CASE pc = "hash"
  <2>1. Hash
    BY <1>2 DEF Invocation, Capture, Begin, RequireClean, ResolveTarget, ResolveProposed, ListUnmerged, ListHidden,
       ListDiff, ListCached, ListChanged, ListOthers, ReadBaseline, Look, WriteCommit
  <2>2. NextPath(todo) \in Paths
    BY <1>2, NextIsLeft DEF Typed, CaptureOK
  <2>3. followed' \subseteq followed \cup {NextPath(todo)}
    BY <2>1 DEF Hash
  <2> QED BY <2>2, <2>3 DEF Typed, SeenOK
<1> QED BY <1>1, <1>2

\* A commit that an option names exists.
LEMMA RefResolves ==
  ASSUME WorktreeOK, NEW ref
  PROVE  Resolve(ref) \in 1 .. Len(commits) /\ commits[Resolve(ref)] \in Trees
<1>1. Len(commits) \in Nat /\ Len(commits) >= 2
  BY DEF WorktreeOK
<1>2. Resolve(ref) \in 1 .. Len(commits)
  BY <1>1 DEF Resolve
<1>3. \A i \in 1 .. Len(commits) : commits[i] \in Trees
  BY DEF WorktreeOK
<1> QED BY <1>2, <1>3

LEMMA TypedInvocation ==
  ASSUME Typed, Invocation
  PROVE  CaptureOK'
<1> USE DEF Typed
<1>0. commits' = commits /\ disturbed' = disturbed /\ Len(commits) \in Nat /\ Len(commits) >= 2
  BY InvocationKeeps DEF worktree, WorktreeOK
<1> DEFINE L == Len(commits)
<1>a. 0 \in 0 .. L /\ L \in 0 .. L /\ L # 0 /\ 1 .. L \subseteq 0 .. L
  BY <1>0
<1>1. ASSUME NEW r \in Requests, Begin(r) PROVE CaptureOK'
  <2>1. r \in Request /\ request' = r /\ UNCHANGED <<target, listing, hashing>>
    BY <1>1, SnapshotAssumption DEF Begin
  <2>2. pc' \in {"done", "policies", "clean"} /\ (outcome' \in {"refused", "pending"})
        /\ (outcome' = "pending" <=> pc' # "done") /\ (pc' = "clean" => r.proposed # "")
    BY <1>1 DEF Begin, End, CaptureOK
  <2>3. parent' \in 0 .. L /\ (pc' = "policies" => parent' # 0)
    <3>1. parent' = parent \/ (parent' = L /\ pc' \in {"policies", "clean"}) \/ (parent' = 0 /\ pc' = "clean")
      BY <1>1 DEF Begin, End
    <3>2. parent' = parent => pc' = "done" \/ parent' = L \/ pc' = "clean"
      BY <1>1 DEF Begin, End
    <3>3. parent \in 0 .. L
      BY DEF CaptureOK
    <3> HIDE DEF L
    <3> QED BY <1>a, <3>1, <3>2, <3>3
  <2>4. pc' \in Positions /\ pc' \notin Capturing /\ outcome' \in Outcomes
    BY <2>2 DEF Positions, Capturing, Outcomes
  <2>5. pc' = "policies" /\ request'.proposed = "" => parent' # 0
    BY <2>3
  <2> QED BY <1>0, <2>1, <2>2, <2>3, <2>4, <2>5 DEF CaptureOK, listing, hashing
<1>2. CASE RequireClean
  <2>1. pc = "clean" /\ pc' \in {"policies", "done"} /\ outcome' \in {"refused", "pending"}
        /\ (outcome' = "pending" <=> pc' # "done") /\ UNCHANGED <<refs, listing, hashing>>
    BY <1>2 DEF RequireClean, End, CaptureOK
  <2> QED BY <1>0, <2>1 DEF CaptureOK, Positions, Capturing, Outcomes, refs, listing, hashing
<1>3. CASE ResolveTarget
  <2>1. pc = "policies" /\ pc' \in {"unmerged", "proposed", "done"} /\ outcome' \in {"refused", "pending"}
        /\ (outcome' = "pending" <=> pc' # "done") /\ UNCHANGED <<request, parent, listing, hashing>>
        /\ (pc' = "unmerged" => request.proposed = "") /\ (pc' = "proposed" => request.proposed # "")
    BY <1>3 DEF ResolveTarget, End, CaptureOK
  <2>2. target' \in 0 .. L
    <3>1. target' = target \/ \E ref : target' = Resolve(ref)
      BY <1>3 DEF ResolveTarget
    <3>2. target \in 0 .. L /\ \A ref : Resolve(ref) \in 1 .. L
      BY RefResolves DEF CaptureOK
    <3> HIDE DEF L
    <3> QED BY <1>a, <3>1, <3>2
  <2> QED BY <1>0, <2>1, <2>2 DEF CaptureOK, Positions, Capturing, Outcomes, listing, hashing
<1>4. CASE ResolveProposed
  <2>1. pc' = "done" /\ outcome' = "committed" /\ UNCHANGED <<refs, listing, todo, looked>>
    BY <1>4 DEF ResolveProposed, End
  <2>2. temp' \in Trees
    BY <1>4, RefResolves DEF ResolveProposed
  <2> QED BY <1>0, <2>1, <2>2 DEF CaptureOK, Positions, Capturing, Outcomes, refs, listing
<1> QED BY <1>1, <1>2, <1>3, <1>4 DEF Invocation

\* Adding an entry to the temporary index, as the code checks it, keeps a tree.
LEMMA AddIs ==
  ASSUME Typed, NEW p \in todo, NEW entry \in TreeEntries, Add(p, entry)
  PROVE  \/ /\ Conflicts(p) /\ End("failed") /\ UNCHANGED <<temp, todo, looked>>
         \/ /\ ~Conflicts(p) /\ temp' \in Trees /\ todo' \subseteq todo /\ looked' = None
            /\ pc' = "look" /\ outcome' = outcome
            /\ temp' = [temp EXCEPT ![p] = entry] /\ todo' = todo \ {p}
<1>1. CASE Conflicts(p)
  BY <1>1 DEF Add
<1>2. CASE ~Conflicts(p)
  <2>1. /\ temp' = [temp EXCEPT ![p] = entry]
        /\ todo' \subseteq todo /\ looked' = None /\ pc' = "look" /\ outcome' = outcome
        /\ todo' = todo \ {p}
    BY <1>2 DEF Add
  <2>2. p \in Paths /\ temp \in [Paths -> TreeEntries] /\ IsTree(temp)
    BY DEF Typed, CaptureOK, Trees
  <2>3. \A q \in Above[p] \cup Below(p) : temp[q] = None
    BY <1>2 DEF Conflicts
  <2>4. temp' \in [Paths -> TreeEntries] /\ temp'[p] = entry /\ \A q \in Paths : q # p => temp'[q] = temp[q]
    BY <2>1, <2>2
  <2>5. IsTree(temp')
    BY <2>2, <2>3, <2>4, PathsAre DEF IsTree
  <2> QED BY <1>2, <2>1, <2>4, <2>5 DEF Trees
<1> QED BY <1>1, <1>2

\* What a capture does at each of its steps, to what it has got.
LEMMA TypedCapture ==
  ASSUME Typed, Capture
  PROVE  CaptureOK'
<1> USE DEF Typed
<1>0. commits' = commits /\ disturbed' = disturbed /\ request' = request /\ parent' = parent
      /\ target' = target
  BY InvocationKeeps DEF worktree, Capture, ListUnmerged, ListHidden, ListDiff, ListCached, ListChanged, ListOthers,
     ReadBaseline, Look, Hash, WriteCommit, refs
<1>1. ASSUME pc \in Capturing,
             (pc' \in Capturing /\ outcome' = outcome) \/ End("failed") \/ End("unchanged") \/ End("captured"),
             found' \subseteq Paths, sparse' \subseteq found', todo' \subseteq Paths, temp' \in Trees,
             pc' = "hash" => looked'.kind \in {"file", "exec"} /\ todo' # {}
      PROVE  CaptureOK'
  <2>1. pc' \in Positions /\ outcome' \in Outcomes /\ (outcome' = "pending" <=> pc' # "done")
    BY <1>1 DEF CaptureOK, End, Positions, Capturing, Outcomes
  <2>2. request.proposed = "" /\ parent # 0
    BY <1>1 DEF CaptureOK
  <2>3. pc' \in Capturing \cup {"done"}
    BY <1>1 DEF End
  <2>4. target' \in 0 .. Len(commits') /\ parent' \in 0 .. Len(commits') /\ request' \in Request
        /\ disturbed' \in {"no", "disk", "git"}
    BY <1>0 DEF CaptureOK
  <2> QED BY <1>0, <1>1, <2>1, <2>2, <2>3, <2>4 DEF CaptureOK, Capturing
<1>2. found \subseteq Paths /\ sparse \subseteq found /\ todo \subseteq Paths /\ temp \in Trees
  BY DEF CaptureOK
<1>3. CASE ListUnmerged
  <2>1. /\ pc \in Capturing /\ ((pc' = "hidden" /\ outcome' = outcome) \/ End("failed"))
        /\ UNCHANGED <<found, sparse, todo, temp>> /\ pc' # "hash"
    BY <1>3 DEF ListUnmerged, Capturing, listing, hashing, End
  <2> QED BY <1>1, <1>2, <2>1 DEF Capturing
<1>4. CASE ListHidden
  <2>1. /\ pc \in Capturing /\ pc' = "diff" /\ outcome' = outcome
        /\ found' \subseteq Paths /\ sparse' \subseteq found' /\ UNCHANGED <<todo, temp>>
    BY <1>4 DEF ListHidden, Capturing, hashing, HiddenTags
  <2> QED BY <1>1, <1>2, <2>1 DEF Capturing
<1>5. CASE ListDiff \/ ListCached
  <2>1. /\ pc \in Capturing /\ pc' \in {"cached", "others"} /\ outcome' = outcome
        /\ found' \subseteq Paths /\ found \subseteq found' /\ UNCHANGED <<sparse, todo, temp>>
    BY <1>2, <1>5 DEF ListDiff, ListCached, ListChanged, Capturing, hashing
  <2> QED BY <1>1, <1>2, <2>1 DEF Capturing
<1>6. CASE ListOthers
  <2>1. /\ pc \in Capturing
        /\ ((pc' = "baseline" /\ outcome' = outcome) \/ End("failed") \/ End("unchanged"))
        /\ todo' \subseteq Paths /\ UNCHANGED <<found, sparse, temp>> /\ pc' # "hash"
    BY <1>2, <1>6 DEF ListOthers, Capturing, listing, End
  <2> QED BY <1>1, <1>2, <2>1 DEF Capturing
<1>7. CASE ReadBaseline
  <2>1. /\ pc \in Capturing /\ pc' = "look" /\ outcome' = outcome /\ UNCHANGED <<found, sparse, todo>>
        /\ temp' = [p \in Paths |-> IF p \in Affected(todo) THEN None ELSE commits[parent][p]]
        /\ parent # 0
    BY <1>7 DEF ReadBaseline, Capturing, listing, CaptureOK
  <2>2. commits[parent] \in Trees
    <3>0. Len(commits) \in Nat /\ parent \in 0 .. Len(commits)
      <4>1. commits \in Seq(Trees) /\ parent \in 0 .. Len(commits)
        BY DEF Typed, WorktreeOK, CaptureOK
      <4>2. Len(commits) \in Nat
        BY <4>1
      <4> QED BY <4>1, <4>2, Zenon
    <3>1. \A i \in 1 .. Len(commits) : commits[i] \in Trees
      BY DEF Typed, WorktreeOK
    <3>2. parent \in 1 .. Len(commits)
      BY <2>1, <3>0
    <3> QED BY <3>1, <3>2, Zenon
  <2>3. temp' \in Trees
    BY <2>1, <2>2, RestIsTree
  <2> QED BY <1>1, <1>2, <2>1, <2>3 DEF Capturing
<1>8. CASE Look
  <2> DEFINE p == NextPath(todo)
  <2>1. pc = "look" /\ todo # {} /\ p \in todo /\ UNCHANGED <<found, sparse>>
    BY <1>2, <1>8, NextIsLeft DEF Look, listing
  <2> HIDE DEF p
  <2>2. \/ End("failed") /\ UNCHANGED <<temp, todo, looked>>
        \/ todo' = todo \ {p} /\ UNCHANGED <<temp, looked, pc, outcome>>
        \/ disk[p].kind = "link" /\ Add(p, disk[p])
        \/ disk[p].kind \in {"file", "exec"} /\ looked' = disk[p] /\ pc' = "hash" /\ UNCHANGED <<temp, todo, outcome>>
    BY <1>8 DEF Look, p
  <2>3. disk[p].kind = "link" => disk[p] \in TreeEntries
    BY <1>2, <2>1, EntriesAre DEF WorktreeOK, DiskEntries, TreeEntries, TreeKinds, FileKinds
  <2>4. /\ (pc' \in Capturing /\ outcome' = outcome) \/ End("failed")
        /\ todo' \subseteq Paths /\ temp' \in Trees
        /\ pc' = "hash" => looked'.kind \in {"file", "exec"} /\ todo' # {}
    BY <1>2, <2>1, <2>2, <2>3, AddIs DEF Capturing, End
  <2> QED BY <1>1, <1>2, <2>1, <2>4 DEF Capturing
<1>9. CASE Hash
  <2> DEFINE p == NextPath(todo)
  <2>1. pc = "hash" /\ todo # {} /\ p \in todo /\ UNCHANGED <<found, sparse>>
    BY <1>2, <1>9, NextIsLeft DEF Hash, listing, CaptureOK
  <2> HIDE DEF p
  <2>2. \/ End("failed") /\ UNCHANGED <<temp, todo, looked>>
        \/ \E b \in HashedBodies(p) : Add(p, [kind |-> looked.kind, body |-> b])
    BY <1>9 DEF Hash, p
  <2>3. disk[p] \in DiskEntries /\ looked.kind \in {"file", "exec"}
    BY <1>2, <2>1 DEF WorktreeOK, CaptureOK
  <2>4. HashedBodies(p) \subseteq Bodies
    <3>1. disk[p].kind \in {"file", "exec"} => disk[p].body \in Bodies
      BY <2>3, EntriesAre DEF DiskEntries, TreeKinds, FileKinds
    <3> QED BY <3>1 DEF HashedBodies
  <2>5. \A b \in HashedBodies(p) : [kind |-> looked.kind, body |-> b] \in TreeEntries
    BY <2>3, <2>4, EntriesAre DEF TreeEntries, TreeKinds, FileKinds
  <2>6. /\ (pc' \in Capturing /\ outcome' = outcome) \/ End("failed")
        /\ todo' \subseteq Paths /\ temp' \in Trees
        /\ pc' = "hash" => looked'.kind \in {"file", "exec"} /\ todo' # {}
    BY <1>2, <2>1, <2>2, <2>5, AddIs DEF Capturing, End
  <2> QED BY <1>1, <1>2, <2>1, <2>6 DEF Capturing
<1>10. CASE WriteCommit
  <2>1. /\ pc \in Capturing /\ (End("unchanged") \/ End("captured"))
        /\ UNCHANGED <<found, sparse, todo, temp>> /\ pc' # "hash"
    BY <1>10 DEF WriteCommit, Capturing, listing, hashing, End
  <2> QED BY <1>1, <1>2, <2>1
<1> QED BY <1>3, <1>4, <1>5, <1>6, <1>7, <1>8, <1>9, <1>10 DEF Capture

LEMMA TypedNext ==
  ASSUME Typed, [Next]_vars
  PROVE  Typed'
<1>1. CASE User
  BY <1>1, TypedUser
<1>2. CASE Invocation \/ Capture
  <2>1. UNCHANGED worktree
    BY <1>2, InvocationKeeps
  <2>2. WorktreeOK'
    BY <2>1 DEF Typed, WorktreeOK, worktree
  <2>3. CaptureOK'
    BY <1>2, TypedInvocation, TypedCapture
  <2>4. SeenOK'
    <3>1. CASE pc = "idle"
      <4>1. seen' = [p \in Paths |-> {disk[p]}] /\ disk' = disk /\ disk \in [Paths -> DiskEntries]
        BY <1>2, <2>1, <3>1, InvocationKeeps DEF worktree, Typed, WorktreeOK
      <4> QED BY <1>2, <4>1, FollowedIs DEF SeenOK
    <3>2. CASE pc # "idle"
      BY <1>2, <2>1, <3>2, InvocationKeeps, FollowedIs DEF worktree, Typed, SeenOK
    <3> QED BY <3>1, <3>2
  <2> QED BY <2>2, <2>3, <2>4 DEF Typed
<1>3. CASE UNCHANGED vars
  BY <1>3 DEF vars, user, worktree, refs, listing, hashing, history, Typed, WorktreeOK, CaptureOK, SeenOK
<1> QED BY <1>1, <1>2, <1>3 DEF Next, Invocation

\* The invariant that types rest on.
THEOREM TypedHolds == Spec => []Typed
<1>1. Init => Typed
  BY TypedInit
<1>2. Typed /\ [Next]_vars => Typed'
  BY TypedNext
<1> QED BY <1>1, <1>2, PTL DEF Spec

\* Every variable has its type, and the index, the commits and the temporary
\* index of a capture (git update-index refuses what conflicts) are trees.
THEOREM SnapshotTypeCorrect == Spec => []SnapshotTypeOK
BY TypedHolds, TypedIsOK, PTL

-----------------------------------------------------------------------------
(* The baseline of a capture, and the clean worktree of a committed source. *)

Started == pc \in Capturing \/ outcome \in {"failed", "unchanged", "captured"}

\* While the user leaves git alone, a capture is made against HEAD, and goes on
\* only without merge conflicts.
BaselineInv ==
  disturbed # "git" =>
    /\ Started \/ (pc = "policies" /\ request.proposed = "") => parent = Len(commits)
    /\ Started /\ pc # "unmerged" /\ outcome # "failed" => unmerged = {}

\* Past its check, a committed source lies over a clean worktree.
CleanInv ==
  disturbed = "no" /\ (outcome = "committed" \/ (pc \in {"policies", "proposed"} /\ request.proposed # ""))
    => WorktreeIsClean

LEMMA BaselineKept ==
  ASSUME Typed, BaselineInv, [Next]_vars
  PROVE  BaselineInv'
<1>0. commits \in Seq(Trees) /\ (outcome = "pending" <=> pc # "done")
  BY DEF Typed, WorktreeOK, CaptureOK
<1>1. CASE User
  <2>1. /\ UNCHANGED <<pc, refs, outcome>> /\ outcome = "pending"
        /\ pc # "idle" => \/ disturbed' = "git"
                          \/ disturbed # "git" /\ UNCHANGED <<commits, unmerged>>
    BY <1>1, UserKeeps
  <2>2. pc = "idle" => ~Started /\ pc # "policies"
    BY <2>1 DEF Started, Capturing
  <2>3. UNCHANGED <<Started, pc, request, parent, outcome>>
    BY <2>1 DEF Started, refs
  <2> QED BY <2>1, <2>2, <2>3 DEF BaselineInv
<1>2. CASE Invocation
  <2>1. UNCHANGED <<commits, unmerged, disturbed>>
    BY <1>2, InvocationKeeps DEF worktree
  <2>2. ASSUME NEW r \in Requests, Begin(r) PROVE BaselineInv'
    <3>1. /\ pc' \in {"done", "policies", "clean"} /\ outcome' \in {"pending", "refused"} /\ request' = r
          /\ pc' = "policies" => r.proposed = "" /\ parent' = Len(commits)
      BY <1>0, <2>2 DEF Begin, End
    <3>2. ~Started'
      BY <3>1 DEF Started, Capturing
    <3> QED BY <2>1, <3>1, <3>2 DEF BaselineInv
  <2>3. CASE RequireClean
    <3>1. /\ pc' \in {"done", "policies"} /\ outcome' \in {"pending", "refused"} /\ request' = request
          /\ pc = "clean"
      BY <1>0, <2>3 DEF RequireClean, End, refs
    <3>2. ~Started' /\ request.proposed # ""
      BY <3>1 DEF Started, Capturing, Typed, CaptureOK
    <3> QED BY <2>1, <3>1, <3>2 DEF BaselineInv
  <2>4. CASE ResolveTarget
    <3>1. /\ pc' \in {"done", "proposed", "unmerged"} /\ outcome' \in {"pending", "refused"}
          /\ pc' = "unmerged" => pc = "policies" /\ request.proposed = "" /\ parent' = parent
          /\ pc # "done"
      BY <1>0, <2>4 DEF ResolveTarget, End
    <3>2. Started' => pc' = "unmerged"
      BY <3>1 DEF Started, Capturing
    <3>3. pc' # "policies"
      BY <3>1
    <3> QED BY <2>1, <3>1, <3>2, <3>3 DEF BaselineInv
  <2>5. CASE ResolveProposed
    <3>1. ~Started' /\ pc' # "policies"
      BY <2>5 DEF ResolveProposed, End, Started, Capturing
    <3> QED BY <3>1 DEF BaselineInv
  <2> QED BY <1>2, <2>2, <2>3, <2>4, <2>5 DEF Invocation
<1>3. CASE Capture
  <2>1. /\ UNCHANGED <<commits, unmerged, disturbed>> /\ pc \in Capturing
        /\ parent' = parent
    <3>1. pc \in Capturing
      BY <1>3 DEF Capture, Capturing, ListUnmerged, ListHidden, ListDiff, ListCached, ListChanged, ListOthers,
         ReadBaseline, Look, Hash, WriteCommit
    <3>2. pc # "idle"
      BY <3>1 DEF Capturing
    <3> QED BY <1>3, <3>1, <3>2, InvocationKeeps DEF worktree
  <2>2. pc' # "policies" /\ pc' # "unmerged"
    BY <1>3 DEF Capture, Capturing, ListUnmerged, ListHidden, ListDiff, ListCached, ListChanged, ListOthers,
       ReadBaseline, Look, Hash, WriteCommit, End, Add
  <2>3. pc = "unmerged" => unmerged = {} \/ outcome' = "failed"
    BY <1>3 DEF Capture, Capturing, ListUnmerged, ListHidden, ListDiff, ListCached, ListChanged, ListOthers,
       ReadBaseline, Look, Hash, WriteCommit, End
  <2>4. Started /\ outcome = "pending"
    BY <1>0, <2>1 DEF Started, Capturing
  <2> QED BY <2>1, <2>2, <2>3, <2>4 DEF BaselineInv
<1>4. CASE UNCHANGED vars
  BY <1>4 DEF BaselineInv, Started, vars, user, worktree, refs, listing, hashing, history
<1> QED BY <1>1, <1>2, <1>3, <1>4 DEF Next, Invocation

\* The invariant about the baseline.
THEOREM BaselineHolds == Spec => []BaselineInv
<1>1. Init => BaselineInv
  BY DEF Init, BaselineInv, Started, Capturing
<1>2. Typed /\ BaselineInv /\ [Next]_vars => BaselineInv'
  BY BaselineKept
<1> QED BY <1>1, <1>2, TypedHolds, PTL DEF Spec

LEMMA CleanKept ==
  ASSUME Typed, CleanInv, [Next]_vars
  PROVE  CleanInv'
<1>0. (outcome = "pending" <=> pc # "done") /\ (pc \in {"clean", "proposed"} => request.proposed # "")
  BY DEF Typed, CaptureOK
<1>1. CASE User
  <2>1. /\ UNCHANGED <<pc, refs, outcome>> /\ outcome = "pending"
        /\ pc # "idle" => disturbed' # "no"
    BY <1>1, UserKeeps
  <2> QED BY <2>1 DEF CleanInv
<1>2. ASSUME UNCHANGED <<worktree, disturbed>> PROVE WorktreeIsClean' <=> WorktreeIsClean
  BY <1>2 DEF worktree, WorktreeIsClean, DiffersOnDisk, Modified, DiffersInIndex, Untracked, Excluded, HeadTree
<1>3. CASE Invocation
  <2>1. UNCHANGED <<worktree, disturbed>>
    BY <1>3, InvocationKeeps
  <2>2. ASSUME NEW r \in Requests, Begin(r) PROVE CleanInv'
    <3>1. /\ pc' # "proposed" /\ outcome' # "committed" /\ request' = r
          /\ pc' = "policies" => r.proposed = ""
      BY <1>0, <2>2 DEF Begin, End
    <3> QED BY <3>1 DEF CleanInv
  <2>3. CASE RequireClean
    BY <1>0, <1>2, <2>1, <2>3 DEF RequireClean, End, CleanInv
  <2>4. CASE ResolveTarget
    <3>1. pc = "policies" /\ request' = request /\ outcome' # "committed" /\ (pc' = "proposed" => request.proposed # "")
          /\ pc' # "policies"
      BY <1>0, <2>4 DEF ResolveTarget, End
    <3> QED BY <1>2, <2>1, <3>1 DEF CleanInv
  <2>5. CASE ResolveProposed
    BY <1>0, <1>2, <2>1, <2>5 DEF ResolveProposed, CleanInv
  <2> QED BY <1>3, <2>2, <2>3, <2>4, <2>5 DEF Invocation
<1>4. CASE Capture
  <2>1. pc' \notin {"policies", "proposed"} /\ outcome' # "committed"
    BY <1>0, <1>4 DEF Capture, ListUnmerged, ListHidden, ListDiff, ListCached, ListChanged, ListOthers,
       ReadBaseline, Look, Hash, WriteCommit, End, Add
  <2> QED BY <2>1 DEF CleanInv
<1>5. CASE UNCHANGED vars
  <2>1. UNCHANGED <<worktree, disturbed, outcome, pc, request>>
    BY <1>5 DEF vars, user, refs, history
  <2> QED BY <1>2, <2>1 DEF CleanInv
<1> QED BY <1>1, <1>3, <1>4, <1>5 DEF Next, Invocation
-----------------------------------------------------------------------------
(* The worktree and the listings of it.                                    *)

\* A kind tells an entry of the disk or of a tree from None and Directory.
LEMMA KindsAre ==
  /\ \A e \in DiskEntries :
       /\ e.kind \in FileKinds \cup {"repo", "dir", "other", "none"}
       /\ e.kind = "none" <=> e = None
       /\ e.kind = "dir" <=> e = Directory
  /\ \A e \in TreeEntries :
       /\ e.kind \in FileKinds \cup {"repo", "none"}
       /\ e.kind = "none" <=> e = None
  /\ FileKinds \cap {"repo", "dir", "other", "none"} = {}
  /\ None.kind = "none" /\ Directory.kind = "dir" /\ None # Directory
<1>1. None.kind = "none" /\ Directory.kind = "dir"
  BY EntriesAre
<1>2. \A e \in Entries(DiskKinds) : e.kind \in FileKinds \cup {"repo", "dir", "other"} /\ (e.kind = "dir" <=> e = Directory)
  BY <1>1, EntriesAre DEF DiskKinds, TreeKinds
<1>3. \A e \in Entries(TreeKinds) : e.kind \in FileKinds \cup {"repo"}
  BY EntriesAre DEF TreeKinds
<1>4. FileKinds \cap {"repo", "dir", "other", "none"} = {}
  BY DEF FileKinds
<1> QED BY <1>1, <1>2, <1>3, <1>4 DEF DiskEntries, TreeEntries

\* What lies below an entry of the disk shows that it is a directory; what lies
\* in or above an entry of the index or of HEAD is not there.
LEMMA WorktreeIs ==
  ASSUME WorktreeOK
  PROVE  /\ HeadTree \in Trees
         /\ \A p \in Paths :
              /\ disk[p] \in DiskEntries /\ index[p] \in TreeEntries /\ HeadTree[p] \in TreeEntries
              /\ \A q \in Above[p] : disk[p] # None => disk[q] = Directory
              /\ \A q \in Above[p] \cup Below(p) :
                   /\ index[p] # None => index[q] = None
                   /\ HeadTree[p] # None => HeadTree[q] = None
              /\ flags[p] \in {"none", "assume", "skip", "both"}
              /\ index[p] = None => flags[p] = "none" /\ p \notin unmerged
<1>1. commits \in Seq(Trees) /\ Len(commits) >= 2
  BY DEF WorktreeOK
<1>2. HeadTree \in Trees
  <2>1. \A i \in 1 .. Len(commits) : commits[i] \in Trees
    BY <1>1
  <2>2. Len(commits) \in 1 .. Len(commits)
    BY <1>1
  <2> QED BY <2>1, <2>2, Zenon DEF HeadTree
<1>3. \A p \in Paths : \A q \in Above[p] : disk[p] # None => disk[q] = Directory
  BY DEF WorktreeOK
<1>4. \A p \in Paths : index[p] \in TreeEntries /\ HeadTree[p] \in TreeEntries /\ disk[p] \in DiskEntries
  BY <1>2 DEF WorktreeOK, Trees
<1>5. ASSUME NEW t \in Trees, NEW p \in Paths, t[p] # None, NEW q \in Above[p] \cup Below(p)
      PROVE  t[q] = None
  BY <1>5, PathsAre DEF Trees, IsTree
<1>6. \A p \in Paths : \A q \in Above[p] \cup Below(p) :
        /\ index[p] # None => index[q] = None
        /\ HeadTree[p] # None => HeadTree[q] = None
  BY <1>2, <1>5 DEF WorktreeOK
<1>7. \A p \in Paths : flags[p] \in {"none", "assume", "skip", "both"}
                       /\ (index[p] = None => flags[p] = "none" /\ p \notin unmerged)
  BY DEF WorktreeOK
<1> QED BY <1>2, <1>3, <1>4, <1>6, <1>7

\* What git ls-files -v tags.
LEMMA TagsAre ==
  ASSUME WorktreeOK, NEW p \in Paths
  PROVE  /\ Tag(p) \in HiddenTags <=> flags[p] \in {"assume", "skip"}
         /\ Tag(p) = "S" <=> flags[p] = "skip"
<1>1. flags[p] \in {"none", "assume", "skip", "both"}
  BY DEF WorktreeOK
<1> QED BY <1>1 DEF Tag, HiddenTags

\* The visible worktree, case by case.
LEMMA VisibleIs ==
  ASSUME WorktreeOK, NEW p \in Paths
  PROVE  /\ disk[p].kind \in FileKinds =>
              Visible(p) = IF index[p] # None \/ Untracked(p) \/ (HeadTree[p] # None /\ ~Excluded(p))
                           THEN disk[p] ELSE None
         /\ Submodule(p) => Visible(p) = HeadTree[p] /\ disk[p].kind \in {"repo", "dir"}
         /\ /\ flags[p] = "skip" /\ disk[p] = None
            /\ \A q \in Above[p] : disk[q].kind \in FileKinds => ~Untracked(q) /\ index[q] = None
            => Visible(p) = HeadTree[p]
         /\ \/ disk[p].kind \in FileKinds
            \/ Submodule(p)
            \/ /\ flags[p] = "skip" /\ disk[p] = None
               /\ \A q \in Above[p] : disk[q].kind \in FileKinds => ~Untracked(q) /\ index[q] = None
            \/ Visible(p) = None
<1> DEFINE gone == /\ flags[p] = "skip" /\ disk[p] = None
                   /\ \A q \in Above[p] : disk[q].kind \in FileKinds => ~Untracked(q) /\ index[q] = None
<1>1. Submodule(p) => flags[p] = "none" /\ disk[p].kind \in {"repo", "dir"}
  BY KindsAre DEF Submodule
<1>2. gone => disk[p].kind = "none" /\ flags[p] = "skip"
  BY KindsAre
<1>3. ~(disk[p].kind \in FileKinds /\ (Submodule(p) \/ gone)) /\ ~(Submodule(p) /\ gone)
  <2> HIDE DEF gone
  <2> QED BY <1>1, <1>2, KindsAre
<1> DEFINE shown == IF index[p] # None \/ Untracked(p) \/ (HeadTree[p] # None /\ ~Excluded(p)) THEN disk[p] ELSE None
<1>4. Visible(p) = CASE disk[p].kind \in FileKinds -> shown [] Submodule(p) -> HeadTree[p] [] gone -> HeadTree[p] [] OTHER -> None
  BY DEF Visible
<1>5. /\ disk[p].kind \in FileKinds => Visible(p) = shown
      /\ Submodule(p) => Visible(p) = HeadTree[p]
      /\ gone => Visible(p) = HeadTree[p]
      /\ disk[p].kind \in FileKinds \/ Submodule(p) \/ gone \/ Visible(p) = None
  <2> HIDE DEF gone, shown
  <2> QED BY <1>3, <1>4
<1> QED BY <1>1, <1>5

\* Over a clean worktree what is visible at a path without flags is what HEAD
\* has, or passes for it.
LEMMA CleanIsHead ==
  ASSUME WorktreeOK, WorktreeIsClean, NEW p \in Paths, flags[p] = "none"
  PROVE  Visible(p) = HeadTree[p] \/ EqualInGit(p)
<1>1. index[p] = HeadTree[p] /\ ~Untracked(p)
  BY DEF WorktreeIsClean, DiffersInIndex
<1>2. index[p] # None => EqualInGit(p) \/ (index[p].kind = "repo" /\ disk[p] = Directory)
  <2>1. index[p] # None =>
          Stored(p, disk[p]) = index[p] \/ (index[p].kind = "repo" /\ Stored(p, disk[p]) = Directory)
    BY DEF WorktreeIsClean, DiffersOnDisk, Modified
  <2>2. Stored(p, disk[p]) = Directory => disk[p] = Directory
    BY WorktreeIs, StoredIs, KindsAre
  <2> QED BY <1>1, <2>1, <2>2 DEF EqualInGit
<1>3. CASE disk[p].kind \in FileKinds
  BY <1>1, <1>2, <1>3, VisibleIs, KindsAre
<1>4. CASE Submodule(p)
  BY <1>4, VisibleIs
<1>5. CASE Visible(p) = None
  <2>1. index[p] # None => index[p].kind \in FileKinds \cup {"repo"}
    BY WorktreeIs, KindsAre
  <2>2. index[p].kind = "repo" /\ disk[p] = Directory => Submodule(p)
    BY <1>1, KindsAre DEF Submodule
  <2> QED BY <1>1, <1>2, <1>3, <1>4, <1>5, <2>1, <2>2, VisibleIs
<1> QED BY <1>3, <1>4, <1>5, VisibleIs

\* What an accepted committed source hides: nothing but what git is told not
\* to look at.
THEOREM CommittedHidesNothing == Spec => []CommittedSourceHidesNoChange
<1>1. Init => CleanInv
  BY DEF Init, CleanInv
<1>2. Typed /\ CleanInv /\ [Next]_vars => CleanInv'
  BY CleanKept
<1>3. Typed /\ CleanInv => CommittedSourceHidesNoChange
  BY CleanIsHead DEF Typed, CleanInv, CommittedSourceHidesNoChange, Quiet
<1> QED BY <1>1, <1>2, <1>3, TypedHolds, PTL DEF Spec
-----------------------------------------------------------------------------
(* A capture that nobody disturbs.                                         *)

HiddenPaths == {p \in Paths : Tag(p) \in HiddenTags}
SparsePaths == {p \in Paths : Tag(p) = "S"}
DiffPaths == {p \in Paths : DiffersOnDisk(p)}
CachedPaths == {p \in Paths : DiffersInIndex(p)}
OtherPaths == {p \in Paths : Untracked(p)}

\* What the listings of an undisturbed worktree come to.
Changed == {p \in HiddenPaths \cup DiffPaths \cup CachedPaths \cup OtherPaths :
              p \in SparsePaths => disk[p] # None}

\* What the capture makes of p.
Final(p) ==
  IF p \in Changed THEN IF disk[p].kind \in {"none", "dir"} THEN None ELSE disk[p]
  ELSE IF p \in Affected(Changed) THEN None ELSE HeadTree[p]

LEMMA ChangedArePaths == Changed \subseteq Paths
BY DEF Changed, HiddenPaths, DiffPaths, CachedPaths, OtherPaths

\* Without merge conflicts: which paths are changed.
LEMMA ChangedIs ==
  ASSUME WorktreeOK, unmerged = {}, NEW p \in Paths
  PROVE  /\ p \in Changed /\ index[p] = None /\ HeadTree[p] = None => Untracked(p)
         /\ Untracked(p) => p \in Changed /\ index[p] = None /\ disk[p].kind \in FileKinds \cup {"repo"}
         /\ p \in Changed => ~Submodule(p)
         /\ p \notin Changed /\ ~(flags[p] = "skip" /\ disk[p] = None) =>
              /\ flags[p] \in {"none", "both"} /\ index[p] = HeadTree[p] /\ ~Untracked(p)
              /\ index[p] = None \/ flags[p] = "both" \/ Stored(p, disk[p]) = index[p]
                 \/ (index[p].kind = "repo" /\ disk[p] = Directory)
         /\ flags[p] = "skip" /\ disk[p] = None => p \notin Changed
<1>1. /\ p \in HiddenPaths <=> flags[p] \in {"assume", "skip"}
      /\ p \in SparsePaths <=> flags[p] = "skip"
  BY TagsAre DEF HiddenPaths, SparsePaths
<1>2. p \in DiffPaths <=> /\ index[p] # None /\ flags[p] = "none" /\ Stored(p, disk[p]) # index[p]
                          /\ ~(index[p].kind = "repo" /\ disk[p] = Directory)
  <2>1. Stored(p, disk[p]) = Directory <=> disk[p] = Directory
    BY WorktreeIs, StoredIs, KindsAre
  <2> QED BY <2>1 DEF DiffPaths, DiffersOnDisk, Modified
<1>3. p \in CachedPaths <=> index[p] # HeadTree[p]
  BY DEF CachedPaths, DiffersInIndex
<1>4. p \in OtherPaths <=> Untracked(p)
  BY DEF OtherPaths
<1>5. Untracked(p) => index[p] = None /\ disk[p].kind \in FileKinds \cup {"repo"}
  BY DEF Untracked
<1>6. p \in Changed <=> /\ p \in HiddenPaths \/ p \in DiffPaths \/ p \in CachedPaths \/ p \in OtherPaths
                        /\ p \in SparsePaths => disk[p] # None
  BY DEF Changed, HiddenPaths, DiffPaths, CachedPaths, OtherPaths
<1>7. flags[p] \in {"none", "assume", "skip", "both"} /\ (index[p] = None => flags[p] = "none")
  BY WorktreeIs
<1>8. disk[p].kind = "repo" => Stored(p, disk[p]) = disk[p]
  BY WorktreeIs, StoredIs
<1>9. Submodule(p) => /\ HeadTree[p] # None /\ index[p] = HeadTree[p] /\ flags[p] = "none"
                      /\ Stored(p, disk[p]) = index[p] \/ (index[p].kind = "repo" /\ disk[p] = Directory)
  BY <1>8, KindsAre DEF Submodule
<1> QED BY <1>1, <1>2, <1>3, <1>4, <1>5, <1>6, <1>7, <1>8, <1>9

\* A changed file, and a path that HEAD, the index and the disk agree on, have
\* no changed path above or below.
LEMMA AgreedIsApart ==
  ASSUME WorktreeOK, unmerged = {}, NEW p \in Paths, disk[p] # None,
         index[p] # None, index[p] = HeadTree[p],
         disk[p].kind \in FileKinds \/ index[p].kind = "repo"
  PROVE  p \in Changed \/ p \notin Affected(Changed)
<1> SUFFICES ASSUME NEW q \in Changed, q \in Above[p] \cup Below(p) PROVE FALSE
  BY PathsAre, ChangedArePaths DEF Affected
<1>1. q \in Paths
  BY ChangedArePaths
<1>2. index[q] = None /\ HeadTree[q] = None
  BY <1>1, WorktreeIs
<1>3. Untracked(q) /\ disk[q].kind \in FileKinds \cup {"repo"}
  BY <1>1, <1>2, ChangedIs
<1>4. CASE q \in Above[p]
  BY <1>1, <1>3, <1>4, WorktreeIs, KindsAre
<1>5. CASE q \in Below(p) /\ disk[p].kind \in FileKinds
  <2>1. disk[q] = None
    BY <1>1, <1>5, WorktreeIs, PathsAre, KindsAre
  <2> QED BY <1>3, <2>1, KindsAre
<1>6. CASE q \in Below(p) /\ index[p].kind = "repo"
  BY <1>1, <1>3, <1>6, PathsAre DEF Untracked
<1> QED BY <1>4, <1>5, <1>6

\* A skip-worktree path that is absent stays what HEAD has, unless an untracked
\* file took the place of a directory of it.
LEMMA AbsentIsApart ==
  ASSUME WorktreeOK, unmerged = {}, NEW p \in Paths, flags[p] = "skip", disk[p] = None,
         HeadTree[p] # None
  PROVE  p \in Affected(Changed) <=>
           \E q \in Above[p] : disk[q].kind \in FileKinds /\ (Untracked(q) \/ index[q] # None)
<1>1. index[p] # None /\ p \notin Changed
  BY WorktreeIs, ChangedIs
<1>2. ASSUME NEW q \in Changed, q \in Above[p] \cup Below(p)
      PROVE  q \in Above[p] /\ disk[q].kind \in FileKinds /\ Untracked(q)
  <2>1. q \in Paths
    BY ChangedArePaths
  <2>2. index[q] = None /\ HeadTree[q] = None
    BY <1>1, <1>2, <2>1, WorktreeIs
  <2>3. Untracked(q) /\ disk[q].kind \in FileKinds \cup {"repo"}
    BY <2>1, <2>2, ChangedIs
  <2>4. q \notin Below(p)
    <3>1. q \in Below(p) => disk[q] = None
      BY <2>1, WorktreeIs, PathsAre, KindsAre
    <3> QED BY <2>3, <3>1, KindsAre
  <2>5. disk[q].kind # "repo"
    BY <1>1, <1>2, <2>1, <2>3, <2>4, PathsAre, KindsAre DEF Untracked
  <2> QED BY <1>2, <2>3, <2>4, <2>5
<1>3. ASSUME NEW q \in Above[p], Untracked(q) \/ index[q] # None
      PROVE  q \in Changed
  <2>1. q \in Paths /\ index[q] = None
    BY <1>1, WorktreeIs, PathsAre
  <2> QED BY <1>3, <2>1, ChangedIs
<1>4. p \in Affected(Changed) <=> \E q \in Changed : p = q \/ p \in Above[q] \/ p \in Below(q)
  BY DEF Affected
<1>5. \A q \in Changed : q \in Paths
  BY ChangedArePaths
<1> QED BY <1>1, <1>2, <1>3, <1>4, <1>5, PathsAre

Cause == Unrepresentable \/ SubmoduleChanged \/ BehindLink

\* What a capture refuses to take has one of the causes.
LEMMA RefusedHasCause ==
  ASSUME WorktreeOK, unmerged = {}, parent = Len(commits), NEW p \in Changed, Refused(p)
  PROVE  Cause
<1>1. p \in Paths /\ ~Submodule(p)
  BY ChangedArePaths, ChangedIs
<1>2. HeadTree[p].kind = "repo" \/ LinkAbove(p) \/ disk[p].kind \in {"repo", "other"}
  BY DEF Refused, HeadTree
<1>3. ASSUME index[p] = None, HeadTree[p] = None
      PROVE  disk[p].kind # "other" /\ ~LinkAbove(p)
  <2>1. disk[p].kind \in FileKinds \cup {"repo"}
    BY <1>1, <1>3, ChangedIs
  <2>2. disk[p] # None /\ disk[p].kind # "other"
    BY <2>1, KindsAre
  <2>3. \A q \in Above[p] : disk[q].kind # "link"
    BY <1>1, <2>2, WorktreeIs, KindsAre DEF FileKinds
  <2> QED BY <2>2, <2>3 DEF LinkAbove
<1> QED BY <1>1, <1>2, <1>3 DEF Cause, Unrepresentable, SubmoduleChanged, BehindLink

\* A capture that refused nothing has made the visible worktree, but for files
\* that git takes for unchanged.
LEMMA FinalIsVisible ==
  ASSUME WorktreeOK, unmerged = {}, parent = Len(commits), NEW p \in Paths, ~Departs(p),
         p \in Changed => ~Refused(p)
  PROVE  Final(p) = Visible(p) \/ (EqualInGit(p) /\ Final(p) = HeadTree[p])
<1> DEFINE gone == /\ flags[p] = "skip" /\ disk[p] = None
                   /\ \A q \in Above[p] : disk[q].kind \in FileKinds => ~Untracked(q) /\ index[q] = None
<1>1. flags[p] # "both" /\ ~(index[p] = None /\ HeadTree[p] # None /\ Excluded(p))
  BY DEF Departs
<1>2. disk[p] \in DiskEntries /\ index[p] \in TreeEntries /\ HeadTree[p] \in TreeEntries
  BY WorktreeIs
<1>3. p \in Changed => disk[p].kind \notin {"repo", "other"}
  BY DEF Refused
<1>4. CASE disk[p].kind \in FileKinds
  <2>1. disk[p].kind \notin {"none", "dir", "repo"} /\ disk[p] # None /\ disk[p] # Directory
    BY <1>4, KindsAre
  <2>2. p \in Changed => Final(p) = disk[p]
    BY <2>1 DEF Final
  <2>3. Visible(p) = IF index[p] # None \/ Untracked(p) \/ (HeadTree[p] # None /\ ~Excluded(p))
                     THEN disk[p] ELSE None
    BY <1>4, VisibleIs
  <2>4. CASE p \in Changed
    <3>1. index[p] = None /\ HeadTree[p] = None => Untracked(p)
      BY <2>4, ChangedIs
    <3> QED BY <1>1, <2>2, <2>3, <2>4, <3>1
  <2>5. CASE p \notin Changed
    <3>1. /\ flags[p] = "none" /\ index[p] = HeadTree[p] /\ ~Untracked(p)
          /\ index[p] = None \/ Stored(p, disk[p]) = index[p]
      BY <1>1, <2>1, <2>5, ChangedIs
    <3>2. index[p] # None => p \notin Affected(Changed)
      BY <1>4, <2>1, <2>5, <3>1, AgreedIsApart
    <3> QED BY <2>3, <2>5, <3>1, <3>2 DEF Final, EqualInGit
  <2> QED BY <2>4, <2>5
<1>5. CASE Submodule(p)
  <2>1. HeadTree[p].kind = "repo" /\ index[p] = HeadTree[p] /\ disk[p].kind \in {"repo", "dir"}
        /\ index[p] # None /\ disk[p] # None
    BY <1>2, <1>5, VisibleIs, KindsAre DEF Submodule
  <2>2. p \notin Changed
    BY <1>5, ChangedIs
  <2>3. p \notin Affected(Changed)
    BY <2>1, <2>2, AgreedIsApart
  <2> QED BY <1>5, <2>2, <2>3, VisibleIs DEF Final
<1>6. CASE gone
  <2>1. p \notin Changed
    BY <1>6, ChangedIs
  <2>2. HeadTree[p] # None => p \notin Affected(Changed)
    BY <1>6, AbsentIsApart
  <2>3. Visible(p) = HeadTree[p]
    BY <1>6, VisibleIs
  <2> QED BY <2>1, <2>2, <2>3 DEF Final
<1>7. CASE Visible(p) = None /\ disk[p].kind \notin FileKinds /\ ~Submodule(p) /\ ~gone
  <2>1. CASE p \in Changed
    <3>1. disk[p].kind \in {"none", "dir"}
      BY <1>2, <1>3, <1>7, <2>1, KindsAre
    <3> QED BY <1>7, <2>1, <3>1 DEF Final
  <2>2. CASE p \notin Changed /\ flags[p] = "skip" /\ disk[p] = None
    <3>1. \E q \in Above[p] : disk[q].kind \in FileKinds /\ (Untracked(q) \/ index[q] # None)
      BY <1>7, <2>2
    <3>2. HeadTree[p] # None => p \in Affected(Changed)
      BY <2>2, <3>1, AbsentIsApart
    <3> QED BY <1>7, <2>2, <3>2 DEF Final
  <2>3. CASE p \notin Changed /\ ~(flags[p] = "skip" /\ disk[p] = None)
    <3>1. /\ flags[p] = "none" /\ index[p] = HeadTree[p]
          /\ index[p] = None \/ Stored(p, disk[p]) = index[p] \/ (index[p].kind = "repo" /\ disk[p] = Directory)
      BY <1>1, <2>3, ChangedIs
    <3>a. Stored(p, disk[p]).kind = disk[p].kind /\ (disk[p].kind = "repo" => Stored(p, disk[p]) = disk[p])
      BY <1>2, StoredIs
    <3>2. index[p] # None /\ index[p].kind # "repo" => index[p].kind \in FileKinds
      BY <1>2, KindsAre
    <3>3. HeadTree[p] = None
      BY <1>7, <3>1, <3>a, <3>2, KindsAre DEF Submodule
    <3> QED BY <1>7, <2>3, <3>3 DEF Final
  <2> QED BY <2>1, <2>2, <2>3
<1> HIDE DEF gone
<1>8. disk[p].kind \in FileKinds \/ Submodule(p) \/ gone \/ Visible(p) = None
  BY VisibleIs DEF gone
<1> QED BY <1>4, <1>5, <1>6, <1>7, <1>8

\* The capture has dealt with the changed paths that are not left.
Progress ==
  /\ todo \subseteq Changed
  /\ \A p \in Changed \ todo : ~Refused(p)
  /\ \A p \in Paths : temp[p] = IF p \in todo THEN None ELSE Final(p)

\* How far a capture that nobody disturbs has got.
QuietInv ==
  disturbed = "no" =>
    /\ pc \in {"diff", "cached", "others"} => sparse = SparsePaths
    /\ pc = "diff" => found = HiddenPaths
    /\ pc = "cached" => found = HiddenPaths \cup DiffPaths
    /\ pc = "others" => found = HiddenPaths \cup DiffPaths \cup CachedPaths
    /\ pc = "baseline" => todo = Changed
    /\ pc \in {"look", "hash"} => Progress
    /\ pc = "hash" => looked = disk[NextPath(todo)] /\ ~Refused(NextPath(todo))
    /\ Ended => (\A p \in Changed : ~Refused(p)) /\ \A p \in Paths : Tree[p] = Final(p)
    /\ outcome = "failed" => Cause

\* What depends on the worktree and the baseline alone.
LEMMA WorktreeFrame ==
  ASSUME UNCHANGED <<worktree, parent>>
  PROVE  /\ UNCHANGED <<HeadTree, HiddenPaths, SparsePaths, DiffPaths, CachedPaths, OtherPaths, Changed>>
         /\ \A p \in Paths : (Refused(p)' <=> Refused(p)) /\ Final(p)' = Final(p)
         /\ Cause' <=> Cause
<1>1. UNCHANGED <<disk, index, flags, unmerged, ignored, commits, parent, HeadTree>>
  BY DEF worktree, HeadTree
<1>2. UNCHANGED <<HiddenPaths, SparsePaths, DiffPaths, CachedPaths, OtherPaths>>
  <2>1. UNCHANGED <<HiddenPaths, SparsePaths>>
    BY <1>1 DEF HiddenPaths, SparsePaths, Tag
  <2>2. UNCHANGED <<DiffPaths, CachedPaths>>
    BY <1>1 DEF DiffPaths, CachedPaths, DiffersOnDisk, Modified, DiffersInIndex
  <2>3. UNCHANGED OtherPaths
    BY <1>1 DEF OtherPaths, Untracked, Excluded
  <2> QED BY <2>1, <2>2, <2>3
<1>3. UNCHANGED Changed
  BY <1>1, <1>2 DEF Changed
<1>4. \A p \in Paths : Refused(p)' <=> Refused(p)
  BY <1>1 DEF Refused, LinkAbove
<1>5. Affected(Changed)' = Affected(Changed)
  BY <1>3 DEF Affected
<1>6. \A p \in Paths : Final(p)' = Final(p)
  BY <1>1, <1>3, <1>5 DEF Final
<1>7. Cause' <=> Cause
  BY <1>1 DEF Cause, Unrepresentable, SubmoduleChanged, BehindLink, Submodule, LinkAbove
<1> QED BY <1>1, <1>2, <1>3, <1>4, <1>6, <1>7

\* Nothing stands in the way of a path of an undisturbed worktree.
LEMMA QuietFits ==
  ASSUME WorktreeOK, Progress, NEW p \in todo, disk[p].kind \in FileKinds
  PROVE  ~Conflicts(p)
<1> SUFFICES ASSUME NEW q \in Above[p] \cup Below(p), temp[q] # None PROVE FALSE
  BY DEF Conflicts
<1>1. p \in Changed /\ p \in Paths /\ q \in Paths
  BY ChangedArePaths, PathsAre DEF Progress
<1>2. q \in Affected(Changed)
  BY <1>1, PathsAre DEF Affected
<1>3. Final(q) # None
  BY <1>1 DEF Progress
<1>4. disk[q].kind \notin {"none", "dir"}
  BY <1>2, <1>3 DEF Final
<1>5. disk[p] # None /\ disk[q] # None /\ disk[p] # Directory /\ disk[q] # Directory
  BY <1>4, KindsAre
<1> QED BY <1>1, <1>5, WorktreeIs, PathsAre

\* What Add does to an undisturbed capture.
LEMMA QuietAdd ==
  ASSUME WorktreeOK, temp \in Trees, Progress, NEW p \in todo, disk[p].kind \in FileKinds, ~Refused(p),
         Add(p, disk[p]), UNCHANGED <<worktree, parent>>
  PROVE  Progress' /\ pc' = "look" /\ outcome' = outcome
<1>1. ~Conflicts(p)
  BY QuietFits
<1>2. temp' = [temp EXCEPT ![p] = disk[p]] /\ todo' = todo \ {p} /\ pc' = "look" /\ outcome' = outcome
  BY <1>1 DEF Add
<1>3. p \in Changed /\ p \in Paths
  BY ChangedArePaths DEF Progress
<1>4. Final(p) = disk[p]
  BY <1>3, KindsAre DEF Final
<1>5. \A q \in Paths : temp'[q] = IF q = p THEN disk[p] ELSE temp[q]
  BY <1>2 DEF Trees
<1>6. \A q \in Paths : temp'[q] = IF q \in todo' THEN None ELSE Final(q)
  BY <1>2, <1>4, <1>5 DEF Progress
<1>7. todo' \subseteq Changed /\ \A q \in Changed \ todo' : ~Refused(q)
  BY <1>2 DEF Progress
<1>8. Changed' = Changed /\ \A q \in Paths : (Refused(q)' <=> Refused(q)) /\ Final(q)' = Final(q)
  BY WorktreeFrame
<1> QED BY <1>2, <1>6, <1>7, <1>8, ChangedArePaths DEF Progress

LEMMA QuietCapture ==
  ASSUME Typed, BaselineInv, QuietInv, Capture, disturbed = "no"
  PROVE  QuietInv'
<1>1. /\ pc \in Capturing /\ outcome = "pending" /\ WorktreeOK /\ temp \in Trees /\ todo \subseteq Paths
      /\ UNCHANGED <<worktree, disturbed, parent>>
  <2>1. pc \in Capturing
    BY DEF Capture, Capturing, ListUnmerged, ListHidden, ListDiff, ListCached, ListChanged, ListOthers,
       ReadBaseline, Look, Hash, WriteCommit
  <2>2. pc # "idle" /\ pc # "done"
    BY <2>1 DEF Capturing
  <2> QED BY <2>1, <2>2, InvocationKeeps DEF Typed, CaptureOK
<1>2. parent = Len(commits) /\ (pc # "unmerged" => unmerged = {}) /\ HeadTree = commits[parent]
  BY <1>1 DEF BaselineInv, Started, HeadTree
<1>3. /\ UNCHANGED <<HeadTree, HiddenPaths, SparsePaths, DiffPaths, CachedPaths, OtherPaths, Changed>>
      /\ \A p \in Paths : (Refused(p)' <=> Refused(p)) /\ Final(p)' = Final(p)
      /\ Cause' <=> Cause
  BY <1>1, WorktreeFrame
<1>4. ASSUME pc' = "done", outcome' = "failed", Cause
      PROVE  QuietInv'
  BY <1>3, <1>4 DEF QuietInv, Ended
<1>5. CASE ListUnmerged
  <2>1. \/ pc' = "hidden" /\ outcome' = "pending"
        \/ pc' = "done" /\ outcome' = "failed" /\ Cause
    <3>1. unmerged # {} => Cause
      BY Zenon DEF Cause, Unrepresentable
    <3> QED BY <1>1, <1>5, <3>1 DEF ListUnmerged, End
  <2>2. CASE pc' = "hidden" /\ outcome' = "pending"
    BY <2>2 DEF QuietInv, Ended
  <2> QED BY <1>4, <2>1, <2>2
<1>6. CASE ListHidden
  <2>1. pc' = "diff" /\ outcome' = "pending" /\ found' = HiddenPaths /\ sparse' = SparsePaths
    BY <1>1, <1>6 DEF ListHidden, HiddenPaths, SparsePaths
  <2> QED BY <1>3, <2>1 DEF QuietInv, Ended
<1>7. CASE ListDiff
  <2>1. pc = "diff" /\ pc' = "cached" /\ outcome' = "pending" /\ found' = found \cup DiffPaths /\ sparse' = sparse
    BY <1>1, <1>7 DEF ListDiff, ListChanged, DiffPaths
  <2>2. found = HiddenPaths /\ sparse = SparsePaths
    BY <2>1 DEF QuietInv
  <2> QED BY <1>3, <2>1, <2>2 DEF QuietInv, Ended
<1>8. CASE ListCached
  <2>1. pc = "cached" /\ pc' = "others" /\ outcome' = "pending" /\ found' = found \cup CachedPaths /\ sparse' = sparse
    BY <1>1, <1>8 DEF ListCached, ListChanged, CachedPaths
  <2>2. found = HiddenPaths \cup DiffPaths /\ sparse = SparsePaths
    BY <2>1 DEF QuietInv
  <2> QED BY <1>3, <2>1, <2>2 DEF QuietInv, Ended
<1>9. CASE ListOthers
  <2> DEFINE listed == HiddenPaths \cup DiffPaths \cup CachedPaths \cup OtherPaths
  <2>1. pc = "others" /\ found = HiddenPaths \cup DiffPaths \cup CachedPaths /\ sparse = SparsePaths
    BY <1>9 DEF ListOthers, QuietInv
  <2>2. found \cup {p \in Paths : Untracked(p)} = listed
    BY <2>1 DEF OtherPaths
  <2>3. {p \in found \cup {q \in Paths : Untracked(q)} : p \in sparse => disk[p] # None} = Changed
    BY <2>1, <2>2 DEF Changed
  <2> HIDE DEF listed
  <2>4. \/ (\E p \in listed \cap SparsePaths : LinkAbove(p)) /\ End("failed")
        \/ todo' = Changed /\ ((todo' = {} /\ End("unchanged")) \/ (pc' = "baseline" /\ outcome' = "pending"))
    <3>1. \/ (\E p \in (found \cup {q \in Paths : Untracked(q)}) \cap sparse : LinkAbove(p)) /\ End("failed")
          \/ /\ todo' = {p \in found \cup {q \in Paths : Untracked(q)} : p \in sparse => disk[p] # None}
             /\ ((todo' = {} /\ End("unchanged")) \/ (pc' = "baseline" /\ outcome' = outcome))
      BY <1>9, Zenon DEF ListOthers
    <3> QED BY <1>1, <2>1, <2>2, <2>3, <3>1
  <2>5. CASE (\E p \in listed \cap SparsePaths : LinkAbove(p)) /\ End("failed")
    <3>1. \A p \in SparsePaths : p \in Paths /\ index[p] # None
      <4>1. \A p \in SparsePaths : p \in Paths /\ flags[p] = "skip"
        BY <1>1, TagsAre DEF SparsePaths
      <4> QED BY <1>1, <4>1, WorktreeIs
    <3>2. Cause
      BY <2>5, <3>1 DEF Cause, BehindLink
    <3> QED BY <1>4, <2>5, <3>2 DEF End
  <2>6. CASE todo' = Changed /\ todo' = {} /\ End("unchanged")
    <3>1. \A p \in Paths : Final(p) = HeadTree[p]
      BY <2>6 DEF Final, Affected
    <3>2. Tree' = HeadTree
      BY <1>1, <1>2, <2>6 DEF Tree, End, worktree
    <3>3. pc' = "done" /\ outcome' = "unchanged" /\ Changed = {}
      BY <2>6 DEF End
    <3>4. \A p \in Paths : Tree'[p] = Final(p)'
      BY <1>3, <3>1, <3>2
    <3> QED BY <1>3, <3>3, <3>4 DEF QuietInv
  <2>7. CASE todo' = Changed /\ pc' = "baseline" /\ outcome' = "pending"
    BY <1>3, <2>7 DEF QuietInv, Ended
  <2> QED BY <2>4, <2>5, <2>6, <2>7
<1>10. CASE ReadBaseline
  <2>1. /\ pc = "baseline" /\ pc' = "look" /\ outcome' = "pending" /\ todo' = todo
        /\ temp' = [p \in Paths |-> IF p \in Affected(todo) THEN None ELSE HeadTree[p]]
    BY <1>1, <1>2, <1>10 DEF ReadBaseline
  <2>2. todo = Changed
    BY <2>1 DEF QuietInv
  <2>3. \A p \in Changed : p \in Affected(Changed)
    BY ChangedArePaths DEF Affected
  <2>4. \A p \in Paths : temp'[p] = IF p \in todo' THEN None ELSE Final(p)
    BY <2>1, <2>2, <2>3 DEF Final
  <2>5. Progress'
    BY <1>3, <2>1, <2>2, <2>4 DEF Progress
  <2> QED BY <2>1, <2>5 DEF QuietInv, Ended
<1>11. CASE Look
  <2> DEFINE p == NextPath(todo)
  <2>1. pc = "look" /\ todo # {} /\ p \in todo /\ Progress
    BY <1>1, <1>11, NextIsLeft DEF Look, QuietInv
  <2>2. p \in Changed /\ p \in Paths
    BY <2>1, ChangedArePaths DEF Progress
  <2>3. \/ Refused(p) /\ End("failed")
        \/ /\ ~Refused(p)
           /\ \/ /\ disk[p].kind \in {"none", "dir"} /\ todo' = todo \ {p}
                 /\ UNCHANGED <<temp, pc, outcome>>
              \/ disk[p].kind = "link" /\ Add(p, disk[p])
              \/ /\ disk[p].kind \in {"file", "exec"} /\ looked' = disk[p] /\ pc' = "hash"
                 /\ UNCHANGED <<temp, todo, outcome>>
    BY <1>11 DEF Look
  <2>4. CASE Refused(p) /\ End("failed")
    <3>1. Cause
      BY <1>1, <1>2, <2>1, <2>2, <2>4, RefusedHasCause
    <3> QED BY <1>4, <2>4, <3>1 DEF End
  <2>5. CASE /\ ~Refused(p) /\ disk[p].kind \in {"none", "dir"} /\ todo' = todo \ {p}
             /\ UNCHANGED <<temp, pc, outcome>>
    <3> HIDE DEF p
    <3>1. Final(p) = None
      BY <2>2, <2>5 DEF Final
    <3>2. \A q \in Paths : temp'[q] = IF q \in todo' THEN None ELSE Final(q)
      BY <2>1, <2>5, <3>1 DEF Progress
    <3>3. todo' \subseteq Changed /\ \A q \in Changed \ todo' : ~Refused(q)
      BY <2>1, <2>5 DEF Progress
    <3>4. Progress'
      BY <1>3, <3>2, <3>3, ChangedArePaths DEF Progress
    <3> QED BY <1>1, <2>1, <2>5, <3>4 DEF QuietInv, Ended
  <2>6. CASE ~Refused(p) /\ disk[p].kind = "link" /\ Add(p, disk[p])
    <3>1. Progress' /\ pc' = "look" /\ outcome' = outcome
      <4> HIDE DEF p
      <4> QED BY <1>1, <2>1, <2>6, QuietAdd DEF FileKinds
    <3> QED BY <1>1, <3>1 DEF QuietInv, Ended
  <2>7. CASE /\ ~Refused(p) /\ looked' = disk[p] /\ pc' = "hash"
             /\ UNCHANGED <<temp, todo, outcome>>
    <3>1. Progress'
      BY <1>3, <2>1, <2>7, ChangedArePaths DEF Progress
    <3>2. NextPath(todo)' = p
      BY <2>7
    <3>3. looked' = disk[NextPath(todo)]' /\ ~Refused(NextPath(todo))'
      <4>1. disk' = disk /\ (Refused(p)' <=> Refused(p))
        <5>1. UNCHANGED <<disk, commits, parent>>
          BY <1>1 DEF worktree
        <5>2. Refused(p)' <=> Refused(p)
          BY <2>7, <5>1 DEF Refused, LinkAbove
        <5> QED BY <1>1, <5>2 DEF worktree
      <4> QED BY <2>7, <3>2, <4>1
    <3> QED BY <1>1, <2>7, <3>1, <3>3 DEF QuietInv, Ended
  <2> HIDE DEF p
  <2> QED BY <2>3, <2>4, <2>5, <2>6, <2>7
<1>12. CASE Hash
  <2> DEFINE p == NextPath(todo)
  <2>1. pc = "hash" /\ todo # {} /\ p \in todo /\ Progress /\ looked = disk[p] /\ ~Refused(p)
        /\ looked.kind \in {"file", "exec"}
    BY <1>1, <1>12, NextIsLeft DEF Hash, QuietInv, Typed, CaptureOK
  <2>2. p \in Paths
    BY <1>1, <2>1
  <2>3. HashedBodies(p) = {disk[p].body} /\ ~LinkAbove(p) /\ disk[p].kind # "link"
    BY <2>1 DEF HashedBodies, Refused
  <2>4. [kind |-> looked.kind, body |-> disk[p].body] = disk[p]
    <3>1. disk[p] \in DiskEntries /\ disk[p].kind # "none"
      BY <1>1, <2>1, <2>2, WorktreeIs
    <3> HIDE DEF p
    <3> QED BY <2>1, <3>1, EntriesAre DEF DiskEntries
  <2>5. Add(p, disk[p])
    BY <1>12, <2>3, <2>4 DEF Hash
  <2>6. Progress' /\ pc' = "look" /\ outcome' = outcome
    <3> HIDE DEF p
    <3> QED BY <1>1, <2>1, <2>5, QuietAdd DEF FileKinds
  <2> QED BY <1>1, <2>6 DEF QuietInv, Ended
<1>13. CASE WriteCommit
  <2>1. /\ pc = "look" /\ todo = {} /\ pc' = "done" /\ temp' = temp
        /\ outcome' = IF temp = commits[parent] THEN "unchanged" ELSE "captured"
    BY <1>13 DEF WriteCommit, End, hashing
  <2>2. Progress
    BY <2>1 DEF QuietInv
  <2>3. Tree' = temp
    BY <1>1, <2>1 DEF Tree, worktree
  <2>4. \A p \in Paths : Tree'[p] = Final(p)'
    BY <1>3, <2>1, <2>2, <2>3 DEF Progress
  <2>5. \A p \in Changed' : ~Refused(p)'
    BY <1>3, <2>1, <2>2, ChangedArePaths DEF Progress
  <2> QED BY <2>1, <2>4, <2>5 DEF QuietInv
<1> QED BY <1>5, <1>6, <1>7, <1>8, <1>9, <1>10, <1>11, <1>12, <1>13 DEF Capture

LEMMA QuietKept ==
  ASSUME Typed, BaselineInv, QuietInv, [Next]_vars
  PROVE  QuietInv'
<1>0. outcome = "pending" <=> pc # "done"
  BY DEF Typed, CaptureOK
<1>1. CASE User
  <2>1. /\ pc' = pc /\ outcome' = outcome /\ outcome = "pending"
        /\ pc # "idle" => disturbed' # "no"
    BY <1>1, UserKeeps
  <2> QED BY <2>1 DEF QuietInv, Ended
<1>2. CASE Invocation
  <2>1. /\ pc' \in {"done", "policies", "clean", "proposed", "unmerged"}
        /\ outcome' \in {"pending", "refused", "committed"}
    BY <1>0, <1>2 DEF Invocation, Begin, RequireClean, ResolveTarget, ResolveProposed, End
  <2> QED BY <2>1 DEF QuietInv, Ended
<1>3. CASE Capture
  <2>1. disturbed' = disturbed
    BY <1>3, InvocationKeeps
  <2> QED BY <1>3, <2>1, QuietCapture DEF QuietInv
<1>4. CASE UNCHANGED vars
  <2>1. UNCHANGED <<worktree, parent, disturbed, pc, found, sparse, todo, looked, temp, outcome>>
    BY <1>4 DEF vars, user, refs, listing, hashing, history
  <2>2. UNCHANGED <<disk, commits>>
    BY <2>1 DEF worktree
  <2>3. /\ UNCHANGED <<HiddenPaths, SparsePaths, DiffPaths, CachedPaths, Changed>>
        /\ \A p \in Paths : (Refused(p)' <=> Refused(p)) /\ Final(p)' = Final(p)
        /\ Cause' <=> Cause
    BY <2>1, WorktreeFrame
  <2>4. UNCHANGED Tree /\ Ended' = Ended
    BY <2>1, <2>2 DEF Tree, Ended
  <2>5. Progress' <=> Progress
    BY <2>1, <2>3, ChangedArePaths DEF Progress
  <2>6. Refused(NextPath(todo))' <=> Refused(NextPath(todo))
    BY <2>1, <2>2 DEF Refused, LinkAbove
  <2>7. Ended /\ disturbed = "no" => (\A p \in Changed' : ~Refused(p)') /\ \A p \in Paths : Tree'[p] = Final(p)'
    BY <2>3, <2>4, ChangedArePaths DEF QuietInv
  <2> QED BY <2>1, <2>2, <2>3, <2>4, <2>5, <2>6, <2>7 DEF QuietInv
<1> QED BY <1>1, <1>2, <1>3, <1>4 DEF Next, Invocation

\* The invariant of a capture that nobody disturbs.
THEOREM QuietHolds == Spec => []QuietInv
<1>1. Init => QuietInv
  BY DEF Init, QuietInv, Ended
<1>2. Typed /\ BaselineInv /\ QuietInv /\ [Next]_vars => QuietInv'
  BY QuietKept
<1> QED BY <1>1, <1>2, TypedHolds, BaselineHolds, PTL DEF Spec

\* The snapshot of a worktree that nobody touches meanwhile is the visible
\* worktree; a file that passes for unchanged through the filters stays as HEAD
\* has it.
THEOREM QuietSnapshotShowsWorktree == Spec => []QuietSnapshotIsVisible
<1>1. Typed /\ BaselineInv /\ QuietInv => QuietSnapshotIsVisible
  <2> SUFFICES ASSUME Typed, BaselineInv, QuietInv, Ended, disturbed = "no", NEW p \in Paths, ~Departs(p)
               PROVE  Tree[p] = Visible(p) \/ (EqualInGit(p) /\ Tree[p] = HeadTree[p])
    BY DEF QuietSnapshotIsVisible, Quiet
  <2>1. WorktreeOK /\ pc # "unmerged" /\ outcome # "failed"
    BY DEF Typed, CaptureOK, Ended
  <2>2. parent = Len(commits) /\ unmerged = {}
    BY <2>1 DEF BaselineInv, Started, Ended
  <2>3. Tree[p] = Final(p) /\ (p \in Changed => ~Refused(p))
    BY DEF QuietInv
  <2> QED BY <2>1, <2>2, <2>3, FinalIsVisible
<1> QED BY <1>1, TypedHolds, BaselineHolds, QuietHolds, PTL

\* A capture that nobody disturbs fails only over what no tree can hold, a
\* changed submodule, or a path behind a link.
THEOREM QuietCaptureFailsForCause == Spec => []FailureHasACause
<1>1. QuietInv => FailureHasACause
  BY DEF QuietInv, Cause, FailureHasACause, Quiet
<1> QED BY <1>1, QuietHolds, PTL
-----------------------------------------------------------------------------
(* A capture while files are edited.                                       *)

\* A snapshot may have t at p: what it is was on the disk, or is left as HEAD
\* has it, or left out, for a reason.
Kept(p, t) ==
  \/ t = HeadTree[p] /\ (HeadTree[p].kind = "repo" \/ flags[p] = "skip")
  \/ /\ t = HeadTree[p] /\ flags[p] = "none"
     /\ \E e \in seen[p] : Stored(p, e) = t
  \/ /\ t = None
     /\ \/ Excluded(p)
        \/ \E q \in Above[p] : index[q].kind = "repo"
        \/ \E e \in seen[p] : e.kind \notin FileKinds
  \/ /\ \E e \in seen[p] : e.kind = t.kind
     /\ p \in followed \/ \E e \in seen[p] : e.body = t.body

\* The disk agreed with the index at some moment, as far as git compares them.
Agreed(p) ==
  \/ index[p] = None
  \/ \E e \in seen[p] : Stored(p, e) = index[p]
  \/ index[p].kind = "repo" /\ Directory \in seen[p]

\* What is left out of the listings, and what the capture has made so far.
DiskInv ==
  disturbed # "git" =>
    /\ pc \in {"diff", "cached", "others"} =>
         /\ sparse = SparsePaths
         /\ \A p \in found : index[p] # None \/ HeadTree[p] # None
         /\ \A p \in Paths \ found : flags[p] \in {"none", "both"}
    /\ pc \in {"cached", "others"} => \A p \in Paths \ found : flags[p] = "both" \/ Agreed(p)
    /\ pc = "others" => \A p \in Paths \ found : index[p] = HeadTree[p]
    /\ pc = "baseline" =>
         \A p \in Paths \ todo :
           Departs(p) \/ (Kept(p, HeadTree[p]) /\ (p \in Affected(todo) => Kept(p, None)))
    /\ pc \in {"look", "hash"} =>
         /\ \A p \in todo : temp[p] = None
         /\ \A p \in Paths \ todo : Departs(p) \/ Kept(p, temp[p])
    /\ pc = "hash" => \E e \in seen[NextPath(todo)] : e.kind = looked.kind
    /\ Ended => \A p \in Paths : Departs(p) \/ Kept(p, Tree[p])

\* What was seen once stays a reason.
LEMMA KeptStays ==
  ASSUME UNCHANGED <<index, flags, unmerged, ignored, commits>>, \A p \in Paths : seen[p] \subseteq seen'[p],
         followed \subseteq followed'
  PROVE  /\ UNCHANGED <<HeadTree, SparsePaths>>
         /\ \A p \in Paths : (Departs(p)' <=> Departs(p)) /\ (Agreed(p) => Agreed(p)')
         /\ \A p \in Paths : \A t : Kept(p, t) => Kept(p, t)'
<1>1. UNCHANGED <<HeadTree, SparsePaths>>
  BY DEF HeadTree, SparsePaths, Tag
<1>2. \A p \in Paths : (Excluded(p)' <=> Excluded(p)) /\ (Departs(p)' <=> Departs(p))
  BY <1>1 DEF Excluded, Departs
<1>3. \A p \in Paths : Agreed(p) => Agreed(p)'
  BY DEF Agreed
<1>4. ASSUME NEW p \in Paths, NEW t, Kept(p, t) PROVE Kept(p, t)'
  <2>1. \A q \in {p} \cup Above[p] : q \in Paths
    BY PathsAre
  <2> QED BY <1>1, <1>2, <1>4, <2>1 DEF Kept
<1> QED BY <1>1, <1>2, <1>3, <1>4

LEMMA DiskUser ==
  ASSUME Typed, DiskInv, User
  PROVE  DiskInv'
<1>1. /\ UNCHANGED <<pc, refs, listing, hashing, outcome, followed>> /\ outcome = "pending"
      /\ pc # "idle" =>
           \/ disturbed' = "git"
           \/ /\ disturbed # "git" /\ UNCHANGED <<index, flags, unmerged, ignored, commits>>
              /\ seen' = [q \in Paths |-> seen[q] \cup {disk'[q]}]
  BY UserKeeps
<1>2. CASE pc = "idle"
  BY <1>1, <1>2 DEF DiskInv, Ended
<1>3. CASE disturbed' = "git"
  BY <1>3 DEF DiskInv
<1>4. CASE /\ disturbed # "git" /\ UNCHANGED <<index, flags, unmerged, ignored, commits>>
           /\ seen' = [q \in Paths |-> seen[q] \cup {disk'[q]}]
  <2>1. \A p \in Paths : seen[p] \subseteq seen'[p]
    BY <1>4
  <2>2. /\ UNCHANGED <<HeadTree, SparsePaths>>
        /\ \A p \in Paths : (Departs(p)' <=> Departs(p)) /\ (Agreed(p) => Agreed(p)')
        /\ \A p \in Paths : \A t : Kept(p, t) => Kept(p, t)'
    BY <1>1, <1>4, <2>1, KeptStays
  <2>3. UNCHANGED <<pc, found, sparse, todo, looked, temp, outcome, index, flags, Affected(todo)>> /\ ~Ended'
    BY <1>1, <1>4 DEF listing, hashing, Affected, Ended
  <2>4. found \subseteq Paths /\ todo \subseteq Paths /\ (pc = "hash" => todo # {})
    BY DEF Typed, CaptureOK
  <2>5. pc = "hash" => NextPath(todo) \in Paths /\ NextPath(todo)' = NextPath(todo)
    BY <2>3, <2>4, NextIsLeft
  <2>6. pc = "baseline" =>
          \A p \in Paths \ todo :
            Departs(p)' \/ (Kept(p, HeadTree[p])' /\ (p \in Affected(todo) => Kept(p, None)'))
    <3> SUFFICES ASSUME pc = "baseline", NEW p \in Paths \ todo, ~Departs(p)
                 PROVE  Kept(p, HeadTree[p])' /\ (p \in Affected(todo) => Kept(p, None)')
      BY <2>2
    <3>1. Kept(p, HeadTree[p]) /\ (p \in Affected(todo) => Kept(p, None))
      BY <1>4 DEF DiskInv
    <3>2. Kept(p, None) => Kept(p, None)'
      BY <2>2
    <3>3. Kept(p, HeadTree[p])'
      <4>1. PICK t : t = HeadTree[p]
        OBVIOUS
      <4>2. Kept(p, t)
        BY <3>1, <4>1
      <4>3. Kept(p, t)' /\ t = HeadTree'[p]
        BY <2>2, <4>1, <4>2
      <4> QED BY <4>3
    <3> QED BY <3>1, <3>2, <3>3
  <2>7. pc \in {"look", "hash"} => \A p \in Paths \ todo : Departs(p)' \/ Kept(p, temp[p])'
    <3> SUFFICES ASSUME pc \in {"look", "hash"}, NEW p \in Paths \ todo, ~Departs(p)
                 PROVE  Kept(p, temp[p])'
      BY <2>2
    <3>1. PICK t : t = temp[p]
      OBVIOUS
    <3>2. Kept(p, t)
      BY <1>4, <3>1 DEF DiskInv
    <3>3. Kept(p, t)' /\ t = temp'[p]
      BY <2>2, <2>3, <3>1, <3>2
    <3> QED BY <3>3
  <2>8. pc = "hash" => \E e \in seen'[NextPath(todo)'] : e.kind = looked'.kind
    BY <1>4, <2>1, <2>3, <2>5 DEF DiskInv
  <2> QED BY <1>4, <2>2, <2>3, <2>4, <2>6, <2>7, <2>8 DEF DiskInv
<1> QED BY <1>1, <1>2, <1>3, <1>4

\* What the listings leave out may stay as HEAD has it, or give way to what is
\* changed above or below it.
LEMMA UnlistedIsKept ==
  ASSUME Typed, DiskInv, disturbed # "git", pc = "others", unmerged = {},
         NEW listed, listed = found \cup {p \in Paths : Untracked(p)},
         NEW left, left = {p \in listed : p \in sparse => disk[p] # None},
         NEW p \in Paths \ left, ~Departs(p)
  PROVE  Kept(p, HeadTree[p]) /\ (p \in Affected(left) => Kept(p, None))
<1>1. /\ WorktreeOK /\ p \in Paths /\ found \subseteq Paths /\ left \subseteq Paths
      /\ sparse = SparsePaths
      /\ \A q \in found : index[q] # None \/ HeadTree[q] # None
      /\ \A q \in Paths : disk[q] \in seen[q] /\ seen[q] \subseteq DiskEntries
  BY DEF Typed, CaptureOK, SeenOK, DiskInv
<1>2. flags[p] # "both"
  BY DEF Departs
<1>3. CASE p \in sparse
  <2>1. flags[p] = "skip"
    BY <1>1, <1>3, TagsAre DEF SparsePaths
  <2>2. disk[p] = None => Kept(p, None)
    BY <1>1, KindsAre DEF Kept
  <2>3. p \in Affected(left) => Kept(p, None)
    <3>1. p \in listed => disk[p] = None
      BY <1>3
    <3>2. p \in found
      <4>1. flags[p] \notin {"none", "both"}
        BY <2>1
      <4> QED BY <1>1, <4>1 DEF DiskInv
    <3> QED BY <2>2, <3>1, <3>2
  <2> QED BY <2>1, <2>3 DEF Kept
<1>4. CASE p \notin sparse
  <2>1. p \notin found /\ ~Untracked(p)
    BY <1>1, <1>4
  <2>2. flags[p] = "none" /\ Agreed(p) /\ index[p] = HeadTree[p]
    BY <1>1, <1>2, <2>1 DEF DiskInv
  <2>3. CASE index[p] = None
    <3>1. disk[p] \in seen[p] /\ disk[p] \in DiskEntries
      BY <1>1, WorktreeIs
    <3>2. \/ Excluded(p)
          \/ \E q \in Above[p] : index[q].kind = "repo"
          \/ disk[p].kind \notin FileKinds
      BY <2>1, <2>3 DEF Untracked
    <3>3. Kept(p, None)
      BY <3>1, <3>2 DEF Kept
    <3> QED BY <2>2, <2>3, <3>3
  <2>4. CASE index[p] # None /\ index[p].kind = "repo"
    <3>0. \A e \in seen[p] : Stored(p, e).kind = e.kind
      BY <1>1, StoredIs
    <3>1. \E e \in seen[p] : e.kind \notin FileKinds
      BY <2>2, <2>4, <3>0, KindsAre DEF Agreed
    <3> QED BY <2>2, <2>4, <3>1 DEF Kept
  <2>5. CASE index[p] # None /\ index[p].kind # "repo"
    <3>1. \E e \in seen[p] : Stored(p, e) = index[p]
      BY <2>2, <2>5 DEF Agreed
    <3>2. Kept(p, HeadTree[p])
      BY <2>2, <3>1 DEF Kept
    <3>3. ASSUME NEW q \in left, q \in Above[p] \cup Below(p)
          PROVE  \E e \in seen[p] : e.kind \notin FileKinds
      <4>1. q \in Paths /\ index[q] = None /\ HeadTree[q] = None
        BY <1>1, <2>2, <2>5, <3>3, WorktreeIs
      <4>2. Untracked(q)
        BY <1>1, <3>3, <4>1
      <4>3. disk[q].kind \in FileKinds \cup {"repo"}
        BY <4>2 DEF Untracked
      <4>4. disk[q] # None /\ disk[q] # Directory
        BY <4>3, KindsAre
      <4>5. disk[p] = None \/ disk[p] = Directory
        BY <1>1, <3>3, <4>1, <4>4, WorktreeIs, PathsAre
      <4> QED BY <1>1, <4>5, KindsAre
    <3>4. p \in Affected(left) => \E q \in left : q \in Above[p] \cup Below(p)
      BY <1>1, PathsAre DEF Affected
    <3>5. p \in Affected(left) => Kept(p, None)
      BY <3>3, <3>4 DEF Kept
    <3> QED BY <3>2, <3>5
  <2> QED BY <2>3, <2>4, <2>5
<1> QED BY <1>3, <1>4

\* Adding an entry that its path may have.
LEMMA DiskAdd ==
  ASSUME temp \in Trees, todo \subseteq Paths, disturbed # "git", outcome = "pending",
         \A q \in todo : temp[q] = None,
         \A q \in Paths \ todo : Departs(q) \/ Kept(q, temp[q]),
         NEW p \in todo, NEW entry, Add(p, entry),
         Kept(p, entry) \/ (p \in followed' /\ \E e \in seen[p] : e.kind = entry.kind),
         UNCHANGED <<worktree, seen, disturbed>>, followed \subseteq followed'
  PROVE  DiskInv'
<1>1. \A q \in Paths : (Departs(q)' <=> Departs(q)) /\ \A t : Kept(q, t) => Kept(q, t)'
  BY KeptStays DEF worktree
<1>2. CASE End("failed")
  BY <1>2 DEF End, DiskInv, Ended
<1>3. CASE ~End("failed")
  <2>1. temp' = [temp EXCEPT ![p] = entry] /\ todo' = todo \ {p} /\ pc' = "look" /\ outcome' = outcome
    BY <1>3 DEF Add
  <2>2. \A q \in Paths : temp'[q] = IF q = p THEN entry ELSE temp[q]
    BY <2>1 DEF Trees
  <2>3. \A q \in todo' : temp'[q] = None
    BY <2>1, <2>2
  <2>4. ASSUME NEW q \in Paths \ todo', ~Departs(q)
        PROVE  Kept(q, temp[q])'
    <3>1. PICK t : t = temp'[q]
      OBVIOUS
    <3>2. CASE q # p \/ Kept(p, entry)
      <4>1. Kept(q, t)
        BY <2>1, <2>2, <2>4, <3>1, <3>2
      <4>2. Kept(q, t)' /\ t = temp'[q]
        BY <1>1, <3>1, <4>1
      <4> QED BY <4>2
    <3>3. CASE q = p /\ p \in followed' /\ \E e \in seen[p] : e.kind = entry.kind
      BY <2>2, <3>3 DEF Kept
    <3> QED BY <3>2, <3>3
  <2> QED BY <1>1, <2>1, <2>3, <2>4 DEF DiskInv, Ended
<1> QED BY <1>2, <1>3

LEMMA DiskCapture ==
  ASSUME Typed, BaselineInv, DiskInv, Capture, disturbed # "git"
  PROVE  DiskInv'
<1>1. /\ pc \in Capturing /\ outcome = "pending" /\ WorktreeOK /\ temp \in Trees /\ todo \subseteq Paths
      /\ UNCHANGED <<worktree, disturbed, parent, seen>> /\ followed \subseteq followed'
  <2>1. pc \in Capturing
    BY DEF Capture, Capturing, ListUnmerged, ListHidden, ListDiff, ListCached, ListChanged, ListOthers,
       ReadBaseline, Look, Hash, WriteCommit
  <2>2. pc # "idle" /\ pc # "done"
    BY <2>1 DEF Capturing
  <2> QED BY <2>1, <2>2, InvocationKeeps DEF Typed, CaptureOK
<1>2. parent = Len(commits) /\ (pc # "unmerged" => unmerged = {}) /\ HeadTree = commits[parent]
  BY <1>1 DEF BaselineInv, Started, HeadTree
<1>3. /\ UNCHANGED <<HeadTree, SparsePaths, disk, index, flags, commits>>
      /\ \A p \in Paths : (Departs(p)' <=> Departs(p)) /\ (Agreed(p) => Agreed(p)')
      /\ \A p \in Paths : \A t : Kept(p, t) => Kept(p, t)'
  BY <1>1, KeptStays DEF worktree
<1>4. \A p \in Paths : disk[p] \in seen[p] /\ disk[p] \in DiskEntries
  BY <1>1, WorktreeIs DEF Typed, SeenOK, Capturing
<1>5. ASSUME pc' = "done", outcome' = "failed" PROVE DiskInv'
  BY <1>5 DEF DiskInv, Ended
<1>6. ASSUME NEW tree, \A p \in Paths : Departs(p) \/ Kept(p, tree[p]), tree = Tree'
      PROVE  \A p \in Paths : Departs(p)' \/ Kept(p, Tree[p])'
  <2> SUFFICES ASSUME NEW p \in Paths, ~Departs(p) PROVE Kept(p, Tree[p])'
    BY <1>3
  <2>1. PICK t : t = tree[p]
    OBVIOUS
  <2>2. Kept(p, t)' /\ t = Tree'[p]
    BY <1>3, <1>6, <2>1
  <2> QED BY <2>2
<1>7. CASE ListUnmerged
  <2>1. (pc' = "hidden" /\ outcome' = "pending") \/ (pc' = "done" /\ outcome' = "failed")
    BY <1>1, <1>7 DEF ListUnmerged, End
  <2>2. CASE pc' = "hidden" /\ outcome' = "pending"
    BY <2>2 DEF DiskInv, Ended
  <2> QED BY <1>5, <2>1, <2>2
<1>8. CASE ListHidden
  <2>1. pc' = "diff" /\ outcome' = "pending" /\ sparse' = SparsePaths
        /\ found' = {p \in Paths : Tag(p) \in HiddenTags}
    BY <1>1, <1>8 DEF ListHidden, SparsePaths
  <2>2. \A p \in Paths : p \in found' <=> flags[p] \in {"assume", "skip"}
    BY <1>1, <2>1, TagsAre
  <2>3. found' \subseteq Paths
    BY <2>1
  <2>4. \A p \in found' : index[p] # None \/ HeadTree[p] # None
    BY <1>1, <2>2, <2>3, WorktreeIs
  <2>5. \A p \in Paths \ found' : flags[p] \in {"none", "both"}
    BY <1>1, <2>2, WorktreeIs
  <2> QED BY <1>3, <2>1, <2>4, <2>5 DEF DiskInv, Ended
<1>9. CASE ListDiff
  <2>1. pc = "diff" /\ pc' = "cached" /\ outcome' = "pending" /\ sparse' = sparse
        /\ found' = found \cup {p \in Paths : DiffersOnDisk(p)}
    BY <1>1, <1>9 DEF ListDiff, ListChanged
  <2>2. \A p \in Paths : DiffersOnDisk(p) => index[p] # None
    BY <1>1, <1>2, <2>1 DEF DiffersOnDisk, Modified
  <2>3. ASSUME NEW p \in Paths \ found' PROVE flags[p] = "both" \/ Agreed(p)
    <3>1. flags[p] \in {"none", "both"} /\ ~DiffersOnDisk(p)
      BY <2>1, <2>3 DEF DiskInv
    <3>2. Stored(p, disk[p]) = Directory => disk[p] = Directory
      BY <1>4, <2>3, StoredIs, KindsAre
    <3> QED BY <1>4, <2>3, <3>1, <3>2 DEF DiffersOnDisk, Modified, Agreed
  <2> QED BY <1>3, <2>1, <2>2, <2>3 DEF DiskInv, Ended
<1>10. CASE ListCached
  <2>1. pc = "cached" /\ pc' = "others" /\ outcome' = "pending" /\ sparse' = sparse
        /\ found' = found \cup {p \in Paths : DiffersInIndex(p)}
    BY <1>1, <1>10 DEF ListCached, ListChanged
  <2>2. \A p \in Paths : DiffersInIndex(p) <=> index[p] # HeadTree[p]
    BY <1>2, <2>1 DEF DiffersInIndex
  <2> QED BY <1>3, <2>1, <2>2 DEF DiskInv, Ended
<1>11. CASE ListOthers
  <2>1. pc = "others" /\ unmerged = {}
    BY <1>2, <1>11 DEF ListOthers
  <2> DEFINE listed == found \cup {p \in Paths : Untracked(p)}
             left == {p \in listed : p \in sparse => disk[p] # None}
  <2>2. \/ End("failed")
        \/ todo' = left /\ ((todo' = {} /\ End("unchanged")) \/ (pc' = "baseline" /\ outcome' = "pending"))
    BY <1>1, <1>11 DEF ListOthers
  <2>3. \A p \in Paths \ left : Departs(p) \/ (Kept(p, HeadTree[p]) /\ (p \in Affected(left) => Kept(p, None)))
    BY <2>1, UnlistedIsKept
  <2> HIDE DEF left
  <2>4. CASE End("failed")
    BY <1>5, <2>4 DEF End
  <2>5. CASE todo' = left /\ todo' = {} /\ End("unchanged")
    <3>1. pc' = "done" /\ outcome' = "unchanged" /\ HeadTree = Tree'
      BY <1>1, <1>2, <2>5 DEF End, Tree, worktree
    <3>2. \A p \in Paths : Departs(p) \/ Kept(p, HeadTree[p])
      BY <2>3, <2>5
    <3>3. \A p \in Paths : Departs(p)' \/ Kept(p, Tree[p])'
      BY <1>6, <3>1, <3>2
    <3> QED BY <3>1, <3>3 DEF DiskInv
  <2>6. CASE todo' = left /\ pc' = "baseline" /\ outcome' = "pending"
    <3>1. Affected(todo)' = Affected(left)
      BY <2>6 DEF Affected
    <3>2. ASSUME NEW p \in Paths \ todo', ~Departs(p)
          PROVE  Kept(p, HeadTree[p])' /\ (p \in Affected(left) => Kept(p, None)')
      <4>1. PICK t : t = HeadTree[p]
        OBVIOUS
      <4>2. Kept(p, t) /\ (p \in Affected(left) => Kept(p, None))
        BY <2>3, <2>6, <3>2, <4>1
      <4>3. Kept(p, t)' /\ t = HeadTree'[p] /\ (Kept(p, None) => Kept(p, None)')
        BY <1>3, <4>1, <4>2
      <4> QED BY <4>2, <4>3
    <3> QED BY <1>3, <2>6, <3>1, <3>2 DEF DiskInv, Ended
  <2> QED BY <2>2, <2>4, <2>5, <2>6
<1>12. CASE ReadBaseline
  <2>1. /\ pc = "baseline" /\ pc' = "look" /\ outcome' = "pending" /\ todo' = todo
        /\ temp' = [p \in Paths |-> IF p \in Affected(todo) THEN None ELSE HeadTree[p]]
    BY <1>1, <1>2, <1>12 DEF ReadBaseline
  <2>2. \A p \in todo : p \in Affected(todo)
    BY <1>1 DEF Affected
  <2>3. \A p \in todo' : temp'[p] = None
    BY <1>1, <2>1, <2>2
  <2>4. ASSUME NEW p \in Paths \ todo, ~Departs(p) PROVE Kept(p, temp[p])'
    <3>1. PICK t : t = temp'[p]
      OBVIOUS
    <3>2. Kept(p, t)
      <4>1. Kept(p, HeadTree[p]) /\ (p \in Affected(todo) => Kept(p, None))
        BY <2>1, <2>4 DEF DiskInv
      <4> QED BY <2>1, <3>1, <4>1
    <3>3. Kept(p, t)' /\ t = temp'[p]
      BY <1>3, <3>1, <3>2
    <3> QED BY <3>3
  <2> QED BY <1>3, <2>1, <2>3, <2>4 DEF DiskInv, Ended
<1>13. CASE Look
  <2> DEFINE p == NextPath(todo)
  <2>1. /\ pc = "look" /\ p \in todo /\ p \in Paths
        /\ \A q \in todo : temp[q] = None
        /\ \A q \in Paths \ todo : Departs(q) \/ Kept(q, temp[q])
    BY <1>1, <1>13, NextIsLeft DEF Look, DiskInv
  <2>2. \/ End("failed")
        \/ /\ disk[p].kind \in {"none", "dir"} /\ todo' = todo \ {p} /\ UNCHANGED <<temp, pc, outcome>>
        \/ disk[p].kind = "link" /\ Add(p, disk[p])
        \/ /\ looked' = disk[p] /\ pc' = "hash" /\ UNCHANGED <<temp, todo, outcome>>
    BY <1>13 DEF Look
  <2>3. disk[p] \in seen[p]
    BY <1>4, <2>1
  <2>4. CASE End("failed")
    BY <1>5, <2>4 DEF End
  <2>5. CASE disk[p].kind \in {"none", "dir"} /\ todo' = todo \ {p} /\ UNCHANGED <<temp, pc, outcome>>
    <3> HIDE DEF p
    <3>1. Kept(p, None)
      BY <2>3, <2>5, KindsAre DEF Kept
    <3>2. ASSUME NEW q \in Paths \ todo', ~Departs(q) PROVE Kept(q, temp[q])'
      <4>1. PICK t : t = temp[q]
        OBVIOUS
      <4>2. Kept(q, t)
        BY <2>1, <2>5, <3>1, <3>2, <4>1
      <4>3. Kept(q, t)' /\ t = temp'[q]
        BY <1>3, <2>5, <4>1, <4>2
      <4> QED BY <4>3
    <3> QED BY <1>1, <1>3, <2>1, <2>5, <3>2 DEF DiskInv, Ended
  <2>6. CASE disk[p].kind = "link" /\ Add(p, disk[p])
    <3> HIDE DEF p
    <3>1. Kept(p, disk[p])
      BY <2>3 DEF Kept
    <3> QED BY <1>1, <2>1, <2>6, <3>1, DiskAdd
  <2>7. CASE looked' = disk[p] /\ pc' = "hash" /\ UNCHANGED <<temp, todo, outcome>>
    <3>1. NextPath(todo)' = p /\ seen' = seen
      BY <1>1, <2>7
    <3> HIDE DEF p
    <3>2. \E e \in seen'[NextPath(todo)'] : e.kind = looked'.kind
      BY <2>3, <2>7, <3>1
    <3>3. ASSUME NEW q \in Paths \ todo', ~Departs(q) PROVE Kept(q, temp[q])'
      <4>1. PICK t : t = temp[q]
        OBVIOUS
      <4>2. Kept(q, t)
        BY <2>1, <2>7, <3>3, <4>1
      <4>3. Kept(q, t)' /\ t = temp'[q]
        BY <1>3, <2>7, <4>1, <4>2
      <4> QED BY <4>3
    <3> QED BY <1>1, <1>3, <2>1, <2>7, <3>2, <3>3 DEF DiskInv, Ended
  <2> HIDE DEF p
  <2> QED BY <2>2, <2>4, <2>5, <2>6, <2>7
<1>14. CASE Hash
  <2> DEFINE p == NextPath(todo)
  <2>1. pc = "hash" /\ todo # {}
    BY <1>14 DEF Hash, Typed, CaptureOK
  <2>2. /\ p \in todo /\ p \in Paths
        /\ \A q \in todo : temp[q] = None
        /\ \A q \in Paths \ todo : Departs(q) \/ Kept(q, temp[q])
        /\ \E e \in seen[p] : e.kind = looked.kind
    BY <1>1, <2>1, NextIsLeft DEF DiskInv
  <2>3. \/ \E b \in HashedBodies(p) : Add(p, [kind |-> looked.kind, body |-> b])
        \/ End("failed")
    BY <1>14 DEF Hash
  <2> HIDE DEF p
  <2>a. followed' = IF disk[p].kind = "link" \/ LinkAbove(p) THEN followed \cup {p} ELSE followed
    BY <1>14 DEF Hash, p
  <2>4. ASSUME NEW b \in HashedBodies(p), NEW entry, entry = [kind |-> looked.kind, body |-> b]
        PROVE  Kept(p, entry) \/ (p \in followed' /\ \E e \in seen[p] : e.kind = entry.kind)
    <3>1. CASE disk[p].kind \in {"file", "exec"}
      <4>0. disk[p].kind # "link" /\ ~LinkAbove(p)
        BY <1>1, <2>2, <3>1, WorktreeIs, KindsAre DEF LinkAbove
      <4>1. b = disk[p].body
        BY <2>4, <3>1, <4>0 DEF HashedBodies
      <4>2. entry.kind = looked.kind /\ entry.body = disk[p].body
        BY <2>4, <4>1
      <4> QED BY <1>4, <2>2, <4>2 DEF Kept
    <3>2. CASE disk[p].kind = "link" \/ LinkAbove(p)
      BY <2>2, <2>4, <2>a, <3>2
    <3>3. disk[p].kind \in {"file", "exec"} \/ disk[p].kind = "link" \/ LinkAbove(p)
      BY <2>4 DEF HashedBodies
    <3> QED BY <3>1, <3>2, <3>3
  <2>5. ASSUME NEW b \in HashedBodies(p), Add(p, [kind |-> looked.kind, body |-> b]) PROVE DiskInv'
    <3>1. PICK entry : entry = [kind |-> looked.kind, body |-> b]
      OBVIOUS
    <3>2. Kept(p, entry) \/ (p \in followed' /\ \E e \in seen[p] : e.kind = entry.kind)
      BY <2>4, <3>1
    <3>3. Add(p, entry)
      BY <2>5, <3>1
    <3> QED BY <1>1, <2>2, <3>2, <3>3, DiskAdd
  <2>6. CASE End("failed")
    BY <1>5, <2>6 DEF End
  <2> QED BY <2>3, <2>5, <2>6
<1>15. CASE WriteCommit
  <2>1. /\ pc = "look" /\ todo = {} /\ pc' = "done" /\ temp' = temp
        /\ outcome' = IF temp = commits[parent] THEN "unchanged" ELSE "captured"
    BY <1>15 DEF WriteCommit, End, hashing
  <2>2. temp = Tree'
    BY <1>1, <2>1 DEF Tree, worktree
  <2>3. \A p \in Paths : Departs(p) \/ Kept(p, temp[p])
    BY <2>1 DEF DiskInv
  <2>4. \A p \in Paths : Departs(p)' \/ Kept(p, Tree[p])'
    BY <1>6, <2>2, <2>3
  <2> QED BY <2>1, <2>4 DEF DiskInv
<1> QED BY <1>7, <1>8, <1>9, <1>10, <1>11, <1>12, <1>13, <1>14, <1>15 DEF Capture

LEMMA DiskKept ==
  ASSUME Typed, BaselineInv, DiskInv, [Next]_vars
  PROVE  DiskInv'
<1>1. CASE Invocation
  <2>1. /\ pc' \in {"done", "policies", "clean", "proposed", "unmerged"}
        /\ outcome' \in {"pending", "refused", "committed"}
    BY <1>1 DEF Invocation, Begin, RequireClean, ResolveTarget, ResolveProposed, End, Typed, CaptureOK
  <2> QED BY <2>1 DEF DiskInv, Ended
<1>2. CASE Capture
  <2>1. disturbed' = disturbed
    BY <1>2, InvocationKeeps
  <2> QED BY <1>2, <2>1, DiskCapture DEF DiskInv
<1>3. CASE UNCHANGED vars
  <2>1. UNCHANGED <<worktree, parent, history, pc, listing, todo, looked, temp, outcome>>
    BY <1>3 DEF vars, user, refs, hashing
  <2>2. UNCHANGED <<disk, index, flags, unmerged, ignored, commits, parent, seen, disturbed, followed, pc, found, sparse, todo,
                    looked, temp, outcome>>
    BY <2>1 DEF worktree, history, listing
  <2> QED BY <2>2 DEF DiskInv, SparsePaths, Tag, HeadTree, Departs, Excluded, Kept, Agreed, Affected, Ended, Tree
<1> QED BY <1>1, <1>2, <1>3, DiskUser DEF Next, Invocation

\* While only files are edited, nothing in a snapshot is invented, and nothing
\* is left out without a reason.
THEOREM SnapshotHoldsWhatWasThere == Spec => []SnapshotWasOnDisk
<1>1. Init => DiskInv
  BY DEF Init, DiskInv, Ended
<1>2. Typed /\ BaselineInv /\ DiskInv /\ [Next]_vars => DiskInv'
  BY DiskKept
<1>3. DiskInv => SnapshotWasOnDisk
  BY DEF DiskInv, SnapshotWasOnDisk, Kept
<1> QED BY <1>1, <1>2, <1>3, TypedHolds, BaselineHolds, PTL DEF Spec
=============================================================================
