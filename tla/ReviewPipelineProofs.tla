------------------------ MODULE ReviewPipelineProofs ------------------------
(***************************************************************************)
(* For every policy, change, answer and budget: what a report says holds   *)
(* of the trees and of the provider's answers, and the pipeline leaves     *)
(* nothing on disk and starts no call past its budget.                     *)
(***************************************************************************)
EXTENDS ReviewPipelineProps, FiniteSetTheorems, SequenceTheorems, TLAPS

Severities == DOMAIN SeverityRank
Bands == DOMAIN BandRank
FindingFields == {"dimension", "problem", "severity", "band", "fingerprint", "bypassed", "span"}

-----------------------------------------------------------------------------
(* Verification and deduplication.                                         *)

LEMMA Ranks ==
  /\ Severities = {"suggestion", "minor", "major", "critical"}
  /\ \A s \in Severities : SeverityRank[s] \in 0..3
  /\ \A s, t \in Severities : SeverityRank[s] = SeverityRank[t] => s = t
  /\ Bands = {"insufficient", "supported", "verified"}
  /\ \A b \in Bands : BandRank[b] \in 0..3
  /\ BandRank["insufficient"] = 0 /\ BandRank["supported"] = 1 /\ BandRank["verified"] = 2
BY DEF Severities, Bands, SeverityRank, BandRank

\* Among values with one of four ranks some have the highest.
LEMMA HighestRank ==
  ASSUME NEW S, S # {}, NEW Rank, \A x \in S : Rank[x] \in 0..3
  PROVE  \E x \in S : \A y \in S : Rank[y] <= Rank[x]
<1>1. CASE \E x \in S : Rank[x] = 3
  <2>1. PICK x \in S : Rank[x] = 3
    BY <1>1
  <2>2. \A y \in S : Rank[y] <= 3
    OBVIOUS
  <2> QED BY <2>1, <2>2
<1>2. CASE (\E x \in S : Rank[x] = 2) /\ ~(\E x \in S : Rank[x] = 3)
  <2>1. PICK x \in S : Rank[x] = 2
    BY <1>2
  <2>2. \A y \in S : Rank[y] \in 0..3 /\ Rank[y] # 3
    BY <1>2
  <2> QED BY <2>1, <2>2
<1>3. CASE (\E x \in S : Rank[x] = 1) /\ ~(\E x \in S : Rank[x] \in {2, 3})
  <2>1. PICK x \in S : Rank[x] = 1
    BY <1>3
  <2>2. \A y \in S : Rank[y] \in 0..3 /\ Rank[y] \notin {2, 3}
    BY <1>3
  <2> QED BY <2>1, <2>2
<1>4. CASE ~(\E x \in S : Rank[x] \in {1, 2, 3})
  <2>1. \A y \in S : Rank[y] = 0
    BY <1>4
  <2> QED BY <2>1
<1> QED BY <1>1, <1>2, <1>3, <1>4

\* The finding that represents a group.
LEMMA MergedIs ==
  ASSUME NEW group, group # {},
         \A f \in group : DOMAIN f = FindingFields /\ f.band \in Bands /\ f.severity \in Severities
  PROVE  LET m == MergeDuplicates(group) IN
         /\ \E f \in group : m.band = f.band
         /\ \A f \in group : BandRank[f.band] <= BandRank[m.band]
         /\ \E f \in group : m.severity = f.severity
         /\ \A f \in group : SeverityRank[f.severity] <= SeverityRank[m.severity]
         /\ m.bypassed = \A f \in group : f.bypassed
         /\ \E f \in group : m.fingerprint = f.fingerprint
<1> DEFINE bands == {f.band : f \in group}
           severities == {f.severity : f \in group}
           band == StrongestBand(group)
           severity == StrongestSeverity(group)
<1>1. band \in bands /\ \A f \in group : BandRank[f.band] <= BandRank[band]
  <2>1. \E b \in bands : \A c \in bands : BandRank[c] <= BandRank[b]
    <3>1. bands # {} /\ \A b \in bands : BandRank[b] \in 0..3
      BY Ranks
    <3> HIDE DEF bands
    <3> QED BY <3>1, HighestRank
  <2>2. \E b \in bands : \A f \in group : BandRank[f.band] <= BandRank[b]
    BY <2>1
  <2> QED BY <2>2 DEF StrongestBand
<1>2. severity \in severities /\ \A f \in group : SeverityRank[f.severity] <= SeverityRank[severity]
  <2>1. \E b \in severities : \A c \in severities : SeverityRank[c] <= SeverityRank[b]
    <3>1. severities # {} /\ \A b \in severities : SeverityRank[b] \in 0..3
      BY Ranks
    <3> HIDE DEF severities
    <3> QED BY <3>1, HighestRank
  <2>2. \E b \in severities : \A f \in group : SeverityRank[f.severity] <= SeverityRank[b]
    BY <2>1
  <2> QED BY <2>2 DEF StrongestSeverity
<1> DEFINE best == {f \in group : \A g \in group : BandRank[g.band] <= BandRank[f.band]}
           first == CHOOSE f \in best : \A g \in best : SeverityRank[g.severity] <= SeverityRank[f.severity]
<1>3. best # {}
  <2>1. PICK f \in group : f.band = band
    BY <1>1
  <2> HIDE DEF band
  <2>2. f \in best
    BY <1>1, <2>1
  <2> QED BY <2>2
<1>4. first \in group
  <2> DEFINE grades == {f.severity : f \in best}
  <2>1. grades # {} /\ \A b \in grades : SeverityRank[b] \in 0..3
    BY <1>3, Ranks
  <2>2. \E b \in grades : \A c \in grades : SeverityRank[c] <= SeverityRank[b]
    <3> HIDE DEF grades
    <3> QED BY <2>1, HighestRank
  <2>3. \E f \in best : \A g \in best : SeverityRank[g.severity] <= SeverityRank[f.severity]
    BY <2>2
  <2>4. first \in best
    <3> HIDE DEF best
    <3> QED BY <2>3
  <2> QED BY <2>4
<1>5. MergeDuplicates(group) = [first EXCEPT !.band = band, !.severity = severity,
                                             !.bypassed = \A f \in group : f.bypassed]
  BY DEF MergeDuplicates
<1> HIDE DEF first, best, band, severity
<1>6. DOMAIN first = FindingFields
  BY <1>4
<1>7. /\ MergeDuplicates(group).band = band
      /\ MergeDuplicates(group).severity = severity
      /\ MergeDuplicates(group).bypassed = \A f \in group : f.bypassed
      /\ MergeDuplicates(group).fingerprint = first.fingerprint
  BY <1>5, <1>6 DEF FindingFields
<1> QED BY <1>1, <1>2, <1>4, <1>7

\* What a provider's finding is before it is verified.
IsDraft(f) ==
  /\ DOMAIN f = FindingFields /\ f.severity \in Severities /\ ~f.bypassed
  /\ f.span.snapshot = "none" => f.span.source # "review-worktree"

LEMMA VerifiedIs ==
  ASSUME NEW f, IsDraft(f), NEW items, NEW tree
  PROVE  LET v == VerifyFinding(f, items, tree) IN
         /\ DOMAIN v = FindingFields /\ v.severity = f.severity /\ ~v.bypassed
         /\ v.band = IF Grounded(f.span, items, tree) THEN "supported" ELSE "insufficient"
         /\ v.fingerprint = Fingerprint(f)
BY DEF VerifyFinding, IsDraft, FindingFields

\* Every fingerprint is represented once, by a finding that is as severe and
\* as well supported as any of the findings it stands for.
LEMMA Deduplicated ==
  ASSUME NEW D, \A f \in D : IsDraft(f), NEW items, NEW tree
  PROVE  LET V == VerifyAndDeduplicate(D, items, tree) IN
         /\ \A f \in D : \E m \in V :
              /\ m.fingerprint = Fingerprint(f)
              /\ SeverityRank[f.severity] <= SeverityRank[m.severity]
              /\ Grounded(f.span, items, tree) => m.band = "supported"
         /\ \A m, n \in V : m.fingerprint = n.fingerprint => m = n
         /\ \A m \in V :
              /\ m.band \in {"insufficient", "supported"} /\ m.severity \in Severities /\ ~m.bypassed
              /\ \E g \in D : Fingerprint(g) = m.fingerprint /\ g.severity = m.severity
              /\ m.band = "supported" =>
                   \E f \in D : Fingerprint(f) = m.fingerprint /\ Grounded(f.span, items, tree)
<1> DEFINE V == VerifyAndDeduplicate(D, items, tree)
           verified == {VerifyFinding(f, items, tree) : f \in D}
           Group(k) == {f \in verified : f.fingerprint = k}
           Merged(k) == MergeDuplicates(Group(k))
           names == {f.fingerprint : f \in verified}
<1>1. V = {Merged(k) : k \in names}
  BY DEF VerifyAndDeduplicate
<1>2. \A v \in verified : \E f \in D :
        /\ v = VerifyFinding(f, items, tree)
        /\ DOMAIN v = FindingFields /\ v.severity = f.severity /\ ~v.bypassed
        /\ v.severity \in Severities /\ v.band \in {"insufficient", "supported"}
        /\ v.band = "supported" => Grounded(f.span, items, tree)
        /\ v.fingerprint = Fingerprint(f)
  BY VerifiedIs DEF IsDraft
<1>3. \A f \in D : LET v == VerifyFinding(f, items, tree) IN
        /\ v \in verified /\ v.severity = f.severity /\ v.fingerprint = Fingerprint(f)
        /\ Grounded(f.span, items, tree) => v.band = "supported"
  BY VerifiedIs
<1> HIDE DEF verified
<1>4. ASSUME NEW k \in names
      PROVE  /\ \E f \in Group(k) : Merged(k).band = f.band
             /\ \A f \in Group(k) : BandRank[f.band] <= BandRank[Merged(k).band]
             /\ \E f \in Group(k) : Merged(k).severity = f.severity
             /\ \A f \in Group(k) : SeverityRank[f.severity] <= SeverityRank[Merged(k).severity]
             /\ ~Merged(k).bypassed
             /\ Merged(k).fingerprint = k
  <2>1. Group(k) # {}
    OBVIOUS
  <2>2. \A f \in Group(k) : DOMAIN f = FindingFields /\ f.band \in Bands /\ f.severity \in Severities /\ ~f.bypassed
    BY <1>2, Ranks
  <2>3. \A f \in Group(k) : f.fingerprint = k
    OBVIOUS
  <2> DEFINE group == Group(k)
             m == MergeDuplicates(group)
  <2> HIDE DEF Group
  <2>4. /\ \E f \in group : m.band = f.band
        /\ \A f \in group : BandRank[f.band] <= BandRank[m.band]
        /\ \E f \in group : m.severity = f.severity
        /\ \A f \in group : SeverityRank[f.severity] <= SeverityRank[m.severity]
        /\ m.bypassed = \A f \in group : f.bypassed
        /\ \E f \in group : m.fingerprint = f.fingerprint
    <3> HIDE DEF group
    <3>1. group # {} /\ \A f \in group : DOMAIN f = FindingFields /\ f.band \in Bands /\ f.severity \in Severities
      BY <2>1, <2>2 DEF group
    <3> QED BY <3>1, MergedIs
  <2>5. Merged(k) = m
    OBVIOUS
  <2> HIDE DEF m, Merged
  <2> QED BY <2>1, <2>2, <2>3, <2>4, <2>5
<1> HIDE DEF Merged
<1>5. ASSUME NEW f \in D
      PROVE  \E m \in V :
               /\ m.fingerprint = Fingerprint(f)
               /\ SeverityRank[f.severity] <= SeverityRank[m.severity]
               /\ Grounded(f.span, items, tree) => m.band = "supported"
  <2> DEFINE v == VerifyFinding(f, items, tree)
             k == Fingerprint(f)
  <2>1. v \in verified /\ v.severity = f.severity /\ v.fingerprint = k
        /\ (Grounded(f.span, items, tree) => v.band = "supported")
    BY <1>3
  <2> HIDE DEF v, k
  <2>2. k \in names /\ v \in Group(k)
    BY <2>1
  <2>3. Merged(k) \in V
    BY <1>1, <2>2
  <2>4. SeverityRank[f.severity] <= SeverityRank[Merged(k).severity] /\ Merged(k).fingerprint = k
    BY <1>4, <2>1, <2>2
  <2>5. ASSUME v.band = "supported" PROVE Merged(k).band = "supported"
    <3>1. BandRank[v.band] <= BandRank[Merged(k).band] /\ Merged(k).band \in {"insufficient", "supported"}
      BY <1>2, <1>4, <2>2
    <3>2. BandRank["insufficient"] = 0 /\ BandRank["supported"] = 1
      BY Ranks
    <3> QED BY <2>5, <3>1, <3>2
  <2> QED BY <2>1, <2>3, <2>4, <2>5 DEF k
<1>6. \A m, n \in V : m.fingerprint = n.fingerprint => m = n
  BY <1>1, <1>4
<1>7. ASSUME NEW m \in V
      PROVE  /\ m.band \in {"insufficient", "supported"} /\ m.severity \in Severities /\ ~m.bypassed
             /\ \E g \in D : Fingerprint(g) = m.fingerprint /\ g.severity = m.severity
             /\ m.band = "supported" =>
                  \E f \in D : Fingerprint(f) = m.fingerprint /\ Grounded(f.span, items, tree)
  <2>1. PICK k \in names : m = Merged(k)
    BY <1>1
  <2>2. m.fingerprint = k /\ ~m.bypassed
    BY <1>4, <2>1
  <2>3. PICK f \in Group(k) : m.band = f.band
    BY <1>4, <2>1
  <2>4. PICK g \in Group(k) : m.severity = g.severity
    BY <1>4, <2>1
  <2>5. f \in verified /\ f.fingerprint = k /\ g \in verified /\ g.fingerprint = k
    OBVIOUS
  <2> QED BY <1>2, <2>2, <2>3, <2>4, <2>5
<1> QED BY <1>5, <1>6, <1>7

-----------------------------------------------------------------------------
(* The context.                                                            *)

\* With a complete coverage every file in scope is shown, and every mandatory
\* glob matches one.
LEMMA ContextIsShown ==
  ASSUME NEW target \in [Paths -> Contents], NEW tree \in [Paths -> Contents],
         NEW policy, NEW tooLarge,
         GatherContext(target, tree, policy, tooLarge).coverage.complete
  PROVE  /\ \A g \in policy.mandatory : \E p \in g : tree[p] # "absent"
         /\ \A p \in Paths \ policy.excluded :
              \/ target[p] # tree[p]
              \/ tree[p] # "absent" /\ \E g \in policy.mandatory : p \in g
              => \E i \in GatherContext(target, tree, policy, tooLarge).items :
                   /\ i.path = p /\ i.body # NoBody
                   /\ i.body = StoredText(IF tree[p] = "absent" THEN target ELSE tree, p)
<1> DEFINE changed   == Changed(target, tree)
           mandatory == Matched(policy.mandatory, tree, policy, changed)
           optional  == Matched(policy.optional, tree, policy, changed \cup mandatory)
           items == {ChangedItem(target, tree, policy, p) : p \in changed}
                    \cup {DiffItem(changed \ policy.excluded, tooLarge)}
                    \cup {WorktreeItem(tree, p, "mandatory") : p \in mandatory}
                    \cup OptionalItems(tree, optional)
           context == GatherContext(target, tree, policy, tooLarge)
<1>1. /\ context.items = items
      /\ context.coverage = Coverage(items, Unmatched(policy.mandatory, tree),
                                     Unmatched(policy.optional, tree), Refused(tree, optional))
  BY DEF GatherContext
<1> HIDE DEF optional
<1>2. Unmatched(policy.mandatory, tree) = {} /\ \A i \in items : i.class # "unreviewable"
  <2> DEFINE missing == Unmatched(policy.mandatory, tree)
             record == Coverage(items, missing, Unmatched(policy.optional, tree), Refused(tree, optional))
  <2>1. context.coverage = record
    BY <1>1
  <2>2. record.complete
    BY <2>1
  <2> HIDE DEF items, missing, context
  <2>3. record.complete = (missing = {} /\ ~\E i \in items : i.class = "unreviewable")
    BY DEF Coverage
  <2>4. missing = {} /\ ~\E i \in items : i.class = "unreviewable"
    <3> HIDE DEF record
    <3> QED BY <2>2, <2>3
  <2> QED BY <2>4 DEF missing
<1>3. \A g \in policy.mandatory : \E p \in g : tree[p] # "absent"
  BY <1>2 DEF Unmatched, WorktreePaths
<1>4. ASSUME NEW p, NEW data, NEW source, NEW kind,
             ItemFromBytes(p, data, "mandatory", source, kind).class # "unreviewable",
             data \in Texts \cup {"binary", NoBody}
      PROVE  LET i == ItemFromBytes(p, data, "mandatory", source, kind) IN
             data \in Texts /\ i.path = p /\ i.body = data /\ i.body # NoBody
  BY <1>4 DEF ItemFromBytes, Item, Texts, NoBody
<1>5. ASSUME NEW p \in Paths
      PROVE  /\ WorktreeBytes(tree, p) \in Texts \cup {"binary", NoBody}
             /\ BlobBytes(target, p) \in Texts \cup {"binary", NoBody}
             /\ WorktreeBytes(tree, p) \in Texts => WorktreeBytes(tree, p) = StoredText(tree, p)
                                                    /\ tree[p] # "absent"
             /\ BlobBytes(target, p) \in Texts => BlobBytes(target, p) = StoredText(target, p)
  <2>1. tree[p] \in Contents /\ target[p] \in Contents
    OBVIOUS
  <2> QED BY <2>1 DEF WorktreeBytes, BlobBytes, StoredText, Contents, Texts, NoBody
<1> DEFINE Shown(p) == \E i \in items : /\ i.path = p /\ i.body # NoBody
                                        /\ i.body = StoredText(IF tree[p] = "absent" THEN target ELSE tree, p)
<1>6. ASSUME NEW p \in Paths \ policy.excluded, target[p] # tree[p] PROVE Shown(p)
  <2> DEFINE i == ChangedItem(target, tree, policy, p)
  <2>1. i \in items
    BY <1>6 DEF Changed
  <2>2. i.class # "unreviewable"
    BY <1>2, <2>1
  <2> HIDE DEF items
  <2>3. CASE target[p] # "absent" /\ tree[p] = "absent"
    <3>1. i = ItemFromBytes(p, BlobBytes(target, p), "mandatory", "target-tree", "deleted")
      BY <1>6, <2>3 DEF ChangedItem, ChangeKind
    <3> QED BY <1>4, <1>5, <2>1, <2>2, <2>3, <3>1
  <2>4. CASE ~(target[p] # "absent" /\ tree[p] = "absent")
    <3>1. i = ItemFromBytes(p, WorktreeBytes(tree, p), "mandatory", "review-worktree",
                            ChangeKind(target, tree, p))
      BY <1>6, <2>4 DEF ChangedItem, ChangeKind
    <3> QED BY <1>4, <1>5, <1>6, <2>1, <2>2, <2>4, <3>1
  <2> QED BY <2>3, <2>4
<1>7. ASSUME NEW p \in Paths \ policy.excluded, tree[p] # "absent",
             NEW g \in policy.mandatory, p \in g, target[p] = tree[p]
      PROVE  Shown(p)
  <2> DEFINE i == WorktreeItem(tree, p, "mandatory")
  <2>1. p \in mandatory
    BY <1>7 DEF Matched, WorktreePaths, Changed
  <2>2. i \in items
    BY <2>1
  <2>3. i.class # "unreviewable"
    BY <1>2, <2>2
  <2> HIDE DEF items
  <2>4. i = ItemFromBytes(p, WorktreeBytes(tree, p), "mandatory", "review-worktree", "none")
    BY DEF WorktreeItem
  <2> QED BY <1>4, <1>5, <1>7, <2>2, <2>3, <2>4
<1> HIDE DEF items
<1> QED BY <1>1, <1>3, <1>6, <1>7

\* What an item shows is what git stores of its path on its side, but for the
\* diff, which has a path and a source of its own.
LEMMA BodiesAreStored ==
  ASSUME NEW target \in [Paths -> Contents], NEW tree \in [Paths -> Contents],
         NEW policy, NEW tooLarge,
         NEW i \in GatherContext(target, tree, policy, tooLarge).items, i.body # NoBody
  PROVE  \/ i.path = DiffPath /\ i.source = "merge-diff"
         \/ /\ i.path \in Paths /\ i.body \in Texts
            /\ \/ i.source = "target-tree" /\ i.body = StoredText(target, i.path)
               \/ i.source = "review-worktree" /\ i.body = StoredText(tree, i.path)
<1> DEFINE changed   == Changed(target, tree)
           mandatory == Matched(policy.mandatory, tree, policy, changed)
           optional  == Matched(policy.optional, tree, policy, changed \cup mandatory)
           items == {ChangedItem(target, tree, policy, p) : p \in changed}
                    \cup {DiffItem(changed \ policy.excluded, tooLarge)}
                    \cup {WorktreeItem(tree, p, "mandatory") : p \in mandatory}
                    \cup OptionalItems(tree, optional)
<1>1. i \in items
  BY DEF GatherContext
<1>2. ASSUME NEW p, NEW data, NEW class, NEW source, NEW kind,
             ItemFromBytes(p, data, class, source, kind).body # NoBody
      PROVE  LET j == ItemFromBytes(p, data, class, source, kind) IN
             data \in Texts /\ j.path = p /\ j.body = data /\ j.source = source
  BY <1>2 DEF ItemFromBytes, Item, NoBody
<1>3. ASSUME NEW p \in Paths
      PROVE  /\ WorktreeBytes(tree, p) \in Texts => WorktreeBytes(tree, p) = StoredText(tree, p)
             /\ BlobBytes(target, p) \in Texts => BlobBytes(target, p) = StoredText(target, p)
  <2>1. tree[p] \in Contents /\ target[p] \in Contents
    OBVIOUS
  <2> QED BY <2>1 DEF WorktreeBytes, BlobBytes, StoredText, Contents, Texts, NoBody
<1>4. mandatory \subseteq Paths /\ optional \subseteq Paths /\ changed \subseteq Paths
  BY DEF Matched, WorktreePaths, Changed
<1>5. CASE i = DiffItem(changed \ policy.excluded, tooLarge)
  <2> HIDE DEF changed
  <2> QED BY <1>5 DEF DiffItem, Item
<1>6. ASSUME NEW p \in changed, i = ChangedItem(target, tree, policy, p)
      PROVE  /\ i.path \in Paths /\ i.body \in Texts
             /\ \/ i.source = "target-tree" /\ i.body = StoredText(target, i.path)
                \/ i.source = "review-worktree" /\ i.body = StoredText(tree, i.path)
  <2> DEFINE kind == ChangeKind(target, tree, p)
  <2> HIDE DEF kind
  <2>1. p \notin policy.excluded
    BY <1>6 DEF ChangedItem, Item
  <2>2. CASE kind = "deleted"
    <3>1. i = ItemFromBytes(p, BlobBytes(target, p), "mandatory", "target-tree", kind)
      BY <1>6, <2>1, <2>2 DEF ChangedItem, kind
    <3> HIDE DEF changed
    <3> QED BY <1>2, <1>3, <1>4, <3>1
  <2>3. CASE kind # "deleted"
    <3>1. i = ItemFromBytes(p, WorktreeBytes(tree, p), "mandatory", "review-worktree", kind)
      BY <1>6, <2>1, <2>3 DEF ChangedItem, kind
    <3> HIDE DEF changed
    <3> QED BY <1>2, <1>3, <1>4, <3>1
  <2> QED BY <2>2, <2>3
<1>7. ASSUME NEW p \in mandatory, i = WorktreeItem(tree, p, "mandatory")
      PROVE  i.path \in Paths /\ i.body \in Texts /\ i.source = "review-worktree" /\ i.body = StoredText(tree, i.path)
  <2>1. p \in Paths /\ i = ItemFromBytes(p, WorktreeBytes(tree, p), "mandatory", "review-worktree", "none")
    BY <1>4, <1>7 DEF WorktreeItem
  <2> HIDE DEF mandatory
  <2> QED BY <1>2, <1>3, <2>1
<1>8. ASSUME NEW p \in optional, i = [WorktreeItem(tree, p, "optional") EXCEPT !.class = "optional"]
      PROVE  i.path \in Paths /\ i.body \in Texts /\ i.source = "review-worktree" /\ i.body = StoredText(tree, i.path)
  <2> DEFINE j == WorktreeItem(tree, p, "optional")
  <2>1. p \in Paths /\ j = ItemFromBytes(p, WorktreeBytes(tree, p), "optional", "review-worktree", "none")
    BY <1>4, <1>8 DEF WorktreeItem
  <2>2. i.path = j.path /\ i.body = j.body /\ i.source = j.source
    BY <1>8, <2>1 DEF ItemFromBytes, Item
  <2> HIDE DEF optional, j
  <2> QED BY <1>2, <1>3, <2>1, <2>2
<1>9. \/ \E p \in changed : i = ChangedItem(target, tree, policy, p)
      \/ i = DiffItem(changed \ policy.excluded, tooLarge)
      \/ \E p \in mandatory : i = WorktreeItem(tree, p, "mandatory")
      \/ \E p \in optional : i = [WorktreeItem(tree, p, "optional") EXCEPT !.class = "optional"]
  <2> HIDE DEF changed, mandatory, optional
  <2> QED BY <1>1 DEF OptionalItems
<1> HIDE DEF changed, mandatory, optional, items
<1> QED BY <1>5, <1>6, <1>7, <1>8, <1>9

\* A finding about something real: its quote is the text of the file it names.
\* (Real, of any candidate.)
IsReal(span, target, tree) ==
  /\ span.form # "unsafe"
  /\ span.source \in {"review-worktree", "target-tree"}
  /\ span.path \in Paths
  /\ span.quote = StoredText(IF span.source = "target-tree" THEN target ELSE tree, span.path)
  /\ span.quote \in Texts

\* A grounded quote is real, or quoted from the diff, and it names its snapshot.
LEMMA GroundedMeans ==
  ASSUME NEW target \in [Paths -> Contents], NEW tree \in [Paths -> Contents],
         NEW policy, NEW tooLarge, NEW span,
         span.snapshot = "none" => span.source # "review-worktree",
         Grounded(span, GatherContext(target, tree, policy, tooLarge).items, tree)
  PROVE  /\ IsReal(span, target, tree) \/ span.path = DiffPath
         /\ span.snapshot = span.source
<1> DEFINE items == GatherContext(target, tree, policy, tooLarge).items
           text == WorktreeText(tree, NormalPath(span))
<1>1. PICK r \in RecordsForSpan(span, items, tree) : QuotedTextMatches(r.text, span)
  BY DEF Grounded
<1>2. AskedSnapshot(span) = span.snapshot
  BY DEF AskedSnapshot
<1>3. NormalPath(span) = span.path /\ span.form # "unsafe"
  BY <1>1 DEF RecordsForSpan, NormalPath
<1>4. span.quote = r.text
  BY <1>1 DEF QuotedTextMatches
<1>5. CASE r \in GatheredRecords(items) /\ r.source = span.source /\ r.snapshot = span.snapshot /\ r.path = span.path
  <2>1. PICK i \in items : /\ i.body # NoBody
                           /\ r = [source |-> i.source, snapshot |-> i.source, path |-> i.path,
                                   kind |-> i.kind, text |-> i.body]
    BY <1>5 DEF GatheredRecords
  <2>2. r.source = i.source /\ r.snapshot = i.source /\ r.path = i.path /\ r.text = i.body
    BY <2>1
  <2>3. \/ i.path = DiffPath /\ i.source = "merge-diff"
        \/ /\ i.path \in Paths /\ i.body \in Texts
           /\ \/ i.source = "target-tree" /\ i.body = StoredText(target, i.path)
              \/ i.source = "review-worktree" /\ i.body = StoredText(tree, i.path)
    BY <2>1, BodiesAreStored
  <2> QED BY <1>3, <1>4, <1>5, <2>2, <2>3 DEF IsReal
<1>6. CASE /\ span.source = "review-worktree" /\ span.snapshot = "review-worktree" /\ text # NoBody
           /\ r.text = text
  <2>0. text = WorktreeText(tree, span.path)
    BY <1>3
  <2> HIDE DEF text
  <2>1. span.path \in Paths
    BY <1>6, <2>0 DEF WorktreeText
  <2>2. tree[span.path] \in Contents
    BY <2>1
  <2>3. text \in Texts /\ text = StoredText(tree, span.path)
    BY <1>6, <2>0, <2>1, <2>2 DEF WorktreeText, StoredText, Texts, NoBody
  <2> QED BY <1>3, <1>4, <1>6, <2>1, <2>3 DEF IsReal
<1> HIDE DEF items
<1> QED
  <2>1. r \in {q \in GatheredRecords(items) :
                 q.source = span.source /\ q.snapshot = span.snapshot /\ q.path = span.path}
        \/ /\ span.source = "review-worktree" /\ span.snapshot = "review-worktree" /\ text # NoBody
           /\ r.text = text
    BY <1>1, <1>2, <1>3 DEF RecordsForSpan
  <2> QED BY <1>5, <1>6, <2>1

\* A real quote of the Review Worktree is grounded, whatever was gathered.
LEMMA RealIsGrounded ==
  ASSUME NoPath \notin Paths,
         NEW target, NEW tree, NEW items, NEW span, IsReal(span, target, tree),
         span.source = "review-worktree", span.snapshot = "review-worktree",
         span.kind = "none", span.line = 1
  PROVE  Grounded(span, items, tree)
<1> DEFINE text == WorktreeText(tree, span.path)
           r == [source |-> "review-worktree", snapshot |-> "review-worktree",
                 path |-> span.path, kind |-> "none", text |-> text]
<1>1. span.path \in Paths /\ NormalPath(span) = span.path /\ span.path # NoPath
  BY DEF IsReal, NormalPath
<1>2. text = span.quote /\ text # NoBody /\ span.quote # ""
  BY <1>1 DEF IsReal, WorktreeText, StoredText, Texts, NoBody
<1>3. r \in RecordsForSpan(span, items, tree)
  BY <1>1, <1>2 DEF RecordsForSpan, AskedSnapshot
<1>4. r.kind = "none" /\ r.text = text
  OBVIOUS
<1> HIDE DEF r
<1> QED BY <1>2, <1>3, <1>4 DEF Grounded, QuotedTextMatches

\* What findings_from_payload makes of an answer.
LEMMA DraftsAre ==
  ASSUME PipelineAssumption, NEW answer \in Answers, NEW dimension, NEW f \in Drafts(answer, dimension)
  PROVE  IsDraft(f)
<1>1. PICK d \in answer.findings :
        f = [dimension |-> dimension, problem |-> d.problem, severity |-> d.severity,
             band |-> d.band, fingerprint |-> None, bypassed |-> FALSE,
             span |-> [d.span EXCEPT !.snapshot = AskedSnapshot(d.span)]]
  BY DEF Drafts
<1>2. d.severity \in Severities /\ DOMAIN d.span = SpanFields
  BY DEF PipelineAssumption, Severities
<1>3. DOMAIN f = FindingFields /\ f.severity = d.severity /\ f.bypassed = FALSE
      /\ f.span = [d.span EXCEPT !.snapshot = AskedSnapshot(d.span)]
  BY <1>1 DEF FindingFields
<1>4. f.span.snapshot = AskedSnapshot(d.span) /\ f.span.source = d.span.source
  BY <1>2, <1>3 DEF SpanFields
<1>5. AskedSnapshot(d.span) = "none" => d.span.source # "review-worktree"
  BY DEF AskedSnapshot
<1> QED BY <1>2, <1>3, <1>4, <1>5 DEF IsDraft

-----------------------------------------------------------------------------
(* The inductive invariant.                                                *)

Stages == {StageOrder[i] : i \in 1..9}
Statuses == {"completed", "failed", "not-started"}
Outcome == Stages \X Statuses
Told == {"stage", "dimension"} \X (Stages \cup Dimensions) \X (Statuses \cup {"started"})

AllDrafts == UNION {Drafts(a, d) : a \in Answers, d \in Dimensions}
Run == [dimension : Dimensions, status : Statuses, findings : SUBSET AllDrafts]

TypeInv ==
  /\ request \in Requests /\ world \in Worlds
  /\ outcomes \in Seq(Outcome) /\ progress \in Seq(Told) /\ runs \in Seq(Run)
  /\ spent \in Nat /\ stopped \in BOOLEAN

\* Where the pipeline is, how it ended, and what it left on disk.
Filling == {"construct", "prepare", "materialize", "gather", "plan", "dimensions", "calling",
            "verify", "complete"}

FlowInv ==
  /\ pc \in Filling \cup {"cleanup", "ended"}
  /\ pc \in Filling => ending = "running" /\ report = NoReport
  /\ pc = "cleanup" => ending \in {"running", "raised", "cancelled"}
  /\ pc = "ended" => ending \in {"report", "raised", "cancelled"}
  /\ pc \notin Filling /\ ending \in {"running", "report"} => report # NoReport
  /\ report # NoReport => report = ReportOf(args)

\* A directory no clause removes: nothing was read out of it.
LeftBehind == container = "refused" /\ gathered = NoContext

ContainerInv ==
  /\ pc \in {"construct", "prepare", "materialize"} => gathered = NoContext
  /\ pc \in {"construct", "prepare"} => container = None
  /\ pc = "materialize" => container = "filling"
  /\ pc \in {"gather", "plan", "dimensions", "calling", "verify"} => container = "frozen"
  /\ pc = "complete" => container \in {None, "frozen"} \/ LeftBehind
  /\ pc = "cleanup" => \/ container \in {None, "frozen"} \/ LeftBehind
                       \/ container = "unremovable" /\ ending = "raised"
                       \/ container = "filling" /\ ending = "cancelled"
  /\ pc = "ended" => \/ container = None \/ LeftBehind
                     \/ container = "unremovable" /\ ending = "raised"
                     \/ container = "filling" /\ ending = "cancelled"

\* A pipeline that has not stopped is under its budget.
SpendInv ==
  /\ request.budget # Unknown /\ spent > 0 /\ ~stopped => spent < request.budget
  /\ pc = "calling" => ~stopped

\* The context the provider was shown is the candidate's, and it is complete.
ContextKnown ==
  \E tooLarge \in BOOLEAN :
    /\ gathered = GatherContext(world.target, world.tree, request.context, tooLarge)
    /\ gathered.coverage.complete

\* The dimensions are run in the policy's order, none twice.
RunsInv ==
  /\ Len(runs) <= Len(request.dimensions)
  /\ \A i \in 1..Len(runs) : runs[i].dimension = request.dimensions[i]
  /\ pc = "calling" => Len(runs) < Len(request.dimensions)
  /\ pc = "verify" => Len(runs) = Len(request.dimensions)
  /\ pc \in {"plan", "dimensions", "calling", "verify"} => ContextKnown

AllFound == UNION {runs[i].findings : i \in DOMAIN runs}

\* A branch that may pass hands on everything that was found and gathered; one
\* that may not says why.
ArgsInv ==
  /\ args.allow \in BOOLEAN
  /\ pc = "complete" \/ report # NoReport =>
       IF args.allow
       THEN /\ ContextKnown
            /\ Len(runs) = Len(request.dimensions)
            /\ args = Verified(VerifyAndDeduplicate(AllFound, gathered.items, world.tree))
       ELSE args.detail

\* How much is recorded when the pipeline gets to a step.
Recordings ==
  [construct |-> 1, prepare |-> 2, materialize |-> 2, gather |-> 3, plan |-> 4, dimensions |-> 4,
   calling |-> 4, verify |-> 5, complete |-> 6, cleanup |-> 9, ended |-> 9]

\* And how many stages were announced: at a step within a stage, one more.
Announcements ==
  [construct |-> 2, prepare |-> 3, materialize |-> 3, gather |-> 4, plan |-> 5, dimensions |-> 5,
   calling |-> 5, verify |-> 6, complete |-> 6, cleanup |-> 9, ended |-> 9]

ToldAs(status) == IF status = "not-started" THEN {} ELSE {"started", status}

ToldIn(told, stage) ==
  {told[i][3] : i \in {j \in DOMAIN told : told[j][1] = "stage" /\ told[j][2] = stage}}

\* The record lists the stages in order, what was told of each is what it
\* records, and of the others only the first are announced.
Listed(record, told, announced) ==
  \A i \in 1..9 :
    IF i <= Len(record)
    THEN record[i][1] = StageOrder[i] /\ ToldIn(told, StageOrder[i]) = ToldAs(record[i][2])
    ELSE ToldIn(told, StageOrder[i]) = IF i <= announced THEN {"started"} ELSE {}

RecordInv ==
  ending \in {"running", "report"} =>
    /\ Len(outcomes) = Recordings[pc]
    /\ Listed(outcomes, progress, Announcements[pc])
    /\ pc \in {"complete", "cleanup", "ended"} => (outcomes[6][2] = "completed" <=> args.allow)

PipelineInv ==
  /\ TypeInv /\ FlowInv /\ ContainerInv /\ SpendInv /\ RunsInv /\ ArgsInv /\ RecordInv

-----------------------------------------------------------------------------
(* Records, announcements and costs.                                       *)

LEMMA StagesAre ==
  /\ \A i \in 1..9 : StageOrder[i] \in Stages
  /\ \A i, j \in 1..9 : StageOrder[i] = StageOrder[j] => i = j
  /\ StageOrder[1] = "derive-identity" /\ StageOrder[2] = "construct-merge"
  /\ StageOrder[3] = "prepare-review-worktree" /\ StageOrder[4] = "gather-context"
  /\ StageOrder[5] = "run-dimensions" /\ StageOrder[6] = "verify-dedup"
  /\ StageOrder[7] = "check-completeness" /\ StageOrder[8] = "evaluate-gate"
  /\ StageOrder[9] = "publish"
  /\ Len(StageOrder) = 9 /\ DOMAIN StageOrder = 1..9
BY DEF Stages, StageOrder

LEMMA AppendIs ==
  ASSUME NEW S, NEW s \in Seq(S), NEW e \in S
  PROVE  /\ Append(s, e) \in Seq(S) /\ Len(Append(s, e)) = Len(s) + 1
         /\ \A i \in 1..Len(s) : Append(s, e)[i] = s[i]
         /\ Append(s, e)[Len(s) + 1] = e
         /\ Len(s) \in Nat
OBVIOUS

\* A record that lists the first stages is filled up to the sixth.
LEMMA FilledIs ==
  ASSUME NEW record \in Seq(Outcome), Len(record) \in 1..6,
         \A i \in 1..Len(record) : record[i][1] = StageOrder[i]
  PROVE  LET r == FillUnrecorded(record) IN
         /\ r \in Seq(Outcome) /\ Len(r) = 6
         /\ \A i \in 1..Len(record) : r[i] = record[i]
         /\ \A i \in (Len(record) + 1)..6 : r[i] = <<StageOrder[i], "not-started">>
<1> DEFINE k == Len(record)
           skipped == Recorded(record) \cup PostFailureStages
           Step(x, n) == IF StageOrder[n] \in skipped THEN x
                         ELSE Append(x, <<StageOrder[n], "not-started">>)
           f0 == record
           f1 == Step(f0, 1)
           f2 == Step(f1, 2)
           f3 == Step(f2, 3)
           f4 == Step(f3, 4)
           f5 == Step(f4, 5)
           f6 == Step(f5, 6)
           f7 == Step(f6, 7)
           f8 == Step(f7, 8)
           f9 == Step(f8, 9)
           fills == <<f0, f1, f2, f3, f4, f5, f6, f7, f8, f9>>
           filled == [n \in 0..9 |-> fills[n + 1]]
           fill == CHOOSE f : f = [n \in 0..9 |-> IF n = 0 THEN record ELSE Step(f[n - 1], n)]
<1>1. \A i \in 1..9 : StageOrder[i] \in skipped <=> i <= k \/ i >= 7
  <2>1. \A i \in 1..9 : StageOrder[i] \in PostFailureStages <=> i >= 7
    BY StagesAre DEF PostFailureStages
  <2>2. \A i \in 1..9 : StageOrder[i] \in Recorded(record) <=> i <= k
    <3>1. DOMAIN record = 1..k
      OBVIOUS
    <3>2. Recorded(record) = {StageOrder[i] : i \in 1..k}
      BY <3>1 DEF Recorded
    <3> QED BY <3>2, StagesAre
  <2> QED BY <2>1, <2>2
<1>2. fill[9] = f9
  <2> HIDE DEF skipped
  <2>1. filled = [n \in 0..9 |-> IF n = 0 THEN record ELSE Step(filled[n - 1], n)]
    <3>1. /\ filled[0] = f0 /\ filled[1] = f1 /\ filled[2] = f2 /\ filled[3] = f3 /\ filled[4] = f4
          /\ filled[5] = f5 /\ filled[6] = f6 /\ filled[7] = f7 /\ filled[8] = f8 /\ filled[9] = f9
      <4> HIDE DEF f0, f1, f2, f3, f4, f5, f6, f7, f8, f9
      <4> QED OBVIOUS
    <3>2. filled = [n \in 0..9 |-> filled[n]]
      OBVIOUS
    <3> HIDE DEF filled, Step
    <3>3. \A n \in 0..9 : filled[n] = IF n = 0 THEN record ELSE Step(filled[n - 1], n)
      <4> SUFFICES ASSUME NEW n \in 0..9
                   PROVE  filled[n] = IF n = 0 THEN record ELSE Step(filled[n - 1], n)
        OBVIOUS
      <4>1. n \in {0, 1, 2, 3, 4, 5, 6, 7, 8, 9}
        OBVIOUS
      <4> QED BY <3>1, <4>1
    <3> QED BY <3>2, <3>3
  <2> HIDE DEF filled, Step
  <2>2. fill = [n \in 0..9 |-> IF n = 0 THEN record ELSE Step(fill[n - 1], n)]
    BY <2>1
  <2> HIDE DEF fill
  <2>3. /\ fill[0] = f0 /\ fill[1] = Step(fill[0], 1) /\ fill[2] = Step(fill[1], 2)
        /\ fill[3] = Step(fill[2], 3) /\ fill[4] = Step(fill[3], 4) /\ fill[5] = Step(fill[4], 5)
        /\ fill[6] = Step(fill[5], 6) /\ fill[7] = Step(fill[6], 7) /\ fill[8] = Step(fill[7], 8)
        /\ fill[9] = Step(fill[8], 9)
    BY <2>2
  <2> QED BY <2>3
<1>3. FillUnrecorded(record) = fill[9]
  BY StagesAre DEF FillUnrecorded, Filled
<1> DEFINE Good(x, n) == /\ x \in Seq(Outcome) /\ Len(x) = IF n <= k THEN k ELSE n
                         /\ \A i \in 1..k : x[i] = record[i]
                         /\ \A i \in (k + 1)..Len(x) : x[i] = <<StageOrder[i], "not-started">>
<1>4. ASSUME NEW n \in 1..6, NEW x, Good(x, n - 1) PROVE Good(Step(x, n), n)
  <2>1. CASE n <= k
    <3>1. Step(x, n) = x
      BY <1>1, <2>1
    <3> HIDE DEF Step
    <3> QED BY <1>4, <2>1, <3>1
  <2>2. CASE n > k
    <3> DEFINE e == <<StageOrder[n], "not-started">>
    <3>1. Step(x, n) = Append(x, e)
      BY <1>1, <2>2
    <3>2. e \in Outcome
      BY StagesAre DEF Outcome, Statuses
    <3> HIDE DEF e, Step
    <3>3. x \in Seq(Outcome) /\ Len(x) = n - 1
      BY <1>4, <2>2
    <3>4. Append(x, e) \in Seq(Outcome) /\ Len(Append(x, e)) = n
          /\ (\A i \in 1..(n - 1) : Append(x, e)[i] = x[i]) /\ Append(x, e)[n] = e
      BY <3>2, <3>3, AppendIs
    <3> QED BY <1>4, <2>2, <3>1, <3>3, <3>4 DEF e
  <2>3. n <= k \/ n > k
    OBVIOUS
  <2> HIDE DEF Good, Step
  <2> QED BY <2>1, <2>2, <2>3
<1>5. ASSUME NEW n \in 7..9, NEW x PROVE Step(x, n) = x
  BY <1>1
<1>6. Good(f0, 0)
  OBVIOUS
<1> HIDE DEF Step, Good
<1>7. Good(f6, 6)
  BY <1>4, <1>6
<1>8. f9 = f6
  BY <1>5
<1>9. FillUnrecorded(record) = f6 /\ k \in 1..6
  BY <1>2, <1>3, <1>8
<1> HIDE DEF f6
<1>10. Good(FillUnrecorded(record), 6)
  BY <1>7, <1>9
<1> DEFINE r == FillUnrecorded(record)
<1> HIDE DEF r
<1>11. Good(r, 6)
  BY <1>10 DEF r
<1>12. /\ r \in Seq(Outcome) /\ Len(r) = 6
       /\ \A i \in 1..k : r[i] = record[i]
       /\ \A i \in (k + 1)..6 : r[i] = <<StageOrder[i], "not-started">>
  BY <1>9, <1>11 DEF Good
<1> QED BY <1>12 DEF r

LEMMA ToldIs == \A stage : ToldOf(stage) = ToldIn(progress, stage)
BY DEF ToldOf, ToldIn

LEMMA ToldMore ==
  ASSUME NEW p \in Seq(Told), NEW q \in Seq(Told)
  PROVE  /\ p \o q \in Seq(Told)
         /\ \A stage : ToldIn(p \o q, stage) = ToldIn(p, stage) \cup ToldIn(q, stage)
<1>1. p \o q \in Seq(Told)
  OBVIOUS
<1> SUFFICES ASSUME NEW stage
             PROVE  ToldIn(p \o q, stage) = ToldIn(p, stage) \cup ToldIn(q, stage)
  BY <1>1
<1> DEFINE Of(s) == {j \in DOMAIN s : s[j][1] = "stage" /\ s[j][2] = stage}
<1>2. /\ DOMAIN p = 1..Len(p) /\ DOMAIN q = 1..Len(q) /\ DOMAIN (p \o q) = 1..(Len(p) + Len(q))
      /\ Len(p) \in Nat /\ Len(q) \in Nat
      /\ \A i \in 1..Len(p) : (p \o q)[i] = p[i]
      /\ \A i \in 1..Len(q) : (p \o q)[Len(p) + i] = q[i]
  OBVIOUS
<1>3. ASSUME NEW x \in ToldIn(p, stage) PROVE x \in ToldIn(p \o q, stage)
  BY <1>2 DEF ToldIn
<1>4. ASSUME NEW x \in ToldIn(q, stage) PROVE x \in ToldIn(p \o q, stage)
  <2>1. PICK j \in DOMAIN q : q[j][1] = "stage" /\ q[j][2] = stage /\ x = q[j][3]
    BY DEF ToldIn
  <2>2. Len(p) + j \in DOMAIN (p \o q) /\ (p \o q)[Len(p) + j] = q[j]
    BY <1>2
  <2> QED BY <2>1, <2>2 DEF ToldIn
<1>5. ASSUME NEW x \in ToldIn(p \o q, stage) PROVE x \in ToldIn(p, stage) \cup ToldIn(q, stage)
  <2>1. PICK j \in DOMAIN (p \o q) : (p \o q)[j][1] = "stage" /\ (p \o q)[j][2] = stage /\ x = (p \o q)[j][3]
    BY DEF ToldIn
  <2>2. CASE j \in 1..Len(p)
    BY <1>2, <2>1, <2>2 DEF ToldIn
  <2>3. CASE j \notin 1..Len(p)
    <3>1. j - Len(p) \in 1..Len(q) /\ (p \o q)[j] = q[j - Len(p)]
      BY <1>2, <2>1, <2>3
    <3> QED BY <1>2, <2>1, <3>1 DEF ToldIn
  <2> QED BY <2>2, <2>3
<1> QED BY <1>3, <1>4, <1>5

\* One announcement adds its status to what was told of its stage.
LEMMA ToldOne ==
  ASSUME NEW e \in Told
  PROVE  /\ <<e>> \in Seq(Told)
         /\ \A stage : ToldIn(<<e>>, stage) = IF e[1] = "stage" /\ e[2] = stage THEN {e[3]} ELSE {}
<1> SUFFICES ASSUME NEW stage
             PROVE  ToldIn(<<e>>, stage) = IF e[1] = "stage" /\ e[2] = stage THEN {e[3]} ELSE {}
  OBVIOUS
<1>1. DOMAIN <<e>> = {1} /\ <<e>>[1] = e
  OBVIOUS
<1> DEFINE s == <<e>>
<1> HIDE DEF s
<1>2. ToldIn(s, stage) = IF e[1] = "stage" /\ e[2] = stage THEN {e[3]} ELSE {}
  BY <1>1 DEF s, ToldIn
<1> QED BY <1>2 DEF s

LEMMA ToldNext ==
  ASSUME NEW p \in Seq(Told), NEW e \in Told
  PROVE  /\ Append(p, e) \in Seq(Told) /\ Append(p, e) = p \o <<e>>
         /\ \A stage : ToldIn(Append(p, e), stage)
                         = ToldIn(p, stage) \cup IF e[1] = "stage" /\ e[2] = stage THEN {e[3]} ELSE {}
<1>1. Append(p, e) = p \o <<e>>
  OBVIOUS
<1> DEFINE q == <<e>>
<1>2. q \in Seq(Told)
      /\ \A stage : ToldIn(q, stage) = IF e[1] = "stage" /\ e[2] = stage THEN {e[3]} ELSE {}
  BY ToldOne
<1> HIDE DEF q
<1>3. p \o q \in Seq(Told) /\ \A stage : ToldIn(p \o q, stage) = ToldIn(p, stage) \cup ToldIn(q, stage)
  BY <1>2, ToldMore
<1>4. Append(p, e) = p \o q
  BY <1>1 DEF q
<1> QED BY <1>1, <1>2, <1>3, <1>4

\* What is known of a cost is a number.
LEMMA CostIsNat ==
  ASSUME PipelineAssumption, NEW r \in Requests, NEW a \in Answers
  PROVE  UsagePrice(a.input, a.output, r) \in Nat \cup {Unknown}
<1> DEFINE i == a.input
           o == a.output
           x == r.inputPrice
           y == r.outputPrice
<1>1. i \in Nat \cup {-1} /\ o \in Nat \cup {-1} /\ x \in Nat \cup {-1} /\ y \in Nat \cup {-1}
  BY DEF PipelineAssumption, Measures, Unknown
<1>2. \A m, n \in Nat : m * n \in Nat
  OBVIOUS
<1> HIDE DEF i, o, x, y
<1> DEFINE u == IF i = -1 THEN 0 ELSE i * x
           w == IF o = -1 THEN 0 ELSE o * y
<1>3. UsagePrice(a.input, a.output, r) \in {-1, u + w}
      /\ (UsagePrice(a.input, a.output, r) # -1 => (i = -1 \/ x # -1) /\ (o = -1 \/ y # -1))
  BY DEF UsagePrice, Unknown, i, o, x, y
<1>4. (i = -1 \/ x # -1) => u \in Nat
  BY <1>1, <1>2
<1>5. (o = -1 \/ y # -1) => w \in Nat
  BY <1>1, <1>2
<1> HIDE DEF u, w
<1> QED BY <1>3, <1>4, <1>5 DEF Unknown

-----------------------------------------------------------------------------
(* What the steps do to the record.                                        *)

\* The current stage ends.
LEMMA RecordsNext ==
  ASSUME NEW record \in Seq(Outcome), NEW told \in Seq(Told),
         NEW n \in 1..9, Len(record) = n - 1, Listed(record, told, n),
         NEW status \in {"completed", "failed"}
  PROVE  LET r == Append(record, <<StageOrder[n], status>>)
             t == Append(told, Stage(StageOrder[n], status))
         IN  r \in Seq(Outcome) /\ t \in Seq(Told) /\ Len(r) = n /\ r[n][2] = status /\ Listed(r, t, n)
<1> DEFINE e == <<StageOrder[n], status>>
           g == Stage(StageOrder[n], status)
           r == Append(record, e)
           t == Append(told, g)
<1>1. e \in Outcome /\ e[1] = StageOrder[n] /\ e[2] = status
  BY StagesAre DEF Outcome, Statuses
<1>2. g \in Told /\ g[1] = "stage" /\ g[2] = StageOrder[n] /\ g[3] = status
  BY StagesAre DEF Told, Stage, Statuses
<1> HIDE DEF e, g
<1>4. r \in Seq(Outcome) /\ Len(r) = n /\ r[n] = e /\ \A i \in 1..(n - 1) : r[i] = record[i]
  BY <1>1, AppendIs
<1>5. t \in Seq(Told)
      /\ \A s : ToldIn(t, s) = ToldIn(told, s) \cup IF g[1] = "stage" /\ g[2] = s THEN {g[3]} ELSE {}
  BY <1>2, ToldNext
<1> HIDE DEF r, t
<1>6. ASSUME NEW i \in 1..9
      PROVE  IF i <= n
             THEN r[i][1] = StageOrder[i] /\ ToldIn(t, StageOrder[i]) = ToldAs(r[i][2])
             ELSE ToldIn(t, StageOrder[i]) = {}
  <2>1. ToldIn(t, StageOrder[i])
          = IF i = n THEN ToldIn(told, StageOrder[i]) \cup {status} ELSE ToldIn(told, StageOrder[i])
    BY <1>2, <1>5, StagesAre
  <2>2. IF i <= n - 1
        THEN record[i][1] = StageOrder[i] /\ ToldIn(told, StageOrder[i]) = ToldAs(record[i][2])
        ELSE ToldIn(told, StageOrder[i]) = IF i <= n THEN {"started"} ELSE {}
    BY DEF Listed
  <2>3. CASE i <= n - 1
    <3>1. r[i] = record[i] /\ i # n /\ i <= n
      BY <1>4, <2>3
    <3> QED BY <2>1, <2>2, <2>3, <3>1
  <2>4. CASE i = n
    <3>1. ToldIn(told, StageOrder[i]) = {"started"}
      BY <2>2, <2>4
    <3>2. ToldAs(status) = {"started", status}
      BY DEF ToldAs
    <3> QED BY <1>1, <1>4, <2>1, <2>4, <3>1, <3>2
  <2>5. CASE i > n
    BY <2>1, <2>2, <2>5
  <2> QED BY <2>3, <2>4, <2>5
<1>7. Listed(r, t, n)
  <2>1. Len(r) = n
    BY <1>4
  <2> QED BY <1>6, <2>1 DEF Listed
<1> QED BY <1>1, <1>4, <1>5, <1>7 DEF r, t, e, g

\* The next stage is announced.
LEMMA AnnouncesNext ==
  ASSUME NEW record \in Seq(Outcome), NEW told \in Seq(Told),
         NEW n \in 1..9, Len(record) = n - 1, Listed(record, told, n - 1)
  PROVE  LET t == Append(told, Stage(StageOrder[n], "started"))
         IN  t \in Seq(Told) /\ Listed(record, t, n)
<1> DEFINE g == Stage(StageOrder[n], "started")
           t == Append(told, g)
<1>1. g \in Told /\ g[1] = "stage" /\ g[2] = StageOrder[n] /\ g[3] = "started"
  BY StagesAre DEF Told, Stage, Statuses
<1> HIDE DEF g
<1>2. t \in Seq(Told)
      /\ \A s : ToldIn(t, s) = ToldIn(told, s) \cup IF g[1] = "stage" /\ g[2] = s THEN {g[3]} ELSE {}
  BY <1>1, ToldNext
<1> HIDE DEF t
<1>3. ASSUME NEW i \in 1..9
      PROVE  IF i <= n - 1
             THEN record[i][1] = StageOrder[i] /\ ToldIn(t, StageOrder[i]) = ToldAs(record[i][2])
             ELSE ToldIn(t, StageOrder[i]) = IF i <= n THEN {"started"} ELSE {}
  <2>1. ToldIn(t, StageOrder[i])
          = IF i = n THEN ToldIn(told, StageOrder[i]) \cup {"started"} ELSE ToldIn(told, StageOrder[i])
    BY <1>1, <1>2, StagesAre
  <2>2. IF i <= n - 1
        THEN record[i][1] = StageOrder[i] /\ ToldIn(told, StageOrder[i]) = ToldAs(record[i][2])
        ELSE ToldIn(told, StageOrder[i]) = {}
    BY DEF Listed
  <2>3. i = n => i > n - 1 /\ i <= n
    OBVIOUS
  <2>4. i # n => (i <= n <=> i <= n - 1)
    OBVIOUS
  <2>5. CASE i = n
    BY <2>1, <2>2, <2>3, <2>5
  <2>6. CASE i # n
    BY <2>1, <2>2, <2>4, <2>6
  <2> QED BY <2>5, <2>6
<1>4. Listed(record, t, n)
  <2>1. Len(record) = n - 1
    OBVIOUS
  <2> QED BY <1>3, <2>1 DEF Listed
<1> QED BY <1>2, <1>4 DEF t, g

\* The stages a failure skips were never announced.
LEMMA FillsTheRest ==
  ASSUME NEW record \in Seq(Outcome), NEW told,
         NEW n \in 1..6, Len(record) = n, Listed(record, told, n)
  PROVE  LET r == FillUnrecorded(record)
         IN  /\ r \in Seq(Outcome) /\ Len(r) = 6 /\ Listed(r, told, 6)
             /\ r[6][2] = IF n = 6 THEN record[6][2] ELSE "not-started"
<1> DEFINE r == FillUnrecorded(record)
<1>0. ASSUME NEW i \in 1..9
      PROVE  IF i <= n
             THEN record[i][1] = StageOrder[i] /\ ToldIn(told, StageOrder[i]) = ToldAs(record[i][2])
             ELSE ToldIn(told, StageOrder[i]) = {}
  BY DEF Listed
<1>1. \A i \in 1..n : record[i][1] = StageOrder[i]
  <2> SUFFICES ASSUME NEW i \in 1..n PROVE record[i][1] = StageOrder[i]
    OBVIOUS
  <2>1. i \in 1..9 /\ i <= n
    OBVIOUS
  <2> QED BY <1>0, <2>1
<1>2. /\ r \in Seq(Outcome) /\ Len(r) = 6
      /\ \A i \in 1..n : r[i] = record[i]
      /\ \A i \in (n + 1)..6 : r[i] = <<StageOrder[i], "not-started">>
  BY <1>1, FilledIs
<1> HIDE DEF r
<1>3. ASSUME NEW i \in 1..9
      PROVE  IF i <= 6
             THEN r[i][1] = StageOrder[i] /\ ToldIn(told, StageOrder[i]) = ToldAs(r[i][2])
             ELSE ToldIn(told, StageOrder[i]) = {}
  <2>1. CASE i <= n
    <3>1. r[i] = record[i] /\ i <= 6
      BY <1>2, <2>1
    <3> QED BY <1>0, <2>1, <3>1
  <2>2. CASE i > n /\ i <= 6
    <3>1. r[i] = <<StageOrder[i], "not-started">>
      <4>1. i \in (n + 1)..6
        BY <2>2
      <4> QED BY <1>2, <4>1
    <3>2. r[i][1] = StageOrder[i] /\ r[i][2] = "not-started"
      BY <3>1
    <3>3. ToldIn(told, StageOrder[i]) = {}
      <4>1. ~(i <= n)
        BY <2>2
      <4> QED BY <1>0, <4>1, Zenon
    <3>4. ToldAs(r[i][2]) = {}
      BY <3>2 DEF ToldAs
    <3> QED BY <2>2, <3>2, <3>3, <3>4
  <2>3. CASE i > 6
    BY <1>0, <2>3
  <2> QED BY <2>1, <2>2, <2>3
<1>4. Listed(r, told, 6)
  <2>1. Len(r) = 6
    BY <1>2
  <2> QED BY <1>3, <2>1 DEF Listed
<1>5. r[6][2] = IF n = 6 THEN record[6][2] ELSE "not-started"
  <2>1. CASE n = 6
    BY <1>2, <2>1
  <2>2. CASE n # 6
    <3>1. 6 \in (n + 1)..6
      BY <2>2
    <3>2. r[6] = <<StageOrder[6], "not-started">>
      BY <1>2, <3>1
    <3> QED BY <2>2, <3>2
  <2> QED BY <2>1, <2>2
<1> QED BY <1>2, <1>4, <1>5 DEF r

\* Dimensions are announced beside the stages.
LEMMA DimensionToldIs ==
  ASSUME NEW record, NEW told \in Seq(Told), NEW n, Listed(record, told, n),
         NEW d \in Dimensions, NEW status \in Statuses \cup {"started"}
  PROVE  LET t == Append(told, Dimension(d, status))
         IN  t \in Seq(Told) /\ Listed(record, t, n)
<1> DEFINE g == Dimension(d, status)
           t == Append(told, g)
<1>1. g \in Told /\ g[1] # "stage"
  BY DEF Told, Dimension
<1> HIDE DEF g
<1>2. t \in Seq(Told)
      /\ \A s : ToldIn(t, s) = ToldIn(told, s) \cup IF g[1] = "stage" /\ g[2] = s THEN {g[3]} ELSE {}
  BY <1>1, ToldNext
<1> HIDE DEF t
<1>3. \A s : ToldIn(t, s) = ToldIn(told, s)
  BY <1>1, <1>2
<1>4. Listed(record, t, n)
  BY <1>3 DEF Listed
<1> QED BY <1>2, <1>4 DEF t, g

\* A stage ends and the next one is announced.
LEMMA CompletesNext ==
  ASSUME NEW record \in Seq(Outcome), NEW told \in Seq(Told),
         NEW n \in 1..8, Len(record) = n - 1, Listed(record, told, n),
         NEW status \in {"completed", "failed"}
  PROVE  LET r == Append(record, <<StageOrder[n], status>>)
             t == told \o <<Stage(StageOrder[n], status), Stage(StageOrder[n + 1], "started")>>
         IN  r \in Seq(Outcome) /\ t \in Seq(Told) /\ Len(r) = n /\ Listed(r, t, n + 1)
<1> DEFINE r == Append(record, <<StageOrder[n], status>>)
           a == Stage(StageOrder[n], status)
           b == Stage(StageOrder[n + 1], "started")
           t == told \o <<a, b>>
           u == Append(told, a)
<1>1. r \in Seq(Outcome) /\ u \in Seq(Told) /\ Len(r) = n /\ Listed(r, u, n)
  <2>1. n \in 1..9
    OBVIOUS
  <2> QED BY <2>1, RecordsNext, Zenon
<1>2. t = Append(u, b)
  <2>1. a \in Told /\ b \in Told
    BY StagesAre DEF Told, Stage, Statuses
  <2> HIDE DEF a, b
  <2> QED BY <2>1
<1> HIDE DEF u, r, t
<1> DEFINE m == n + 1
<1>3. m \in 1..9 /\ Len(r) = m - 1 /\ Listed(r, u, m - 1) /\ t = Append(u, Stage(StageOrder[m], "started"))
  <2>1. m - 1 = n
    OBVIOUS
  <2> QED BY <1>1, <1>2, <2>1
<1> HIDE DEF m
<1>4. t \in Seq(Told) /\ Listed(r, t, m)
  BY <1>1, <1>3, AnnouncesNext
<1> QED BY <1>1, <1>4 DEF m, r, t

\* A stage is announced and ends.
LEMMA RunsNext ==
  ASSUME NEW record \in Seq(Outcome), NEW told \in Seq(Told),
         NEW n \in 1..9, Len(record) = n - 1, Listed(record, told, n - 1)
  PROVE  LET r == Append(record, <<StageOrder[n], "completed">>)
             t == Append(Append(told, Stage(StageOrder[n], "started")), Stage(StageOrder[n], "completed"))
         IN  r \in Seq(Outcome) /\ t \in Seq(Told) /\ Len(r) = n /\ Listed(r, t, n)
<1> DEFINE u == Append(told, Stage(StageOrder[n], "started"))
<1>1. u \in Seq(Told) /\ Listed(record, u, n)
  BY AnnouncesNext
<1>2. "completed" \in {"completed", "failed"}
  OBVIOUS
<1> HIDE DEF u
<1>3. LET r == Append(record, <<StageOrder[n], "completed">>)
          t == Append(u, Stage(StageOrder[n], "completed"))
      IN  r \in Seq(Outcome) /\ t \in Seq(Told) /\ Len(r) = n /\ Listed(r, t, n)
  BY <1>1, <1>2, RecordsNext
<1> QED BY <1>3 DEF u

\* The three stages of _complete_report.
LEMMA CompletesReport ==
  ASSUME NEW record \in Seq(Outcome), NEW told \in Seq(Told), Listed(record, told, 6),
         Len(record) = 6
  PROVE  LET r == record \o <<<<"check-completeness", "completed">>,
                              <<"evaluate-gate", "completed">>, <<"publish", "completed">>>>
             t == told \o <<Stage("check-completeness", "started"),
                            Stage("check-completeness", "completed"),
                            Stage("evaluate-gate", "started"), Stage("evaluate-gate", "completed"),
                            Stage("publish", "started"), Stage("publish", "completed")>>
         IN  r \in Seq(Outcome) /\ t \in Seq(Told) /\ Len(r) = 9 /\ r[6] = record[6] /\ Listed(r, t, 9)
<1> DEFINE s7 == Stage(StageOrder[7], "started")
           c7 == Stage(StageOrder[7], "completed")
           s8 == Stage(StageOrder[8], "started")
           c8 == Stage(StageOrder[8], "completed")
           s9 == Stage(StageOrder[9], "started")
           c9 == Stage(StageOrder[9], "completed")
           o7 == <<StageOrder[7], "completed">>
           o8 == <<StageOrder[8], "completed">>
           o9 == <<StageOrder[9], "completed">>
           r7 == Append(record, o7)
           t7 == Append(Append(told, s7), c7)
           r8 == Append(r7, o8)
           t8 == Append(Append(t7, s8), c8)
           r9 == Append(r8, o9)
           t9 == Append(Append(t8, s9), c9)
<1>1. r7 \in Seq(Outcome) /\ t7 \in Seq(Told) /\ Len(r7) = 7 /\ Listed(r7, t7, 7)
  <2>1. 7 \in 1..9 /\ Len(record) = 7 - 1 /\ Listed(record, told, 7 - 1)
    OBVIOUS
  <2> QED BY <2>1, RunsNext, Zenon
<1>2. r8 \in Seq(Outcome) /\ t8 \in Seq(Told) /\ Len(r8) = 8 /\ Listed(r8, t8, 8)
  <2> HIDE DEF r7, t7
  <2>1. 8 \in 1..9 /\ Len(r7) = 8 - 1 /\ Listed(r7, t7, 8 - 1)
    BY <1>1
  <2> QED BY <1>1, <2>1, RunsNext, Zenon
<1>3. r9 \in Seq(Outcome) /\ t9 \in Seq(Told) /\ Len(r9) = 9 /\ Listed(r9, t9, 9)
  <2> HIDE DEF r8, t8
  <2>1. 9 \in 1..9 /\ Len(r8) = 9 - 1 /\ Listed(r8, t8, 9 - 1)
    BY <1>2
  <2> QED BY <1>2, <2>1, RunsNext, Zenon
<1> DEFINE r == record \o <<o7, o8, o9>>
           t == told \o <<s7, c7, s8, c8, s9, c9>>
<1>4. r = r9
  <2>1. {o7, o8, o9} \subseteq Outcome
    BY StagesAre DEF Statuses, Outcome
  <2> HIDE DEF o7, o8, o9
  <2> QED BY <2>1
<1>5. r[6] = record[6]
  <2> DEFINE q == <<o7, o8, o9>>
  <2>1. q \in Seq(Outcome)
    <3>1. o7 \in Outcome /\ o8 \in Outcome /\ o9 \in Outcome
      BY StagesAre DEF Statuses, Outcome
    <3> HIDE DEF o7, o8, o9
    <3> QED BY <3>1
  <2> HIDE DEF q
  <2>2. \A i \in 1..(Len(record) + Len(q)) :
          (record \o q)[i] = IF i <= Len(record) THEN record[i] ELSE q[i - Len(record)]
    BY <2>1, ConcatProperties, Zenon
  <2>3. Len(q) \in Nat
    BY <2>1
  <2>4. 6 \in 1..(Len(record) + Len(q)) /\ 6 <= Len(record)
    BY <2>3
  <2>5. (record \o q)[6] = record[6]
    BY <2>2, <2>4, Zenon
  <2> QED BY <2>5 DEF q
<1>6. t = t9
  <2>1. {s7, c7, s8, c8, s9, c9} \subseteq Told
    BY StagesAre DEF Told, Stage, Statuses
  <2> HIDE DEF s7, c7, s8, c8, s9, c9
  <2> QED BY <2>1
<1> HIDE DEF r9, t9
<1>7. r \in Seq(Outcome) /\ t \in Seq(Told) /\ Len(r) = 9 /\ r[6] = record[6] /\ Listed(r, t, 9)
  BY <1>3, <1>4, <1>5, <1>6
<1>8. StageOrder[7] = "check-completeness" /\ StageOrder[8] = "evaluate-gate" /\ StageOrder[9] = "publish"
  BY StagesAre
<1> QED BY <1>7, <1>8

-----------------------------------------------------------------------------
(* Every step keeps the invariant.                                         *)

LEMMA Counts ==
  /\ \A p \in Filling \ {"complete"} : Recordings[p] \in 1..5 /\ Announcements[p] = Recordings[p] + 1
  /\ \A p \in {"complete"} : Recordings[p] = 6 /\ Announcements[p] = 6
  /\ \A p \in {"cleanup", "ended"} : Recordings[p] = 9 /\ Announcements[p] = 9
  /\ Recordings["construct"] = 1 /\ Recordings["prepare"] = 2 /\ Recordings["materialize"] = 2
  /\ Recordings["gather"] = 3 /\ Recordings["plan"] = 4 /\ Recordings["dimensions"] = 4
  /\ Recordings["calling"] = 4 /\ Recordings["verify"] = 5
BY DEF Filling, Recordings, Announcements

\* Before a stage ends, the record lists those before it, and it is announced.
LEMMA BeforeEnd ==
  ASSUME PipelineInv, pc \in Filling \ {"complete"}, NEW n, Recordings[pc] = n - 1
  PROVE  /\ ending = "running" /\ report = NoReport
         /\ outcomes \in Seq(Outcome) /\ progress \in Seq(Told)
         /\ Recordings[pc] \in 1..5 /\ Announcements[pc] = Recordings[pc] + 1
         /\ Len(outcomes) = Recordings[pc] /\ Listed(outcomes, progress, Announcements[pc])
<1>1. ending = "running" /\ report = NoReport
  BY DEF PipelineInv, FlowInv
<1>2. Recordings[pc] \in 1..5 /\ Announcements[pc] = Recordings[pc] + 1
  BY Counts
<1> QED BY <1>1, <1>2 DEF PipelineInv, TypeInv, RecordInv

EndsAt(n, status) ==
  /\ outcomes' = FillUnrecorded(Append(outcomes, <<StageOrder[n], status>>))
  /\ progress' = Append(progress, Stage(StageOrder[n], status))

GoesOnAt(n, status) ==
  /\ outcomes' = Append(outcomes, <<StageOrder[n], status>>)
  /\ progress' = progress \o <<Stage(StageOrder[n], status), Stage(StageOrder[n + 1], "started")>>

\* Every branch that ends the run early: it reports why, and never passes.
LEMMA FailStep ==
  ASSUME NEW n \in 1..6, NEW status \in {"completed", "failed"}, n = 6 => status = "failed"
  PROVE  /\ PipelineInv
         /\ pc \in Filling \ {"complete"} /\ Recordings[pc] = n - 1
         /\ EndsAt(n, status)
         /\ args'.allow = FALSE /\ args'.detail
         /\ pc' = "complete" /\ (container' \in {None, "frozen"} \/ LeftBehind')
         /\ UNCHANGED <<inputs, runs, spent, stopped, report, ending>>
         => PipelineInv'
<1>0. HAVE /\ PipelineInv
           /\ pc \in Filling \ {"complete"} /\ Recordings[pc] = n - 1
           /\ EndsAt(n, status)
           /\ args'.allow = FALSE /\ args'.detail
           /\ pc' = "complete" /\ (container' \in {None, "frozen"} \/ LeftBehind')
           /\ UNCHANGED <<inputs, runs, spent, stopped, report, ending>>
<1>1. /\ ending = "running" /\ report = NoReport
      /\ outcomes \in Seq(Outcome) /\ progress \in Seq(Told)
      /\ Len(outcomes) = n - 1 /\ Listed(outcomes, progress, n)
  <2>1. Recordings[pc] + 1 = n
    BY <1>0
  <2> QED BY <1>0, <2>1, BeforeEnd
<1> DEFINE r == Append(outcomes, <<StageOrder[n], status>>)
           t == Append(progress, Stage(StageOrder[n], status))
<1>2. r \in Seq(Outcome) /\ t \in Seq(Told) /\ Len(r) = n /\ r[n][2] = status /\ Listed(r, t, n)
  <2>1. n \in 1..9
    OBVIOUS
  <2> QED BY <1>1, <2>1, RecordsNext
<1> DEFINE f == FillUnrecorded(r)
<1>3. outcomes' = f /\ progress' = t
  BY <1>0 DEF EndsAt
<1> HIDE DEF r, t
<1>41. f \in Seq(Outcome) /\ Len(f) = 6 /\ Listed(f, t, 6)
       /\ f[6][2] = IF n = 6 THEN r[6][2] ELSE "not-started"
  BY <1>2, FillsTheRest
<1> HIDE DEF f
<1>4. /\ outcomes' \in Seq(Outcome) /\ Len(outcomes') = 6 /\ Listed(outcomes', t, 6)
      /\ outcomes'[6][2] = IF n = 6 THEN r[6][2] ELSE "not-started"
  BY <1>3, <1>41
<1>5. outcomes'[6][2] # "completed"
  <2>1. CASE n = 6
    BY <1>2, <1>4, <2>1
  <2>2. CASE n # 6
    BY <1>4, <2>2
  <2> QED BY <2>1, <2>2
<1>6. TypeInv'
  BY <1>0, <1>2, <1>3, <1>4 DEF PipelineInv, TypeInv, inputs
<1>7. FlowInv'
  BY <1>0, <1>1 DEF FlowInv, Filling
<1>8. ContainerInv'
  BY <1>0 DEF ContainerInv
<1>9. SpendInv'
  BY <1>0 DEF PipelineInv, SpendInv, inputs
<1>10. RunsInv'
  BY <1>0 DEF PipelineInv, RunsInv, inputs
<1>11. ArgsInv'
  BY <1>0 DEF ArgsInv
<1>12. RecordInv'
  <2>1. Recordings'[pc'] = 6 /\ Announcements'[pc'] = 6
    BY <1>0 DEF Recordings, Announcements
  <2> QED BY <1>0, <1>3, <1>4, <1>5, <2>1 DEF RecordInv
<1> QED BY <1>6, <1>7, <1>8, <1>9, <1>10, <1>11, <1>12 DEF PipelineInv

\* A stage ends and the run goes on.
LEMMA GoOnStep ==
  ASSUME NEW n \in 1..5, NEW status \in {"completed", "failed"}
  PROVE  /\ PipelineInv
         /\ pc \in Filling \ {"complete", "verify"} /\ Recordings[pc] = n - 1
         /\ GoesOnAt(n, status)
         /\ pc' \in Filling \ {"complete"} /\ Recordings[pc'] = n
         /\ UNCHANGED <<inputs, args, report, ending>>
         =>
         /\ ending' = "running" /\ report' = NoReport
         /\ outcomes' \in Seq(Outcome) /\ progress' \in Seq(Told)
         /\ FlowInv' /\ ArgsInv' /\ RecordInv'
<1>0. HAVE /\ PipelineInv
           /\ pc \in Filling \ {"complete", "verify"} /\ Recordings[pc] = n - 1
           /\ GoesOnAt(n, status)
           /\ pc' \in Filling \ {"complete"} /\ Recordings[pc'] = n
           /\ UNCHANGED <<inputs, args, report, ending>>
<1>1. /\ ending = "running" /\ report = NoReport
      /\ outcomes \in Seq(Outcome) /\ progress \in Seq(Told)
      /\ Len(outcomes) = n - 1 /\ Listed(outcomes, progress, n)
  <2>1. Recordings[pc] + 1 = n
    BY <1>0
  <2> QED BY <1>0, <2>1, BeforeEnd
<1>2. /\ outcomes' \in Seq(Outcome) /\ progress' \in Seq(Told) /\ Len(outcomes') = n
      /\ Listed(outcomes', progress', n + 1)
  <2>1. n \in 1..8
    OBVIOUS
  <2> DEFINE r == Append(outcomes, <<StageOrder[n], status>>)
             t == progress \o <<Stage(StageOrder[n], status), Stage(StageOrder[n + 1], "started")>>
  <2>2. r \in Seq(Outcome) /\ t \in Seq(Told) /\ Len(r) = n /\ Listed(r, t, n + 1)
    BY <1>1, <2>1, CompletesNext
  <2>3. outcomes' = r /\ progress' = t
    BY <1>0 DEF GoesOnAt
  <2> HIDE DEF r, t
  <2> QED BY <2>2, <2>3
<1>3. FlowInv'
  BY <1>0, <1>1 DEF FlowInv, Filling
<1>4. ArgsInv'
  <2>1. args.allow \in BOOLEAN
    BY <1>0 DEF PipelineInv, ArgsInv
  <2> QED BY <1>0, <1>1, <2>1 DEF ArgsInv, Filling
<1>5. RecordInv'
  <2>1. Recordings[pc'] = n /\ Announcements[pc'] = n + 1
    BY <1>0, Counts
  <2>2. pc' \notin {"complete", "cleanup", "ended"}
    BY <1>0 DEF Filling
  <2> QED BY <1>0, <1>2, <2>1, <2>2 DEF RecordInv, Recordings, Announcements
<1> QED BY <1>0, <1>1, <1>2, <1>3, <1>4, <1>5

\* The run ends without a report.
LEMMA EscapeStep ==
  ASSUME PipelineInv, pc \in Filling \ {"complete"}, NEW how \in {"raised", "cancelled"}, Escapes(how),
         progress' \in Seq(Told),
         \/ container' \in {None, "frozen"} \/ LeftBehind'
         \/ container' = "unremovable" /\ how = "raised"
         \/ container' = "filling" /\ how = "cancelled"
  PROVE  PipelineInv'
<1>1. report = NoReport
  BY DEF PipelineInv, FlowInv
<1>2. pc' = "cleanup" /\ ending' = how
      /\ UNCHANGED <<inputs, outcomes, review, args, report>>
  BY DEF Escapes
<1>3. TypeInv'
  BY <1>2 DEF PipelineInv, TypeInv, inputs, review
<1>4. FlowInv'
  BY <1>1, <1>2 DEF FlowInv, Filling
<1>5. ContainerInv'
  BY <1>2 DEF ContainerInv, LeftBehind
<1>6. SpendInv'
  BY <1>2 DEF PipelineInv, SpendInv, inputs, review
<1>7. RunsInv'
  BY <1>2 DEF PipelineInv, RunsInv, inputs, review
<1>8. ArgsInv'
  BY <1>1, <1>2 DEF PipelineInv, ArgsInv
<1>9. RecordInv'
  BY <1>2 DEF RecordInv
<1> QED BY <1>3, <1>4, <1>5, <1>6, <1>7, <1>8, <1>9 DEF PipelineInv

LEMMA FailureIs ==
  /\ Failure.allow = FALSE /\ Failure.detail
  /\ \A c : [Failure EXCEPT !.coverage = c].allow = FALSE /\ [Failure EXCEPT !.coverage = c].detail
  /\ \A c, d : /\ [Failure EXCEPT !.coverage = c, !.dimensions = d].allow = FALSE
               /\ [Failure EXCEPT !.coverage = c, !.dimensions = d].detail
BY DEF Failure, NoArgs

LEMMA InitInv ==
  ASSUME PipelineAssumption, Init
  PROVE  PipelineInv
<1>1. outcomes \in Seq(Outcome) /\ Len(outcomes) = 1 /\ outcomes[1] = <<StageOrder[1], "completed">>
  <2>1. <<StageOrder[1], "completed">> \in Outcome
    BY StagesAre DEF Outcome, Statuses
  <2>2. outcomes = << <<StageOrder[1], "completed">> >>
    BY StagesAre DEF Init
  <2> DEFINE e == <<StageOrder[1], "completed">>
  <2> HIDE DEF e
  <2>3. outcomes = <<e>> /\ e \in Outcome
    BY <2>1, <2>2 DEF e
  <2>4. outcomes \in Seq(Outcome) /\ Len(outcomes) = 1 /\ outcomes[1] = e
    BY <2>3
  <2> QED BY <2>4 DEF e
<1> DEFINE s1 == Stage(StageOrder[1], "started")
           c1 == Stage(StageOrder[1], "completed")
           s2 == Stage(StageOrder[2], "started")
<1>2. {s1, c1, s2} \subseteq Told
  BY StagesAre DEF Told, Stage, Statuses
<1>3. progress = <<s1, c1, s2>>
  BY StagesAre DEF Init
<1>4. /\ s1[1] = "stage" /\ c1[1] = "stage" /\ s2[1] = "stage"
      /\ s1[2] = StageOrder[1] /\ c1[2] = StageOrder[1] /\ s2[2] = StageOrder[2]
      /\ s1[3] = "started" /\ c1[3] = "completed" /\ s2[3] = "started"
  BY DEF Stage
<1> HIDE DEF s1, c1, s2
<1>5. progress \in Seq(Told) /\ DOMAIN progress = 1..3 /\ progress[1] = s1 /\ progress[2] = c1 /\ progress[3] = s2
  BY <1>2, <1>3
<1>6. \A i \in 1..9 : ToldIn(progress, StageOrder[i])
                       = IF i = 1 THEN {"started", "completed"} ELSE IF i = 2 THEN {"started"} ELSE {}
  <2>1. \A i \in 1..9 : (StageOrder[1] = StageOrder[i] <=> i = 1) /\ (StageOrder[2] = StageOrder[i] <=> i = 2)
    BY StagesAre
  <2>2. DOMAIN progress = {1, 2, 3}
    BY <1>5
  <2>3. ASSUME NEW s
        PROVE  ToldIn(progress, s) = (IF s = StageOrder[1] THEN {"started", "completed"} ELSE {})
                                     \cup (IF s = StageOrder[2] THEN {"started"} ELSE {})
    <3>1. \A j \in DOMAIN progress : progress[j][1] = "stage"
      BY <1>4, <1>5, <2>2
    <3>2. ToldIn(progress, s) = {progress[i][3] : i \in {j \in {1, 2, 3} : progress[j][2] = s}}
      BY <2>2, <3>1 DEF ToldIn
    <3> QED BY <1>4, <1>5, <2>2, <3>2
  <2>4. StageOrder[1] # StageOrder[2]
    BY StagesAre
  <2> QED BY <2>1, <2>3, <2>4
<1>7. Listed(outcomes, progress, 2)
  <2>1. ASSUME NEW i \in 1..9
        PROVE  IF i <= 1
               THEN outcomes[i][1] = StageOrder[i] /\ ToldIn(progress, StageOrder[i]) = ToldAs(outcomes[i][2])
               ELSE ToldIn(progress, StageOrder[i]) = IF i <= 2 THEN {"started"} ELSE {}
    <3>0. ToldIn(progress, StageOrder[i])
            = IF i = 1 THEN {"started", "completed"} ELSE IF i = 2 THEN {"started"} ELSE {}
      BY <1>6, Zenon
    <3>1. CASE i = 1
      <4>1. outcomes[1][1] = StageOrder[1] /\ outcomes[1][2] = "completed"
        BY <1>1
      <4>2. ToldAs("completed") = {"started", "completed"}
        BY DEF ToldAs
      <4>3. ToldIn(progress, StageOrder[i]) = ToldAs(outcomes[1][2])
        BY <3>0, <3>1, <4>1, <4>2
      <4> QED BY <3>1, <4>1, <4>3
    <3>2. CASE i # 1
      <4>1. ToldIn(progress, StageOrder[i]) = IF i = 2 THEN {"started"} ELSE {}
        BY <3>0, <3>2
      <4>2. ~(i <= 1) /\ (i <= 2 <=> i = 2)
        BY <3>2
      <4> QED BY <4>1, <4>2
    <3> QED BY <3>1, <3>2
  <2>2. Len(outcomes) = 1
    BY <1>1
  <2> QED BY <2>1, <2>2 DEF Listed
<1>8. TypeInv
  <2>1. request \in Requests /\ world \in Worlds /\ runs = <<>> /\ spent = 0 /\ stopped = FALSE
    BY DEF Init
  <2>2. runs \in Seq(Run)
    BY <2>1
  <2> QED BY <1>1, <1>5, <2>1, <2>2 DEF TypeInv
<1>9. FlowInv
  BY DEF Init, FlowInv, Filling
<1>10. ContainerInv
  BY DEF Init, ContainerInv
<1>11. SpendInv
  BY DEF Init, SpendInv
<1>12. RunsInv
  <2>1. request.dimensions \in Seq(Dimensions)
    BY DEF PipelineAssumption, Init
  <2>2. runs = <<>> /\ pc = "construct"
    BY DEF Init
  <2>3. Len(request.dimensions) \in Nat /\ Len(runs) = 0
    BY <2>1, <2>2
  <2> QED BY <2>2, <2>3 DEF RunsInv
<1>13. ArgsInv
  <2>1. args.allow = FALSE /\ pc = "construct" /\ report = NoReport
    BY DEF Init, NoArgs
  <2> QED BY <2>1 DEF ArgsInv
<1>14. RecordInv
  <2>1. pc = "construct"
    BY DEF Init
  <2>2. Recordings[pc] = 1 /\ Announcements[pc] = 2
    BY <2>1 DEF Recordings, Announcements
  <2> QED BY <1>1, <1>7, <2>1, <2>2 DEF RecordInv
<1> QED BY <1>8, <1>9, <1>10, <1>11, <1>12, <1>13, <1>14 DEF PipelineInv

LEMMA ConstructStep ==
  ASSUME PipelineInv, Construct
  PROVE  PipelineInv'
<1>1. /\ pc = "construct" /\ container' = container /\ container = None
      /\ UNCHANGED <<inputs, runs, gathered, spent, stopped, report, ending>>
      /\ StageOrder[2] = "construct-merge" /\ StageOrder[3] = "prepare-review-worktree"
      /\ pc \in Filling \ {"complete", "verify"} /\ Recordings[pc] = 2 - 1
  BY StagesAre DEF Construct, PipelineInv, ContainerInv, review, Filling, Recordings
<1>2. CASE Fails("construct-merge", Failure)
  <2>1. EndsAt(2, "failed") /\ args'.allow = FALSE /\ args'.detail /\ pc' = "complete"
    BY <1>1, <1>2, FailureIs DEF Fails, EndsAt
  <2>2. 2 \in 1..6 /\ "failed" \in {"completed", "failed"} /\ (2 = 6 => "failed" = "failed")
    OBVIOUS
  <2> QED BY <1>1, <2>1, <2>2, FailStep
<1>3. CASE Completes("construct-merge", "prepare-review-worktree") /\ pc' = "prepare" /\ UNCHANGED args
  <2>1. GoesOnAt(2, "completed")
    BY <1>1, <1>3 DEF Completes, GoesOnAt
  <2>2. pc' \in Filling \ {"complete"} /\ Recordings[pc'] = 2
    BY <1>3 DEF Filling, Recordings
  <2>3. /\ outcomes' \in Seq(Outcome) /\ progress' \in Seq(Told)
        /\ FlowInv' /\ ArgsInv' /\ RecordInv'
    <3>1. 2 \in 1..5 /\ "completed" \in {"completed", "failed"}
      OBVIOUS
    <3> QED BY <1>1, <1>3, <2>1, <2>2, <3>1, GoOnStep
  <2>4. TypeInv'
    BY <1>1, <2>3 DEF PipelineInv, TypeInv, inputs
  <2>5. ContainerInv' /\ SpendInv' /\ RunsInv'
    BY <1>1, <1>3 DEF PipelineInv, ContainerInv, SpendInv, RunsInv, inputs
  <2> QED BY <2>3, <2>4, <2>5 DEF PipelineInv
<1> QED BY <1>2, <1>3 DEF Construct

LEMMA MakeContainerStep ==
  ASSUME PipelineInv, MakeContainer
  PROVE  PipelineInv'
<1>1. /\ pc = "prepare" /\ container = None /\ gathered = NoContext
      /\ UNCHANGED <<inputs, runs, gathered, spent, stopped, report, ending>>
      /\ StageOrder[3] = "prepare-review-worktree"
      /\ pc \in Filling \ {"complete", "verify"} /\ Recordings[pc] = 3 - 1
      /\ ending = "running" /\ report = NoReport
  BY StagesAre DEF MakeContainer, PipelineInv, ContainerInv, FlowInv, review, Filling, Recordings
<1>2. CASE Fails("prepare-review-worktree", Failure) /\ container' \in {None, "refused"}
  <2>1. /\ EndsAt(3, "failed") /\ args'.allow = FALSE /\ args'.detail /\ pc' = "complete"
        /\ container' \in {None, "frozen"} \/ LeftBehind'
    BY <1>1, <1>2, FailureIs DEF Fails, EndsAt, LeftBehind
  <2>2. 3 \in 1..6 /\ "failed" \in {"completed", "failed"} /\ (3 = 6 => "failed" = "failed")
    OBVIOUS
  <2> QED BY <1>1, <1>2, <2>1, <2>2, FailStep
<1>3. CASE container' = "filling" /\ pc' = "materialize" /\ UNCHANGED <<outcomes, progress, args>>
  <2>1. TypeInv'
    BY <1>1, <1>3 DEF PipelineInv, TypeInv, inputs
  <2>2. FlowInv'
    BY <1>1, <1>3 DEF FlowInv, Filling
  <2>3. ContainerInv' /\ SpendInv' /\ RunsInv'
    BY <1>1, <1>3 DEF PipelineInv, ContainerInv, SpendInv, RunsInv, inputs
  <2>4. ArgsInv'
    BY <1>1, <1>3 DEF PipelineInv, ArgsInv
  <2>5. RecordInv'
    <3>1. /\ Recordings[pc'] = 2 /\ Announcements[pc'] = 3 /\ Recordings[pc] = 2 /\ Announcements[pc] = 3
      BY <1>1, <1>3 DEF Recordings, Announcements
    <3>2. Len(outcomes) = 2 /\ Listed(outcomes, progress, 3)
      BY <1>1, <3>1 DEF PipelineInv, RecordInv
    <3> QED BY <1>1, <1>3, <3>1, <3>2 DEF RecordInv, Recordings, Announcements
  <2> QED BY <2>1, <2>2, <2>3, <2>4, <2>5 DEF PipelineInv
<1> QED BY <1>2, <1>3 DEF MakeContainer

LEMMA MaterializeStep ==
  ASSUME PipelineInv, Materialize
  PROVE  PipelineInv'
<1>1. /\ pc = "materialize"
      /\ UNCHANGED <<inputs, runs, gathered, spent, stopped, report, ending>>
      /\ StageOrder[3] = "prepare-review-worktree" /\ StageOrder[4] = "gather-context"
      /\ pc \in Filling \ {"complete", "verify"} /\ Recordings[pc] = 3 - 1
  BY StagesAre DEF Materialize, review, Filling, Recordings
<1>2. CASE Fails("prepare-review-worktree", Failure) /\ container' = None
  <2>1. EndsAt(3, "failed") /\ args'.allow = FALSE /\ args'.detail /\ pc' = "complete"
    BY <1>1, <1>2, FailureIs DEF Fails, EndsAt
  <2>2. 3 \in 1..6 /\ "failed" \in {"completed", "failed"} /\ (3 = 6 => "failed" = "failed")
    OBVIOUS
  <2> QED BY <1>1, <1>2, <2>1, <2>2, FailStep
<1>3. CASE /\ container' = "frozen" /\ Completes("prepare-review-worktree", "gather-context")
           /\ pc' = "gather" /\ UNCHANGED args
  <2>1. GoesOnAt(3, "completed")
    BY <1>1, <1>3 DEF Completes, GoesOnAt
  <2>2. pc' \in Filling \ {"complete"} /\ Recordings[pc'] = 3
    BY <1>3 DEF Filling, Recordings
  <2>3. /\ outcomes' \in Seq(Outcome) /\ progress' \in Seq(Told)
        /\ FlowInv' /\ ArgsInv' /\ RecordInv'
    <3>1. 3 \in 1..5 /\ "completed" \in {"completed", "failed"}
      OBVIOUS
    <3> QED BY <1>1, <1>3, <2>1, <2>2, <3>1, GoOnStep
  <2>4. TypeInv'
    BY <1>1, <2>3 DEF PipelineInv, TypeInv, inputs
  <2>5. ContainerInv' /\ SpendInv' /\ RunsInv'
    BY <1>1, <1>3 DEF PipelineInv, ContainerInv, SpendInv, RunsInv, inputs
  <2> QED BY <2>3, <2>4, <2>5 DEF PipelineInv
<1> QED BY <1>2, <1>3 DEF Materialize

LEMMA GatherStep ==
  ASSUME PipelineInv, Gather
  PROVE  PipelineInv'
<1>1. /\ pc = "gather" /\ container = "frozen" /\ container' = "frozen"
      /\ UNCHANGED <<inputs, runs, spent, stopped, report, ending>>
      /\ StageOrder[4] = "gather-context" /\ StageOrder[5] = "run-dimensions"
      /\ pc \in Filling \ {"complete", "verify"} /\ Recordings[pc] = 4 - 1
  BY StagesAre DEF Gather, PipelineInv, ContainerInv, Filling, Recordings
<1>2. 4 \in 1..6 /\ 4 \in 1..5 /\ {"completed", "failed"} \subseteq {"completed", "failed"}
      /\ (4 = 6 => "failed" = "failed") /\ (4 = 6 => "completed" = "failed")
  OBVIOUS
<1>3. CASE Fails("gather-context", Failure)
  <2>1. EndsAt(4, "failed") /\ args'.allow = FALSE /\ args'.detail /\ pc' = "complete"
    BY <1>1, <1>3, FailureIs DEF Fails, EndsAt
  <2> QED BY <1>1, <1>2, <2>1, FailStep
<1>4. ASSUME NEW tooLarge \in BOOLEAN,
             Gathers(GatherContext(world.target, world.tree, request.context, tooLarge))
      PROVE  PipelineInv'
  <2> DEFINE context == GatherContext(world.target, world.tree, request.context, tooLarge)
  <2>1. CASE ~context.coverage.complete
    <3>1. EndsAt(4, "completed") /\ args' = [Failure EXCEPT !.coverage = context.coverage]
          /\ pc' = "complete"
      BY <1>1, <1>4, <2>1 DEF Gathers, EndsAt
    <3>2. args'.allow = FALSE /\ args'.detail
      BY <3>1, FailureIs
    <3> QED BY <1>1, <1>2, <3>1, <3>2, FailStep
  <2>2. CASE context.coverage.complete
    <3>1. Completes("gather-context", "run-dimensions") /\ pc' = "plan" /\ UNCHANGED args
          /\ gathered' = context
      BY <1>4, <2>2 DEF Gathers
    <3>2. GoesOnAt(4, "completed")
      <4>1. StageOrder[4 + 1] = "run-dimensions" /\ StageOrder[4] = "gather-context"
        BY StagesAre
      <4>2. Completes("gather-context", "run-dimensions") = Completes(StageOrder[4], StageOrder[4 + 1])
        BY <4>1
      <4> QED BY <3>1, <4>1, Zenon DEF Completes, GoesOnAt
    <3>3. pc' \in Filling \ {"complete"} /\ Recordings[pc'] = 4
      BY <3>1 DEF Filling, Recordings
    <3>4. /\ outcomes' \in Seq(Outcome) /\ progress' \in Seq(Told)
          /\ FlowInv' /\ ArgsInv' /\ RecordInv'
      BY <1>1, <1>2, <3>1, <3>2, <3>3, GoOnStep
    <3>5. TypeInv'
      BY <1>1, <3>4 DEF PipelineInv, TypeInv, inputs
    <3>6. ContainerInv' /\ SpendInv'
      BY <1>1, <3>1 DEF PipelineInv, ContainerInv, SpendInv, inputs
    <3>7. ContextKnown'
      BY <1>1, <2>2, <3>1 DEF ContextKnown, inputs
    <3>8. RunsInv'
      BY <1>1, <3>1, <3>7 DEF PipelineInv, RunsInv, inputs
    <3> QED BY <3>4, <3>5, <3>6, <3>8 DEF PipelineInv
  <2> QED BY <2>1, <2>2
<1> QED BY <1>3, <1>4 DEF Gather

LEMMA ContextStays ==
  ASSUME UNCHANGED <<inputs, gathered>>
  PROVE  ContextKnown' <=> ContextKnown
BY DEF ContextKnown, inputs

LEMMA PlanStep ==
  ASSUME PipelineInv, PlanCalls
  PROVE  PipelineInv'
<1>1. /\ pc = "plan" /\ container = "frozen" /\ container' = "frozen"
      /\ UNCHANGED <<inputs, runs, gathered, spent, stopped, report, ending>>
      /\ StageOrder[5] = "run-dimensions"
      /\ pc \in Filling \ {"complete", "verify"} /\ Recordings[pc] = 5 - 1
      /\ ending = "running" /\ report = NoReport
  BY StagesAre DEF PlanCalls, PipelineInv, ContainerInv, FlowInv, review, Filling, Recordings
<1>2. CASE Fails("run-dimensions", [Failure EXCEPT !.coverage = gathered.coverage])
  <2>1. EndsAt(5, "failed") /\ args'.allow = FALSE /\ args'.detail /\ pc' = "complete"
    BY <1>1, <1>2, FailureIs DEF Fails, EndsAt
  <2>2. 5 \in 1..6 /\ "failed" \in {"completed", "failed"} /\ (5 = 6 => "failed" = "failed")
    OBVIOUS
  <2> QED BY <1>1, <2>1, <2>2, FailStep
<1>3. CASE pc' = "dimensions" /\ UNCHANGED <<outcomes, progress, args>>
  <2>1. TypeInv'
    BY <1>1, <1>3 DEF PipelineInv, TypeInv, inputs
  <2>2. FlowInv'
    BY <1>1, <1>3 DEF FlowInv, Filling
  <2>3. ContainerInv' /\ SpendInv'
    BY <1>1, <1>3 DEF PipelineInv, ContainerInv, SpendInv, inputs
  <2>4. RunsInv'
    <3>1. ContextKnown'
      BY <1>1, ContextStays DEF PipelineInv, RunsInv
    <3> QED BY <1>1, <1>3, <3>1 DEF PipelineInv, RunsInv, inputs
  <2>5. ArgsInv'
    BY <1>1, <1>3 DEF PipelineInv, ArgsInv
  <2>6. RecordInv'
    <3>1. /\ Recordings[pc'] = 4 /\ Announcements[pc'] = 5 /\ Recordings[pc] = 4 /\ Announcements[pc] = 5
      BY <1>1, <1>3 DEF Recordings, Announcements
    <3>2. Len(outcomes) = 4 /\ Listed(outcomes, progress, 5)
      BY <1>1, <3>1 DEF PipelineInv, RecordInv
    <3> QED BY <1>1, <1>3, <3>1, <3>2 DEF RecordInv, Recordings, Announcements
  <2> QED BY <2>1, <2>2, <2>3, <2>4, <2>5, <2>6 DEF PipelineInv
<1> QED BY <1>2, <1>3 DEF PlanCalls

\* While the dimensions run only they are announced.
LEMMA DimensionStep ==
  ASSUME NEW d \in Dimensions, NEW first \in Statuses \cup {"started"}
  PROVE  /\ PipelineInv
         /\ pc \in {"dimensions", "calling"} /\ pc' \in {"dimensions", "calling"}
         /\ \/ progress' = Append(progress, Dimension(d, first))
            \/ progress' = Append(Append(progress, Dimension(d, first)), Dimension(d, "not-started"))
         /\ UNCHANGED <<inputs, container, outcomes, gathered, args, report, ending>>
         => /\ progress' \in Seq(Told)
            /\ FlowInv' /\ ContainerInv' /\ ArgsInv' /\ RecordInv' /\ ContextKnown'
<1>0. HAVE /\ PipelineInv
           /\ pc \in {"dimensions", "calling"} /\ pc' \in {"dimensions", "calling"}
           /\ \/ progress' = Append(progress, Dimension(d, first))
              \/ progress' = Append(Append(progress, Dimension(d, first)), Dimension(d, "not-started"))
           /\ UNCHANGED <<inputs, container, outcomes, gathered, args, report, ending>>
<1>1. ending = "running" /\ report = NoReport /\ container = "frozen"
  BY <1>0 DEF PipelineInv, FlowInv, ContainerInv, Filling
<1>2. outcomes \in Seq(Outcome) /\ progress \in Seq(Told) /\ Len(outcomes) = 4 /\ Listed(outcomes, progress, 5)
  <2>1. Recordings[pc] = 4 /\ Announcements[pc] = 5
    BY <1>0 DEF Recordings, Announcements
  <2> QED BY <1>0, <1>1, <2>1 DEF PipelineInv, TypeInv, RecordInv
<1>3. progress' \in Seq(Told) /\ Listed(outcomes, progress', 5)
  <2> DEFINE u == Append(progress, Dimension(d, first))
  <2>1. u \in Seq(Told) /\ Listed(outcomes, u, 5)
    BY <1>2, DimensionToldIs
  <2> HIDE DEF u
  <2> DEFINE w == Append(u, Dimension(d, "not-started"))
  <2>2. w \in Seq(Told) /\ Listed(outcomes, w, 5)
    <3>1. "not-started" \in Statuses \cup {"started"}
      BY DEF Statuses
    <3> QED BY <2>1, <3>1, DimensionToldIs
  <2> HIDE DEF w
  <2>3. progress' = u \/ progress' = w
    BY <1>0 DEF u, w
  <2> QED BY <2>1, <2>2, <2>3
<1>4. FlowInv'
  BY <1>0, <1>1 DEF FlowInv, Filling
<1>5. ContainerInv'
  BY <1>0, <1>1 DEF ContainerInv
<1>6. ArgsInv'
  BY <1>0, <1>1 DEF PipelineInv, ArgsInv
<1>7. RecordInv'
  <2>1. Recordings[pc'] = 4 /\ Announcements[pc'] = 5
    BY <1>0 DEF Recordings, Announcements
  <2> QED BY <1>0, <1>2, <1>3, <2>1 DEF RecordInv, Recordings, Announcements
<1>8. ContextKnown'
  BY <1>0, ContextStays DEF PipelineInv, RunsInv
<1> QED BY <1>3, <1>4, <1>5, <1>6, <1>7, <1>8

\* While a dimension is left, the next one is a dimension.
LEMMA NextIsADimension ==
  ASSUME PipelineAssumption, PipelineInv, Len(runs) < Len(request.dimensions)
  PROVE  NextDimension \in Dimensions
<1>1. runs \in Seq(Run) /\ request \in Requests
  BY DEF PipelineInv, TypeInv
<1>2. request.dimensions \in Seq(Dimensions)
  BY <1>1 DEF PipelineAssumption
<1>3. Len(runs) + 1 \in 1..Len(request.dimensions)
  BY <1>1, <1>2
<1> QED BY <1>2, <1>3 DEF NextDimension

LEMMA StartStep ==
  ASSUME PipelineAssumption, PipelineInv, StartDimension
  PROVE  PipelineInv'
<1> DEFINE d == NextDimension
           stops == stopped \/ StopsBefore(request, spent)
<1>1. /\ pc = "dimensions" /\ Len(runs) < Len(request.dimensions)
      /\ UNCHANGED <<inputs, container, outcomes, gathered, spent, args, report, ending>>
  BY DEF StartDimension
<1>2. /\ runs \in Seq(Run) /\ Len(runs) \in Nat /\ request \in Requests
      /\ request.dimensions \in Seq(Dimensions) /\ d \in Dimensions
  <2>1. runs \in Seq(Run) /\ request \in Requests
    BY DEF PipelineInv, TypeInv
  <2>2. request.dimensions \in Seq(Dimensions)
    BY <2>1 DEF PipelineAssumption
  <2>3. Len(runs) \in Nat
    BY <2>1
  <2> QED BY <1>1, <2>1, <2>2, <2>3, NextIsADimension
<1>3. d = request.dimensions[Len(runs) + 1]
  BY DEF NextDimension
<1> HIDE DEF d
<1>4. CASE stops
  <2> DEFINE e == [dimension |-> d, status |-> "not-started", findings |-> {}]
  <2>1. /\ runs' = Append(runs, e) /\ stopped' = TRUE /\ pc' = "dimensions"
        /\ progress' = Append(Append(progress, Dimension(d, "started")), Dimension(d, "not-started"))
    BY <1>1, <1>4 DEF StartDimension, d
  <2>2. progress' \in Seq(Told) /\ FlowInv' /\ ContainerInv' /\ ArgsInv' /\ RecordInv' /\ ContextKnown'
    <3>1. "started" \in Statuses \cup {"started"}
      OBVIOUS
    <3> QED BY <1>1, <1>2, <2>1, <3>1, DimensionStep
  <2>3. e \in Run /\ e.dimension = d
    BY <1>2 DEF Run, Statuses
  <2> HIDE DEF e
  <2>4. /\ runs' \in Seq(Run) /\ Len(runs') = Len(runs) + 1 /\ runs'[Len(runs) + 1] = e
        /\ \A i \in 1..Len(runs) : runs'[i] = runs[i]
    BY <1>2, <2>1, <2>3, AppendIs
  <2>5. TypeInv'
    BY <1>1, <2>1, <2>2, <2>4 DEF PipelineInv, TypeInv, inputs
  <2>6. SpendInv'
    BY <2>1 DEF SpendInv
  <2>7. RunsInv'
    <3>1. \A i \in 1..Len(runs) : runs[i].dimension = request.dimensions[i]
      BY DEF PipelineInv, RunsInv
    <3>2. request' = request
      BY <1>1 DEF inputs
    <3>3. \A i \in 1..(Len(runs) + 1) : runs'[i].dimension = request.dimensions[i]
      BY <1>2, <1>3, <2>3, <2>4, <3>1
    <3>4. Len(runs') <= Len(request.dimensions)
      <4>1. Len(request.dimensions) \in Nat
        BY <1>2
      <4> QED BY <1>1, <1>2, <2>4, <4>1
    <3> QED BY <2>1, <2>2, <2>4, <3>2, <3>3, <3>4 DEF RunsInv
  <2> QED BY <2>2, <2>5, <2>6, <2>7 DEF PipelineInv
<1>5. CASE ~stops
  <2>1. pc' = "calling" /\ progress' = Append(progress, Dimension(d, "started")) /\ UNCHANGED <<runs, stopped>>
    BY <1>5 DEF StartDimension, d
  <2>2. progress' \in Seq(Told) /\ FlowInv' /\ ContainerInv' /\ ArgsInv' /\ RecordInv' /\ ContextKnown'
    <3>1. "started" \in Statuses \cup {"started"}
      OBVIOUS
    <3> QED BY <1>1, <1>2, <2>1, <3>1, DimensionStep
  <2>3. TypeInv'
    BY <1>1, <2>1, <2>2 DEF PipelineInv, TypeInv, inputs
  <2>4. SpendInv'
    BY <1>1, <1>5, <2>1 DEF PipelineInv, SpendInv, inputs
  <2>5. RunsInv'
    BY <1>1, <2>1, <2>2 DEF PipelineInv, RunsInv, inputs
  <2> QED BY <2>2, <2>3, <2>4, <2>5 DEF PipelineInv
<1> QED BY <1>4, <1>5

LEMMA AnswerStep ==
  ASSUME PipelineAssumption, PipelineInv, AnswerCall
  PROVE  PipelineInv'
<1>1. /\ pc = "calling" /\ pc' = "dimensions" /\ ~stopped
      /\ Len(runs) < Len(request.dimensions)
      /\ UNCHANGED <<inputs, container, outcomes, gathered, args, report, ending>>
  BY DEF AnswerCall, PipelineInv, SpendInv, RunsInv
<1> DEFINE d == NextDimension
<1>2. /\ runs \in Seq(Run) /\ Len(runs) \in Nat /\ request \in Requests
      /\ request.dimensions \in Seq(Dimensions) /\ d \in Dimensions
      /\ d = request.dimensions[Len(runs) + 1]
  <2>1. runs \in Seq(Run) /\ request \in Requests
    BY DEF PipelineInv, TypeInv
  <2>2. request.dimensions \in Seq(Dimensions)
    BY <2>1 DEF PipelineAssumption
  <2>3. Len(runs) \in Nat
    BY <2>1
  <2>4. Len(runs) + 1 \in 1..Len(request.dimensions)
    BY <1>1, <2>2, <2>3
  <2>5. request.dimensions[Len(runs) + 1] \in Dimensions
    BY <2>2, <2>4
  <2> QED BY <2>1, <2>2, <2>3, <2>5 DEF NextDimension
<1>3. PICK answer \in Answers : Answered(answer)
  BY DEF AnswerCall
<1> DEFINE cost == UsagePrice(answer.input, answer.output, request)
           status == IF answer.kind = "findings" THEN "completed" ELSE "failed"
           found == IF status = "completed" THEN Drafts(answer, d) ELSE {}
           e == [dimension |-> d, status |-> status, findings |-> found]
           after == Metered(cost)
<1>4. /\ spent' = after /\ runs' = Append(runs, e)
      /\ stopped' = (cost # Unknown /\ StopsAfter(request, after))
      /\ progress' = Append(progress, Dimension(d, status))
  BY <1>3 DEF Answered
<1>5. cost \in Nat \cup {Unknown}
  BY <1>2, CostIsNat
<1>6. status \in Statuses \cup {"started"} /\ status \in Statuses
  BY DEF Statuses
<1>7. found \subseteq AllDrafts
  BY <1>2 DEF AllDrafts
<1> HIDE DEF cost, status, found, d
<1>8. e \in Run /\ e.dimension = d
  BY <1>2, <1>6, <1>7 DEF Run
<1>9. progress' \in Seq(Told) /\ FlowInv' /\ ContainerInv' /\ ArgsInv' /\ RecordInv' /\ ContextKnown'
  BY <1>1, <1>2, <1>4, <1>6, DimensionStep
<1> HIDE DEF e
<1>10. /\ runs' \in Seq(Run) /\ Len(runs') = Len(runs) + 1 /\ runs'[Len(runs) + 1] = e
       /\ \A i \in 1..Len(runs) : runs'[i] = runs[i]
  BY <1>2, <1>4, <1>8, AppendIs
<1>11. spent' \in Nat /\ stopped' \in BOOLEAN
  <2>1. spent \in Nat
    BY DEF PipelineInv, TypeInv
  <2> QED BY <1>4, <1>5, <2>1 DEF Metered, Unknown
<1>12. TypeInv'
  BY <1>1, <1>9, <1>10, <1>11 DEF PipelineInv, TypeInv, inputs
<1>13. SpendInv'
  <2>1. request.budget \in Nat \cup {Unknown} /\ request' = request
    BY <1>1, <1>2 DEF PipelineAssumption, Measures, inputs
  <2> SUFFICES ASSUME request.budget # Unknown, spent' > 0, ~stopped'
               PROVE  spent' < request.budget
    BY <1>1, <2>1 DEF SpendInv
  <2>2. CASE cost = Unknown
    <3>1. spent' = spent
      BY <1>4, <2>2 DEF Metered
    <3> QED BY <1>1, <3>1 DEF PipelineInv, SpendInv
  <2>3. CASE cost # Unknown
    <3>1. ~(after >= request.budget)
      BY <1>4, <2>3 DEF StopsAfter
    <3>2. spent' = after
      BY <1>4
    <3> HIDE DEF after
    <3> QED BY <1>11, <2>1, <3>1, <3>2 DEF Unknown
  <2> QED BY <2>2, <2>3
<1>14. RunsInv'
  <2>1. \A i \in 1..Len(runs) : runs[i].dimension = request.dimensions[i]
    BY DEF PipelineInv, RunsInv
  <2>2. request' = request
    BY <1>1 DEF inputs
  <2>3. \A i \in 1..(Len(runs) + 1) : runs'[i].dimension = request.dimensions[i]
    <3>1. ASSUME NEW i \in 1..Len(runs) PROVE runs'[i].dimension = request.dimensions[i]
      BY <1>10, <2>1
    <3>2. runs'[Len(runs) + 1].dimension = request.dimensions[Len(runs) + 1]
      BY <1>2, <1>8, <1>10
    <3>3. \A i \in 1..(Len(runs) + 1) : i \in 1..Len(runs) \/ i = Len(runs) + 1
      BY <1>2
    <3> QED BY <3>1, <3>2, <3>3
  <2>4. Len(runs') <= Len(request.dimensions)
    <3>1. Len(request.dimensions) \in Nat
      BY <1>2
    <3> QED BY <1>1, <1>2, <1>10, <3>1
  <2> QED BY <1>1, <1>9, <1>10, <2>2, <2>3, <2>4 DEF RunsInv
<1> QED BY <1>9, <1>12, <1>13, <1>14 DEF PipelineInv

LEMMA EndDimensionsStep ==
  ASSUME PipelineInv, EndDimensions
  PROVE  PipelineInv'
<1> DEFINE status == IF DimensionsComplete THEN "completed" ELSE "failed"
<1>1. /\ pc = "dimensions" /\ pc' = "verify" /\ Len(runs) = Len(request.dimensions)
      /\ UNCHANGED <<inputs, container, runs, gathered, spent, stopped, args, report, ending>>
      /\ status \in {"completed", "failed"}
  BY DEF EndDimensions, review
<1>2. GoesOnAt(5, status)
  <2>1. StageOrder[5 + 1] = "verify-dedup" /\ StageOrder[5] = "run-dimensions"
    BY StagesAre
  <2>2. /\ outcomes' = Append(outcomes, <<"run-dimensions", status>>)
        /\ progress' = progress \o <<Stage("run-dimensions", status), Stage("verify-dedup", "started")>>
    BY DEF EndDimensions
  <2> HIDE DEF status
  <2> QED BY <2>1, <2>2 DEF GoesOnAt
<1> HIDE DEF status
<1>3. /\ outcomes' \in Seq(Outcome) /\ progress' \in Seq(Told)
      /\ FlowInv' /\ ArgsInv' /\ RecordInv'
  <2>1. /\ pc \in Filling \ {"complete", "verify"} /\ Recordings[pc] = 5 - 1
        /\ pc' \in Filling \ {"complete"} /\ Recordings[pc'] = 5 /\ 5 \in 1..5
    BY <1>1 DEF Filling, Recordings
  <2> QED BY <1>1, <1>2, <2>1, GoOnStep
<1>4. TypeInv'
  BY <1>1, <1>3 DEF PipelineInv, TypeInv, inputs
<1>5. ContainerInv' /\ SpendInv'
  BY <1>1 DEF PipelineInv, ContainerInv, SpendInv, inputs
<1>6. RunsInv'
  <2>1. ContextKnown'
    BY <1>1, ContextStays DEF PipelineInv, RunsInv
  <2> QED BY <1>1, <2>1 DEF PipelineInv, RunsInv, inputs
<1> QED BY <1>3, <1>4, <1>5, <1>6 DEF PipelineInv

LEMMA VerifyStep ==
  ASSUME PipelineInv, Verify
  PROVE  PipelineInv'
<1>1. /\ pc = "verify" /\ container = "frozen" /\ container' = "frozen"
      /\ UNCHANGED <<inputs, runs, gathered, spent, stopped, report, ending>>
      /\ StageOrder[6] = "verify-dedup"
      /\ pc \in Filling \ {"complete"} /\ Recordings[pc] = 6 - 1
      /\ ending = "running" /\ report = NoReport
      /\ Len(runs) = Len(request.dimensions) /\ ContextKnown
  BY StagesAre DEF Verify, PipelineInv, ContainerInv, FlowInv, RunsInv, review, Filling, Recordings
<1>2. CASE Fails("verify-dedup", [Failure EXCEPT !.coverage = gathered.coverage, !.dimensions = runs])
  <2>1. EndsAt(6, "failed") /\ args'.allow = FALSE /\ args'.detail /\ pc' = "complete"
    BY <1>1, <1>2, FailureIs DEF Fails, EndsAt
  <2>2. 6 \in 1..6 /\ "failed" \in {"completed", "failed"} /\ (6 = 6 => "failed" = "failed")
    OBVIOUS
  <2> QED BY <1>1, <2>1, <2>2, FailStep
<1>3. CASE /\ args' = Verified(VerifyAndDeduplicate(AllFound, gathered.items, world.tree))
           /\ outcomes' = Append(outcomes, <<"verify-dedup", "completed">>)
           /\ progress' = Append(progress, Stage("verify-dedup", "completed"))
           /\ pc' = "complete"
  <2>1. /\ outcomes \in Seq(Outcome) /\ progress \in Seq(Told)
        /\ Len(outcomes) = 6 - 1 /\ Listed(outcomes, progress, 6)
    <3>1. Recordings[pc] + 1 = 6 /\ Recordings[pc] = 6 - 1
      BY <1>1
    <3> QED BY <1>1, <3>1, BeforeEnd
  <2> DEFINE r == Append(outcomes, <<StageOrder[6], "completed">>)
             t == Append(progress, Stage(StageOrder[6], "completed"))
  <2>2. r \in Seq(Outcome) /\ t \in Seq(Told) /\ Len(r) = 6 /\ r[6][2] = "completed" /\ Listed(r, t, 6)
    <3>1. 6 \in 1..9 /\ "completed" \in {"completed", "failed"}
      OBVIOUS
    <3> QED BY <2>1, <3>1, RecordsNext
  <2>3. outcomes' = r /\ progress' = t
    BY <1>1, <1>3
  <2> HIDE DEF r, t
  <2>4. TypeInv'
    BY <1>1, <2>2, <2>3 DEF PipelineInv, TypeInv, inputs
  <2>5. FlowInv'
    BY <1>1, <1>3 DEF FlowInv, Filling
  <2>6. ContainerInv' /\ SpendInv' /\ RunsInv'
    BY <1>1, <1>3 DEF PipelineInv, ContainerInv, SpendInv, RunsInv, inputs
  <2>7. args'.allow = TRUE
    BY <1>3 DEF Verified
  <2>8. ArgsInv'
    <3>1. ContextKnown' /\ Len(runs') = Len(request'.dimensions)
      BY <1>1, ContextStays DEF inputs
    <3>2. args' = Verified(VerifyAndDeduplicate(AllFound, gathered.items, world.tree))'
      BY <1>1, <1>3 DEF Verified, AllFound, DimensionsComplete, inputs
    <3> QED BY <2>7, <3>1, <3>2 DEF ArgsInv
  <2>9. RecordInv'
    <3>1. Recordings[pc'] = 6 /\ Announcements[pc'] = 6
      BY <1>3 DEF Recordings, Announcements
    <3> QED BY <2>2, <2>3, <2>7, <3>1 DEF RecordInv, Recordings, Announcements
  <2> QED BY <2>4, <2>5, <2>6, <2>8, <2>9 DEF PipelineInv
<1> QED BY <1>2, <1>3 DEF Verify, AllFound

Gates == {"error", "blocked", "passed-with-bypass", "passed"}

LEMMA ReportIs ==
  ASSUME NEW a
  PROVE  ReportOf(a).gate \in Gates /\ ReportOf(a) # NoReport
<1>1. \A o, c, f, p : EvaluateGate(o, c, f, p) \in Gates
  BY DEF EvaluateGate, Gates
<1>2. ReportOf(a).gate \in Gates
  BY <1>1 DEF ReportOf, GateOf, Gates
<1>3. NoReport.gate \notin Gates
  BY DEF NoReport, Gates, None
<1> QED BY <1>2, <1>3

LEMMA CompleteStep ==
  ASSUME PipelineInv, CompleteReport
  PROVE  PipelineInv'
<1>1. /\ pc = "complete" /\ pc' = "cleanup" /\ report' = ReportOf(args)
      /\ UNCHANGED <<inputs, container, runs, gathered, spent, stopped, args, ending>>
      /\ ending = "running"
  BY DEF CompleteReport, review, PipelineInv, FlowInv, Filling
<1>2. outcomes \in Seq(Outcome) /\ progress \in Seq(Told) /\ Len(outcomes) = 6 /\ Listed(outcomes, progress, 6)
      /\ (outcomes[6][2] = "completed" <=> args.allow)
  <2>1. Recordings[pc] = 6 /\ Announcements[pc] = 6
    BY <1>1 DEF Recordings, Announcements
  <2> QED BY <1>1, <2>1 DEF PipelineInv, TypeInv, RecordInv
<1> DEFINE r == outcomes \o <<<<"check-completeness", "completed">>,
                              <<"evaluate-gate", "completed">>, <<"publish", "completed">>>>
           t == progress \o <<Stage("check-completeness", "started"),
                              Stage("check-completeness", "completed"),
                              Stage("evaluate-gate", "started"), Stage("evaluate-gate", "completed"),
                              Stage("publish", "started"), Stage("publish", "completed")>>
<1>3. r \in Seq(Outcome) /\ t \in Seq(Told) /\ Len(r) = 9 /\ r[6] = outcomes[6] /\ Listed(r, t, 9)
  BY <1>2, CompletesReport
<1>4. outcomes' = r /\ progress' = t
  BY DEF CompleteReport
<1> HIDE DEF r, t
<1>5. TypeInv'
  BY <1>1, <1>3, <1>4 DEF PipelineInv, TypeInv, inputs
<1>6. FlowInv'
  <2>1. report' # NoReport
    BY <1>1, ReportIs
  <2>2. ReportOf(args) = ReportOf(args)'
    BY <1>1 DEF ReportOf, inputs
  <2> QED BY <1>1, <2>1, <2>2 DEF FlowInv, Filling
<1>7. ContainerInv' /\ SpendInv'
  BY <1>1 DEF PipelineInv, ContainerInv, LeftBehind, SpendInv, inputs
<1>8. RunsInv'
  BY <1>1 DEF PipelineInv, RunsInv, inputs
<1>9. ArgsInv'
  <2>1. CASE args.allow
    <3>1. /\ ContextKnown /\ Len(runs) = Len(request.dimensions)
          /\ args = Verified(VerifyAndDeduplicate(AllFound, gathered.items, world.tree))
      BY <1>1, <2>1 DEF PipelineInv, ArgsInv
    <3>2. ContextKnown' /\ Len(runs') = Len(request'.dimensions)
      BY <1>1, <3>1, ContextStays DEF inputs
    <3>3. args' = Verified(VerifyAndDeduplicate(AllFound, gathered.items, world.tree))'
      BY <1>1, <3>1 DEF Verified, AllFound, DimensionsComplete, inputs
    <3>4. args'.allow \in BOOLEAN /\ args'.allow
      BY <1>1, <2>1 DEF PipelineInv, ArgsInv
    <3> QED BY <3>2, <3>3, <3>4 DEF ArgsInv
  <2>2. CASE ~args.allow
    BY <1>1, <2>2 DEF PipelineInv, ArgsInv
  <2> QED BY <2>1, <2>2
<1>10. RecordInv'
  <2>1. Recordings[pc'] = 9 /\ Announcements[pc'] = 9
    BY <1>1 DEF Recordings, Announcements
  <2> QED BY <1>1, <1>2, <1>3, <1>4, <2>1 DEF RecordInv, Recordings, Announcements
<1> QED BY <1>5, <1>6, <1>7, <1>8, <1>9, <1>10 DEF PipelineInv

LEMMA CleanupStep ==
  ASSUME PipelineInv, Cleanup
  PROVE  PipelineInv'
<1>1. /\ pc = "cleanup" /\ pc' = "ended"
      /\ UNCHANGED <<inputs, outcomes, progress, runs, gathered, spent, stopped, args, report>>
      /\ ending \in {"running", "raised", "cancelled"}
  BY DEF Cleanup, review, PipelineInv, FlowInv
<1>2. \/ container' = Removed /\ ending' = (IF ending = "running" THEN "report" ELSE ending)
      \/ container = "frozen" /\ container' = "unremovable" /\ ending' = "raised"
  BY DEF Cleanup
<1>3. TypeInv'
  BY <1>1 DEF PipelineInv, TypeInv, inputs
<1>4. FlowInv'
  <2>1. ReportOf(args) = ReportOf(args)'
    BY <1>1 DEF ReportOf, inputs
  <2>2. report # NoReport => report = ReportOf(args)
    BY DEF PipelineInv, FlowInv
  <2>3. ending = "running" => report # NoReport
    BY <1>1 DEF PipelineInv, FlowInv, Filling
  <2>4. ending' \in {"report", "raised", "cancelled"} /\ (ending' = "report" => ending = "running")
    BY <1>1, <1>2
  <2>5. report' # NoReport => report' = ReportOf(args)'
    BY <1>1, <2>1, <2>2
  <2> QED BY <1>1, <2>3, <2>4, <2>5 DEF FlowInv, Filling
<1>5. ContainerInv'
  <2>1. \/ container \in {None, "frozen"} \/ LeftBehind
        \/ container = "unremovable" /\ ending = "raised"
        \/ container = "filling" /\ ending = "cancelled"
    BY <1>1 DEF PipelineInv, ContainerInv
  <2> QED BY <1>1, <1>2, <2>1 DEF ContainerInv, LeftBehind, Removed
<1>6. SpendInv'
  BY <1>1 DEF PipelineInv, SpendInv, inputs
<1>7. RunsInv'
  BY <1>1 DEF PipelineInv, RunsInv, inputs
<1>8. ArgsInv'
  <2>1. args.allow \in BOOLEAN
    BY DEF PipelineInv, ArgsInv
  <2>2. CASE report # NoReport /\ args.allow
    <3>1. /\ ContextKnown /\ Len(runs) = Len(request.dimensions)
          /\ args = Verified(VerifyAndDeduplicate(AllFound, gathered.items, world.tree))
      BY <2>2 DEF PipelineInv, ArgsInv
    <3>2. ContextKnown' /\ Len(runs') = Len(request'.dimensions)
      BY <1>1, <3>1, ContextStays DEF inputs
    <3>3. args' = Verified(VerifyAndDeduplicate(AllFound, gathered.items, world.tree))'
      BY <1>1, <3>1 DEF Verified, AllFound, DimensionsComplete, inputs
    <3>4. args'.allow \in BOOLEAN /\ args'.allow
      BY <1>1, <2>1, <2>2
    <3> QED BY <3>2, <3>3, <3>4 DEF ArgsInv
  <2>3. CASE report # NoReport /\ ~args.allow
    BY <1>1, <2>3 DEF PipelineInv, ArgsInv
  <2>4. CASE report = NoReport
    BY <1>1, <2>1, <2>4 DEF ArgsInv
  <2> QED BY <2>2, <2>3, <2>4
<1>9. RecordInv'
  <2>1. /\ Recordings[pc'] = 9 /\ Announcements[pc'] = 9
        /\ Recordings[pc] = 9 /\ Announcements[pc] = 9
    BY <1>1 DEF Recordings, Announcements
  <2>2. ending' \in {"running", "report"} => ending = "running"
    BY <1>1, <1>2
  <2>3. ending = "running" => /\ Len(outcomes) = 9 /\ Listed(outcomes, progress, 9)
                              /\ (outcomes[6][2] = "completed" <=> args.allow)
    BY <1>1, <2>1 DEF PipelineInv, RecordInv
  <2> QED BY <1>1, <2>1, <2>2, <2>3 DEF RecordInv, Recordings, Announcements
<1> QED BY <1>3, <1>4, <1>5, <1>6, <1>7, <1>8, <1>9 DEF PipelineInv

LEMMA RaiseStep ==
  ASSUME PipelineAssumption, PipelineInv, Raise
  PROVE  PipelineInv'
<1>1. pc \in Filling \ {"complete"} /\ Escapes("raised") /\ "raised" \in {"raised", "cancelled"}
  BY DEF Raise, EstimateRaises, Filling
<1>2. \/ container' \in {None, "frozen"} \/ LeftBehind'
      \/ container' = "unremovable"
  BY DEF Raise, EstimateRaises, Escapes, review, PipelineInv, ContainerInv, LeftBehind
<1>3. progress' \in Seq(Told)
  <2>1. progress \in Seq(Told)
    BY DEF PipelineInv, TypeInv
  <2>2. CASE EstimateRaises
    <3>1. Dimension(NextDimension, "started") \in Told /\ Dimension(NextDimension, "failed") \in Told
      BY <2>2, NextIsADimension DEF EstimateRaises, Dimension, Told, Statuses
    <3> QED BY <2>1, <2>2, <3>1 DEF EstimateRaises
  <2>3. CASE UNCHANGED progress
    BY <2>1, <2>3
  <2> QED BY <2>2, <2>3 DEF Raise
<1> QED BY <1>1, <1>2, <1>3, EscapeStep

LEMMA CancelStep ==
  ASSUME PipelineInv, Cancel
  PROVE  PipelineInv'
<1>1. pc \in Filling \ {"complete"} /\ Escapes("cancelled") /\ "cancelled" \in {"raised", "cancelled"}
  BY DEF Cancel, Filling
<1>2. container' \in {None, "frozen"} \/ container' = "filling"
  BY DEF Cancel, PipelineInv, ContainerInv
<1>3. progress' \in Seq(Told)
  BY DEF Cancel, PipelineInv, TypeInv
<1> QED BY <1>1, <1>2, <1>3, EscapeStep

LEMMA StutterStep ==
  ASSUME PipelineInv, UNCHANGED vars
  PROVE  PipelineInv'
<1>1. /\ UNCHANGED <<request, world, pc, container, outcomes, progress, gathered, runs, spent,
                     stopped, args, report, ending>>
      /\ UNCHANGED <<inputs, gathered>>
  BY DEF vars, inputs
<1>2. TypeInv' /\ ContainerInv' /\ SpendInv'
  BY <1>1 DEF PipelineInv, TypeInv, ContainerInv, LeftBehind, SpendInv
<1>3. FlowInv'
  <2>1. ReportOf(args) = ReportOf(args)'
    BY <1>1 DEF ReportOf
  <2> QED BY <1>1, <2>1 DEF PipelineInv, FlowInv
<1>4. RunsInv'
  <2>1. ContextKnown' <=> ContextKnown
    BY <1>1, ContextStays
  <2> QED BY <1>1, <2>1 DEF PipelineInv, RunsInv
<1>5. ArgsInv'
  <2>1. ContextKnown' <=> ContextKnown
    BY <1>1, ContextStays
  <2>2. Verified(VerifyAndDeduplicate(AllFound, gathered.items, world.tree))'
          = Verified(VerifyAndDeduplicate(AllFound, gathered.items, world.tree))
    BY <1>1 DEF Verified, AllFound, DimensionsComplete
  <2>3. args.allow \in BOOLEAN
    BY DEF PipelineInv, ArgsInv
  <2>4. CASE (pc = "complete" \/ report # NoReport) /\ args.allow
    BY <1>1, <2>1, <2>2, <2>3, <2>4 DEF PipelineInv, ArgsInv
  <2>5. CASE (pc = "complete" \/ report # NoReport) /\ ~args.allow
    BY <1>1, <2>3, <2>5 DEF PipelineInv, ArgsInv
  <2>6. CASE ~(pc = "complete" \/ report # NoReport)
    BY <1>1, <2>3, <2>6 DEF ArgsInv
  <2> QED BY <2>4, <2>5, <2>6
<1>6. RecordInv'
  BY <1>1 DEF PipelineInv, RecordInv, Recordings, Announcements
<1> QED BY <1>2, <1>3, <1>4, <1>5, <1>6 DEF PipelineInv

LEMMA InvNext ==
  ASSUME PipelineAssumption, PipelineInv, [Next]_vars
  PROVE  PipelineInv'
<1>1. \/ Construct \/ MakeContainer \/ Materialize \/ Gather
      \/ PlanCalls \/ StartDimension \/ AnswerCall \/ EndDimensions
      \/ Verify \/ CompleteReport \/ Cleanup \/ Raise \/ Cancel \/ UNCHANGED vars
  BY DEF Next
<1> QED BY <1>1, ConstructStep, MakeContainerStep, MaterializeStep, GatherStep, PlanStep, StartStep,
           AnswerStep, EndDimensionsStep, VerifyStep, CompleteStep, CleanupStep, RaiseStep,
           CancelStep, StutterStep

\* The invariant of the pipeline: what it left on disk, spent, gathered, ran,
\* recorded and told the surface fits the await it is at.
THEOREM PipelineInvHolds == Spec => []PipelineInv
<1>1. Init => PipelineInv
  BY PipelineAssumption, InitInv
<1>2. PipelineInv /\ [Next]_vars => PipelineInv'
  BY PipelineAssumption, InvNext
<1> QED BY <1>1, <1>2, PTL DEF Spec

-----------------------------------------------------------------------------
(* What the invariant gives.                                               *)

\* Whatever ends the pipeline, its Review Worktree is gone, but for a removal
\* that failed, which ends the run with an exception, a cancellation while the
\* tree was written, and a directory made where none is accepted, out of which
\* nothing was read.
THEOREM ContainerIsGone == Spec => []ContainerIsRemoved
<1>1. PipelineInv => ContainerIsRemoved
  BY DEF PipelineInv, ContainerInv, LeftBehind, ContainerIsRemoved
<1> QED BY <1>1, PipelineInvHolds, PTL

\* No call starts once the measured cost has reached the budget.
THEOREM BudgetIsKept == Spec => NoCallPastBudget
<1>1. PipelineInv /\ [Next]_vars
        => [request.budget # Unknown /\ spent >= request.budget /\ spent > 0
              => ~(pc = "dimensions" /\ pc' = "calling")]_vars
  <2> SUFFICES ASSUME PipelineInv, Next, request.budget # Unknown, spent >= request.budget, spent > 0,
                      pc = "dimensions", pc' = "calling"
               PROVE  FALSE
    BY DEF vars
  <2>1. StartDimension
    BY DEF Next, Construct, MakeContainer, Materialize, Gather, PlanCalls, AnswerCall, EndDimensions,
           Verify, CompleteReport, Cleanup, Raise, Escapes, Cancel
  <2>2. ~stopped
    BY <2>1 DEF StartDimension
  <2>3. spent < request.budget
    BY <2>2 DEF PipelineInv, SpendInv
  <2>4. spent \in Nat
    BY DEF PipelineInv, TypeInv
  <2>5. request \in Requests
    BY DEF PipelineInv, TypeInv
  <2>6. request.budget \in Nat \cup {Unknown}
    BY <2>5, PipelineAssumption DEF PipelineAssumption, Measures
  <2> QED BY <2>3, <2>4, <2>6 DEF Unknown
<1> QED BY <1>1, PipelineInvHolds, PTL DEF Spec, NoCallPastBudget

\* A report whose gate is evaluated is over everything that was found.
LEMMA EvaluatedIs ==
  ASSUME PipelineAssumption, PipelineInv, report # NoReport, args.allow
  PROVE  LET V == VerifyAndDeduplicate(AllFound, gathered.items, world.tree)
         IN  /\ ContextKnown /\ Len(runs) = Len(request.dimensions)
             /\ runs \in Seq(Run) /\ request \in Requests
             /\ Len(request.dimensions) \in Nat \ {0}
             /\ report.findings = V
             /\ report.gate = EvaluateGate(runs, TRUE, V, request)
             /\ ~DimensionsComplete => report.explained
<1> DEFINE V == VerifyAndDeduplicate(AllFound, gathered.items, world.tree)
<1>1. ContextKnown /\ Len(runs) = Len(request.dimensions) /\ args = Verified(V)
  BY DEF PipelineInv, ArgsInv
<1>2. runs \in Seq(Run) /\ request \in Requests
  BY DEF PipelineInv, TypeInv
<1>3. request.dimensions \in Seq(Dimensions) /\ request.dimensions # <<>>
  BY <1>2 DEF PipelineAssumption
<1>4. Len(request.dimensions) \in Nat \ {0}
  BY <1>3
<1>5. runs # <<>>
  BY <1>1, <1>2, <1>4
<1>6. gathered.coverage.complete
  BY <1>1 DEF ContextKnown
<1> HIDE DEF V
<1>7. /\ args.findings = V /\ args.dimensions = runs /\ args.coverage = gathered.coverage
      /\ args.detail = ~DimensionsComplete
  BY <1>1 DEF Verified
<1>8. gathered.coverage.complete = TRUE
  <2>1. PICK tooLarge \in BOOLEAN : gathered = GatherContext(world.target, world.tree, request.context, tooLarge)
    BY <1>1 DEF ContextKnown
  <2>2. \A i, m, u, o : Coverage(i, m, u, o).complete \in BOOLEAN
    BY DEF Coverage
  <2>3. gathered.coverage.complete \in BOOLEAN
    BY <2>1, <2>2 DEF GatherContext
  <2> QED BY <1>6, <2>3
<1>9. report = ReportOf(args)
  BY DEF PipelineInv, FlowInv
<1>10. /\ report.gate = EvaluateGate(runs, gathered.coverage.complete, V, request) /\ report.findings = V
       /\ args.detail => report.explained
  <2> DEFINE evaluated == EvaluateGate(runs, gathered.coverage.complete, V, request)
             gate == GateOf(evaluated, args.allow)
             explained == args.detail \/ gate # evaluated
  <2>1. ReportOf(args) = [gate |-> gate, findings |-> V, coverage |-> gathered.coverage,
                          dimensions |-> runs, explained |-> explained]
    BY <1>5, <1>7 DEF ReportOf
  <2>2. gate = evaluated
    BY DEF GateOf
  <2> HIDE DEF gate, evaluated, explained
  <2>3. report.gate = gate /\ report.findings = V /\ report.explained = explained
    BY <1>9, <2>1
  <2> QED BY <2>2, <2>3 DEF evaluated, explained
<1>11. report.gate = EvaluateGate(runs, TRUE, V, request)
  BY <1>8, <1>10
<1>12. ~DimensionsComplete => report.explained
  BY <1>7, <1>10
<1> QED BY <1>1, <1>2, <1>4, <1>10, <1>11, <1>12 DEF V

\* A report that may not pass is an error.
LEMMA RefusedIs ==
  ASSUME PipelineInv, report # NoReport, ~args.allow
  PROVE  report.gate = "error" /\ report.explained
<1>1. report = ReportOf(args) /\ args.detail
  BY DEF PipelineInv, FlowInv, ArgsInv
<1> QED BY <1>1 DEF ReportOf, GateOf

\* With every dimension completed the gate has a decision.
LEMMA Decided ==
  ASSUME PipelineAssumption, PipelineInv, report # NoReport, args.allow, DimensionsComplete
  PROVE  report.gate # "error"
<1> DEFINE V == VerifyAndDeduplicate(AllFound, gathered.items, world.tree)
           required == {request.dimensions[i] : i \in DOMAIN request.dimensions}
           Of(d) == {i \in DOMAIN runs : runs[i].dimension = d}
<1>1. /\ Len(runs) = Len(request.dimensions) /\ runs \in Seq(Run) /\ request \in Requests
      /\ Len(request.dimensions) \in Nat \ {0} /\ report.gate = EvaluateGate(runs, TRUE, V, request)
  BY EvaluatedIs
<1>2. /\ request.dimensions \in Seq(Dimensions)
      /\ \A i, j \in DOMAIN request.dimensions : request.dimensions[i] = request.dimensions[j] => i = j
  BY <1>1 DEF PipelineAssumption
<1>3. DOMAIN runs = 1..Len(request.dimensions) /\ DOMAIN request.dimensions = 1..Len(request.dimensions)
  BY <1>1, <1>2
<1>4. \A i \in DOMAIN runs : runs[i].dimension = request.dimensions[i] /\ runs[i].status = "completed"
  BY <1>1, <1>3 DEF PipelineInv, RunsInv, DimensionsComplete
<1> HIDE DEF V
<1>5. required # {}
  <2>1. 1 \in DOMAIN request.dimensions
    BY <1>1, <1>3
  <2>2. request.dimensions[1] \in required
    BY <2>1
  <2> QED BY <2>2
<1>6. ASSUME NEW i \in DOMAIN runs PROVE Cardinality(Of(runs[i].dimension)) = 1
  <2>1. Of(runs[i].dimension) = {i}
    BY <1>2, <1>3, <1>4
  <2> HIDE DEF Of
  <2> QED BY <2>1, FS_Singleton
<1>7. \A d \in required : \E i \in Of(d) : runs[i].status = "completed"
  BY <1>3, <1>4
<1>8. EvaluateGate(runs, TRUE, V, request)
        = LET blocking == {f \in V : FindingBlocks(f, request)}
          IN  IF \E f \in blocking : ~f.bypassed THEN "blocked"
              ELSE IF blocking # {} THEN "passed-with-bypass" ELSE "passed"
  BY <1>5, <1>6, <1>7 DEF EvaluateGate
<1> QED BY <1>1, <1>8

\* The report accounts for its run: every stage recorded once and in order,
\* announced as it is recorded, and no error without a reason.
THEOREM ReportsAccount == Spec => []ReportAccountsForTheRun
<1>1. PipelineInv => ReportAccountsForTheRun
  <2> SUFFICES ASSUME PipelineInv PROVE ReportAccountsForTheRun
    OBVIOUS
  <2>1. CASE ~Reported
    BY <2>1 DEF ReportAccountsForTheRun, RecordListsEachStageOnce, ProgressAgreesWithRecord, ErrorIsExplained
  <2>2. CASE Reported
    <3>1. pc = "ended" /\ ending = "report" /\ report # NoReport
      BY <2>2 DEF Reported, PipelineInv, FlowInv, Filling
    <3>2. Len(outcomes) = 9 /\ Listed(outcomes, progress, 9) /\ outcomes \in Seq(Outcome)
      <4>1. Recordings[pc] = 9 /\ Announcements[pc] = 9
        BY <3>1 DEF Recordings, Announcements
      <4> QED BY <3>1, <4>1 DEF PipelineInv, TypeInv, RecordInv
    <3>3. DOMAIN outcomes = 1..9
      BY <3>2
    <3>4. \A i \in 1..9 : outcomes[i][1] = StageOrder[i] /\ ToldIn(progress, StageOrder[i]) = ToldAs(outcomes[i][2])
      BY <3>2 DEF Listed
    <3>5. RecordListsEachStageOnce
      <4>1. StageOrder = [i \in 1..9 |-> StageOrder[i]]
        BY DEF StageOrder
      <4> QED BY <3>3, <3>4, <4>1 DEF RecordListsEachStageOnce
    <3>6. ProgressAgreesWithRecord
      <4> SUFFICES ASSUME NEW i \in 1..9
                   PROVE  ToldOf(outcomes[i][1])
                            = IF outcomes[i][2] = "not-started" THEN {} ELSE {"started", outcomes[i][2]}
        BY <3>3 DEF ProgressAgreesWithRecord
      <4>1. ToldOf(outcomes[i][1]) = ToldAs(outcomes[i][2])
        BY <3>4, ToldIs
      <4> QED BY <4>1 DEF ToldAs
    <3>7. ErrorIsExplained
      <4> SUFFICES ASSUME report.gate = "error" PROVE report.explained
        BY DEF ErrorIsExplained
      <4>1. args.allow \in BOOLEAN
        BY DEF PipelineInv, ArgsInv
      <4>2. CASE args.allow
        BY <3>1, <4>2, PipelineAssumption, EvaluatedIs, Decided
      <4>3. CASE ~args.allow
        BY <3>1, <4>3, RefusedIs
      <4> QED BY <4>2, <4>3
    <3> QED BY <3>5, <3>6, <3>7 DEF ReportAccountsForTheRun
  <2> QED BY <2>1, <2>2
<1> QED BY <1>1, PipelineInvHolds, PTL

\* What is found are drafts, and each is of some answer.
LEMMA FoundAreDrafts ==
  ASSUME PipelineAssumption, PipelineInv
  PROVE  /\ DOMAIN runs = 1..Len(runs)
         /\ \A f \in AllFound : IsDraft(f)
         /\ \A f : f \in AllFound <=> \E i \in DOMAIN runs : f \in runs[i].findings
<1>1. runs \in Seq(Run)
  BY DEF PipelineInv, TypeInv
<1>2. DOMAIN runs = 1..Len(runs) /\ \A i \in DOMAIN runs : runs[i] \in Run
  BY <1>1
<1>3. \A i \in DOMAIN runs : runs[i].findings \subseteq AllDrafts
  BY <1>2 DEF Run
<1>4. \A f : f \in AllFound <=> \E i \in DOMAIN runs : f \in runs[i].findings
  BY DEF AllFound
<1>5. \A f \in AllDrafts : IsDraft(f)
  BY DraftsAre DEF AllDrafts
<1>6. \A f \in AllFound : IsDraft(f)
  BY <1>3, <1>4, <1>5
<1> QED BY <1>2, <1>4, <1>6

LEMMA WorldIs ==
  ASSUME PipelineAssumption, PipelineInv
  PROVE  world.target \in [Paths -> Contents] /\ world.tree \in [Paths -> Contents] /\ NoPath \notin Paths
BY DEF PipelineInv, TypeInv, PipelineAssumption

LEMMA RealIs == \A f : Real(f) <=> IsReal(f.span, world.target, world.tree)
BY DEF Real, IsReal

\* A gate that blocks rests on a finding whose quote is where it says.
THEOREM BlockedIsGrounded == Spec => []BlockedMeansGrounded
<1>1. PipelineInv => BlockedMeansGrounded
  <2> SUFFICES ASSUME PipelineInv, report.gate = "blocked"
               PROVE  \E i \in DOMAIN runs : \E f \in runs[i].findings :
                        /\ Real(f) \/ f.span.path = DiffPath
                        /\ f.span.snapshot = f.span.source
                        /\ \E j \in DOMAIN runs : \E g \in runs[j].findings :
                             Fingerprint(g) = Fingerprint(f) /\ g.severity \in request.blocking
    BY DEF BlockedMeansGrounded
  <2>1. report # NoReport /\ args.allow
    <3>1. report # NoReport
      BY DEF NoReport, None
    <3>2. args.allow \in BOOLEAN
      BY DEF PipelineInv, ArgsInv
    <3> QED BY <3>1, <3>2, RefusedIs
  <2> DEFINE V == VerifyAndDeduplicate(AllFound, gathered.items, world.tree)
  <2>2. ContextKnown /\ report.gate = EvaluateGate(runs, TRUE, V, request)
    BY <2>1, PipelineAssumption, EvaluatedIs
  <2>3. PICK tooLarge \in BOOLEAN :
          gathered = GatherContext(world.target, world.tree, request.context, tooLarge)
    BY <2>2 DEF ContextKnown
  <2>4. \A f \in AllFound : IsDraft(f)
    BY PipelineAssumption, FoundAreDrafts
  <2>5. \A m \in V :
          /\ m.band \in {"insufficient", "supported"}
          /\ \E g \in AllFound : Fingerprint(g) = m.fingerprint /\ g.severity = m.severity
          /\ m.band = "supported" =>
               \E f \in AllFound : Fingerprint(f) = m.fingerprint /\ Grounded(f.span, gathered.items, world.tree)
    BY <2>4, Deduplicated
  <2> HIDE DEF V
  <2>6. PICK m \in V : FindingBlocks(m, request)
    BY <2>2 DEF EvaluateGate
  <2>7. m.band = "supported" /\ m.severity \in request.blocking
    BY <2>5, <2>6 DEF FindingBlocks
  <2>8. PICK g \in AllFound : Fingerprint(g) = m.fingerprint /\ g.severity = m.severity
    BY <2>5
  <2>9. PICK f \in AllFound : Fingerprint(f) = m.fingerprint /\ Grounded(f.span, gathered.items, world.tree)
    BY <2>5, <2>7
  <2>10. (IsReal(f.span, world.target, world.tree) \/ f.span.path = DiffPath)
         /\ f.span.snapshot = f.span.source
    <3>1. f.span.snapshot = "none" => f.span.source # "review-worktree"
      BY <2>4, <2>9 DEF IsDraft
    <3>2. Grounded(f.span, GatherContext(world.target, world.tree, request.context, tooLarge).items, world.tree)
      BY <2>3, <2>9
    <3>3. world.target \in [Paths -> Contents] /\ world.tree \in [Paths -> Contents]
      BY PipelineAssumption, WorldIs
    <3> DEFINE span == f.span
               target == world.target
               tree == world.tree
    <3>4. (IsReal(span, target, tree) \/ span.path = DiffPath) /\ span.snapshot = span.source
      <4> HIDE DEF span, target, tree
      <4>1. /\ target \in [Paths -> Contents] /\ tree \in [Paths -> Contents]
            /\ span.snapshot = "none" => span.source # "review-worktree"
            /\ Grounded(span, GatherContext(target, tree, request.context, tooLarge).items, tree)
        BY <3>1, <3>2, <3>3 DEF span, target, tree
      <4> QED BY <4>1, GroundedMeans
    <3> QED BY <3>4
  <2>11. /\ \E i \in DOMAIN runs : f \in runs[i].findings
         /\ \E j \in DOMAIN runs : g \in runs[j].findings
    BY <2>8, <2>9, PipelineAssumption, FoundAreDrafts
  <2> QED BY <2>7, <2>8, <2>9, <2>10, <2>11, RealIs
<1> QED BY <1>1, PipelineInvHolds, PTL

\* Deduplication loses no finding of a verified report.
THEOREM FindingsAreKept == Spec => []NoFindingIsLost
<1>1. PipelineInv => NoFindingIsLost
  <2> SUFFICES ASSUME PipelineInv, Reported,
                      <<"verify-dedup", "completed">> \in {outcomes[i] : i \in DOMAIN outcomes},
                      NEW i \in DOMAIN runs, NEW f \in runs[i].findings
               PROVE  /\ Cardinality({r \in report.findings : r.fingerprint = Fingerprint(f)}) = 1
                      /\ \E r \in report.findings :
                           /\ r.fingerprint = Fingerprint(f)
                           /\ SeverityRank[r.severity] >= SeverityRank[f.severity]
                           /\ Grounded(f.span, gathered.items, world.tree) => r.band = "supported"
    BY DEF NoFindingIsLost
  <2>1. pc = "ended" /\ ending = "report" /\ report # NoReport
    BY DEF Reported, PipelineInv, FlowInv, Filling
  <2>2. /\ Len(outcomes) = 9 /\ Listed(outcomes, progress, 9) /\ outcomes \in Seq(Outcome)
        /\ outcomes[6][2] = "completed" <=> args.allow
    <3>1. Recordings[pc] = 9 /\ Announcements[pc] = 9
      BY <2>1 DEF Recordings, Announcements
    <3> QED BY <2>1, <3>1 DEF PipelineInv, TypeInv, RecordInv
  <2>3. args.allow
    <3>1. DOMAIN outcomes = 1..9
      BY <2>2
    <3>2. PICK j \in 1..9 : outcomes[j] = <<"verify-dedup", "completed">>
      BY <3>1
    <3>3. outcomes[j][1] = StageOrder[j]
      BY <2>2 DEF Listed
    <3>4. j = 6
      BY <3>2, <3>3, StagesAre
    <3> QED BY <2>2, <3>2, <3>4
  <2> DEFINE V == VerifyAndDeduplicate(AllFound, gathered.items, world.tree)
  <2>4. report.findings = V
    BY <2>1, <2>3, PipelineAssumption, EvaluatedIs
  <2>5. f \in AllFound /\ \A g \in AllFound : IsDraft(g)
    BY PipelineAssumption, FoundAreDrafts
  <2>6. /\ \E m \in V : /\ m.fingerprint = Fingerprint(f)
                        /\ SeverityRank[f.severity] <= SeverityRank[m.severity]
                        /\ Grounded(f.span, gathered.items, world.tree) => m.band = "supported"
        /\ \A m, n \in V : m.fingerprint = n.fingerprint => m = n
        /\ \A m \in V : m.severity \in Severities
    BY <2>5, Deduplicated
  <2> HIDE DEF V
  <2>7. PICK m \in V : /\ m.fingerprint = Fingerprint(f)
                       /\ SeverityRank[f.severity] <= SeverityRank[m.severity]
                       /\ Grounded(f.span, gathered.items, world.tree) => m.band = "supported"
    BY <2>6
  <2>8. {r \in V : r.fingerprint = Fingerprint(f)} = {m}
    BY <2>6, <2>7
  <2>9. Cardinality({m}) = 1
    BY FS_Singleton
  <2>10. SeverityRank[m.severity] >= SeverityRank[f.severity]
    <3>1. f.severity \in Severities /\ m.severity \in Severities
      BY <2>5, <2>6, <2>7 DEF IsDraft
    <3>2. SeverityRank[f.severity] \in 0..3 /\ SeverityRank[m.severity] \in 0..3
      BY <3>1, Ranks
    <3> QED BY <2>7, <3>2
  <2>11. Cardinality({r \in report.findings : r.fingerprint = Fingerprint(f)}) = 1
    BY <2>4, <2>8, <2>9
  <2> QED BY <2>4, <2>7, <2>10, <2>11
<1> QED BY <1>1, PipelineInvHolds, PTL

\* A passing gate means that everything required was answered and shown, and
\* that nothing real blocks.
THEOREM PassedIsReviewed == Spec => []PassedMeansReviewed
<1>1. PipelineInv => PassedMeansReviewed
  <2> SUFFICES ASSUME PipelineInv, report.gate = "passed" PROVE PassedMeansReviewed
    BY DEF PassedMeansReviewed
  <2>1. report # NoReport /\ args.allow
    <3>1. report # NoReport
      BY DEF NoReport, None
    <3>2. args.allow \in BOOLEAN
      BY DEF PipelineInv, ArgsInv
    <3> QED BY <3>1, <3>2, RefusedIs
  <2> DEFINE V == VerifyAndDeduplicate(AllFound, gathered.items, world.tree)
             required == {request.dimensions[i] : i \in DOMAIN request.dimensions}
  <2>2. /\ ContextKnown /\ report.gate = EvaluateGate(runs, TRUE, V, request)
        /\ Len(runs) = Len(request.dimensions) /\ runs \in Seq(Run) /\ request \in Requests
    BY <2>1, PipelineAssumption, EvaluatedIs
  <2>3. PICK tooLarge \in BOOLEAN :
          /\ gathered = GatherContext(world.target, world.tree, request.context, tooLarge)
          /\ gathered.coverage.complete
    BY <2>2 DEF ContextKnown
  <2>4. \A f \in AllFound : IsDraft(f)
    BY PipelineAssumption, FoundAreDrafts
  <2>5. /\ \A f \in AllFound : \E m \in V :
             /\ SeverityRank[f.severity] <= SeverityRank[m.severity]
             /\ Grounded(f.span, gathered.items, world.tree) => m.band = "supported"
        /\ \A m \in V : m.severity \in Severities /\ ~m.bypassed
    BY <2>4, Deduplicated
  <2> HIDE DEF V
  <2>6. /\ \A d \in required : \E i \in DOMAIN runs : runs[i].dimension = d /\ runs[i].status = "completed"
        /\ \A m \in V : ~FindingBlocks(m, request)
    <3>1. EvaluateGate(runs, TRUE, V, request) = "passed"
      BY <2>2
    <3>2. \A d \in required : \E i \in {j \in DOMAIN runs : runs[j].dimension = d} : runs[i].status = "completed"
      BY <3>1 DEF EvaluateGate
    <3>3. {m \in V : FindingBlocks(m, request)} = {}
      BY <3>1 DEF EvaluateGate
    <3> QED BY <3>2, <3>3
  <2>7. {runs[i].dimension : i \in {j \in DOMAIN runs : runs[j].status = "completed"}} = required
    <3>1. request.dimensions \in Seq(Dimensions)
      BY <2>2, PipelineAssumption DEF PipelineAssumption
    <3>2. DOMAIN runs = 1..Len(runs) /\ DOMAIN request.dimensions = 1..Len(runs)
      BY <2>2, <3>1
    <3>3. \A i \in DOMAIN runs : runs[i].dimension = request.dimensions[i]
      BY <3>2 DEF PipelineInv, RunsInv
    <3>4. \A i \in DOMAIN runs : runs[i].dimension \in required
      BY <3>2, <3>3
    <3> HIDE DEF required
    <3>5. \A d \in required :
            d \in {runs[i].dimension : i \in {j \in DOMAIN runs : runs[j].status = "completed"}}
      BY <2>6
    <3> QED BY <3>4, <3>5
  <2>8. /\ \A p \in Paths : InScope(p) => ShownText(p)
        /\ \A g \in request.context.mandatory : \E p \in g : world.tree[p] # "absent"
    <3> DEFINE target == world.target
               tree == world.tree
               policy == request.context
    <3>1. target \in [Paths -> Contents] /\ tree \in [Paths -> Contents]
          /\ gathered.items = GatherContext(target, tree, policy, tooLarge).items
          /\ GatherContext(target, tree, policy, tooLarge).coverage.complete
      BY <2>3, PipelineAssumption, WorldIs
    <3> HIDE DEF target, tree, policy
    <3>2. /\ \A g \in policy.mandatory : \E p \in g : tree[p] # "absent"
          /\ \A p \in Paths \ policy.excluded :
               \/ target[p] # tree[p]
               \/ tree[p] # "absent" /\ \E g \in policy.mandatory : p \in g
               => \E i \in gathered.items :
                    /\ i.path = p /\ i.body # NoBody
                    /\ i.body = StoredText(IF tree[p] = "absent" THEN target ELSE tree, p)
      BY <3>1, ContextIsShown
    <3> QED BY <3>2 DEF InScope, ShownText, target, tree, policy
  <2>9. ASSUME NEW i \in DOMAIN runs, NEW f \in runs[i].findings,
               Real(f), f.span.source = "review-worktree", f.span.line = 1,
               f.span.snapshot = "review-worktree", f.span.kind = "none",
               AtLeast(f.severity) \subseteq request.blocking, request.minimumBand # "verified"
        PROVE  FALSE
    <3>1. f \in AllFound /\ IsDraft(f)
      BY <2>4, PipelineAssumption, FoundAreDrafts
    <3>2. Grounded(f.span, gathered.items, world.tree)
      <4>1. IsReal(f.span, world.target, world.tree)
        BY <2>9, RealIs
      <4>2. NoPath \notin Paths
        BY PipelineAssumption, WorldIs
      <4> DEFINE span == f.span
                 target == world.target
                 tree == world.tree
                 items == gathered.items
      <4>3. /\ IsReal(span, target, tree) /\ span.source = "review-worktree"
            /\ span.snapshot = "review-worktree" /\ span.kind = "none" /\ span.line = 1
        BY <2>9, <4>1
      <4>4. Grounded(span, items, tree)
        <5> HIDE DEF span, target, tree, items
        <5> QED BY <4>2, <4>3, RealIsGrounded
      <4> QED BY <4>4
    <3>3. PICK m \in V : m.band = "supported" /\ SeverityRank[f.severity] <= SeverityRank[m.severity]
      BY <2>5, <3>1, <3>2
    <3>4. m.severity \in request.blocking
      <4>1. m.severity \in Severities /\ f.severity \in Severities
        BY <2>5, <3>1 DEF IsDraft
      <4>2. SeverityRank[m.severity] >= SeverityRank[f.severity]
        BY <3>3, <4>1, Ranks
      <4>3. m.severity \in AtLeast(f.severity)
        BY <4>1, <4>2 DEF AtLeast, Severities
      <4> QED BY <2>9, <4>3
    <3>5. BandRank[m.band] >= BandRank[request.minimumBand]
      <4>1. request.minimumBand \in Bands
        BY <2>2, PipelineAssumption DEF PipelineAssumption, Bands
      <4>2. request.minimumBand \in {"insufficient", "supported"}
        BY <2>9, <4>1, Ranks
      <4> QED BY <3>3, <4>2, Ranks
    <3>6. FindingBlocks(m, request)
      BY <3>3, <3>4, <3>5 DEF FindingBlocks
    <3> QED BY <2>6, <3>3, <3>6
  <2> QED BY <2>7, <2>8, <2>9 DEF PassedMeansReviewed
<1> QED BY <1>1, PipelineInvHolds, PTL

-----------------------------------------------------------------------------
(* The gate.                                                               *)

Incomplete(runsOf, complete, policy) ==
  EvaluateGate(runsOf, complete, {}, policy) = "error"

\* Findings decide nothing but whether a complete review blocks.
LEMMA GateIs ==
  ASSUME NEW runsOf, NEW complete \in BOOLEAN, NEW findings, NEW policy
  PROVE  LET gate == EvaluateGate(runsOf, complete, findings, policy) IN
         /\ gate = "error" <=> Incomplete(runsOf, complete, policy)
         /\ gate = "blocked" <=> /\ ~Incomplete(runsOf, complete, policy)
                                 /\ \E f \in findings : FindingBlocks(f, policy) /\ ~f.bypassed
<1> DEFINE required == {policy.dimensions[i] : i \in DOMAIN policy.dimensions}
           Of(d) == {i \in DOMAIN runsOf : runsOf[i].dimension = d}
           bad == \/ required = {}
                  \/ \E i \in DOMAIN runsOf : Cardinality(Of(runsOf[i].dimension)) # 1
                  \/ \E d \in required : ~\E i \in Of(d) : runsOf[i].status = "completed"
                  \/ ~complete
           Over(S) == LET blocking == {f \in S : FindingBlocks(f, policy)}
                      IN  IF bad THEN "error"
                          ELSE IF \E f \in blocking : ~f.bypassed THEN "blocked"
                          ELSE IF blocking # {} THEN "passed-with-bypass" ELSE "passed"
<1>1. \A S : EvaluateGate(runsOf, complete, S, policy) = Over(S)
  BY DEF EvaluateGate
<1> HIDE DEF bad
<1>2. \A S : /\ Over(S) = "error" <=> bad
             /\ Over(S) = "blocked" <=> ~bad /\ \E f \in S : FindingBlocks(f, policy) /\ ~f.bypassed
  OBVIOUS
<1> HIDE DEF Over
<1> QED BY <1>1, <1>2 DEF Incomplete

\* A further finding never opens a gate: what is blocked or an error stays so.
THEOREM GateIsMonotone ==
  ASSUME NEW runsOf, NEW complete \in BOOLEAN, NEW policy, NEW more, NEW findings \in SUBSET more
  PROVE  LET Gate(S) == EvaluateGate(runsOf, complete, S, policy) IN
         /\ Gate(findings) = "error" <=> Gate(more) = "error"
         /\ Gate(findings) = "blocked" => Gate(more) = "blocked"
BY GateIs

\* Merging duplicates never opens a gate, under a policy that blocks, with a
\* severity, every higher one: neither the order nor the grouping of the
\* findings can discard a stronger one.
THEOREM MergingKeepsTheGate ==
  ASSUME NEW runsOf, NEW complete \in BOOLEAN, NEW policy, NEW items, NEW tree,
         NEW drafts, \A f \in drafts : IsDraft(f),
         \A s \in policy.blocking, t \in Severities :
           SeverityRank[s] <= SeverityRank[t] => t \in policy.blocking
  PROVE  LET Gate(S) == EvaluateGate(runsOf, complete, S, policy)
             verified == {VerifyFinding(f, items, tree) : f \in drafts}
         IN  /\ Gate(verified) = "error" <=> Gate(VerifyAndDeduplicate(drafts, items, tree)) = "error"
             /\ Gate(verified) = "blocked" => Gate(VerifyAndDeduplicate(drafts, items, tree)) = "blocked"
<1> DEFINE verified == {VerifyFinding(f, items, tree) : f \in drafts}
           merged == VerifyAndDeduplicate(drafts, items, tree)
<1>1. ASSUME NEW v \in verified, FindingBlocks(v, policy)
      PROVE  \E m \in merged : FindingBlocks(m, policy) /\ ~m.bypassed
  <2>1. PICK f \in drafts : v = VerifyFinding(f, items, tree)
    OBVIOUS
  <2>2. /\ v.severity = f.severity
        /\ v.band = IF Grounded(f.span, items, tree) THEN "supported" ELSE "insufficient"
    BY <2>1, VerifiedIs
  <2>3. /\ v.band # "insufficient" /\ v.severity \in policy.blocking
        /\ BandRank[v.band] >= BandRank[policy.minimumBand]
    BY <1>1 DEF FindingBlocks
  <2>4. Grounded(f.span, items, tree) /\ v.band = "supported"
    BY <2>2, <2>3
  <2> HIDE DEF merged
  <2>5. PICK m \in merged : SeverityRank[f.severity] <= SeverityRank[m.severity] /\ m.band = "supported"
    BY <2>4, Deduplicated DEF merged
  <2>6. m.severity \in Severities /\ ~m.bypassed
    BY Deduplicated DEF merged
  <2>7. m.severity \in policy.blocking
    BY <2>2, <2>3, <2>5, <2>6
  <2> QED BY <2>3, <2>4, <2>5, <2>6, <2>7 DEF FindingBlocks
<1> HIDE DEF verified, merged
<1>2. \A S : LET gate == EvaluateGate(runsOf, complete, S, policy) IN
         /\ gate = "error" <=> Incomplete(runsOf, complete, policy)
         /\ gate = "blocked" <=> /\ ~Incomplete(runsOf, complete, policy)
                                 /\ \E f \in S : FindingBlocks(f, policy) /\ ~f.bypassed
  BY GateIs
<1> QED BY <1>1, <1>2 DEF verified, merged
================================================================================
