------------------------- MODULE CheckPublicationProofs -------------------------
(***************************************************************************)
(* For any findings, workers and bounds: the state stays well typed, and   *)
(* the Check never concludes ahead of the store.  For one worker: nor does *)
(* the outbox run ahead of GitHub, and after a first delivery a published  *)
(* sync is shown.                                                          *)
(***************************************************************************)
EXTENDS CheckPublicationProps, TLAPS

DecisionMade == jobOver /\ attemptStatus # "running"

\* What makes the first half of CheckFollowsDecision inductive: whoever is
\* about to send something has a decision behind it.
DeliveryInv ==
  /\ attemptStatus = "running" => revision < MaxRevision
  /\ standing => DecisionMade
  /\ \A w \in Workers : pc[w] \in {"patch", "read_bypasses"} => DecisionMade
  /\ check # NotConcluded => DecisionMade

\* A gate that is delivered is not that of a fresh Check.
LEMMA ContentsConclude == ASSUME NEW c \in Contents PROVE c # NotConcluded
  BY DEF Contents, NotConcluded, Gates, ReportGates

\* A report that is not saved yet has no Check and no publication.
LEMMA InitHolds == Init => PublicationTypeOK /\ DeliveryInv
<1> SUFFICES ASSUME Init PROVE PublicationTypeOK /\ DeliveryInv
  OBVIOUS
<1>1. [gate |-> report, marked |-> {}] \in Contents
  BY DEF Init, Contents, Gates
<1>2. PublicationTypeOK
  <2>1. payload \in [Workers -> Contents] /\ check \in Contents \cup {NotConcluded}
    BY <1>1 DEF Init
  <2>2. /\ revision \in 0..MaxRevision /\ deliveries \in 0..MaxDeliveries
        /\ errors \in 0..MaxErrors /\ crashes \in 0..MaxCrashes
        /\ syncClaims \in [Revisions -> Nat] /\ claims \in [Workers -> Nat]
        /\ intent \in [Workers -> 0..MaxRevision]
    BY BoundsAssumption DEF Init
  <2>3. /\ saved \in BOOLEAN /\ jobOver \in BOOLEAN /\ leased \in BOOLEAN
        /\ authoritative \in BOOLEAN /\ standing \in BOOLEAN
    BY DEF Init
  <2> QED
    BY <2>1, <2>2, <2>3 DEF Init, PublicationTypeOK, PublicationStatus, Steps
<1>3. DeliveryInv
  BY BoundsAssumption DEF Init, DeliveryInv, NoRow
<1> QED
  BY <1>2, <1>3

-----------------------------------------------------------------------------
(* One lemma per kind of step.                                             *)

\* Executing, saving a report and starting a retry conclude nothing.
LEMMA SaveStep ==
  ASSUME PublicationTypeOK, DeliveryInv, NEW w \in Workers,
         Execute(w) \/ Announce(w) \/ ReviewFails(w) \/ SaveResult(w) \/ Scan(w)
  PROVE  PublicationTypeOK' /\ DeliveryInv'
<1> USE DEF Execute, Announce, ReviewFails, SaveResult, Scan, Goto, SpendError, outboxVars,
            syncVars, storeVars, worldVars, workVars
<1>1. PublicationTypeOK'
  <2>1. pc' \in [Workers -> Steps] /\ saved' \in BOOLEAN
    BY DEF PublicationTypeOK, Steps
  <2>2. task' \in [Workers -> {"first", "retry", "sync"}]
    BY DEF PublicationTypeOK
  <2>3. errors' \in 0..MaxErrors /\ check' \in Contents \cup {NotConcluded}
    BY BoundsAssumption DEF PublicationTypeOK
  <2> QED
    BY <2>1, <2>2, <2>3 DEF PublicationTypeOK
<1>2. DeliveryInv'
  <2>1. /\ UNCHANGED <<attemptStatus, jobOver, standing, revision>>
        /\ check' \in {check, NotConcluded}
    OBVIOUS
  <2>2. \A v \in Workers : pc'[v] \in {"patch", "read_bypasses"} => pc[v] = pc'[v]
    BY DEF PublicationTypeOK, Steps
  <2> QED
    BY <2>1, <2>2 DEF DeliveryInv, DecisionMade
<1> QED
  BY <1>1, <1>2

\* Enqueueing claims nothing about the Check.
LEMMA EnqueueStep ==
  ASSUME PublicationTypeOK, DeliveryInv, NEW w \in Workers, Enqueue(w)
  PROVE  PublicationTypeOK' /\ DeliveryInv'
<1> USE DEF Enqueue, Goto, outboxVars, syncVars, storeVars, worldVars, workVars
<1>1. PublicationTypeOK'
  BY DEF PublicationTypeOK, PublicationStatus, Steps
<1>2. DeliveryInv'
  BY DEF PublicationTypeOK, DeliveryInv, DecisionMade, Steps
<1> QED
  BY <1>1, <1>2

\* A claim stays within the budget.
LEMMA ClaimStep ==
  ASSUME PublicationTypeOK, DeliveryInv, NEW w \in Workers, ClaimPending(w) \/ ClaimEnqueued(w)
  PROVE  PublicationTypeOK' /\ DeliveryInv'
<1>1. PICK from \in Steps, otherwise \in {"idle", "enqueue", "decide"} :
        Claim(w, from, otherwise)
  BY DEF ClaimPending, ClaimEnqueued, AfterClaim, Steps
<1> USE DEF Claim, Goto, AfterClaim, syncVars, storeVars, worldVars, workVars
<1>2. deliveries' \in 0..MaxDeliveries
  BY <1>1, BoundsAssumption DEF PublicationTypeOK, Claimable
<1>3. PublicationTypeOK'
  <2>1. pc' \in [Workers -> Steps]
    BY <1>1 DEF PublicationTypeOK, Steps
  <2>2. /\ outbox' \in PublicationStatus \cup {NoRow}
        /\ leased' \in BOOLEAN
    BY <1>1 DEF PublicationTypeOK, PublicationStatus
  <2> QED
    BY <1>1, <1>2, <2>1, <2>2 DEF PublicationTypeOK
<1>4. DeliveryInv'
  BY <1>1 DEF PublicationTypeOK, DeliveryInv, DecisionMade, Steps
<1> QED
  BY <1>3, <1>4

\* Whoever goes on to the Check leaves the decision made behind.
LEMMA DecideStep ==
  ASSUME PublicationTypeOK, DeliveryInv, NEW w \in Workers, Decide(w) \/ DecideFails(w)
  PROVE  PublicationTypeOK' /\ DeliveryInv'
<1>1. [gate |-> report, marked |-> {}] \in Contents
  BY DEF PublicationTypeOK, Contents, Gates
<1>2. CASE Decide(w)
  <2> USE <1>2 DEF Decide, Goto, outboxVars, syncVars, worldVars
  <2>1. payload' \in [Workers -> Contents]
    BY <1>1 DEF PublicationTypeOK
  <2>2. revision' \in 0..MaxRevision /\ revision' \in {revision, revision + 1}
    BY BoundsAssumption DEF PublicationTypeOK, DeliveryInv
  <2>3. PublicationTypeOK'
    <3>1. pc' \in [Workers -> Steps] /\ mark' \in [Workers -> PublicationStatus]
      BY DEF PublicationTypeOK, PublicationStatus, Steps
    <3>2. /\ jobOver' \in BOOLEAN /\ standing' \in BOOLEAN
          /\ attemptStatus' \in {"running", "published", "superseded", "audit-only"}
      BY DEF PublicationTypeOK
    <3> QED
      BY <2>1, <2>2, <3>1, <3>2 DEF PublicationTypeOK
  <2>4. attemptStatus' # "running" /\ (jobOver => jobOver')
    BY DEF PublicationTypeOK
  <2>5. standing' => DecisionMade'
    BY <2>4 DEF PublicationTypeOK, DeliveryInv, DecisionMade
  <2>6. ASSUME NEW v \in Workers, pc'[v] \in {"patch", "read_bypasses"}
        PROVE  DecisionMade'
    <3>1. CASE v = w
      BY <3>1, <2>4, <2>6 DEF PublicationTypeOK, DeliveryInv, DecisionMade
    <3>2. CASE v # w
      BY <3>2, <2>4, <2>6 DEF PublicationTypeOK, DeliveryInv, DecisionMade
    <3> QED
      BY <3>1, <3>2
  <2>7. check' # NotConcluded => DecisionMade'
    BY <2>4 DEF DeliveryInv, DecisionMade
  <2> QED
    BY <2>3, <2>4, <2>5, <2>6, <2>7 DEF DeliveryInv
<1>3. CASE DecideFails(w)
  <2> USE <1>3 DEF DecideFails, Goto, SpendError, outboxVars, syncVars, storeVars
  <2>1. PublicationTypeOK'
    BY BoundsAssumption DEF PublicationTypeOK, PublicationStatus, Steps
  <2>2. DeliveryInv'
    BY DEF PublicationTypeOK, DeliveryInv, DecisionMade, Steps
  <2> QED
    BY <2>1, <2>2
<1> QED
  BY <1>2, <1>3

\* A Check only concludes after the decision.
LEMMA PatchStep ==
  ASSUME PublicationTypeOK, DeliveryInv, NEW w \in Workers, Patch(w)
  PROVE  PublicationTypeOK' /\ DeliveryInv'
<1> USE DEF Patch, Goto, SpendError, outboxVars, syncVars, storeVars
<1>1. payload[w] \in Contents
  BY DEF PublicationTypeOK
<1>2. DecisionMade /\ DecisionMade'
  BY DEF DeliveryInv, DecisionMade
<1>3. check' \in {check, payload[w]} /\ errors' \in 0..MaxErrors
  BY BoundsAssumption DEF PublicationTypeOK
<1>4. PICK ok \in BOOLEAN : mark' = [mark EXCEPT ![w] = MarkAfter(w, ok)]
  OBVIOUS
<1>5. MarkAfter(w, ok) \in PublicationStatus
  BY DEF MarkAfter, PublicationStatus, PublicationTypeOK
<1>6. PublicationTypeOK'
  BY <1>1, <1>3, <1>4, <1>5 DEF PublicationTypeOK, Steps
<1>7. DeliveryInv'
  BY <1>2, <1>3 DEF PublicationTypeOK, DeliveryInv, DecisionMade
<1> QED
  BY <1>6, <1>7

\* Marking an outcome, or failing to, sends nothing.
LEMMA MarkStep ==
  ASSUME PublicationTypeOK, DeliveryInv, NEW w \in Workers,
         MarkPublication(w) \/ MarkFails(w) \/ MarkSync(w)
  PROVE  PublicationTypeOK' /\ DeliveryInv'
<1> USE DEF MarkPublication, MarkFails, MarkSync, Goto, SpendError, storeVars, syncVars,
            outboxVars, worldVars, workVars
<1>1. PublicationTypeOK'
  <2>1. pc' \in [Workers -> Steps] /\ mark' \in [Workers -> PublicationStatus]
    BY DEF PublicationTypeOK, PublicationStatus, Steps
  <2>2. /\ errors' \in 0..MaxErrors
        /\ outbox' \in PublicationStatus \cup {NoRow}
        /\ publicationStatus' \in PublicationStatus \cup {NoRow}
        /\ syncStatus' \in [Revisions -> PublicationStatus \cup {NoRow}]
    BY BoundsAssumption DEF PublicationTypeOK
  <2> QED
    BY <2>1, <2>2 DEF PublicationTypeOK
<1>2. DeliveryInv'
  BY DEF PublicationTypeOK, DeliveryInv, DecisionMade, Steps
<1> QED
  BY <1>1, <1>2

\* A sync is only delivered for a decision that stands.
LEMMA SyncStep ==
  ASSUME PublicationTypeOK, DeliveryInv, NEW w \in Workers,
         ClaimSomeSync(w) \/ VerifySync(w) \/ ReadBypasses(w)
  PROVE  PublicationTypeOK' /\ DeliveryInv'
<1>1. CASE ClaimSomeSync(w)
  <2>1. PICK r \in Revisions : ClaimSync(w, r)
    BY <1>1 DEF ClaimSomeSync
  <2> USE <2>1, BoundsAssumption DEF ClaimSync, Revisions, storeVars, outboxVars, worldVars
  <2>2. PublicationTypeOK'
    <3>0. syncClaims[r] + 1 \in Nat /\ r \in 0..MaxRevision
      BY DEF PublicationTypeOK
    <3>1. /\ syncStatus' \in [Revisions -> PublicationStatus \cup {NoRow}]
          /\ syncClaims' \in [Revisions -> Nat]
      BY <3>0 DEF PublicationTypeOK, PublicationStatus
    <3>2. pc' \in [Workers -> Steps] /\ task' \in [Workers -> {"first", "retry", "sync"}]
      BY DEF PublicationTypeOK, Steps
    <3>3. intent' \in [Workers -> 0..MaxRevision] /\ claims' \in [Workers -> Nat]
      BY <3>0 DEF PublicationTypeOK
    <3> QED
      BY <3>1, <3>2, <3>3 DEF PublicationTypeOK
  <2>3. DeliveryInv'
    BY DEF PublicationTypeOK, DeliveryInv, DecisionMade, Steps
  <2> QED
    BY <2>2, <2>3
<1>2. CASE VerifySync(w)
  <2> USE <1>2 DEF VerifySync, Goto, IsCurrent, storeVars, outboxVars, syncVars, worldVars
  <2>1. StandingGate \in Gates
    BY DEF StandingGate, Gates, PublicationTypeOK
  <2>2. payload' \in [Workers -> Contents]
    BY <2>1 DEF PublicationTypeOK, Contents
  <2>3. PublicationTypeOK'
    BY <2>2 DEF PublicationTypeOK, PublicationStatus, Steps
  <2>4. DeliveryInv'
    BY DEF PublicationTypeOK, DeliveryInv, DecisionMade, Steps
  <2> QED
    BY <2>3, <2>4
<1>3. CASE ReadBypasses(w)
  <2> USE <1>3 DEF ReadBypasses, Goto, storeVars, outboxVars, syncVars, worldVars
  <2>1. payload' \in [Workers -> Contents]
    BY DEF PublicationTypeOK, Contents
  <2>2. PublicationTypeOK'
    BY <2>1 DEF PublicationTypeOK, Steps
  <2>3. DeliveryInv'
    BY DEF PublicationTypeOK, DeliveryInv, DecisionMade, Steps
  <2> QED
    BY <2>2, <2>3
<1> QED
  BY <1>1, <1>2, <1>3

\* Finalizing a job and crashing deliver nothing.
LEMMA WorkerStep ==
  ASSUME PublicationTypeOK, DeliveryInv, NEW w \in Workers, FinalizeExhausted(w) \/ Crash(w)
  PROVE  PublicationTypeOK' /\ DeliveryInv'
<1> USE DEF FinalizeExhausted, Crash, storeVars, outboxVars, syncVars, worldVars, workVars
<1>1. PublicationTypeOK'
  <2>1. /\ jobOver' \in BOOLEAN
        /\ pc' \in [Workers -> Steps]
    BY DEF PublicationTypeOK, Steps
  <2>2. crashes' \in 0..MaxCrashes
    BY BoundsAssumption DEF PublicationTypeOK
  <2> QED
    BY <2>1, <2>2 DEF PublicationTypeOK
<1>2. DeliveryInv'
  BY DEF PublicationTypeOK, DeliveryInv, DecisionMade, Steps
<1> QED
  BY <1>1, <1>2

\* Bypasses, withdrawals, takeovers, recovery and leases never undo a decision.
LEMMA WorldStep ==
  ASSUME PublicationTypeOK, DeliveryInv,
         \/ \E f \in Findings : Bypass(f)
         \/ \E takenOver \in BOOLEAN : LoseDecision(takenOver)
         \/ FailJob
         \/ ExpireLease
  PROVE  PublicationTypeOK' /\ DeliveryInv'
<1> USE BoundsAssumption DEF outboxVars, syncVars, storeVars, worldVars, workVars
<1>1. SupersededSyncs \in [Revisions -> PublicationStatus \cup {NoRow}]
  BY DEF SupersededSyncs, PublicationTypeOK, PublicationStatus
<1>2. EnqueuedSync \in [Revisions -> PublicationStatus \cup {NoRow}]
  BY <1>1 DEF EnqueuedSync, PublicationStatus
<1>3. ASSUME NEW f \in Findings, Bypass(f)
      PROVE  PublicationTypeOK' /\ DeliveryInv'
  <2>1. PublicationTypeOK'
    BY <1>2, <1>3 DEF Bypass, RevisionLeft, PublicationTypeOK
  <2>2. DeliveryInv'
    BY <1>3 DEF Bypass, RevisionLeft, PublicationTypeOK, DeliveryInv, DecisionMade
  <2> QED
    BY <2>1, <2>2
<1>4. ASSUME NEW takenOver \in BOOLEAN, LoseDecision(takenOver)
      PROVE  PublicationTypeOK' /\ DeliveryInv'
  <2>1. PublicationTypeOK'
    <3>1. /\ authoritative' \in BOOLEAN /\ standing' \in BOOLEAN
          /\ jobOver' \in BOOLEAN
      BY <1>4, Zenon DEF LoseDecision, PublicationTypeOK
    <3>2. /\ revision' \in 0..MaxRevision
          /\ attemptStatus' \in {"running", "published", "superseded", "audit-only"}
      BY <1>4 DEF LoseDecision, RevisionLeft, PublicationTypeOK
    <3> QED
      BY <1>1, <1>4, <3>1, <3>2 DEF LoseDecision, PublicationTypeOK
  <2>2. DeliveryInv'
    BY <1>4 DEF LoseDecision, RevisionLeft, PublicationTypeOK, DeliveryInv, DecisionMade
  <2> QED
    BY <2>1, <2>2
<1>5. CASE FailJob \/ ExpireLease
  <2> USE <1>5 DEF FailJob, ExpireLease
  <2>1. PublicationTypeOK'
    BY DEF PublicationTypeOK
  <2>2. DeliveryInv'
    BY DEF PublicationTypeOK, DeliveryInv, DecisionMade
  <2> QED
    BY <2>1, <2>2
<1> QED
  BY <1>3, <1>4, <1>5

-----------------------------------------------------------------------------
\* The inductive step, one lemma per kind of step.
LEMMA NextHolds ==
  ASSUME PublicationTypeOK, DeliveryInv, [Next]_vars
  PROVE  PublicationTypeOK' /\ DeliveryInv'
<1>1. CASE Next
  BY <1>1, SaveStep, EnqueueStep, ClaimStep, DecideStep, PatchStep, MarkStep, SyncStep,
     WorkerStep, WorldStep DEF Next, Continue
<1>2. CASE UNCHANGED vars
  <2> USE <1>2 DEF vars, outboxVars, syncVars, storeVars, worldVars, workVars
  <2>1. PublicationTypeOK'
    BY DEF PublicationTypeOK
  <2>2. DeliveryInv'
    BY DEF DeliveryInv, DecisionMade
  <2> QED
    BY <2>1, <2>2
<1> QED
  BY <1>1, <1>2

\* The state stays well typed; no publication is delivered more often than
\* its budget allows (MAX_PUBLICATION_ATTEMPTS in claim_publication).
THEOREM PublicationTypeCorrect == Spec => []PublicationTypeOK
<1>1. Init => PublicationTypeOK /\ DeliveryInv
  BY InitHolds
<1>2. PublicationTypeOK /\ DeliveryInv /\ [Next]_vars => PublicationTypeOK' /\ DeliveryInv'
  BY NextHolds
<1> QED
  BY <1>1, <1>2, PTL DEF Spec

-----------------------------------------------------------------------------
(* One worker: a published sync is shown.                                  *)

\* Whoever is about to mark a publication published has seen the Check
\* conclude, and nobody announces an execution after that.
ConcludedInv ==
  /\ \A w \in Workers :
       pc[w] = "mark" /\ task[w] # "sync" /\ mark[w] = "published" => check # NotConcluded
  /\ outbox = "published" => check # NotConcluded

\* The first delivery comes before everything it makes possible: the steps
\* of the terminal publication and what its row is by then.
FirstInv ==
  /\ outbox # NoRow => saved
  /\ outbox = NoRow => deliveries = 0
  /\ outbox = "in_progress" => deliveries # 0
  /\ deliveries = 0 => ~standing /\ \A r \in Revisions : syncStatus[r] = NoRow
  /\ \A w \in Workers :
       /\ IF pc[w] \in {"announce", "review"} THEN ~saved ELSE pc[w] # "idle" => saved
       /\ pc[w] \in {"enqueue", "claim", "claim_enqueued", "decide"} => task[w] # "sync"
       /\ pc[w] \in {"verify", "read_bypasses"} => task[w] = "sync"
       /\ pc[w] \in {"verify", "read_bypasses", "patch", "mark"} /\ task[w] = "sync"
            => deliveries # 0
       /\ pc[w] = "enqueue" => outbox = NoRow
       /\ pc[w] = "claim" => outbox = NoRow \/ Claimable
       /\ pc[w] = "claim_enqueued" => outbox = "queued" /\ deliveries = 0
       /\ pc[w] \in {"decide", "patch", "mark"} /\ task[w] # "sync" =>
            /\ outbox = "in_progress"
            /\ deliveries = 1 => \A r \in Revisions : syncStatus[r] \in {NoRow, "queued", "superseded"}

\* No intent is ahead of the revision.
IntentInv ==
  /\ standing => revision # 0
  /\ \A r \in Revisions : r > revision => syncStatus[r] = NoRow
  /\ \A w \in Workers :
       \/ pc[w] \in {"verify", "read_bypasses"}
       \/ pc[w] \in {"patch", "mark"} /\ task[w] = "sync"
       => intent[w] \in 1..revision

\* A worker on the way to deliver the intent of the current revision carries
\* what it read of the decision, which only a newer revision changes.
CarriedInv ==
  \A w \in Workers :
    /\ pc[w] \in {"read_bypasses", "patch", "mark"} /\ task[w] = "sync" /\ intent[w] = revision
       /\ (pc[w] = "mark" => mark[w] = "published") =>
         /\ payload[w].gate = StandingGate
         /\ pc[w] # "read_bypasses" => payload[w].marked = accepted
         /\ pc[w] = "mark" => check = payload[w]
    /\ pc[w] \in {"read_bypasses", "patch"} /\ task[w] = "sync"
         => revision \in Revisions /\ syncStatus[revision] # "published"
    /\ pc[w] = "verify" /\ intent[w] = revision => syncStatus[revision] = "in_progress"

ShownInv == SyncIsPublished /\ FirstDelivery => CheckIsCurrent

OneWorkerInv == ConcludedInv /\ FirstInv /\ IntentInv /\ CarriedInv /\ ShownInv

LEMMA OneInit == ASSUME Init PROVE OneWorkerInv
<1> USE DEF Init
<1>1. ConcludedInv /\ FirstInv
  BY DEF ConcludedInv, FirstInv, NoRow
<1>2. IntentInv
  BY DEF IntentInv
<1>3. CarriedInv
  BY DEF CarriedInv
<1>4. ShownInv
  BY DEF ShownInv, SyncIsPublished
<1> QED BY <1>1, <1>2, <1>3, <1>4 DEF OneWorkerInv

\* An execution comes before the first delivery.
LEMMA OneExecute ==
  ASSUME NEW w \in Workers, Workers = {w}, PublicationTypeOK, OneWorkerInv,
         Execute(w) \/ Announce(w) \/ ReviewFails(w) \/ SaveResult(w)
  PROVE  OneWorkerInv'
<1> USE DEF OneWorkerInv, PublicationTypeOK, Execute, Announce, ReviewFails, SaveResult, Goto,
            SpendError, outboxVars, syncVars, worldVars, storeVars, workVars
<1>1. ~saved /\ outbox = NoRow /\ deliveries = 0 /\ outbox' = NoRow /\ deliveries' = 0
  BY DEF FirstInv
<1>2. pc'[w] \in {"idle", "announce", "review", "enqueue"}
  OBVIOUS
<1>3. ConcludedInv'
  BY <1>1, <1>2 DEF ConcludedInv, NoRow
<1>4. FirstInv'
  BY <1>1, <1>2 DEF FirstInv, NoRow
<1>5. IntentInv' /\ CarriedInv'
  BY <1>2 DEF IntentInv, CarriedInv
<1>6. ShownInv'
  BY <1>1 DEF ShownInv, FirstDelivery
<1> QED BY <1>3, <1>4, <1>5, <1>6

\* How the terminal publication is begun and claimed.
LEMMA OneBegin ==
  ASSUME NEW w \in Workers, Workers = {w}, PublicationTypeOK, OneWorkerInv,
         \/ Scan(w) \/ Enqueue(w) \/ ClaimPending(w) \/ ClaimEnqueued(w)
         \/ MarkPublication(w) \/ MarkFails(w)
  PROVE  OneWorkerInv'
<1> USE DEF OneWorkerInv, PublicationTypeOK
<1>0. ConcludedInv'
  BY DEF ConcludedInv, Scan, Enqueue, ClaimPending, ClaimEnqueued, Claim, AfterClaim,
     MarkPublication, MarkFails, Goto, SpendError, workVars, syncVars, worldVars, storeVars,
     outboxVars
<1>1. CASE MarkFails(w)
  <2> USE <1>1 DEF MarkFails, Goto, SpendError, outboxVars, syncVars, storeVars
  <2>1. FirstInv'
    BY DEF FirstInv
  <2>2. IntentInv' /\ CarriedInv'
    BY DEF IntentInv, CarriedInv, StandingGate
  <2>3. ShownInv'
    BY DEF ShownInv, StandingGate, SyncIsPublished, FirstDelivery, CheckIsCurrent
  <2> QED BY <1>0, <2>1, <2>2, <2>3
<1>2. CASE Scan(w)
  <2> USE <1>2 DEF Scan, Goto, outboxVars, syncVars, worldVars, storeVars
  <2>1. FirstInv'
    BY DEF FirstInv, Claimable, Pending
  <2>2. IntentInv' /\ CarriedInv' /\ ShownInv'
    BY DEF IntentInv, CarriedInv, ShownInv, StandingGate, SyncIsPublished, FirstDelivery, CheckIsCurrent
  <2> QED BY <1>0, <2>1, <2>2
<1>3. CASE Enqueue(w)
  <2> USE <1>3 DEF Enqueue, Goto, workVars, syncVars, worldVars, storeVars
  <2>1. FirstInv'
    BY DEF FirstInv, NoRow
  <2>2. IntentInv' /\ CarriedInv'
    BY DEF IntentInv, CarriedInv, StandingGate
  <2>3. ShownInv'
    BY DEF ShownInv, StandingGate, SyncIsPublished, FirstDelivery, CheckIsCurrent
  <2> QED BY <1>0, <2>1, <2>2, <2>3
<1>4. CASE ClaimPending(w) \/ ClaimEnqueued(w)
  <2> USE <1>4, BoundsAssumption DEF ClaimPending, ClaimEnqueued, Claim, Goto, workVars, syncVars,
                                worldVars, storeVars, AfterClaim
  <2>1. FirstInv'
    <3>1. CASE Claimable
      BY <3>1 DEF FirstInv, Claimable, NoRow
    <3>2. CASE ~Claimable
      <4>1. pc[w] = "claim" /\ outbox = NoRow
        BY <3>2 DEF FirstInv, Claimable
      <4> QED BY <3>2, <4>1 DEF FirstInv
    <3> QED BY <3>1, <3>2
  <2>2. IntentInv' /\ CarriedInv'
    BY DEF IntentInv, CarriedInv, StandingGate, FirstInv
  <2>3. ShownInv'
    BY DEF ShownInv, StandingGate, SyncIsPublished, FirstDelivery, CheckIsCurrent
  <2> QED BY <1>0, <2>1, <2>2, <2>3
<1>5. CASE MarkPublication(w)
  <2> USE <1>5 DEF MarkPublication, Goto, workVars, syncVars, worldVars, storeVars
  <2>1. FirstInv'
    BY DEF FirstInv, PublicationStatus, NoRow
  <2>2. IntentInv' /\ CarriedInv'
    BY DEF IntentInv, CarriedInv, StandingGate
  <2>3. ShownInv'
    <3> SUFFICES ASSUME SyncIsPublished', FirstDelivery' PROVE FALSE
      BY DEF ShownInv
    <3>1. \A r \in Revisions : syncStatus[r] \in {NoRow, "queued", "superseded"}
      BY DEF FirstInv, FirstDelivery
    <3>2. revision \in Revisions
      BY BoundsAssumption DEF IntentInv, SyncIsPublished, Revisions
    <3> QED BY <3>1, <3>2 DEF SyncIsPublished, NoRow
  <2> QED BY <1>0, <2>1, <2>2, <2>3
<1> QED BY <1>1, <1>2, <1>3, <1>4, <1>5

\* The decision and the update of the Check.
LEMMA OneDeliver ==
  ASSUME NEW w \in Workers, Workers = {w}, PublicationTypeOK, DeliveryInv, OneWorkerInv,
         Decide(w) \/ DecideFails(w) \/ Patch(w)
  PROVE  OneWorkerInv'
<1> USE DEF OneWorkerInv, PublicationTypeOK
<1>0. ConcludedInv'
  <2>1. CASE Decide(w) \/ DecideFails(w)
    BY <2>1 DEF ConcludedInv, Decide, DecideFails, Goto, SpendError, outboxVars, worldVars
  <2>2. CASE Patch(w)
    <3> USE <2>2 DEF Patch, Goto, SpendError, outboxVars
    <3>1. payload[w] # NotConcluded
      BY ContentsConclude
    <3>2. PICK ok \in BOOLEAN : /\ ok => check' = payload[w]
                                /\ mark' = [mark EXCEPT ![w] = MarkAfter(w, ok)]
      OBVIOUS
    <3>3. task[w] # "sync" /\ mark'[w] = "published" => ok
      BY <3>2 DEF MarkAfter
    <3>4. check # NotConcluded => check' # NotConcluded
      BY <3>1
    <3> QED BY <3>1, <3>2, <3>3, <3>4 DEF ConcludedInv
  <2> QED BY <2>1, <2>2
<1>1. CASE Decide(w)
  <2> USE <1>1 DEF Decide, Goto, outboxVars, syncVars, worldVars
  <2>1. revision' \in {revision, revision + 1} /\ (standing' => standing \/ revision' = revision + 1)
    OBVIOUS
  <2>2. FirstInv'
    BY DEF FirstInv
  <2>3. IntentInv'
    BY <2>1 DEF FirstInv, IntentInv, Revisions
  <2>4. CarriedInv'
    BY DEF FirstInv, CarriedInv
  <2>5. ShownInv'
    BY DEF FirstInv, ShownInv, FirstDelivery
  <2> QED BY <1>0, <2>2, <2>3, <2>4, <2>5
<1>2. CASE DecideFails(w)
  <2> USE <1>2 DEF DecideFails, Goto, SpendError, outboxVars, syncVars, storeVars
  <2>1. FirstInv'
    BY DEF FirstInv
  <2>2. IntentInv' /\ CarriedInv'
    BY DEF FirstInv, IntentInv, CarriedInv, StandingGate
  <2>3. ShownInv'
    BY DEF FirstInv, ShownInv, FirstDelivery
  <2> QED BY <1>0, <2>1, <2>2, <2>3
<1>3. CASE Patch(w)
  <2> USE <1>3 DEF Patch, Goto, SpendError, outboxVars, syncVars, storeVars
  <2>1. FirstInv'
    BY DEF FirstInv
  <2>2. IntentInv'
    BY DEF FirstInv, IntentInv
  <2>3. CarriedInv'
    <3>1. PICK ok \in BOOLEAN : /\ ok => check' = payload[w]
                                /\ mark' = [mark EXCEPT ![w] = MarkAfter(w, ok)]
      OBVIOUS
    <3>2. task[w] = "sync" /\ mark'[w] = "published" => check' = payload[w]
      BY <3>1 DEF MarkAfter
    <3> QED BY <3>2 DEF CarriedInv, StandingGate
  <2>4. ShownInv'
    BY DEF FirstInv, CarriedInv, ShownInv, FirstDelivery, SyncIsPublished
  <2> QED BY <1>0, <2>1, <2>2, <2>3, <2>4
<1> QED BY <1>1, <1>2, <1>3

\* The delivery of a sync.
LEMMA OneSync ==
  ASSUME NEW w \in Workers, Workers = {w}, PublicationTypeOK, OneWorkerInv,
         ClaimSomeSync(w) \/ VerifySync(w) \/ ReadBypasses(w) \/ MarkSync(w)
  PROVE  OneWorkerInv'
<1> USE DEF OneWorkerInv, PublicationTypeOK
<1>0. ConcludedInv'
  BY DEF ConcludedInv, FirstInv, ClaimSomeSync, ClaimSync, VerifySync, ReadBypasses, MarkSync,
     Goto, workVars, worldVars, outboxVars
<1>1. CASE ClaimSomeSync(w)
  <2>1. PICK r \in Revisions : ClaimSync(w, r)
    BY <1>1 DEF ClaimSomeSync
  <2> USE <2>1 DEF ClaimSync, outboxVars, worldVars, storeVars, LiveSync
  <2>2. r <= revision /\ r \in 1..revision
    BY BoundsAssumption DEF IntentInv, Revisions, NoRow
  <2>3. FirstInv'
    BY DEF FirstInv, NoRow, Claimable
  <2>4. IntentInv'
    BY <2>2 DEF IntentInv
  <2>5. CarriedInv'
    BY <2>2 DEF CarriedInv
  <2>6. ShownInv'
    <3>1. SyncIsPublished' => SyncIsPublished
      <4>1. standing => revision \in Revisions
        BY BoundsAssumption DEF IntentInv, Revisions
      <4> QED BY <4>1 DEF SyncIsPublished
    <3> QED BY <3>1 DEF ShownInv, SyncIsPublished, FirstDelivery, CheckIsCurrent, StandingGate
  <2> QED BY <1>0, <2>3, <2>4, <2>5, <2>6
<1>2. CASE VerifySync(w)
  <2> USE <1>2 DEF VerifySync, Goto, outboxVars, syncVars, worldVars, storeVars
  <2>1. FirstInv'
    BY DEF FirstInv
  <2>2. IntentInv'
    BY DEF IntentInv
  <2>3. CarriedInv'
    BY BoundsAssumption DEF FirstInv, IntentInv, CarriedInv, StandingGate, IsCurrent, Contents, Revisions
  <2>4. ShownInv'
    BY DEF ShownInv, SyncIsPublished, FirstDelivery, CheckIsCurrent, StandingGate
  <2> QED BY <1>0, <2>1, <2>2, <2>3, <2>4
<1>3. CASE ReadBypasses(w)
  <2> USE <1>3 DEF ReadBypasses, Goto, outboxVars, syncVars, worldVars, storeVars
  <2>1. FirstInv'
    BY DEF FirstInv
  <2>2. IntentInv'
    BY DEF FirstInv, IntentInv
  <2>3. CarriedInv'
    BY DEF FirstInv, CarriedInv, StandingGate, Contents
  <2>4. ShownInv'
    BY DEF ShownInv, SyncIsPublished, FirstDelivery, CheckIsCurrent, StandingGate
  <2> QED BY <1>0, <2>1, <2>2, <2>3, <2>4
<1>4. CASE MarkSync(w)
  <2> USE <1>4 DEF MarkSync, Goto, outboxVars, worldVars, storeVars, workVars
  <2>1. intent[w] \in 1..revision /\ intent[w] \in Revisions
    BY BoundsAssumption DEF IntentInv, Revisions
  <2>2. FirstInv'
    BY <2>1 DEF FirstInv
  <2>3. IntentInv'
    BY <2>1, BoundsAssumption DEF IntentInv, Revisions
  <2>4. CarriedInv'
    BY DEF CarriedInv
  <2>5. ShownInv'
    <3>1. CASE intent[w] # revision
      BY <3>1 DEF ShownInv, SyncIsPublished, FirstDelivery, CheckIsCurrent, StandingGate
    <3>2. CASE intent[w] = revision /\ mark[w] = "published"
      <4>1. payload[w] = [gate |-> payload[w].gate, marked |-> payload[w].marked]
        BY DEF Contents
      <4>2. check = payload[w] /\ payload[w].gate = StandingGate /\ payload[w].marked = accepted
        BY <3>2 DEF CarriedInv
      <4>3. CheckIsCurrent
        BY <4>1, <4>2 DEF CheckIsCurrent
      <4> QED BY <4>3 DEF ShownInv, CheckIsCurrent, StandingGate
    <3>3. CASE intent[w] = revision /\ mark[w] # "published"
      BY <2>1, <3>3 DEF ShownInv, SyncIsPublished
    <3> QED BY <3>1, <3>2, <3>3
  <2> QED BY <1>0, <2>2, <2>3, <2>4, <2>5
<1> QED BY <1>1, <1>2, <1>3, <1>4

\* What happens meanwhile: a newer revision has its own intent.
LEMMA OneWorld ==
  ASSUME NEW w \in Workers, Workers = {w}, PublicationTypeOK, OneWorkerInv,
         \/ FinalizeExhausted(w) \/ Crash(w) \/ FailJob \/ ExpireLease
         \/ \E f \in Findings : Bypass(f)
         \/ \E takenOver \in BOOLEAN : LoseDecision(takenOver)
  PROVE  OneWorkerInv'
<1> USE DEF OneWorkerInv, PublicationTypeOK
<1>0. ConcludedInv'
  BY DEF ConcludedInv, FinalizeExhausted, Crash, FailJob, ExpireLease, Bypass, LoseDecision,
     workVars, worldVars, outboxVars
<1>1. CASE FinalizeExhausted(w) \/ FailJob
  <2> USE <1>1 DEF FinalizeExhausted, FailJob, outboxVars, syncVars, worldVars, workVars
  <2>1. FirstInv'
    BY DEF FirstInv, Claimable
  <2>2. IntentInv' /\ CarriedInv'
    BY DEF IntentInv, CarriedInv, StandingGate
  <2>3. ShownInv'
    BY DEF ShownInv, SyncIsPublished, FirstDelivery, CheckIsCurrent, StandingGate
  <2> QED BY <1>0, <2>1, <2>2, <2>3
<1>2. CASE Crash(w)
  <2> USE <1>2 DEF Crash, outboxVars, syncVars, storeVars, workVars
  <2>1. FirstInv'
    BY DEF FirstInv
  <2>2. IntentInv' /\ CarriedInv'
    BY DEF IntentInv, CarriedInv
  <2>3. ShownInv'
    BY DEF ShownInv, SyncIsPublished, FirstDelivery, CheckIsCurrent, StandingGate
  <2> QED BY <1>0, <2>1, <2>2, <2>3
<1>3. CASE ExpireLease
  <2> USE <1>3 DEF ExpireLease, syncVars, storeVars, workVars, worldVars
  <2>1. FirstInv'
    BY DEF FirstInv, Claimable
  <2>2. IntentInv' /\ CarriedInv'
    BY DEF IntentInv, CarriedInv, StandingGate
  <2>3. ShownInv'
    BY DEF ShownInv, SyncIsPublished, FirstDelivery, CheckIsCurrent, StandingGate
  <2> QED BY <1>0, <2>1, <2>2, <2>3
<1>4. ASSUME NEW f \in Findings, Bypass(f)
      PROVE  OneWorkerInv'
  <2> USE <1>4 DEF Bypass, RevisionLeft, outboxVars, workVars, worldVars
  <2>1. /\ revision + 1 \in Revisions /\ revision' = revision + 1
        /\ syncStatus' = [SupersededSyncs EXCEPT ![revision + 1] = "queued"]
        /\ syncStatus'[revision + 1] = "queued"
        /\ \A r \in Revisions : r # revision + 1 =>
             syncStatus'[r] = IF syncStatus[r] \in LiveSync THEN "superseded" ELSE syncStatus[r]
    BY BoundsAssumption DEF Revisions, EnqueuedSync, SupersededSyncs
  <2>2. FirstInv'
    BY <2>1 DEF FirstInv, Claimable, LiveSync, NoRow
  <2>3. IntentInv'
    BY <2>1 DEF IntentInv, LiveSync, NoRow, Revisions
  <2>4. CarriedInv'
    BY <2>1 DEF CarriedInv, IntentInv, FirstInv
  <2>5. ShownInv'
    BY <2>1 DEF ShownInv, SyncIsPublished
  <2> QED BY <1>0, <2>2, <2>3, <2>4, <2>5
<1>5. ASSUME NEW takenOver \in BOOLEAN, LoseDecision(takenOver)
      PROVE  OneWorkerInv'
  <2> USE <1>5 DEF LoseDecision, RevisionLeft, outboxVars, workVars, worldVars
  <2>1. /\ revision + 1 \in Revisions /\ revision' = revision + 1 /\ standing' = FALSE
        /\ \A r \in Revisions :
             syncStatus'[r] = IF syncStatus[r] \in LiveSync THEN "superseded" ELSE syncStatus[r]
    BY BoundsAssumption DEF Revisions, SupersededSyncs
  <2>2. FirstInv'
    BY <2>1 DEF FirstInv, Claimable, LiveSync, NoRow
  <2>3. IntentInv'
    BY <2>1 DEF IntentInv, LiveSync, NoRow, Revisions
  <2>4. CarriedInv'
    BY <2>1 DEF CarriedInv, IntentInv, FirstInv, LiveSync, NoRow
  <2>5. ShownInv'
    BY <2>1 DEF ShownInv, SyncIsPublished
  <2> QED BY <1>0, <2>2, <2>3, <2>4, <2>5
<1> QED BY <1>1, <1>2, <1>3, <1>4, <1>5

LEMMA OneNext ==
  ASSUME NEW w0, Workers = {w0}, PublicationTypeOK, DeliveryInv, OneWorkerInv, [Next]_vars
  PROVE  OneWorkerInv'
<1>1. CASE Next
  BY <1>1, OneExecute, OneBegin, OneDeliver, OneSync, OneWorld DEF Next, Continue
<1>2. CASE UNCHANGED vars
  BY <1>2 DEF vars, storeVars, outboxVars, syncVars, workVars, worldVars, OneWorkerInv, ConcludedInv, FirstInv,
     IntentInv, CarriedInv, ShownInv, StandingGate, SyncIsPublished, FirstDelivery, CheckIsCurrent, Claimable
<1> QED BY <1>1, <1>2

\* What holds of the one worker, and that it always does.
LEMMA OneWorkerHolds ==
  ASSUME NEW w0, Workers = {w0}
  PROVE  Spec => [](DeliveryInv /\ OneWorkerInv)
<1>1. Init => PublicationTypeOK /\ DeliveryInv /\ OneWorkerInv
  BY InitHolds, OneInit
<1>2. PublicationTypeOK /\ DeliveryInv /\ OneWorkerInv /\ [Next]_vars
        => PublicationTypeOK' /\ DeliveryInv' /\ OneWorkerInv'
  BY NextHolds, OneNext
<1> QED
  BY <1>1, <1>2, PTL DEF Spec

\* In the shipped deployment, one durable worker: however executions,
\* deliveries, retries, Check syncs, crashes, errors and withdrawals interleave,
\* the Check concludes only after the store decided, and as long as the
\* publication is marked published the Check is concluded
\* (publish_if_authoritative before update_check_run before mark_publication,
\* and no announcement of an execution after them).
THEOREM CheckFollows ==
  ASSUME NEW w0, Workers = {w0}
  PROVE  Spec => []CheckFollowsDecision
<1>1. DeliveryInv /\ OneWorkerInv => CheckFollowsDecision
  BY DEF DeliveryInv, OneWorkerInv, ConcludedInv, DecisionMade, CheckFollowsDecision
<1> QED
  BY <1>1, OneWorkerHolds, PTL

\* In the shipped deployment, one durable worker, a first delivery is never
\* overtaken: when the sync of the current revision is published, the Check shows
\* the decision that stands with every accepted risk, whatever was accepted,
\* withdrawn, failed or crashed on the way.
THEOREM SyncsAreShown ==
  ASSUME NEW w0, Workers = {w0}
  PROVE  Spec => []PublishedSyncIsShown
<1>1. OneWorkerInv => PublishedSyncIsShown
  BY DEF OneWorkerInv, ShownInv, PublishedSyncIsShown
<1> QED
  BY <1>1, OneWorkerHolds, PTL
=============================================================================
