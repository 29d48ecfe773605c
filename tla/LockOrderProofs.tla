--------------------------- MODULE LockOrderProofs ---------------------------
(***************************************************************************)
(* Proofs about the locks, for any number of transactions, change requests *)
(* and Attempts.                                                           *)
(***************************************************************************)
EXTENDS LockOrderProps, TLAPS

-----------------------------------------------------------------------------
(* The inductive invariant.                                                *)

OnChangeRequest(t) == kind[t] \in AdvisoryKinds \cup {"claim"}

\* Two transactions never hold conflicting locks.
Exclusion ==
  \A t, u \in Transactions : t # u /\ Active(t) /\ Active(u) =>
    \A l \in Held(t), m \in Held(u) : ~Conflict(l, m)

\* A transaction is at one of its requests, or beyond the last one.
Positions ==
  \A t \in Transactions : Active(t) => pc[t] <= Len(Locks(t)) + 1

\* A transaction on a change request, or on an Attempt, has one.
Named ==
  \A t \in Transactions :
    /\ OnChangeRequest(t) => request[t] \in ChangeRequests
    /\ kind[t] \in {"start", "publish", "bypass", "claim", "job"} => attempt[t] \in Attempts
Typed == LockTypeOK /\ Named

\* Its Attempt is one of its change request; a start's is nobody's yet, nor
\* another start's.  Only who is on a change request has read one.
Arguments ==
  /\ \A t \in Transactions :
       /\ ~OnChangeRequest(t) => seen[t] = Unread
       /\ kind[t] \in {"publish", "bypass", "claim"} => owner[attempt[t]] = request[t]
       /\ kind[t] = "start" => owner[attempt[t]] = None
  /\ \A t, u \in Transactions :
       kind[t] = "start" /\ kind[u] = "start" /\ t # u => attempt[t] # attempt[u]

\* The Attempts that a change request, or who read it, refers to are its own.
OwnAttempts ==
  /\ \A c \in ChangeRequests :
       /\ authority[c] # None => owner[authority[c]] = c
       /\ standing[c] # None => owner[standing[c]] = c
  /\ \A t \in Transactions :
       /\ seen[t].authority # None => owner[seen[t].authority] = request[t]
       /\ seen[t].standing # None => owner[seen[t].standing] = request[t]

\* At most one recovery runs.
OneRecovery ==
  \A t, u \in Transactions : kind[t] = "recover" /\ kind[u] = "recover" => t = u

\* Whoever locked the change request knows what it says.
Current ==
  \A t \in Transactions :
    OnChangeRequest(t) /\ (\E l \in Held(t) : l.table = "request") =>
      seen[t] = [authority |-> authority[request[t]], standing |-> standing[request[t]]]

LockInv == Typed /\ Exclusion /\ Positions /\ Arguments /\ OwnAttempts /\ OneRecovery /\ Current

-----------------------------------------------------------------------------
(* What the lock requests of a transaction are.                            *)

\* A transaction that a step does not touch.
Untouched(u) ==
  /\ kind'[u] = kind[u] /\ request'[u] = request[u] /\ attempt'[u] = attempt[u]
  /\ delivery'[u] = delivery[u] /\ batch'[u] = batch[u] /\ seen'[u] = seen[u]
  /\ pc'[u] = pc[u]

\* Its requests, and what it holds, stay the same.
LEMMA LocksStay ==
  ASSUME NEW u \in Transactions, Untouched(u)
  PROVE  Locks(u)' = Locks(u) /\ Held(u)' = Held(u)
<1>1. Locks(u)' = Locks(u)
  BY DEF Untouched, Locks, StartLocks, PublishLocks, BypassLocks, InvalidateLocks, ClaimLocks,
     RecoverLocks, SingleLock, Lock, Advisory
<1>2. QED
  BY <1>1 DEF Untouched, Held

\* The fields of a lock.
LEMMA TableOf ==
  /\ \A table, id, mode :
       /\ Lock(table, id, mode).table = table
       /\ Lock(table, id, mode).id = id
       /\ Lock(table, id, mode).mode = mode
  /\ \A c : Advisory(c) = Lock("advisory", c, "update")
  BY DEF Lock, Advisory

\* What a transaction requests, by its kind: the rows of its own change
\* request, its own Attempt, what it read, or jobs.
LEMMA StartRequests ==
  ASSUME NEW t \in Transactions, kind[t] = "start"
  PROVE  /\ Len(Locks(t)) = 8
         /\ Locks(t)[1] = Advisory(request[t])
         /\ Locks(t)[2] = Lock("delivery", delivery[t], "update")
         /\ Locks(t)[3] = Lock("request", request[t], "update")
         /\ Locks(t)[4] = Lock("attempt", seen[t].authority, "nokey")
         /\ Locks(t)[5] = Lock("job", seen[t].authority, "nokey")
         /\ Locks(t)[6] = Lock("bypasses", request[t], "nokey")
         /\ Locks(t)[7] = Lock("intents", seen[t].standing, "nokey")
         /\ Locks(t)[8] = Lock("decisions", request[t], "nokey")
  BY DEF Locks, StartLocks

LEMMA PublishRequests ==
  ASSUME NEW t \in Transactions, kind[t] = "publish"
  PROVE  /\ Len(Locks(t)) = 5
         /\ Locks(t)[1] = Advisory(request[t])
         /\ Locks(t)[2] = Lock("attempt", attempt[t], "update")
         /\ Locks(t)[3] = Lock("request", request[t], "update")
         /\ Locks(t)[4] =
              Lock("decisions", IF seen[t].authority = attempt[t] THEN request[t] ELSE None, "nokey")
         /\ Locks(t)[5] = Lock("job", attempt[t], "nokey")
  BY DEF Locks, PublishLocks

LEMMA BypassRequests ==
  ASSUME NEW t \in Transactions, kind[t] = "bypass"
  PROVE  /\ Len(Locks(t)) = 6
         /\ Locks(t)[1] = Advisory(request[t])
         /\ Locks(t)[2] = Lock("request", request[t], "update")
         /\ Locks(t)[3] = Lock("attempt", attempt[t], "update")
         /\ Locks(t)[4] = Lock("bypasses", request[t], "nokey")
         /\ Locks(t)[5] = Lock("decisions", request[t], "nokey")
         /\ Locks(t)[6] = Lock("intents", attempt[t], "nokey")
  BY DEF Locks, BypassLocks

LEMMA InvalidateRequests ==
  ASSUME NEW t \in Transactions, kind[t] = "invalidate"
  PROVE  /\ Len(Locks(t)) = 4
         /\ Locks(t)[1] = Advisory(request[t])
         /\ Locks(t)[2] = Lock("request", request[t], "update")
         /\ Locks(t)[3] = Lock("bypasses", request[t], "nokey")
         /\ Locks(t)[4] = Lock("intents", seen[t].standing, "nokey")
  BY DEF Locks, InvalidateLocks

LEMMA ClaimRequests ==
  ASSUME NEW t \in Transactions, kind[t] = "claim"
  PROVE  /\ Len(Locks(t)) = 3
         /\ Locks(t)[1] = Lock("attempt", attempt[t], "update")
         /\ Locks(t)[2] = Lock("job", attempt[t], "update")
         /\ Locks(t)[3] = Lock("request", request[t], "update")
  BY DEF Locks, ClaimLocks

LEMMA RecoverRequests ==
  ASSUME NEW t \in Transactions, kind[t] = "recover", LockTypeOK
  PROVE  /\ Len(Locks(t)) = Len(batch[t])
         /\ Len(Locks(t)) \in Nat
         /\ \A i \in 1..Len(Locks(t)) : Locks(t)[i] = Lock("job", batch[t][i], "update")
<1>1. Locks(t) = [i \in 1..Len(batch[t]) |-> Lock("job", batch[t][i], "update")]
  BY DEF Locks, RecoverLocks
<1>2. batch[t] \in Batches
  BY DEF LockTypeOK
<1>3. PICK n \in 0..MaxBatch : batch[t] \in [1..n -> Attempts]
  BY <1>2 DEF Batches
<1>4. n \in Nat
  BY <1>3, LockAssumption
<1>5. Len(batch[t]) = n
  BY <1>3, <1>4
<1>6. Len(Locks(t)) = n
  BY <1>1, <1>4, <1>5
<1>7. QED
  BY <1>1, <1>4, <1>5, <1>6

LEMMA SingleRequest ==
  ASSUME NEW t \in Transactions, kind[t] \in {"job", "attempt", "reference", "sync"}
  PROVE  /\ Len(Locks(t)) = 1
         /\ Locks(t)[1] = SingleLock(t)
         /\ SingleLock(t).table # "request"
  BY DEF Locks, SingleLock, Lock

LEMMA RequestCount ==
  ASSUME LockTypeOK, NEW t \in Transactions, Active(t)
  PROVE  Len(Locks(t)) \in Nat
<1>1. kind[t] \in AllKinds
  BY LockAssumption DEF Active, LockTypeOK
<1>2. QED
  BY <1>1, StartRequests, PublishRequests, BypassRequests, InvalidateRequests, ClaimRequests,
     RecoverRequests, SingleRequest DEF AllKinds, AdvisoryKinds
-----------------------------------------------------------------------------
(* Type correctness.                                                       *)

LEMMA TypedInit == Init => Typed
<1>1. <<>> \in Batches
  BY LockAssumption DEF Batches
<1>2. QED
  BY <1>1, LockAssumption DEF Init, Typed, LockTypeOK, Named, Unread, OnChangeRequest, AllKinds,
     AdvisoryKinds

\* What beginning and ending a transaction does to its own variables.
LEMMA TypedBegin ==
  ASSUME Typed, NEW t \in Transactions, NEW k \in Kinds,
         NEW c \in ChangeRequests \cup {None}, NEW a \in Attempts \cup {None},
         NEW d \in Deliveries \cup {None}, NEW b \in Batches,
         k \in AdvisoryKinds \cup {"claim"} => c \in ChangeRequests,
         k \in {"start", "publish", "bypass", "claim", "job"} => a \in Attempts,
         Begin(t, k, c, a, d, b)
  PROVE  Typed'
<1>1. LockTypeOK'
  BY DEF Typed, LockTypeOK, Begin, dataVars, Unread
<1>2. Named'
  BY DEF Typed, LockTypeOK, Named, Begin, OnChangeRequest
<1>3. QED
  BY <1>1, <1>2 DEF Typed

LEMMA TypedEnd ==
  ASSUME Typed, NEW t \in Transactions, End(t)
  PROVE  /\ kind' \in [Transactions -> Kinds \cup {None}]
         /\ request' \in [Transactions -> ChangeRequests \cup {None}]
         /\ attempt' \in [Transactions -> Attempts \cup {None}]
         /\ delivery' \in [Transactions -> Deliveries \cup {None}]
         /\ batch' \in [Transactions -> Batches]
         /\ seen' \in [Transactions -> [authority : Attempts \cup {None},
                                        standing : Attempts \cup {None}]]
         /\ pc' \in [Transactions -> Nat \ {0}]
         /\ Named'
<1>1. <<>> \in Batches
  BY LockAssumption DEF Batches
<1>2. None \notin AdvisoryKinds \cup {"claim", "publish", "bypass", "start", "job"}
  BY LockAssumption DEF AllKinds, AdvisoryKinds
<1>3. Named'
  BY <1>2 DEF Typed, LockTypeOK, Named, End, OnChangeRequest, AdvisoryKinds
<1>4. QED
  BY <1>1, <1>3 DEF Typed, LockTypeOK, End, Unread

LEMMA TypedNext == Typed /\ [Next]_vars => Typed'

<1> SUFFICES ASSUME Typed, [Next]_vars PROVE Typed'
  OBVIOUS
<1>1. <<>> \in Batches
  BY LockAssumption DEF Batches
<1>2. CASE UNCHANGED vars
  BY <1>2 DEF Typed, LockTypeOK, Named, OnChangeRequest, vars, dataVars, argumentVars
<1>3. ASSUME NEW t \in Transactions, Start(t) PROVE Typed'
  <2>1. PICK c \in ChangeRequests, a \in Attempts, d \in Deliveries \cup {None} :
          Begin(t, "start", c, a, d, <<>>)
    BY <1>3 DEF Start, BeginStart
  <2>2. "start" \in Kinds
    BY <1>3 DEF Start
  <2>3. QED
    BY <1>1, <2>1, <2>2, TypedBegin
<1>4. ASSUME NEW t \in Transactions, OnAttempt(t) PROVE Typed'
  <2>1. PICK k \in Kinds, a \in Attempts :
          owner[a] # None /\ Begin(t, k, owner[a], a, None, <<>>)
    BY <1>4 DEF OnAttempt, BeginOnAttempt
  <2>2. owner[a] \in ChangeRequests
    BY <2>1 DEF Typed, LockTypeOK
  <2>3. QED
    BY <1>1, <2>1, <2>2, TypedBegin
<1>5. ASSUME NEW t \in Transactions, Invalidate(t) PROVE Typed'
  <2>1. PICK c \in ChangeRequests : Begin(t, "invalidate", c, None, None, <<>>)
    BY <1>5 DEF Invalidate, BeginInvalidate
  <2>2. "invalidate" \in Kinds /\ "invalidate" \notin {"start", "publish", "bypass", "claim", "job"}
    BY <1>5 DEF Invalidate
  <2>3. QED
    BY <1>1, <2>1, <2>2, TypedBegin
<1>6. ASSUME NEW t \in Transactions, Recover(t) PROVE Typed'
  <2>1. PICK b \in Batches : Begin(t, "recover", None, None, None, b)
    BY <1>6 DEF Recover, BeginRecover
  <2>2. /\ "recover" \in Kinds /\ "recover" \notin {"start", "publish", "bypass", "claim", "job"}
        /\ "recover" \notin AdvisoryKinds \cup {"claim"}
    BY <1>6 DEF Recover, AdvisoryKinds
  <2>3. QED
    BY <2>1, <2>2, TypedBegin
<1>7. ASSUME NEW t \in Transactions, Acquire(t) PROVE Typed'
  <2>1. /\ UNCHANGED <<owner, authority, standing, open, decided, kind, request, attempt, delivery,
                       batch>>
        /\ pc' = [pc EXCEPT ![t] = @ + 1]
        /\ Requesting(t)
    BY <1>7 DEF Acquire, dataVars, argumentVars
  <2>2. seen' \in [Transactions -> [authority : Attempts \cup {None}, standing : Attempts \cup {None}]]
    <3>1. CASE Locks(t)[pc[t]].table # "request"
      BY <1>7, <3>1 DEF Acquire, Typed, LockTypeOK
    <3>2. CASE Locks(t)[pc[t]].table = "request"
      <4>1. kind[t] \notin {"recover", "job", "attempt", "reference", "sync"}
        <5>1. pc[t] \in Nat \ {0}
          BY DEF Typed, LockTypeOK
        <5>2. CASE kind[t] = "recover"
          <6>1. pc[t] \in 1..Len(Locks(t))
            BY <2>1, <5>1, <5>2, RecoverRequests DEF Requesting, Typed
          <6>2. QED
            <7>1. Locks(t)[pc[t]] = Lock("job", batch[t][pc[t]], "update")
              BY <5>2, <6>1, RecoverRequests DEF Typed
            <7>2. QED
              BY <3>2, <7>1 DEF Lock
        <5>3. QED
          <6>1. kind[t] \notin {"job", "attempt", "reference", "sync"}
            <7>1. SUFFICES ASSUME kind[t] \in {"job", "attempt", "reference", "sync"} PROVE FALSE
              OBVIOUS
            <7>2. pc[t] = 1
              <8>1. pc[t] <= Len(Locks(t)) /\ Len(Locks(t)) = 1
                BY <2>1, <7>1, SingleRequest DEF Requesting
              <8>2. QED
                BY <5>1, <8>1
            <7>3. QED
              BY <3>2, <7>1, <7>2, SingleRequest
          <6>2. QED
            BY <5>2, <6>1
      <4>2. request[t] \in ChangeRequests
        <5>1. kind[t] \in AllKinds
          BY <2>1, LockAssumption DEF Requesting, Active, Typed, LockTypeOK
        <5>2. QED
          BY <4>1, <5>1 DEF AllKinds, Typed, Named, OnChangeRequest
      <4>3. seen' = [seen EXCEPT ![t] = [authority |-> authority[request[t]],
                                         standing |-> standing[request[t]]]]
        BY <1>7, <3>2 DEF Acquire
      <4>4. QED
        BY <4>2, <4>3 DEF Typed, LockTypeOK
    <3>3. QED
      BY <3>1, <3>2
  <2>3. QED
    <3>1. pc' \in [Transactions -> Nat \ {0}]
      BY <2>1 DEF Typed, LockTypeOK
    <3>2. Named'
      BY <2>1 DEF Typed, Named, OnChangeRequest
    <3>3. QED
      BY <2>1, <2>2, <3>1, <3>2 DEF Typed, LockTypeOK
<1>8. ASSUME NEW t \in Transactions, Leave(t) PROVE Typed'
  <2>1. End(t) /\ UNCHANGED <<owner, authority, standing, open, decided>>
    BY <1>8 DEF Leave, dataVars
  <2>2. LockTypeOK'
    BY <2>1, TypedEnd DEF Typed, LockTypeOK
  <2>3. QED
    BY <2>1, <2>2, TypedEnd DEF Typed
<1>9. ASSUME NEW t \in Transactions, Commit(t) PROVE Typed'
  <2>1. End(t)
    BY <1>9 DEF Commit, CommitStart, CommitPublish, CommitBypass, CommitInvalidate, CommitClaim,
       CommitJobs, CommitRow
  <2>2. /\ owner' \in [Attempts -> ChangeRequests \cup {None}]
        /\ authority' \in [ChangeRequests -> Attempts \cup {None}]
        /\ standing' \in [ChangeRequests -> Attempts \cup {None}]
        /\ open' \subseteq Attempts
        /\ decided' \subseteq Attempts
    <3>1. CASE CommitStart(t)
      BY <3>1 DEF CommitStart, Typed, LockTypeOK, Named, OnChangeRequest, AdvisoryKinds
    <3>2. CASE CommitPublish(t)
      BY <3>2 DEF CommitPublish, Typed, LockTypeOK, Named
    <3>3. CASE CommitBypass(t) \/ CommitRow(t)
      BY <3>3 DEF CommitBypass, CommitRow, dataVars, Typed, LockTypeOK
    <3>4. CASE CommitInvalidate(t)
      BY <3>4 DEF CommitInvalidate, Typed, LockTypeOK
    <3>5. CASE CommitClaim(t)
      BY <3>5 DEF CommitClaim, Typed, LockTypeOK
    <3>6. CASE CommitJobs(t)
      BY <3>6 DEF CommitJobs, Typed, LockTypeOK
    <3>7. QED
      BY <1>9, <3>1, <3>2, <3>3, <3>4, <3>5, <3>6 DEF Commit
  <2>3. LockTypeOK'
    BY <2>1, <2>2, TypedEnd DEF LockTypeOK
  <2>4. QED
    BY <2>1, <2>3, TypedEnd DEF Typed
<1>10. QED
  BY <1>2, <1>3, <1>4, <1>5, <1>6, <1>7, <1>8, <1>9 DEF Next

\* Every variable keeps its type.
THEOREM LockTypeCorrect == Spec => []LockTypeOK
<1>1. Typed => LockTypeOK
  BY DEF Typed
<1>2. QED
  BY <1>1, TypedInit, TypedNext, PTL DEF Spec
-----------------------------------------------------------------------------
(* What a step changes of the locks.                                       *)

LEMMA BeginUntouched ==
  ASSUME Typed, NEW t \in Transactions, NEW k, NEW c, NEW a, NEW d, NEW b,
         Begin(t, k, c, a, d, b), NEW u \in Transactions, u # t
  PROVE  Untouched(u)
  BY DEF Typed, LockTypeOK, Begin, Untouched

LEMMA EndUntouched ==
  ASSUME Typed, NEW t \in Transactions, End(t), NEW u \in Transactions, u # t
  PROVE  Untouched(u)
  BY DEF Typed, LockTypeOK, End, Untouched

LEMMA AcquireUntouched ==
  ASSUME Typed, NEW t \in Transactions, Acquire(t), NEW u \in Transactions, u # t
  PROVE  Untouched(u)
<1>1. seen'[u] = seen[u]
  BY DEF Typed, LockTypeOK, Acquire
<1>2. QED
  BY <1>1 DEF Typed, LockTypeOK, Acquire, argumentVars, Untouched

\* A transaction that begins holds nothing.
LEMMA BeginHoldsNothing ==
  ASSUME Typed, NEW t \in Transactions, NEW k, NEW c, NEW a, NEW d, NEW b,
         Begin(t, k, c, a, d, b)
  PROVE  Held(t)' = {}
  BY DEF Typed, LockTypeOK, Begin, Held

\* Only a transaction on a change request locks one, at one place.
RequestAt(t) ==
  IF kind[t] \in {"start", "publish", "claim"} THEN 3 ELSE 2

LEMMA RequestLock ==
  ASSUME Typed, NEW t \in Transactions, Active(t), NEW i \in Nat \ {0}, i <= Len(Locks(t)),
         Locks(t)[i].table = "request"
  PROVE  /\ OnChangeRequest(t)
         /\ i = RequestAt(t)
         /\ Locks(t)[i] = Lock("request", request[t], "update")
<1>1. CASE kind[t] = "start"
  <2>1. i \in 1..8
    BY <1>1, StartRequests
  <2>2. /\ Locks(t)[1].table = "advisory" /\ Locks(t)[2].table = "delivery"
        /\ Locks(t)[4].table = "attempt" /\ Locks(t)[5].table = "job"
        /\ Locks(t)[6].table = "bypasses" /\ Locks(t)[7].table = "intents"
        /\ Locks(t)[8].table = "decisions"
    BY <1>1, StartRequests, TableOf
  <2>3. i = 3
    BY <2>1, <2>2
  <2>4. QED
    BY <1>1, <2>3, StartRequests DEF RequestAt, OnChangeRequest, AdvisoryKinds
<1>2. CASE kind[t] = "publish"
  <2>1. i \in 1..5
    BY <1>2, PublishRequests
  <2>2. /\ Locks(t)[1].table = "advisory" /\ Locks(t)[2].table = "attempt"
        /\ Locks(t)[4].table = "decisions" /\ Locks(t)[5].table = "job"
    BY <1>2, PublishRequests, TableOf
  <2>3. i = 3
    BY <2>1, <2>2
  <2>4. QED
    BY <1>2, <2>3, PublishRequests DEF RequestAt, OnChangeRequest, AdvisoryKinds
<1>3. CASE kind[t] = "bypass"
  <2>1. i \in 1..6
    BY <1>3, BypassRequests
  <2>2. /\ Locks(t)[1].table = "advisory" /\ Locks(t)[3].table = "attempt"
        /\ Locks(t)[4].table = "bypasses" /\ Locks(t)[5].table = "decisions"
        /\ Locks(t)[6].table = "intents"
    BY <1>3, BypassRequests, TableOf
  <2>3. i = 2
    BY <2>1, <2>2
  <2>4. QED
    BY <1>3, <2>3, BypassRequests DEF RequestAt, OnChangeRequest, AdvisoryKinds
<1>4. CASE kind[t] = "invalidate"
  <2>1. i \in 1..4
    BY <1>4, InvalidateRequests
  <2>2. /\ Locks(t)[1].table = "advisory" /\ Locks(t)[3].table = "bypasses"
        /\ Locks(t)[4].table = "intents"
    BY <1>4, InvalidateRequests, TableOf
  <2>3. i = 2
    BY <2>1, <2>2
  <2>4. QED
    BY <1>4, <2>3, InvalidateRequests DEF RequestAt, OnChangeRequest, AdvisoryKinds
<1>5. CASE kind[t] = "claim"
  <2>1. i \in 1..3
    BY <1>5, ClaimRequests
  <2>2. /\ Locks(t)[1].table = "attempt" /\ Locks(t)[2].table = "job"
    BY <1>5, ClaimRequests, TableOf
  <2>3. i = 3
    BY <2>1, <2>2
  <2>4. QED
    BY <1>5, <2>3, ClaimRequests DEF RequestAt, OnChangeRequest, AdvisoryKinds
<1>6. CASE kind[t] = "recover"
  <2>1. Locks(t)[i] = Lock("job", batch[t][i], "update")
    BY <1>6, RecoverRequests DEF Typed
  <2>2. QED
    BY <2>1 DEF Lock
<1>7. CASE kind[t] \in {"job", "attempt", "reference", "sync"}
  <2>1. Len(Locks(t)) = 1 /\ Locks(t)[1].table # "request"
    BY <1>7, SingleRequest
  <2>2. QED
    BY <2>1
<1>8. kind[t] \in AllKinds
  BY LockAssumption DEF Active, Typed, LockTypeOK
<1>9. QED
  BY <1>1, <1>2, <1>3, <1>4, <1>5, <1>6, <1>7, <1>8 DEF AllKinds, AdvisoryKinds

LEMMA RequestLocked ==
  ASSUME NEW t \in Transactions, OnChangeRequest(t)
  PROVE  /\ RequestAt(t) \in 1..Len(Locks(t))
         /\ Locks(t)[RequestAt(t)] = Lock("request", request[t], "update")
<1>1. CASE kind[t] = "start"
  BY <1>1, StartRequests DEF RequestAt
<1>2. CASE kind[t] = "publish"
  BY <1>2, PublishRequests DEF RequestAt
<1>3. CASE kind[t] = "bypass"
  BY <1>3, BypassRequests DEF RequestAt
<1>4. CASE kind[t] = "invalidate"
  BY <1>4, InvalidateRequests DEF RequestAt
<1>5. CASE kind[t] = "claim"
  BY <1>5, ClaimRequests DEF RequestAt
<1>6. QED
  BY <1>1, <1>2, <1>3, <1>4, <1>5 DEF OnChangeRequest, AdvisoryKinds

\* What it reads there decides later requests only.
LEMMA RequestsBeforeReading ==
  ASSUME NEW t \in Transactions, OnChangeRequest(t),
         kind'[t] = kind[t], request'[t] = request[t], attempt'[t] = attempt[t],
         delivery'[t] = delivery[t]
  PROVE  /\ Len(Locks(t))' = Len(Locks(t))
         /\ \A i \in 1..RequestAt(t) : Locks(t)'[i] = Locks(t)[i]
<1>1. CASE kind[t] = "start"
  BY <1>1 DEF Locks, StartLocks, Lock, Advisory, RequestAt
<1>2. CASE kind[t] = "publish"
  BY <1>2 DEF Locks, PublishLocks, Lock, Advisory, RequestAt
<1>3. CASE kind[t] = "bypass"
  BY <1>3 DEF Locks, BypassLocks, Lock, Advisory, RequestAt
<1>4. CASE kind[t] = "invalidate"
  BY <1>4 DEF Locks, InvalidateLocks, Lock, Advisory, RequestAt
<1>5. CASE kind[t] = "claim"
  BY <1>5 DEF Locks, ClaimLocks, Lock, Advisory, RequestAt
<1>6. QED
  BY <1>1, <1>2, <1>3, <1>4, <1>5 DEF OnChangeRequest, AdvisoryKinds

\* Acquiring adds the requested lock to the ones held.
LEMMA AcquireHolds ==
  ASSUME Typed, NEW t \in Transactions, Acquire(t)
  PROVE  /\ pc[t] \in 1..Len(Locks(t))
         /\ pc'[t] = pc[t] + 1
         /\ Len(Locks(t))' = Len(Locks(t))
         /\ Held(t)' = Held(t) \cup {Locks(t)[pc[t]]}
<1>1. pc[t] \in Nat \ {0} /\ pc'[t] = pc[t] + 1 /\ Active(t) /\ pc[t] <= Len(Locks(t))
  BY DEF Typed, LockTypeOK, Acquire, Requesting
<1>2. /\ kind'[t] = kind[t] /\ request'[t] = request[t] /\ attempt'[t] = attempt[t]
      /\ delivery'[t] = delivery[t] /\ batch'[t] = batch[t]
  BY DEF Acquire, argumentVars
<1>3. Len(Locks(t)) \in Nat
  BY <1>1, RequestCount DEF Typed
<1>4. Len(Locks(t))' = Len(Locks(t)) /\ \A i \in 1..pc[t] : Locks(t)'[i] = Locks(t)[i]
  <2>1. CASE Locks(t)[pc[t]].table = "request"
    <3>1. OnChangeRequest(t) /\ pc[t] = RequestAt(t)
      BY <1>1, <2>1, RequestLock
    <3>2. QED
      BY <1>2, <3>1, RequestsBeforeReading
  <2>2. CASE Locks(t)[pc[t]].table # "request"
    <3>1. seen' = seen
      BY <2>2 DEF Acquire
    <3>2. Locks(t)' = Locks(t)
      BY <1>2, <3>1 DEF Locks, StartLocks, PublishLocks, BypassLocks, InvalidateLocks, ClaimLocks,
         RecoverLocks, SingleLock, Lock, Advisory
    <3>3. QED
      BY <3>2
  <2>3. QED
    BY <2>1, <2>2
<1>5. Held(t)' = {Locks(t)'[i] : i \in 1..pc[t]}
  BY <1>1 DEF Held
<1>6. Held(t)' = {Locks(t)[i] : i \in 1..pc[t]}
  BY <1>4, <1>5
<1>7. 1..pc[t] = (1..(pc[t] - 1)) \cup {pc[t]}
  BY <1>1
<1>8. QED
  BY <1>1, <1>3, <1>4, <1>6, <1>7 DEF Held
-----------------------------------------------------------------------------
(* The invariant is inductive.                                             *)

LEMMA ConflictSymmetric ==
  ASSUME NEW l, NEW m, Conflict(l, m)
  PROVE  Conflict(m, l)
  BY DEF Conflict, ModesConflict

\* Each step begins a transaction, grants a lock, or ends a transaction.
LEMMA StepOf ==
  ASSUME Next
  PROVE  \/ \E t \in Transactions : Start(t) \/ OnAttempt(t) \/ Invalidate(t) \/ Recover(t)
         \/ \E t \in Transactions : Acquire(t)
         \/ \E t \in Transactions : End(t) /\ (Leave(t) \/ Commit(t))
<1>1. \A t \in Transactions : Leave(t) \/ Commit(t) => End(t)
  BY DEF Leave, Commit, CommitStart, CommitPublish, CommitBypass, CommitInvalidate, CommitClaim,
     CommitJobs, CommitRow
<1>2. QED
  BY <1>1 DEF Next

LEMMA BeginOf ==
  ASSUME NEW t \in Transactions, Start(t) \/ OnAttempt(t) \/ Invalidate(t) \/ Recover(t)
  PROVE  \E k, c, a, d, b : Begin(t, k, c, a, d, b)
<1>1. CASE Start(t)
  BY <1>1 DEF Start, BeginStart
<1>2. CASE OnAttempt(t)
  BY <1>2 DEF OnAttempt, BeginOnAttempt
<1>3. CASE Invalidate(t)
  BY <1>3 DEF Invalidate, BeginInvalidate
<1>4. CASE Recover(t)
  BY <1>4 DEF Recover, BeginRecover
<1>5. QED
  BY <1>1, <1>2, <1>3, <1>4

LEMMA StutterUntouched ==
  ASSUME UNCHANGED vars, NEW t \in Transactions
  PROVE  Untouched(t)
  BY DEF vars, argumentVars, Untouched

LEMMA ExclusionNext == Typed /\ Exclusion /\ [Next]_vars => Exclusion'
<1> SUFFICES ASSUME Typed, Exclusion, [Next]_vars,
                    NEW x \in Transactions, NEW y \in Transactions, x # y,
                    kind'[x] # None, kind'[y] # None,
                    NEW l \in Held(x)', NEW m \in Held(y)'
             PROVE  ~Conflict(l, m)
  BY DEF Exclusion, Active, Conflict
<1>1. ASSUME Untouched(x), Untouched(y) PROVE ~Conflict(l, m)
  <2>1. Held(x)' = Held(x) /\ Held(y)' = Held(y) /\ Active(x) /\ Active(y)
    BY <1>1, LocksStay DEF Untouched, Active
  <2>2. QED
    BY <2>1 DEF Exclusion
<1>2. CASE UNCHANGED vars
  BY <1>1, <1>2, StutterUntouched
<1>3. ASSUME NEW t \in Transactions, Start(t) \/ OnAttempt(t) \/ Invalidate(t) \/ Recover(t)
      PROVE  ~Conflict(l, m)
  <2>1. PICK k, c, a, d, b : Begin(t, k, c, a, d, b)
    BY <1>3, BeginOf
  <2>2. x # t /\ y # t
    BY <2>1, BeginHoldsNothing
  <2>3. QED
    BY <1>1, <2>1, <2>2, BeginUntouched
<1>4. ASSUME NEW t \in Transactions, Acquire(t) PROVE ~Conflict(l, m)
  <2>1. ASSUME NEW u \in Transactions, u # t, kind'[u] # None, NEW n \in Held(u)'
        PROVE  /\ \A o \in Held(t) : ~Conflict(n, o)
               /\ ~Conflict(n, Locks(t)[pc[t]])
    <3>1. Held(u)' = Held(u) /\ Active(u)
      BY <1>4, <2>1, AcquireUntouched, LocksStay DEF Untouched, Active
    <3>2. Active(t)
      BY <1>4 DEF Acquire, Requesting
    <3>3. ~Blocks(u, t)
      BY <1>4 DEF Acquire
    <3>4. QED
      BY <2>1, <3>1, <3>2, <3>3 DEF Exclusion, Blocks
  <2>2. ASSUME NEW u \in Transactions, u # t, kind'[u] # None, NEW n \in Held(u)',
               NEW o \in Held(t)'
        PROVE  ~Conflict(n, o)
    <3>1. o \in Held(t) \/ o = Locks(t)[pc[t]]
      BY <1>4, <2>2, AcquireHolds
    <3>2. QED
      BY <2>1, <2>2, <3>1
  <2>3. CASE x = t
    BY <2>2, <2>3, ConflictSymmetric
  <2>4. CASE y = t
    BY <2>2, <2>4
  <2>5. CASE x # t /\ y # t
    BY <1>1, <1>4, <2>5, AcquireUntouched
  <2>6. QED
    BY <2>3, <2>4, <2>5
<1>5. ASSUME NEW t \in Transactions, End(t) PROVE ~Conflict(l, m)
  <2>1. kind'[t] = None
    BY <1>5 DEF End, Typed, LockTypeOK
  <2>2. QED
    BY <1>1, <1>5, <2>1, EndUntouched
<1>6. QED
  BY <1>2, <1>3, <1>4, <1>5, StepOf

LEMMA PositionsNext == Typed /\ Positions /\ [Next]_vars => Positions'
<1>1. Typed /\ [Next]_vars => Typed'
  BY TypedNext
<1>2. Typed => \A t \in Transactions : Active(t) => Len(Locks(t)) \in Nat
  BY RequestCount DEF Typed
<1>3. (Typed => \A t \in Transactions : Active(t) => Len(Locks(t)) \in Nat)'
  BY <1>2, PTL
<1> SUFFICES ASSUME Typed, Positions, [Next]_vars, NEW x \in Transactions, kind'[x] # None
             PROVE  pc'[x] <= Len(Locks(x))' + 1
  BY DEF Positions, Active
<1>4. Len(Locks(x))' \in Nat
  BY <1>1, <1>3 DEF Active
<1>5. ASSUME Untouched(x) PROVE pc'[x] <= Len(Locks(x))' + 1
  BY <1>5, LocksStay DEF Untouched, Positions, Active
<1>6. CASE UNCHANGED vars
  BY <1>5, <1>6, StutterUntouched
<1>7. ASSUME NEW t \in Transactions, Start(t) \/ OnAttempt(t) \/ Invalidate(t) \/ Recover(t)
      PROVE  pc'[x] <= Len(Locks(x))' + 1
  <2>1. PICK k, c, a, d, b : Begin(t, k, c, a, d, b)
    BY <1>7, BeginOf
  <2>2. CASE x = t
    <3>1. pc'[x] = 1
      BY <2>1, <2>2 DEF Begin, Typed, LockTypeOK
    <3>2. QED
      BY <1>4, <3>1
  <2>3. QED
    BY <1>5, <2>1, <2>2, BeginUntouched
<1>8. ASSUME NEW t \in Transactions, Acquire(t) PROVE pc'[x] <= Len(Locks(x))' + 1
  <2>1. CASE x = t
    <3>1. pc[t] \in 1..Len(Locks(t)) /\ pc'[t] = pc[t] + 1 /\ Len(Locks(t))' = Len(Locks(t))
      BY <1>8, AcquireHolds
    <3>2. QED
      BY <1>4, <2>1, <3>1
  <2>2. QED
    BY <1>5, <1>8, <2>1, AcquireUntouched
<1>9. ASSUME NEW t \in Transactions, End(t) PROVE pc'[x] <= Len(Locks(x))' + 1
  <2>1. kind'[t] = None
    BY <1>9 DEF End, Typed, LockTypeOK
  <2>2. QED
    BY <1>5, <1>9, <2>1, EndUntouched
<1>10. QED
  BY <1>6, <1>7, <1>8, <1>9, StepOf

\* What a transaction on an Attempt or a start begins with.
LEMMA BeginArguments ==
  ASSUME Typed, NEW t \in Transactions, Start(t) \/ OnAttempt(t) \/ Invalidate(t) \/ Recover(t)
  PROVE  /\ kind[t] = None
         /\ kind'[t] # None
         /\ UNCHANGED dataVars
         /\ seen'[t] = Unread
         /\ kind'[t] \in {"publish", "bypass", "claim"} => owner[attempt'[t]] = request'[t]
         /\ kind'[t] = "start" => Fresh(attempt'[t])
         /\ kind'[t] = "recover" => \A u \in Transactions : kind[u] # "recover"
<1>1. None \notin Kinds
  BY LockAssumption
<1>2. ASSUME NEW k \in Kinds, NEW c, NEW a, NEW d, NEW b, Begin(t, k, c, a, d, b)
      PROVE  /\ kind[t] = None
             /\ kind'[t] # None
             /\ UNCHANGED dataVars
             /\ kind'[t] = k /\ request'[t] = c /\ attempt'[t] = a
             /\ seen'[t] = Unread
  BY <1>1, <1>2 DEF Begin, Active, Typed, LockTypeOK
<1>3. CASE Start(t)
  <2>1. PICK c \in ChangeRequests, a \in Attempts, d \in Deliveries \cup {None} :
          Fresh(a) /\ Begin(t, "start", c, a, d, <<>>)
    BY <1>3 DEF Start, BeginStart
  <2>2. "start" \in Kinds
    BY <1>3 DEF Start
  <2>3. QED
    BY <1>2, <2>1, <2>2
<1>4. CASE OnAttempt(t)
  <2>1. PICK k \in Kinds \ {"start", "invalidate", "recover"}, a \in Attempts :
          Begin(t, k, owner[a], a, None, <<>>)
    BY <1>4 DEF OnAttempt, BeginOnAttempt
  <2>2. QED
    BY <1>2, <2>1
<1>5. CASE Invalidate(t)
  <2>1. PICK c \in ChangeRequests : Begin(t, "invalidate", c, None, None, <<>>)
    BY <1>5 DEF Invalidate, BeginInvalidate
  <2>2. "invalidate" \in Kinds
    BY <1>5 DEF Invalidate
  <2>3. QED
    BY <1>2, <2>1, <2>2
<1>6. CASE Recover(t)
  <2>1. PICK b \in Batches : Begin(t, "recover", None, None, None, b)
    BY <1>6 DEF Recover, BeginRecover
  <2>2. "recover" \in Kinds /\ \A u \in Transactions : kind[u] # "recover"
    BY <1>6 DEF Recover, BeginRecover
  <2>3. QED
    BY <1>2, <2>1, <2>2
<1>7. QED
  BY <1>3, <1>4, <1>5, <1>6

\* What the end of a transaction does to the rows of change requests and
\* Attempts.
LEMMA EndEffect ==
  ASSUME Typed, NEW t \in Transactions, Leave(t) \/ Commit(t)
  PROVE  \/ UNCHANGED <<owner, authority, standing>>
         \/ /\ kind[t] = "start" /\ Complete(t)
            /\ owner' = [owner EXCEPT ![attempt[t]] = request[t]]
            /\ authority' = [authority EXCEPT ![request[t]] = attempt[t]]
            /\ standing' = [standing EXCEPT ![request[t]] = None]
         \/ /\ kind[t] = "publish" /\ Complete(t) /\ UNCHANGED <<owner, authority>>
            /\ standing' = [standing EXCEPT ![request[t]] = attempt[t]]
         \/ /\ kind[t] = "invalidate" /\ Complete(t) /\ UNCHANGED <<owner, authority>>
            /\ standing' = [standing EXCEPT ![request[t]] = None]
  BY DEF Leave, Commit, CommitStart, CommitPublish, CommitBypass, CommitInvalidate, CommitClaim,
     CommitJobs, CommitRow, dataVars

LEMMA OneRecoveryNext == Typed /\ OneRecovery /\ [Next]_vars => OneRecovery'
<1> SUFFICES ASSUME Typed, OneRecovery, [Next]_vars,
                    NEW x \in Transactions, NEW y \in Transactions,
                    kind'[x] = "recover", kind'[y] = "recover"
             PROVE  x = y
  BY DEF OneRecovery
<1>1. ASSUME Untouched(x), Untouched(y) PROVE x = y
  BY <1>1 DEF Untouched, OneRecovery
<1>2. CASE UNCHANGED vars
  BY <1>1, <1>2, StutterUntouched
<1>3. ASSUME NEW t \in Transactions, Start(t) \/ OnAttempt(t) \/ Invalidate(t) \/ Recover(t)
      PROVE  x = y
  <2>1. PICK k, c, a, d, b : Begin(t, k, c, a, d, b)
    BY <1>3, BeginOf
  <2>2. \A u \in Transactions : u # t => kind'[u] = kind[u]
    BY <2>1, BeginUntouched DEF Untouched
  <2>3. QED
    BY <1>3, <2>2, BeginArguments DEF OneRecovery
<1>4. ASSUME NEW t \in Transactions, Acquire(t) PROVE x = y
  BY <1>4 DEF Acquire, argumentVars, OneRecovery
<1>5. ASSUME NEW t \in Transactions, End(t) PROVE x = y
  <2>1. kind'[t] = None /\ None # "recover"
    BY <1>5, LockAssumption DEF End, Typed, LockTypeOK, AllKinds
  <2>2. QED
    BY <1>1, <1>5, <2>1, EndUntouched
<1>6. QED
  BY <1>2, <1>3, <1>4, <1>5, StepOf

\* A row that somebody owns has no start under way for it.
LEMMA StartsAreOthers ==
  ASSUME Typed, Arguments, NEW t \in Transactions, kind[t] = "start",
         NEW a \in Attempts, owner[a] # None
  PROVE  a # attempt[t] /\ owner[attempt[t]] = None /\ attempt[t] \in Attempts
         /\ request[t] \in ChangeRequests
  BY DEF Arguments, Typed, Named, OnChangeRequest, AdvisoryKinds

\* What one transaction's arguments have to be, and two starts'.
ArgumentsOf(t) ==
  /\ ~OnChangeRequest(t) => seen[t] = Unread
  /\ kind[t] \in {"publish", "bypass", "claim"} => owner[attempt[t]] = request[t]
  /\ kind[t] = "start" => owner[attempt[t]] = None
StartsDiffer(t, u) ==
  kind[t] = "start" /\ kind[u] = "start" /\ t # u => attempt[t] # attempt[u]

LEMMA ArgumentsNext == Typed /\ Arguments /\ [Next]_vars => Arguments'
<1> SUFFICES ASSUME Typed, Arguments, [Next]_vars,
                    NEW x \in Transactions, NEW y \in Transactions
             PROVE  ArgumentsOf(x)' /\ StartsDiffer(x, y)'
  BY DEF Arguments, ArgumentsOf, StartsDiffer, OnChangeRequest
<1>1. /\ \A u \in Transactions : ArgumentsOf(u)
      /\ \A u, v \in Transactions : StartsDiffer(u, v)
  BY DEF Arguments, ArgumentsOf, StartsDiffer
<1>2. ASSUME NEW u \in Transactions, Untouched(u), owner' = owner PROVE ArgumentsOf(u)'
  BY <1>1, <1>2 DEF ArgumentsOf, OnChangeRequest, Untouched
<1>3. ASSUME NEW u \in Transactions, NEW v \in Transactions, Untouched(u), Untouched(v)
      PROVE  StartsDiffer(u, v)'
  BY <1>1, <1>3 DEF StartsDiffer, Untouched
<1>4. CASE UNCHANGED vars
  BY <1>2, <1>3, <1>4, StutterUntouched DEF vars, dataVars
<1>5. ASSUME NEW t \in Transactions, Start(t) \/ OnAttempt(t) \/ Invalidate(t) \/ Recover(t)
      PROVE  ArgumentsOf(x)' /\ StartsDiffer(x, y)'
  <2>1. PICK k, c, a, d, b : Begin(t, k, c, a, d, b)
    BY <1>5, BeginOf
  <2>2. \A u \in Transactions : u # t => Untouched(u)
    BY <2>1, BeginUntouched
  <2>3. owner' = owner
    BY <2>1 DEF Begin, dataVars
  <2>4. ArgumentsOf(t)'
    BY <1>5, <2>3, BeginArguments DEF ArgumentsOf, OnChangeRequest, Fresh
  <2>5. \A u \in Transactions : StartsDiffer(t, u)' /\ StartsDiffer(u, t)'
    BY <1>5, <2>2, BeginArguments DEF StartsDiffer, Untouched, Fresh
  <2>6. QED
    BY <1>2, <1>3, <2>2, <2>3, <2>4, <2>5
<1>6. ASSUME NEW t \in Transactions, Acquire(t) PROVE ArgumentsOf(x)' /\ StartsDiffer(x, y)'
  <2>1. /\ owner' = owner /\ kind' = kind /\ attempt' = attempt /\ request' = request
    BY <1>6 DEF Acquire, dataVars, argumentVars
  <2>2. \A u \in Transactions : ~OnChangeRequest(u) => seen'[u] = seen[u]
    <3>1. SUFFICES ASSUME NEW u \in Transactions, ~OnChangeRequest(u) PROVE seen'[u] = seen[u]
      OBVIOUS
    <3>2. CASE u # t
      BY <1>6, <3>2, AcquireUntouched DEF Untouched
    <3>3. CASE u = t
      <4>1. Active(t) /\ pc[t] \in Nat \ {0} /\ pc[t] <= Len(Locks(t))
        BY <1>6 DEF Acquire, Requesting, Typed, LockTypeOK
      <4>2. Locks(t)[pc[t]].table # "request"
        BY <3>1, <3>3, <4>1, RequestLock
      <4>3. QED
        BY <1>6, <4>2 DEF Acquire
    <3>4. QED
      BY <3>2, <3>3
  <2>3. QED
    BY <1>1, <2>1, <2>2 DEF ArgumentsOf, OnChangeRequest, StartsDiffer
<1>7. ASSUME NEW t \in Transactions, End(t), Leave(t) \/ Commit(t)
      PROVE  ArgumentsOf(x)' /\ StartsDiffer(x, y)'
  <2>1. \A u \in Transactions : u # t => Untouched(u)
    BY <1>7, EndUntouched
  <2>2. kind'[t] = None /\ seen'[t] = Unread
    BY <1>7 DEF End, Typed, LockTypeOK
  <2>3. None \notin {"publish", "bypass", "claim", "start"}
    BY LockAssumption DEF AllKinds, AdvisoryKinds
  <2>4. ArgumentsOf(t)' /\ \A u \in Transactions : StartsDiffer(t, u)' /\ StartsDiffer(u, t)'
    BY <2>2, <2>3 DEF ArgumentsOf, StartsDiffer
  <2>5. ASSUME NEW u \in Transactions, u # t PROVE ArgumentsOf(u)'
    <3>1. CASE owner' = owner
      BY <1>2, <2>1, <2>5, <3>1
    <3>2. CASE kind[t] = "start" /\ owner' = [owner EXCEPT ![attempt[t]] = request[t]]
      <4>1. Untouched(u)
        BY <2>1, <2>5
      <4>2. kind[u] \in {"publish", "bypass", "claim"} => owner'[attempt[u]] = owner[attempt[u]]
        <5>1. SUFFICES ASSUME kind[u] \in {"publish", "bypass", "claim"}
                       PROVE  owner'[attempt[u]] = owner[attempt[u]]
          OBVIOUS
        <5>2. attempt[u] \in Attempts /\ owner[attempt[u]] # None
          BY <1>1, <5>1, LockAssumption
          DEF ArgumentsOf, Typed, Named, OnChangeRequest, AdvisoryKinds
        <5>3. QED
          BY <3>2, <5>2, StartsAreOthers DEF Typed, LockTypeOK
      <4>3. kind[u] = "start" => owner'[attempt[u]] = owner[attempt[u]]
        BY <1>1, <2>5, <3>2 DEF StartsDiffer, Typed, LockTypeOK, Named
      <4>4. QED
        BY <1>1, <4>1, <4>2, <4>3 DEF ArgumentsOf, OnChangeRequest, Untouched
    <3>3. QED
      BY <1>7, <3>1, <3>2, EndEffect
  <2>6. QED
    BY <1>3, <2>1, <2>4, <2>5
<1>8. QED
  BY <1>4, <1>5, <1>6, <1>7, StepOf

LEMMA OwnAttemptsNext == Typed /\ Arguments /\ OwnAttempts /\ [Next]_vars => OwnAttempts'
<1> DEFINE Own(u) == /\ seen[u].authority # None => owner[seen[u].authority] = request[u]
                     /\ seen[u].standing # None => owner[seen[u].standing] = request[u]
           OwnOf(c) == /\ authority[c] # None => owner[authority[c]] = c
                       /\ standing[c] # None => owner[standing[c]] = c
<1> SUFFICES ASSUME Typed, Arguments, OwnAttempts, [Next]_vars
             PROVE  /\ \A c \in ChangeRequests : OwnOf(c)'
                    /\ \A u \in Transactions : Own(u)'
  BY DEF OwnAttempts
<1>1. /\ \A c \in ChangeRequests : OwnOf(c)
      /\ \A u \in Transactions : Own(u)
  BY DEF OwnAttempts
<1>2. Unread.authority = None /\ Unread.standing = None
  BY DEF Unread
<1>3. ASSUME NEW u \in Transactions, Untouched(u), owner' = owner PROVE Own(u)'
  BY <1>1, <1>3 DEF Untouched
<1>4. CASE UNCHANGED vars
  BY <1>1, <1>4 DEF vars, dataVars, argumentVars
<1>5. ASSUME NEW t \in Transactions, Start(t) \/ OnAttempt(t) \/ Invalidate(t) \/ Recover(t)
      PROVE  /\ \A c \in ChangeRequests : OwnOf(c)'
             /\ \A u \in Transactions : Own(u)'
  <2>1. PICK k, c, a, d, b : Begin(t, k, c, a, d, b)
    BY <1>5, BeginOf
  <2>2. UNCHANGED <<owner, authority, standing>> /\ seen'[t] = Unread
    BY <1>5, BeginArguments DEF dataVars
  <2>3. QED
    BY <1>1, <1>2, <1>3, <2>1, <2>2, BeginUntouched
<1>6. ASSUME NEW t \in Transactions, Acquire(t)
      PROVE  /\ \A c \in ChangeRequests : OwnOf(c)'
             /\ \A u \in Transactions : Own(u)'
  <2>1. UNCHANGED <<owner, authority, standing, request>>
    BY <1>6 DEF Acquire, dataVars, argumentVars
  <2>2. Own(t)'
    <3>1. CASE seen' = seen
      BY <1>1, <2>1, <3>1
    <3>2. CASE Locks(t)[pc[t]].table = "request"
      <4>1. seen'[t] = [authority |-> authority[request[t]], standing |-> standing[request[t]]]
        BY <1>6, <3>2 DEF Acquire, Typed, LockTypeOK
      <4>2. request[t] \in ChangeRequests
        <5>1. Active(t) /\ pc[t] \in Nat \ {0} /\ pc[t] <= Len(Locks(t))
          BY <1>6 DEF Acquire, Requesting, Typed, LockTypeOK
        <5>2. QED
          BY <3>2, <5>1, RequestLock DEF Typed, Named
      <4>3. QED
        BY <1>1, <2>1, <4>1, <4>2
    <3>3. QED
      BY <1>6, <3>1, <3>2 DEF Acquire
  <2>3. QED
    BY <1>1, <1>3, <1>6, <2>1, <2>2, AcquireUntouched
<1>7. ASSUME NEW t \in Transactions, End(t), Leave(t) \/ Commit(t)
      PROVE  /\ \A c \in ChangeRequests : OwnOf(c)'
             /\ \A u \in Transactions : Own(u)'
  <2>1. \A u \in Transactions : u # t => Untouched(u)
    BY <1>7, EndUntouched
  <2>2. Own(t)'
    BY <1>2, <1>7 DEF End, Typed, LockTypeOK
  <2>3. ASSUME owner' = owner PROVE \A u \in Transactions : Own(u)'
    BY <1>3, <2>1, <2>2, <2>3
  <2>4. CASE UNCHANGED <<owner, authority, standing>>
    BY <1>1, <2>3, <2>4
  <2>5. CASE /\ kind[t] = "start" /\ owner' = [owner EXCEPT ![attempt[t]] = request[t]]
             /\ authority' = [authority EXCEPT ![request[t]] = attempt[t]]
             /\ standing' = [standing EXCEPT ![request[t]] = None]
    <3>1. \A a \in Attempts : owner[a] # None => owner'[a] = owner[a]
      BY <2>5, StartsAreOthers DEF Typed, LockTypeOK
    <3>2. attempt[t] \in Attempts /\ request[t] \in ChangeRequests
      BY <2>5 DEF Typed, Named, OnChangeRequest, AdvisoryKinds
    <3>3. ASSUME NEW c \in ChangeRequests PROVE OwnOf(c)'
      <4>1. CASE c = request[t]
        BY <2>5, <3>2, <4>1 DEF Typed, LockTypeOK
      <4>2. CASE c # request[t]
        <5>1. authority'[c] = authority[c] /\ standing'[c] = standing[c]
          BY <2>5, <4>2
        <5>2. authority[c] \in Attempts \cup {None} /\ standing[c] \in Attempts \cup {None}
          BY DEF Typed, LockTypeOK
        <5>3. c # None
          BY LockAssumption
        <5>4. QED
          BY <1>1, <3>1, <5>1, <5>2, <5>3
      <4>3. QED
        BY <4>1, <4>2
    <3>4. ASSUME NEW u \in Transactions, u # t PROVE Own(u)'
      <4>1. CASE OnChangeRequest(u)
        <5>1. request[u] # None
          BY <4>1, LockAssumption DEF Typed, Named
        <5>2. seen[u].authority \in Attempts \cup {None} /\ seen[u].standing \in Attempts \cup {None}
          BY DEF Typed, LockTypeOK
        <5>3. QED
          BY <1>1, <2>1, <3>1, <3>4, <5>1, <5>2 DEF Untouched
      <4>2. CASE ~OnChangeRequest(u)
        BY <1>2, <2>1, <3>4, <4>2 DEF Untouched, Arguments
      <4>3. QED
        BY <4>1, <4>2
    <3>5. QED
      BY <2>2, <3>3, <3>4
  <2>6. CASE /\ kind[t] = "publish" /\ UNCHANGED <<owner, authority>>
             /\ standing' = [standing EXCEPT ![request[t]] = attempt[t]]
    <3>1. owner[attempt[t]] = request[t]
      BY <2>6 DEF Arguments
    <3>2. \A c \in ChangeRequests : OwnOf(c)'
      BY <1>1, <2>6, <3>1 DEF Typed, LockTypeOK
    <3>3. QED
      BY <2>3, <2>6, <3>2
  <2>7. CASE /\ kind[t] = "invalidate" /\ UNCHANGED <<owner, authority>>
             /\ standing' = [standing EXCEPT ![request[t]] = None]
    <3>1. \A c \in ChangeRequests : OwnOf(c)'
      BY <1>1, <2>7 DEF Typed, LockTypeOK
    <3>2. QED
      BY <2>3, <2>7, <3>1
  <2>8. QED
    BY <1>7, <2>4, <2>5, <2>6, <2>7, EndEffect
<1>8. QED
  BY <1>4, <1>5, <1>6, <1>7, StepOf

\* A transaction that ends, or has what it needs, holds its change request.
LEMMA CompleteHoldsRequest ==
  ASSUME Typed, NEW t \in Transactions, OnChangeRequest(t), Complete(t)
  PROVE  Lock("request", request[t], "update") \in Held(t)
<1>1. RequestAt(t) \in 1..Len(Locks(t)) /\ Len(Locks(t)) \in Nat /\ pc[t] \in Nat
  BY RequestLocked, RequestCount DEF Complete, Typed, LockTypeOK
<1>2. RequestAt(t) \in 1..(pc[t] - 1)
  BY <1>1 DEF Complete
<1>3. QED
  BY <1>2, RequestLocked DEF Held

LEMMA HeldRequest ==
  ASSUME Typed, Positions, NEW t \in Transactions, Active(t), NEW l \in Held(t),
         l.table = "request"
  PROVE  OnChangeRequest(t) /\ l = Lock("request", request[t], "update")
<1>1. PICK i \in 1..(pc[t] - 1) : l = Locks(t)[i]
  BY DEF Held
<1>2. i \in Nat \ {0} /\ i <= Len(Locks(t))
  BY <1>1, RequestCount DEF Positions, Typed, LockTypeOK
<1>3. QED
  BY <1>1, <1>2, RequestLock

\* Two transactions never have the same change request locked.
LEMMA OneHoldsRequest ==
  ASSUME Typed, Positions, Exclusion, NEW t \in Transactions, OnChangeRequest(t), Complete(t),
         NEW u \in Transactions, u # t, Active(u), NEW l \in Held(u), l.table = "request"
  PROVE  request[u] # request[t]
<1>1. Active(t) /\ Lock("request", request[t], "update") \in Held(t)
  BY CompleteHoldsRequest DEF Complete
<1>2. l = Lock("request", request[u], "update")
  BY HeldRequest
<1>3. ~Conflict(l, Lock("request", request[t], "update"))
  BY <1>1 DEF Exclusion
<1>4. request[t] # None
  BY LockAssumption DEF Typed, Named
<1>5. QED
  BY <1>2, <1>3, <1>4, TableOf DEF Conflict, ModesConflict

LEMMA CurrentNext == Typed /\ Positions /\ Exclusion /\ Current /\ [Next]_vars => Current'
<1> DEFINE Rows(c) == [authority |-> authority[c], standing |-> standing[c]]
           CurrentOf(u) == OnChangeRequest(u) /\ (\E l \in Held(u) : l.table = "request") =>
                             seen[u] = Rows(request[u])
<1> SUFFICES ASSUME Typed, Positions, Exclusion, Current, [Next]_vars, NEW x \in Transactions
             PROVE  CurrentOf(x)'
  BY DEF Current
<1>1. CurrentOf(x)
  BY DEF Current
<1>2. ASSUME Untouched(x), UNCHANGED <<authority, standing>> PROVE CurrentOf(x)'
  BY <1>1, <1>2, LocksStay DEF Untouched, OnChangeRequest
<1>3. CASE UNCHANGED vars
  BY <1>2, <1>3, StutterUntouched DEF vars, dataVars
<1>4. ASSUME NEW t \in Transactions, Start(t) \/ OnAttempt(t) \/ Invalidate(t) \/ Recover(t)
      PROVE  CurrentOf(x)'
  <2>1. PICK k, c, a, d, b : Begin(t, k, c, a, d, b)
    BY <1>4, BeginOf
  <2>2. UNCHANGED <<authority, standing>>
    BY <2>1 DEF Begin, dataVars
  <2>3. Held(t)' = {}
    BY <2>1, BeginHoldsNothing
  <2>4. QED
    BY <1>2, <2>1, <2>2, <2>3, BeginUntouched
<1>5. ASSUME NEW t \in Transactions, Acquire(t) PROVE CurrentOf(x)'
  <2>1. UNCHANGED <<authority, standing, request, kind>>
    BY <1>5 DEF Acquire, dataVars, argumentVars
  <2>2. CASE x # t
    BY <1>2, <1>5, <2>1, <2>2, AcquireUntouched
  <2>3. CASE x = t /\ Locks(t)[pc[t]].table = "request"
    <3>1. seen'[t] = Rows(request[t])
      BY <1>5, <2>3 DEF Acquire, Typed, LockTypeOK
    <3>2. QED
      BY <2>1, <2>3, <3>1
  <2>4. CASE x = t /\ Locks(t)[pc[t]].table # "request"
    <3>1. seen' = seen
      BY <1>5, <2>4 DEF Acquire
    <3>2. Held(t)' = Held(t) \cup {Locks(t)[pc[t]]}
      BY <1>5, AcquireHolds
    <3>3. QED
      BY <1>1, <2>1, <2>4, <3>1, <3>2 DEF OnChangeRequest
  <2>5. QED
    BY <2>2, <2>3, <2>4
<1>6. ASSUME NEW t \in Transactions, End(t), Leave(t) \/ Commit(t) PROVE CurrentOf(x)'
  <2>1. CASE x = t
    <3>1. kind'[t] = None
      BY <1>6 DEF End, Typed, LockTypeOK
    <3>2. QED
      BY <2>1, <3>1, LockAssumption DEF OnChangeRequest, AllKinds, AdvisoryKinds
  <2>2. CASE x # t /\ UNCHANGED <<authority, standing>>
    BY <1>2, <1>6, <2>2, EndUntouched
  <2>3. CASE /\ x # t /\ OnChangeRequest(t) /\ Complete(t)
             /\ \E a \in {authority, [authority EXCEPT ![request[t]] = attempt[t]]} :
                  authority' = a
             /\ \E s \in {None, attempt[t]} : standing' = [standing EXCEPT ![request[t]] = s]
    <3>1. Untouched(x)
      BY <1>6, <2>3, EndUntouched
    <3>2. SUFFICES ASSUME OnChangeRequest(x), NEW l \in Held(x), l.table = "request"
                   PROVE  seen[x] = Rows(request[x])'
      BY <3>1, LocksStay DEF Untouched, OnChangeRequest
    <3>3. Active(x)
      BY <3>2, LockAssumption DEF OnChangeRequest, AllKinds, AdvisoryKinds, Active
    <3>4. request[x] # request[t]
      BY <2>3, <3>2, <3>3, OneHoldsRequest
    <3>5. authority'[request[x]] = authority[request[x]] /\ standing'[request[x]] = standing[request[x]]
      BY <2>3, <3>2, <3>4 DEF Typed, LockTypeOK, Named
    <3>6. QED
      BY <1>1, <3>1, <3>2, <3>5 DEF Untouched
  <2>4. QED
    BY <1>6, <2>1, <2>2, <2>3, EndEffect DEF OnChangeRequest, AdvisoryKinds
<1>7. QED
  BY <1>3, <1>4, <1>5, <1>6, StepOf

-----------------------------------------------------------------------------
(* Theorems.                                                               *)

\* The locks that are held never conflict, each transaction knows what its
\* rows are, and who has its change request locked reads no stale row.
THEOREM LockInvariant == Spec => []LockInv
<1>1. Init => LockInv
  <2> SUFFICES ASSUME Init PROVE LockInv
    OBVIOUS
  <2>1. None \notin AllKinds /\ None \notin AdvisoryKinds \cup {"claim"}
    BY LockAssumption DEF AllKinds, AdvisoryKinds
  <2>2. Typed
    BY TypedInit
  <2>3. \A t \in Transactions : kind[t] = None /\ seen[t] = Unread
    BY DEF Init
  <2>4. Exclusion /\ Positions
    BY <2>3 DEF Exclusion, Positions, Active
  <2>5. Arguments /\ OneRecovery /\ Current
    <3>1. None \notin {"start", "publish", "bypass", "claim", "recover"}
      BY LockAssumption DEF AllKinds, AdvisoryKinds
    <3>2. \A t \in Transactions : ~OnChangeRequest(t)
      BY <2>1, <2>3 DEF OnChangeRequest
    <3>3. QED
      BY <2>3, <3>1, <3>2 DEF Arguments, OneRecovery, Current
  <2>6. OwnAttempts
    BY <2>3 DEF OwnAttempts, Init, Unread
  <2>7. QED
    BY <2>2, <2>4, <2>5, <2>6 DEF LockInv
<1>2. LockInv /\ [Next]_vars => LockInv'
  BY TypedNext, ExclusionNext, PositionsNext, ArgumentsNext, OwnAttemptsNext, OneRecoveryNext,
     CurrentNext DEF LockInv
<1>3. QED
  BY <1>1, <1>2, PTL DEF Spec

\* What a transaction read of its change request is still so when it commits,
\* whoever else starts, publishes, accepts, withdraws or claims meanwhile.
THEOREM ReadsAreCurrent == Spec => []ReadsStayCurrent
<1>1. LockInv => ReadsStayCurrent
  <2> SUFFICES ASSUME LockInv, NEW t \in Transactions, OnChangeRequest(t), Complete(t)
               PROVE  seen[t] = [authority |-> authority[request[t]],
                                 standing |-> standing[request[t]]]
    BY DEF ReadsStayCurrent, OnChangeRequest
  <2>1. Lock("request", request[t], "update") \in Held(t)
    BY CompleteHoldsRequest DEF LockInv
  <2>2. QED
    BY <2>1, TableOf DEF LockInv, Current
<1>2. QED
  BY <1>1, LockInvariant, PTL

-----------------------------------------------------------------------------
(* Every circle has a claim.                                               *)

\* A transaction that waits and is waited for: it holds a lock and requests
\* another one.
Busy(t) == Requesting(t) /\ pc[t] > 1

\* Who is on a change request through its advisory lock requests that lock
\* first, then rows of the change request, of Attempts of it, the recorded
\* delivery, and jobs.
Own(t, l) ==
  \/ l.table \in {"request", "bypasses", "decisions"} /\ l.id \in {request[t], None}
  \/ l.table \in {"attempt", "job", "intents"} /\ (l.id # None => owner[l.id] = request[t])

LEMMA AdvisoryRequests ==
  ASSUME LockInv, NEW t \in Transactions, kind[t] \in AdvisoryKinds,
         NEW i \in Nat \ {0, 1}, i <= Len(Locks(t))
  PROVE  /\ Own(t, Locks(t)[i]) \/ (kind[t] = "start" /\ i = 2 /\ Locks(t)[i].table = "delivery")
         /\ Locks(t)[i].table = "job" => kind[t] \in {"start", "publish"} /\ i = 5
<1>1. /\ seen[t].authority # None => owner[seen[t].authority] = request[t]
      /\ seen[t].standing # None => owner[seen[t].standing] = request[t]
      /\ kind[t] \in {"publish", "bypass"} => owner[attempt[t]] = request[t]
  BY DEF LockInv, OwnAttempts, Arguments
<1>2. CASE kind[t] = "start"
  <2>1. i \in 2..8
    <3>1. i <= 8
      BY <1>2, StartRequests
    <3>2. QED
      BY <3>1
  <2>2. CASE i = 2
    BY <1>2, <2>2, StartRequests, TableOf DEF Own
  <2>3. CASE i = 3
    BY <1>2, <2>3, StartRequests, TableOf DEF Own
  <2>4. CASE i = 4
    BY <1>1, <1>2, <2>4, StartRequests, TableOf DEF Own
  <2>5. CASE i = 5
    BY <1>1, <1>2, <2>5, StartRequests, TableOf DEF Own
  <2>6. CASE i = 6
    BY <1>2, <2>6, StartRequests, TableOf DEF Own
  <2>7. CASE i = 7
    BY <1>1, <1>2, <2>7, StartRequests, TableOf DEF Own
  <2>8. CASE i = 8
    BY <1>2, <2>8, StartRequests, TableOf DEF Own
  <2>9. QED
    BY <2>1, <2>2, <2>3, <2>4, <2>5, <2>6, <2>7, <2>8
<1>3. CASE kind[t] = "publish"
  <2>1. i \in 2..5
    <3>1. i <= 5
      BY <1>3, PublishRequests
    <3>2. QED
      BY <3>1
  <2>2. CASE i = 2
    BY <1>1, <1>3, <2>2, PublishRequests, TableOf DEF Own
  <2>3. CASE i = 3
    BY <1>3, <2>3, PublishRequests, TableOf DEF Own
  <2>4. CASE i = 4
    BY <1>3, <2>4, PublishRequests, TableOf DEF Own
  <2>5. CASE i = 5
    BY <1>1, <1>3, <2>5, PublishRequests, TableOf DEF Own
  <2>6. QED
    BY <2>1, <2>2, <2>3, <2>4, <2>5
<1>4. CASE kind[t] = "bypass"
  <2>1. i \in 2..6
    <3>1. i <= 6
      BY <1>4, BypassRequests
    <3>2. QED
      BY <3>1
  <2>2. CASE i = 2
    BY <1>4, <2>2, BypassRequests, TableOf DEF Own
  <2>3. CASE i = 3
    BY <1>1, <1>4, <2>3, BypassRequests, TableOf DEF Own
  <2>4. CASE i = 4
    BY <1>4, <2>4, BypassRequests, TableOf DEF Own
  <2>5. CASE i = 5
    BY <1>4, <2>5, BypassRequests, TableOf DEF Own
  <2>6. CASE i = 6
    BY <1>1, <1>4, <2>6, BypassRequests, TableOf DEF Own
  <2>7. QED
    BY <2>1, <2>2, <2>3, <2>4, <2>5, <2>6
<1>5. CASE kind[t] = "invalidate"
  <2>1. i \in 2..4
    <3>1. i <= 4
      BY <1>5, InvalidateRequests
    <3>2. QED
      BY <3>1
  <2>2. CASE i = 2
    BY <1>5, <2>2, InvalidateRequests, TableOf DEF Own
  <2>3. CASE i = 3
    BY <1>5, <2>3, InvalidateRequests, TableOf DEF Own
  <2>4. CASE i = 4
    BY <1>1, <1>5, <2>4, InvalidateRequests, TableOf DEF Own
  <2>5. QED
    BY <2>1, <2>2, <2>3, <2>4
<1>6. QED
  BY <1>2, <1>3, <1>4, <1>5 DEF AdvisoryKinds

\* The advisory lock comes first, so whoever holds anything holds it, and
\* nobody else does.
LEMMA OneAdvisory ==
  ASSUME LockInv, NEW t \in Transactions, NEW u \in Transactions, t # u,
         kind[t] \in AdvisoryKinds, kind[u] \in AdvisoryKinds, pc[t] > 1, pc[u] > 1
  PROVE  request[t] # request[u]
<1>1. ASSUME NEW v \in Transactions, kind[v] \in AdvisoryKinds, pc[v] > 1
      PROVE  /\ Active(v) /\ request[v] \in ChangeRequests
             /\ Advisory(request[v]) \in Held(v)
  <2>1. Locks(v)[1] = Advisory(request[v])
    BY <1>1, StartRequests, PublishRequests, BypassRequests, InvalidateRequests DEF AdvisoryKinds
  <2>2. pc[v] \in Nat /\ 1 \in 1..(pc[v] - 1)
    BY <1>1 DEF LockInv, Typed, LockTypeOK
  <2>3. Active(v) /\ request[v] \in ChangeRequests
    BY <1>1, LockAssumption DEF LockInv, Typed, Named, OnChangeRequest, AllKinds, AdvisoryKinds, Active
  <2>4. QED
    BY <2>1, <2>2, <2>3 DEF Held
<1>2. ~Conflict(Advisory(request[t]), Advisory(request[u]))
  BY <1>1 DEF LockInv, Exclusion
<1>3. request[t] # None
  BY <1>1, LockAssumption
<1>4. QED
  BY <1>2, <1>3, TableOf DEF Conflict, ModesConflict

\* What a transaction holds is one of its earlier requests.
LEMMA HeldAt ==
  ASSUME LockInv, NEW t \in Transactions, Active(t), NEW l \in Held(t)
  PROVE  \E i \in Nat \ {0} : i < pc[t] /\ i <= Len(Locks(t)) /\ l = Locks(t)[i]
<1>1. PICK i \in 1..(pc[t] - 1) : l = Locks(t)[i]
  BY DEF Held
<1>2. i \in Nat \ {0} /\ i < pc[t] /\ i <= Len(Locks(t))
  BY <1>1, RequestCount DEF LockInv, Positions, Typed, LockTypeOK
<1>3. QED
  BY <1>1, <1>2

\* Two holders of advisory locks meet at the delivery only.
LEMMA AdvisoryWait ==
  ASSUME LockInv, NEW t \in Transactions, NEW u \in Transactions, t # u,
         kind[t] \in AdvisoryKinds, kind[u] \in AdvisoryKinds, Busy(t), pc[u] > 1, Blocks(u, t)
  PROVE  kind[t] = "start" /\ pc[t] = 2 /\ pc[u] > 2
<1>1. /\ pc[t] \in Nat \ {0, 1} /\ pc[t] <= Len(Locks(t))
      /\ Active(u) /\ pc[u] \in Nat
  BY DEF Busy, Requesting, Blocks, LockInv, Typed, LockTypeOK
<1>2. PICK l \in Held(u) : Conflict(l, Locks(t)[pc[t]])
  BY DEF Blocks
<1>3. PICK i \in Nat \ {0} : i < pc[u] /\ i <= Len(Locks(u)) /\ l = Locks(u)[i]
  BY <1>1, HeldAt
<1>4. l.table = Locks(t)[pc[t]].table /\ l.id = Locks(t)[pc[t]].id /\ l.id # None
  BY <1>2 DEF Conflict
<1>5. request[t] # request[u]
  BY OneAdvisory DEF Busy
<1>6. i # 1
  <2>1. SUFFICES ASSUME i = 1 PROVE FALSE
    OBVIOUS
  <2>2. l = Advisory(request[u])
    BY <1>3, <2>1, StartRequests, PublishRequests, BypassRequests, InvalidateRequests
    DEF AdvisoryKinds
  <2>3. Locks(t)[pc[t]].table = "advisory"
    BY <1>4, <2>2, TableOf
  <2>4. QED
    BY <1>1, <2>3, AdvisoryRequests DEF Own
<1>7. Own(u, l) \/ (i = 2 /\ l.table = "delivery")
  BY <1>3, <1>6, AdvisoryRequests
<1>8. Own(t, Locks(t)[pc[t]])
        \/ (kind[t] = "start" /\ pc[t] = 2 /\ Locks(t)[pc[t]].table = "delivery")
  BY <1>1, AdvisoryRequests
<1>9. ~(Own(u, l) /\ Own(t, Locks(t)[pc[t]]))
  BY <1>4, <1>5 DEF Own
<1>10. l.table = "delivery"
  BY <1>4, <1>7, <1>8, <1>9
<1>11. i = 2 /\ kind[t] = "start" /\ pc[t] = 2
  BY <1>4, <1>7, <1>8, <1>10 DEF Own
<1>12. QED
  BY <1>1, <1>3, <1>11

\* Who holds a job and waits, or waits for a job, is a recovery, or at a place
\* beyond the delivery.
LEMMA RecoverHolds ==
  ASSUME LockInv, NEW t \in Transactions, NEW u \in Transactions, kind[u] = "recover",
         Busy(t), Blocks(u, t)
  PROVE  Locks(t)[pc[t]].table = "job"
<1>1. PICK l \in Held(u) : Conflict(l, Locks(t)[pc[t]])
  BY DEF Blocks
<1>2. Active(u)
  BY DEF Blocks
<1>3. PICK i \in Nat \ {0} : i < pc[u] /\ i <= Len(Locks(u)) /\ l = Locks(u)[i]
  BY <1>1, <1>2, HeldAt
<1>4. Len(Locks(u)) \in Nat
  BY <1>2, RequestCount DEF LockInv, Typed
<1>5. Locks(u)[i] = Lock("job", batch[u][i], "update")
  BY <1>3, <1>4, RecoverRequests DEF LockInv, Typed
<1>6. QED
  BY <1>1, <1>3, <1>5, TableOf DEF Conflict

LEMMA RecoverWaits ==
  ASSUME LockInv, NEW t \in Transactions, NEW u \in Transactions, kind[t] = "recover",
         kind[u] \in AdvisoryKinds, Busy(t), Busy(u), Blocks(u, t)
  PROVE  pc[u] > 5
<1>1. /\ Active(u) /\ pc[u] \in Nat
      /\ pc[t] \in Nat \ {0} /\ pc[t] <= Len(Locks(t)) /\ Len(Locks(t)) \in Nat
  BY RequestCount DEF Busy, Requesting, Blocks, LockInv, Typed, LockTypeOK
<1>2. PICK l \in Held(u) : Conflict(l, Locks(t)[pc[t]])
  BY DEF Blocks
<1>3. PICK i \in Nat \ {0} : i < pc[u] /\ i <= Len(Locks(u)) /\ l = Locks(u)[i]
  BY <1>1, <1>2, HeldAt
<1>4. Locks(t)[pc[t]] = Lock("job", batch[t][pc[t]], "update")
  BY <1>1, RecoverRequests DEF LockInv, Typed
<1>5. l.table = "job"
  BY <1>2, <1>4, TableOf DEF Conflict
<1>6. i # 1
  BY <1>3, <1>5, StartRequests, PublishRequests, BypassRequests, InvalidateRequests, TableOf
  DEF AdvisoryKinds
<1>7. i = 5
  BY <1>3, <1>5, <1>6, AdvisoryRequests
<1>8. QED
  BY <1>1, <1>3, <1>7

\* Who waits and is waited for moves a decision, or recovers; a claim would be
\* the third kind.
LEMMA BusyKinds ==
  ASSUME LockInv, NEW t \in Transactions, kind[t] # "claim", Busy(t)
  PROVE  kind[t] \in AdvisoryKinds \cup {"recover"}
<1>1. kind[t] \in AllKinds
  BY LockAssumption DEF Busy, Requesting, Active, LockInv, Typed, LockTypeOK
<1>2. kind[t] \notin {"job", "attempt", "reference", "sync"}
  <2>1. SUFFICES ASSUME kind[t] \in {"job", "attempt", "reference", "sync"} PROVE FALSE
    OBVIOUS
  <2>2. Len(Locks(t)) = 1
    BY <2>1, SingleRequest
  <2>3. QED
    BY <2>2 DEF Busy, Requesting, LockInv, Typed, LockTypeOK
<1>3. QED
  BY <1>1, <1>2 DEF AllKinds

\* Who holds something has been granted a lock.
LEMMA BlocksHolds ==
  ASSUME LockInv, NEW t, NEW u \in Transactions, Blocks(u, t)
  PROVE  pc[u] > 1
<1>1. PICK l \in Held(u) : TRUE
  BY DEF Blocks
<1>2. PICK i \in 1..(pc[u] - 1) : l = Locks(u)[i]
  BY <1>1 DEF Held
<1>3. QED
  BY <1>2 DEF LockInv, Typed, LockTypeOK

\* Transactions never wait for each other in a circle unless one of them is a
\* claim.  In a circle without one, somebody would be at the delivery of a
\* start, wait for a start beyond it, which waits for the one recovery, which
\* waits for a start that holds the job and waits for nobody.
THEOREM DeadlockNeedsClaim == Spec => []EveryCircleHasAClaim
<1>1. LockInv => EveryCircleHasAClaim
  <2> SUFFICES ASSUME LockInv, NEW D \in SUBSET Transactions, D # {},
                      \A t \in D : \E u \in D : WaitsFor(t, u),
                      \A t \in D : kind[t] # "claim"
               PROVE  FALSE
    BY DEF EveryCircleHasAClaim, Circle
  <2>1. ASSUME NEW t \in D
        PROVE  \E u \in D : u # t /\ Busy(u) /\ Blocks(u, t)
    <3>1. PICK u \in D : WaitsFor(t, u)
      OBVIOUS
    <3>2. u # t /\ Blocks(u, t) /\ pc[u] > 1
      BY <3>1, BlocksHolds DEF WaitsFor, Blocks
    <3>3. Requesting(u)
      BY DEF WaitsFor
    <3>4. QED
      BY <3>2, <3>3 DEF Busy
  <2>2. \A t \in D : Busy(t) => kind[t] \in AdvisoryKinds \cup {"recover"}
    BY BusyKinds
  <2>3. \A t, u \in D : kind[t] = "recover" /\ kind[u] = "recover" => t = u
    BY DEF LockInv, OneRecovery
  \* Beyond the delivery, one waits for the recovery only, and at a job.
  <2>4. ASSUME NEW t \in D, Busy(t), kind[t] \in AdvisoryKinds, pc[t] > 2
        PROVE  \E u \in D : /\ u # t /\ Busy(u) /\ Blocks(u, t) /\ kind[u] = "recover"
                            /\ pc[t] = 5
    <3>1. PICK u \in D : u # t /\ Busy(u) /\ Blocks(u, t)
      BY <2>1
    <3>2. kind[u] = "recover"
      <4>1. SUFFICES ASSUME kind[u] \in AdvisoryKinds PROVE FALSE
        BY <2>2, <3>1
      <4>2. pc[t] = 2
        BY <2>4, <3>1, <4>1, AdvisoryWait DEF Busy
      <4>3. QED
        BY <2>4, <4>2
    <3>3. Locks(t)[pc[t]].table = "job"
      BY <2>4, <3>1, <3>2, RecoverHolds
    <3>4. pc[t] \in Nat \ {0, 1} /\ pc[t] <= Len(Locks(t))
      BY <2>4 DEF Busy, Requesting, LockInv, Typed, LockTypeOK
    <3>5. pc[t] = 5
      BY <2>4, <3>3, <3>4, AdvisoryRequests
    <3>6. QED
      BY <3>1, <3>2, <3>5
  \* The recovery waits for nobody who waits.
  <2>5. ASSUME NEW t \in D, Busy(t), kind[t] = "recover" PROVE FALSE
    <3>1. PICK u \in D : u # t /\ Busy(u) /\ Blocks(u, t)
      BY <2>1
    <3>2. kind[u] \in AdvisoryKinds
      BY <2>2, <2>3, <2>5, <3>1
    <3>3. pc[u] > 5
      BY <2>5, <3>1, <3>2, RecoverWaits
    <3>4. pc[u] \in Nat
      BY DEF LockInv, Typed, LockTypeOK
    <3>5. pc[u] = 5
      BY <2>4, <3>1, <3>2, <3>3, <3>4
    <3>6. QED
      BY <3>3, <3>5
  <2>6. ASSUME NEW t \in D, Busy(t), kind[t] \in AdvisoryKinds PROVE FALSE
    <3>1. PICK u \in D : u # t /\ Busy(u) /\ Blocks(u, t)
      BY <2>1
    <3>2. kind[u] \in AdvisoryKinds
      BY <2>2, <2>5, <3>1
    <3>3. pc[u] > 2
      BY <2>6, <3>1, <3>2, AdvisoryWait DEF Busy
    <3>4. QED
      BY <2>4, <2>5, <3>1, <3>2, <3>3
  <2>7. PICK t \in D : TRUE
    OBVIOUS
  <2>8. QED
    BY <2>1, <2>2, <2>5, <2>6, <2>7
<1>2. QED
  BY <1>1, LockInvariant, PTL
=============================================================================
