------------------------------ MODULE LockOrder ------------------------------
(***************************************************************************)
(* The locks that the transactions of server/state.py and of               *)
(* platform/github/persistence.py take in PostgreSQL, and in which order.  *)
(*                                                                         *)
(* A transaction is the sequence of its lock requests: an advisory lock    *)
(* (pg_advisory_xact_lock), the row locks of SELECT ... FOR UPDATE and of  *)
(* UPDATE, and the key-share locks with which an INSERT holds the row its  *)
(* foreign key refers to.  It waits while another transaction holds a      *)
(* conflicting lock, keeps what it got until it ends, and may end early at *)
(* any time: early return, conflict error, cancelled request, or a victim  *)
(* of PostgreSQL's deadlock detection.                                     *)
(*                                                                         *)
(* Of the data only what decides which rows are locked is kept: whose      *)
(* change request an Attempt is of, which one is in authority, which       *)
(* decision stands, and which jobs may still be claimed.                   *)
(***************************************************************************)
EXTENDS Naturals, Sequences

CONSTANTS
  ChangeRequests, Attempts, Deliveries,
  Transactions,  \* connections of the pool
  Kinds,         \* the transactions that run, of AllKinds
  MaxBatch,      \* bound of the model on the jobs one recovery finds
  None           \* SQL NULL, or no row

\* Transactions that move the decision of a change request take its advisory
\* lock first.
AdvisoryKinds == {"start", "publish", "bypass", "invalidate"}
AllKinds == AdvisoryKinds \cup
  {"claim",      \* claim_attempt_job
   "recover",    \* recover_interrupted_jobs
   "job",        \* mark_job_retryable, finalize_attempt_job
   "attempt",    \* record_review_identity, save_execution_snapshot
   "reference",  \* the INSERTs of a result, a review event or an outbox row
   "sync"}       \* mark_standing_check_sync

ASSUME LockAssumption ==
  /\ Kinds \subseteq AllKinds
  /\ MaxBatch \in Nat
  /\ None \notin AllKinds \cup ChangeRequests \cup Attempts \cup Deliveries

VARIABLES
  owner,      \* the change request an Attempt belongs to
  authority,  \* the Attempt in authority over a change request
  standing,   \* the Attempt whose decision stands
  open,       \* the Attempts with a job that is not over
  decided,    \* the Attempts that were given a decision
  kind,       \* what a transaction does, or None
  request,    \* ... to which change request
  attempt,    \* ... and Attempt
  delivery,   \* the retry delivery a start records
  batch,      \* the jobs a recovery found, in the order of its scan
  seen,       \* authority and standing decision, as a transaction read them
  pc          \* the lock request a transaction is at

dataVars == <<owner, authority, standing, open, decided>>
argumentVars == <<kind, request, attempt, delivery, batch>>
vars == <<dataVars, argumentVars, seen, pc>>

Unread == [authority |-> None, standing |-> None]
Batches == UNION {[1..n -> Attempts] : n \in 0..MaxBatch}

Init ==
  /\ owner = [a \in Attempts |-> None]
  /\ authority = [c \in ChangeRequests |-> None]
  /\ standing = [c \in ChangeRequests |-> None]
  /\ open = {}
  /\ decided = {}
  /\ kind = [t \in Transactions |-> None]
  /\ request = [t \in Transactions |-> None]
  /\ attempt = [t \in Transactions |-> None]
  /\ delivery = [t \in Transactions |-> None]
  /\ batch = [t \in Transactions |-> <<>>]
  /\ seen = [t \in Transactions |-> Unread]
  /\ pc = [t \in Transactions |-> 1]

-----------------------------------------------------------------------------
(* Locks.                                                                  *)

\* A lock on a row, in one of PostgreSQL's modes; no row, no lock.
Lock(table, id, mode) == [table |-> table, id |-> id, mode |-> mode]
Advisory(c) == Lock("advisory", c, "update")

\* FOR UPDATE conflicts with every row lock, an UPDATE with another one, and
\* a key-share lock only with FOR UPDATE; a plain SELECT locks nothing.
ModesConflict(m, n) ==
  \/ m = "update" /\ n \in {"update", "nokey", "share"}
  \/ n = "update" /\ m \in {"nokey", "share"}
  \/ m = "nokey" /\ n = "nokey"
Conflict(l, m) ==
  /\ l.table = m.table /\ l.id = m.id /\ l.id # None
  /\ ModesConflict(l.mode, m.mode)

\* The lock requests of each kind of transaction, in their order.
StartLocks(t) ==
  <<Advisory(request[t]),
    Lock("delivery", delivery[t], "update"),
    Lock("request", request[t], "update"),
    Lock("attempt", seen[t].authority, "nokey"),
    Lock("job", seen[t].authority, "nokey"),
    Lock("bypasses", request[t], "nokey"),
    Lock("intents", seen[t].standing, "nokey"),
    Lock("decisions", request[t], "nokey")>>
PublishLocks_Slip(t) ==
  <<Lock("attempt", attempt[t], "update"),
    Advisory(request[t]),
    Lock("request", request[t], "update")>>
PublishLocks(t) ==
  <<Advisory(request[t]),
    Lock("attempt", attempt[t], "update"),
    Lock("request", request[t], "update"),
    Lock("decisions", IF seen[t].authority = attempt[t] THEN request[t] ELSE None, "nokey"),
    Lock("job", attempt[t], "nokey")>>
BypassLocks(t) ==
  <<Advisory(request[t]),
    Lock("request", request[t], "update"),
    Lock("attempt", attempt[t], "update"),
    Lock("bypasses", request[t], "nokey"),
    Lock("decisions", request[t], "nokey"),
    Lock("intents", attempt[t], "nokey")>>
InvalidateLocks(t) ==
  <<Advisory(request[t]),
    Lock("request", request[t], "update"),
    Lock("bypasses", request[t], "nokey"),
    Lock("intents", seen[t].standing, "nokey")>>
ClaimLocks_Slip(t) ==
  <<Lock("attempt", attempt[t], "update"),
    Lock("job", attempt[t], "update"),
    Lock("request", request[t], "read")>>
ClaimLocks(t) ==
  <<Lock("attempt", attempt[t], "update"),
    Lock("job", attempt[t], "update"),
    Lock("request", request[t], "update")>>
RecoverLocks(t) == [i \in 1..Len(batch[t]) |-> Lock("job", batch[t][i], "update")]

\* The table of the one row that the other transactions lock, and how.
SingleLock(t) ==
  CASE kind[t] = "job" -> Lock("job", attempt[t], "nokey")
    [] kind[t] = "attempt" -> Lock("attempt", attempt[t], "update")
    [] kind[t] = "reference" -> Lock("attempt", attempt[t], "share")
    [] OTHER -> Lock("intents", attempt[t], "nokey")

Locks(t) ==
  CASE kind[t] = "start" -> StartLocks(t)
    [] kind[t] = "publish" -> PublishLocks(t)
    [] kind[t] = "bypass" -> BypassLocks(t)
    [] kind[t] = "invalidate" -> InvalidateLocks(t)
    [] kind[t] = "claim" -> ClaimLocks(t)
    [] kind[t] = "recover" -> RecoverLocks(t)
    [] OTHER -> <<SingleLock(t)>>

Active(t) == kind[t] # None
Requesting(t) == Active(t) /\ pc[t] <= Len(Locks(t))
Complete(t) == Active(t) /\ pc[t] > Len(Locks(t))
\* What a transaction got so far, and keeps until it ends.
Held(t) == {Locks(t)[i] : i \in 1..(pc[t] - 1)}

\* A transaction waits for another that holds what it requests.
Blocks(u, t) == u # t /\ Active(u) /\ \E l \in Held(u) : Conflict(l, Locks(t)[pc[t]])
WaitsFor(t, u) == Requesting(t) /\ Blocks(u, t)

-----------------------------------------------------------------------------
(* Steps.                                                                  *)

Begin(t, k, c, a, d, b) ==
  /\ ~Active(t)
  /\ kind' = [kind EXCEPT ![t] = k]
  /\ request' = [request EXCEPT ![t] = c]
  /\ attempt' = [attempt EXCEPT ![t] = a]
  /\ delivery' = [delivery EXCEPT ![t] = d]
  /\ batch' = [batch EXCEPT ![t] = b]
  /\ seen' = [seen EXCEPT ![t] = Unread]
  /\ pc' = [pc EXCEPT ![t] = 1]
  /\ UNCHANGED dataVars

\* A start draws an Attempt id that is used nowhere.
Fresh(a) == owner[a] = None /\ \A t \in Transactions : attempt[t] # a
BeginStart(t, c, a, d) == Fresh(a) /\ Begin(t, "start", c, a, d, <<>>)
\* An Attempt is known, then a transaction on it begins; only an open job is
\* claimed or ended, and only a risk of a decision accepted.
BeginOnAttempt(t, k, a) ==
  /\ owner[a] # None
  /\ k \in {"claim", "job"} => a \in open
  /\ k = "bypass" => a \in decided
  /\ Begin(t, k, owner[a], a, None, <<>>)
BeginInvalidate(t, c) == Begin(t, "invalidate", c, None, None, <<>>)
\* One durable worker recovers jobs, before it does anything else.
BeginRecover(t, b) ==
  /\ \A u \in Transactions : kind[u] # "recover"
  /\ \A i, j \in DOMAIN b : b[i] \in open /\ (b[i] = b[j] => i = j)
  /\ Begin(t, "recover", None, None, None, b)

\* The next lock is granted; whoever locks the change request reads it then.
Acquire(t) ==
  /\ Requesting(t)
  /\ \A u \in Transactions : ~Blocks(u, t)
  /\ seen' =
       IF Locks(t)[pc[t]].table = "request"
         THEN [seen EXCEPT ![t] = [authority |-> authority[request[t]],
                                   standing |-> standing[request[t]]]]
         ELSE seen
  /\ pc' = [pc EXCEPT ![t] = @ + 1]
  /\ UNCHANGED <<dataVars, argumentVars>>

End(t) ==
  /\ kind' = [kind EXCEPT ![t] = None]
  /\ request' = [request EXCEPT ![t] = None]
  /\ attempt' = [attempt EXCEPT ![t] = None]
  /\ delivery' = [delivery EXCEPT ![t] = None]
  /\ batch' = [batch EXCEPT ![t] = <<>>]
  /\ seen' = [seen EXCEPT ![t] = Unread]
  /\ pc' = [pc EXCEPT ![t] = 1]

\* A transaction ends without an effect.
Leave(t) == Active(t) /\ End(t) /\ UNCHANGED dataVars

\* The prior Attempt's job ends if it is still queued.
CommitStart(t) ==
  /\ kind[t] = "start" /\ Complete(t) /\ End(t)
  /\ owner' = [owner EXCEPT ![attempt[t]] = request[t]]
  /\ authority' = [authority EXCEPT ![request[t]] = attempt[t]]
  /\ standing' = [standing EXCEPT ![request[t]] = None]
  /\ \E rest \in {open, open \ {seen[t].authority}} : open' = rest \cup {attempt[t]}
  /\ UNCHANGED decided
\* An Attempt is decided once, and only in authority.
CommitPublish(t) ==
  /\ kind[t] = "publish" /\ Complete(t) /\ End(t)
  /\ IF seen[t].authority = attempt[t]
       THEN /\ attempt[t] \notin decided
            /\ decided' = decided \cup {attempt[t]}
            /\ standing' = [standing EXCEPT ![request[t]] = attempt[t]]
       ELSE UNCHANGED <<decided, standing>>
  /\ open' = open \ {attempt[t]}
  /\ UNCHANGED <<owner, authority>>
\* Only the standing Attempt accepts a bypass; the Attempts stay as they are.
CommitBypass(t) ==
  /\ kind[t] = "bypass" /\ Complete(t) /\ End(t)
  /\ seen[t] = [authority |-> attempt[t], standing |-> attempt[t]]
  /\ UNCHANGED dataVars
CommitInvalidate(t) ==
  /\ kind[t] = "invalidate" /\ Complete(t) /\ End(t)
  /\ standing' = [standing EXCEPT ![request[t]] = None]
  /\ UNCHANGED <<owner, authority, open, decided>>
CommitClaim(t) ==
  /\ kind[t] = "claim" /\ Complete(t) /\ End(t)
  /\ open' = IF seen[t].authority = attempt[t] THEN open ELSE open \ {attempt[t]}
  /\ UNCHANGED <<owner, authority, standing, decided>>
CommitJobs(t) ==
  /\ kind[t] \in {"recover", "job"} /\ Complete(t) /\ End(t)
  /\ \E over \in SUBSET ({attempt[t]} \cup {batch[t][i] : i \in DOMAIN batch[t]}) :
       open' = open \ over
  /\ UNCHANGED <<owner, authority, standing, decided>>
CommitRow(t) ==
  /\ kind[t] \in {"attempt", "reference", "sync"} /\ Complete(t) /\ End(t)
  /\ UNCHANGED dataVars

-----------------------------------------------------------------------------
Start(t) ==
  /\ "start" \in Kinds
  /\ \E c \in ChangeRequests, a \in Attempts, d \in Deliveries \cup {None} :
       BeginStart(t, c, a, d)
OnAttempt(t) ==
  \E k \in Kinds \ {"start", "invalidate", "recover"}, a \in Attempts : BeginOnAttempt(t, k, a)
Invalidate(t) == "invalidate" \in Kinds /\ \E c \in ChangeRequests : BeginInvalidate(t, c)
Recover(t) == "recover" \in Kinds /\ \E b \in Batches : BeginRecover(t, b)
Commit(t) ==
  \/ CommitStart(t) \/ CommitPublish(t) \/ CommitBypass(t) \/ CommitInvalidate(t)
  \/ CommitClaim(t) \/ CommitJobs(t) \/ CommitRow(t)

Next ==
  \E t \in Transactions :
    \/ Start(t) \/ OnAttempt(t) \/ Invalidate(t) \/ Recover(t)
    \/ Acquire(t) \/ Leave(t) \/ Commit(t)

Spec == Init /\ [][Next]_vars
=============================================================================
