----------------------------- MODULE LocalRuns -----------------------------
(***************************************************************************)
(* The local Web runtime (platform/web): the API that accepts a review,    *)
(* the SQLite store, the one background worker, the recorder that numbers  *)
(* and persists events before it broadcasts them, the Session Journal, a   *)
(* browser that follows one Attempt over SSE, and the recovery that runs   *)
(* when the process starts again.                                          *)
(*                                                                         *)
(* A step is what happens between two awaits that reach the store.  The    *)
(* store (status, log, result, keys) and the journal's files survive a     *)
(* crash; the queue, the recorder's counters, the worker and every open    *)
(* stream are lost with the process.                                       *)
(***************************************************************************)
EXTENDS Integers, FiniteSets, SequencesExt

CONSTANTS
  Runs,          \* Attempt identifiers, allocated in their order
  Keys,          \* Idempotency-Key values
  Bodies,        \* review requests
  Followed,      \* the Attempts a page may be opened on
  MaxNumber,     \* bound: sequence numbers that progress may use
  MaxTroubles,   \* bound: deaths of the process, store or journal calls that
                 \* raise and connections of the page that break, together
  BufferSize     \* places in a subscriber's buffer (_SUBSCRIBER_BUFFER, 256)

ASSUME LocalRunsAssumption ==
  /\ Runs \subseteq Nat \ {0} /\ IsFiniteSet(Runs) /\ Followed \subseteq Runs
  /\ {MaxNumber, MaxTroubles} \subseteq Nat
  /\ BufferSize \in Nat \ {0}

VARIABLES
  status,      \* review_runs.run_status of each Attempt, Absent before it exists
  log,         \* review_events: the persisted events of each Attempt
  result,      \* review_results: the Attempts that have a result
  keys,        \* idempotency_records: what each key was used for
  registered,  \* the repository and the policies of the requests are registered
  journal,     \* events.jsonl of each Attempt: sequence numbers, line by line
  accepted,    \* Attempts stored by the API and not yet put into the queue
  queue,       \* WebRuntime.queue
  counter,     \* ReviewEventRecorder._sequences
  sending,     \* the event that is persisted and not yet given to the sinks
  worker,      \* where start-up or the worker is, with the Attempt it handles
  pending,     \* recovery: the incomplete Attempts still to be handled (they
               \* are handled by age; here in any order)
  progress,    \* progress_queue of the running execution
  drainer,     \* the task that records progress: "off", "on" or "dead"
  page,        \* the browser page that follows an Attempt
  crashes, faults, losses  \* troubles so far

store  == <<status, log, result, keys, registered, journal>>
memory == <<accepted, queue, counter, sending, worker, pending, progress, drainer>>
vars   == <<store, memory, page, crashes, faults, losses>>

-----------------------------------------------------------------------------
(* Values                                                                  *)

Absent == "absent"
NoRun == 0
Incomplete == {"queued", "running", "interrupted"}

\* A request is a review of a body or a retry of an existing Attempt.
Digests == [kind : {"review"}, of : Bodies] \cup [kind : {"retry"}, of : Runs]
NoRecord == [digest |-> [kind |-> "none", of |-> "none"], run |-> NoRun]

Terminal == {"completed", "failed"}
\* "created", "resumed", "progress" and the terminal kinds.  "why" is what
\* payload.category and safe_detail tell of an attempt.failed event: a registered
\* row is "missing"; the review is "unprepared" or a policy has drifted; an
\* exception ("error").  "none" for the other events.
Event(n, kind, why) == [seq |-> n, kind |-> kind, why |-> why]
Nothing == [run |-> NoRun]

Numbers(r) == {e.seq : e \in log[r]}
Newest(r) == IF log[r] = {} THEN 0 ELSE Max(Numbers(r))
Ascending(S) ==
  [i \in 1..Cardinality(S) |-> CHOOSE n \in S : Cardinality({m \in S : m <= n}) = i]
\* list_events returns events by sequence number.
InOrder(events) ==
  LET numbers == Ascending({e.seq : e \in events})
  IN [i \in DOMAIN numbers |-> CHOOSE e \in events : e.seq = numbers[i]]
HasTerminal(r) == \E e \in log[r] : e.kind \in Terminal

NoPage == [state |-> "closed", run |-> NoRun, after |-> 0, buffer |-> <<>>,
           subscribed |-> FALSE, replay |-> <<>>, got |-> <<>>]

Up == worker.pc \notin {"down", "recover", "resume", "requeue"}

Init ==
  /\ status = [r \in Runs |-> Absent]
  /\ log = [r \in Runs |-> {}]
  /\ result = {}
  /\ keys = [k \in Keys |-> NoRecord]
  /\ registered = TRUE
  /\ journal = [r \in Runs |-> <<>>]
  /\ accepted = {} /\ queue = <<>>
  /\ counter = [r \in Runs |-> 0]
  /\ sending = Nothing
  /\ worker = [pc |-> "idle", run |-> NoRun, why |-> "none"]
  /\ pending = {} /\ progress = 0 /\ drainer = "off"
  /\ page = NoPage
  /\ crashes = 0 /\ faults = 0 /\ losses = 0

Goto(pc, why) == worker' = [worker EXCEPT !.pc = pc, !.why = why]
Finish == worker' = [pc |-> "idle", run |-> NoRun, why |-> "none"]
Trouble == crashes + faults + losses < MaxTroubles
Fault == Trouble /\ faults' = faults + 1

-----------------------------------------------------------------------------
(* The API: create_review, retry_review, delete_repository                 *)

\* create_attempt_with_initial_event_and_idempotency: the run, its first
\* event and the key are one transaction.
Create(k, d, r) ==
  /\ status[r] = Absent /\ \A q \in Runs : q < r => status[q] # Absent
  /\ keys[k] = NoRecord
  /\ keys' = [keys EXCEPT ![k] = [digest |-> d, run |-> r]]
  /\ status' = [status EXCEPT ![r] = "queued"]
  /\ log' = [log EXCEPT ![r] = {Event(1, "created", "none")}]
  /\ accepted' = accepted \cup {r}
  /\ UNCHANGED <<result, registered, journal, queue, counter, sending, worker,
                 pending, progress, drainer, page, crashes, faults, losses>>

\* The same key and the same request again: the stored Attempt is answered
\* and, since the answer is not the identifier just allocated, not enqueued.
ReplayCreate_Slip(k, d) ==
  /\ keys[k] # NoRecord /\ keys[k].digest = d
  /\ accepted' = accepted \cup {keys[k].run}

ReplayCreate(k, d) ==
  /\ keys[k] # NoRecord /\ keys[k].digest = d
  /\ UNCHANGED accepted

ReplayRequest(k, d) ==
  /\ ReplayCreate(k, d)
  /\ UNCHANGED <<store, queue, counter, sending, worker, pending, progress,
                 drainer, page, crashes, faults, losses>>

\* A review is created for registered repositories and policies only; a
\* retry needs an Attempt whose request is stored, in whatever status.
Admissible(d) ==
  IF d.kind = "review" THEN registered ELSE status[d.of] # Absent

Post(k, d) ==
  /\ Up /\ Admissible(d)
  /\ (\E r \in Runs : Create(k, d, r)) \/ ReplayRequest(k, d)

\* The handler puts the Attempt into the queue after the transaction.
Enqueue(r) ==
  /\ r \in accepted
  /\ accepted' = accepted \ {r}
  /\ queue' = Append(queue, r)
  /\ UNCHANGED <<store, counter, sending, worker, pending, progress, drainer,
                 page, crashes, faults, losses>>

\* The repository or a policy is unregistered; a later registration gets a
\* new identifier, so the rows the stored requests name do not come back.
Unregister ==
  /\ Up /\ registered
  /\ registered' = FALSE
  /\ UNCHANGED <<status, log, result, keys, journal, memory, page, crashes, faults, losses>>

-----------------------------------------------------------------------------
(* The recorder                                                            *)

\* hydrate: continue after the largest persisted number.
HydratedCounter(r) ==
  [counter EXCEPT ![r] = IF log[r] = {} THEN @ ELSE Newest(r)]

NextSequence(r) == counter[r] + 1

\* record, up to the append: the number is taken first, then the row is
\* inserted; the insert raises on a number that is taken or on a fault, and
\* the number is then lost.
Record(r, kind, why, Recorded, Raised) ==
  LET n == NextSequence(r) IN
  /\ sending = Nothing
  /\ counter' = [counter EXCEPT ![r] = n]
  /\ \/ /\ n \notin Numbers(r)
        /\ log' = [log EXCEPT ![r] = @ \cup {Event(n, kind, why)}]
        /\ sending' = [run |-> r, event |-> Event(n, kind, why)]
        /\ Recorded
        /\ UNCHANGED faults
     \/ /\ IF n \in Numbers(r) THEN UNCHANGED faults ELSE Fault
        /\ Raised
        /\ UNCHANGED <<log, sending>>

Broken(p) == [p EXCEPT !.state = "lost", !.subscribed = FALSE, !.buffer = <<>>, !.replay = <<>>]

\* broadcast: an event that does not fit unsubscribes the page, and the end
\* marker does not fit into the full buffer either.
Broadcast(r, e) ==
  IF ~page.subscribed \/ page.run # r THEN page
  ELSE IF Len(page.buffer) < BufferSize
       THEN [page EXCEPT !.buffer = Append(@, e)]
       ELSE [page EXCEPT !.subscribed = FALSE]

\* record, after the append: the subscribers, then the journal, which may
\* fail without consequence.
Publish ==
  /\ sending # Nothing
  /\ page' = Broadcast(sending.run, sending.event)
  /\ \/ /\ journal' = [journal EXCEPT ![sending.run] = Append(@, sending.event.seq)]
        /\ UNCHANGED faults
     \/ /\ Fault
        /\ UNCHANGED journal
  /\ sending' = Nothing
  /\ UNCHANGED <<status, log, result, keys, registered, accepted, queue, counter,
                 worker, pending, progress, drainer, crashes, losses>>

-----------------------------------------------------------------------------
(* The worker: execute_attempt                                             *)

Take ==
  /\ worker.pc = "idle" /\ sending = Nothing /\ queue # <<>>
  /\ worker' = [pc |-> "prepare", run |-> Head(queue), why |-> "none"]
  /\ queue' = Tail(queue)
  /\ UNCHANGED <<store, accepted, counter, sending, pending, progress, drainer,
                 page, crashes, faults, losses>>

\* get_run, the registered rows, hydrate, prepare_cli_review and the drift
\* check.  A missing row is refused before the recorder is hydrated.
Prepare ==
  /\ worker.pc = "prepare" /\ sending = Nothing
  /\ \/ /\ ~registered /\ Goto("refuse", "missing")
        /\ UNCHANGED <<counter, faults, losses>>
     \/ /\ registered
        /\ counter' = HydratedCounter(worker.run)
        /\ Goto("start", "none") \/ Goto("refuse", "unprepared")
        /\ UNCHANGED faults
     \/ Fault /\ Goto("fail", "error") /\ UNCHANGED counter
  /\ UNCHANGED <<store, accepted, queue, sending, pending, progress, drainer,
                 page, crashes, losses>>

\* update_run_status, or the exception it raises.
SetStatus(r, s, Done, Raised) ==
  \/ status' = [status EXCEPT ![r] = s] /\ Done /\ UNCHANGED faults
  \/ Fault /\ Raised /\ UNCHANGED status

Refuse ==
  /\ worker.pc = "refuse"
  /\ SetStatus(worker.run, "failed", Goto("announce", worker.why), Goto("fail", "error"))
  /\ UNCHANGED <<log, result, keys, registered, journal, accepted, queue, counter,
                 sending, pending, progress, drainer, page, crashes, losses>>

Announce ==
  /\ worker.pc = "announce"
  /\ Record(worker.run, "failed", worker.why, Finish, Goto("fail", "error"))
  /\ UNCHANGED <<status, result, keys, registered, journal, accepted, queue,
                 pending, progress, drainer, page, crashes, losses>>

\* RUNNING, then the provider is built; both inside the Attempt's boundary.
Start ==
  /\ worker.pc = "start"
  /\ SetStatus(worker.run, "running", Goto("build", "none"), Goto("fail", "error"))
  /\ UNCHANGED <<log, result, keys, registered, journal, accepted, queue, counter,
                 sending, pending, progress, drainer, page, crashes, losses>>

BuildProvider ==
  /\ worker.pc = "build"
  /\ \/ Goto("pipeline", "none") /\ drainer' = "on"
     \/ Goto("fail", "error") /\ UNCHANGED drainer
  /\ UNCHANGED <<store, accepted, queue, counter, sending, pending, progress,
                 page, crashes, faults, losses>>

\* on_progress puts an event into the progress queue without waiting.
Progress ==
  /\ worker.pc = "pipeline" /\ counter[worker.run] + progress < MaxNumber
  /\ progress' = progress + 1
  /\ UNCHANGED <<store, accepted, queue, counter, sending, worker, pending,
                 drainer, page, crashes, faults, losses>>

\* The pipeline returns a report or raises; either way None ends the drainer.
PipelineEnds ==
  /\ worker.pc = "pipeline"
  /\ Goto("flush", "none") \/ Goto("flush", "error")
  /\ UNCHANGED <<store, accepted, queue, counter, sending, pending, progress,
                 drainer, page, crashes, faults, losses>>

\* The drainer records what waits; an exception ends it silently, and it is
\* raised where the worker awaits the task.
Drain ==
  /\ drainer = "on" /\ progress > 0
  /\ progress' = progress - 1
  /\ Record(worker.run, "progress", "none", UNCHANGED drainer, drainer' = "dead")
  /\ UNCHANGED <<status, result, keys, registered, journal, accepted, queue, worker,
                 pending, page, crashes, losses>>

AwaitDrainer ==
  /\ worker.pc = "flush" /\ sending = Nothing
  /\ drainer = "dead" \/ progress = 0
  /\ IF drainer = "on" /\ worker.why = "none"
     THEN Goto("save", "none")
     ELSE Goto("fail", "error")
  /\ drainer' = "off" /\ progress' = 0
  /\ UNCHANGED <<store, accepted, queue, counter, sending, pending, page, crashes, faults, losses>>

\* save_result: the result and the status in one transaction, once.
SaveResult ==
  /\ worker.pc = "save"
  /\ \/ /\ worker.run \notin result
        /\ result' = result \cup {worker.run}
        /\ status' = [status EXCEPT ![worker.run] = "completed"]
        /\ Goto("complete", "none")
        /\ UNCHANGED faults
     \/ /\ IF worker.run \in result THEN UNCHANGED faults ELSE Fault
        /\ Goto("fail", "error")
        /\ UNCHANGED <<result, status>>
  /\ UNCHANGED <<log, keys, registered, journal, accepted, queue, counter, sending,
                 pending, progress, drainer, page, crashes, losses>>

Complete ==
  /\ worker.pc = "complete"
  /\ Record(worker.run, "completed", "none", Finish, Goto("fail", "error"))
  /\ UNCHANGED <<status, result, keys, registered, journal, accepted, queue,
                 pending, progress, drainer, page, crashes, losses>>

\* _fail_attempt: the status and the event, each on its own best effort.
FailStatus ==
  /\ worker.pc = "fail"
  /\ SetStatus(worker.run, "failed", Goto("failEvent", "error"), Goto("failEvent", "error"))
  /\ UNCHANGED <<log, result, keys, registered, journal, accepted, queue, counter,
                 sending, pending, progress, drainer, page, crashes, losses>>

FailEvent ==
  /\ worker.pc = "failEvent"
  /\ Record(worker.run, "failed", "error", Finish, Finish)
  /\ UNCHANGED <<status, result, keys, registered, journal, accepted, queue,
                 pending, progress, drainer, page, crashes, losses>>

-----------------------------------------------------------------------------
(* A crash, and recover_interrupted before the worker starts again         *)

Crash ==
  /\ worker.pc # "down" /\ Trouble
  /\ crashes' = crashes + 1
  /\ worker' = [pc |-> "down", run |-> NoRun, why |-> "none"]
  /\ accepted' = {} /\ queue' = <<>> /\ pending' = {}
  /\ counter' = [r \in Runs |-> 0]
  /\ sending' = Nothing /\ progress' = 0 /\ drainer' = "off"
  /\ page' = IF page.state = "closed" THEN page ELSE Broken(page)
  /\ UNCHANGED <<store, faults, losses>>

IncompleteAttempts_Running == {r \in Runs \ result : status[r] = "running"}

\* list_incomplete_attempt_ids
IncompleteAttempts == {r \in Runs \ result : status[r] \in Incomplete}

Restart ==
  /\ worker.pc = "down"
  /\ Goto("recover", "none")
  /\ pending' = IncompleteAttempts
  /\ UNCHANGED <<store, accepted, queue, counter, sending, progress, drainer,
                 page, crashes, faults, losses>>

MissingLines_Slip(r) == Numbers(r)

\* backfill: the persisted events whose number no line of the journal has.
MissingLines(r) == Numbers(r) \ Range(journal[r])

NextToRecover == worker' = [pc |-> "recover", run |-> NoRun, why |-> "none"]

\* What recovery leaves in the store and the journal: an Attempt that was
\* running is marked interrupted, and some lines are appended.
Mark(r) == status' = [status EXCEPT ![r] = IF @ = "running" THEN "interrupted" ELSE @]
Backfill(r, lines) == journal' = [journal EXCEPT ![r] = @ \o Ascending(lines)]
BackfillSome(r) == Fault /\ \E lines \in SUBSET MissingLines(r) : Backfill(r, lines)

\* The recorder then continues the Attempt's numbers.  Lines that cannot be
\* written are skipped; any other exception, before the mark or after it,
\* leaves the Attempt to the next start of the process.
Recover(r) ==
  /\ worker.pc = "recover" /\ r \in pending
  /\ pending' = pending \ {r}
  /\ \/ /\ Mark(r)
        /\ (Backfill(r, MissingLines(r)) /\ UNCHANGED faults) \/ BackfillSome(r)
        /\ counter' = HydratedCounter(r)
        /\ worker' = [pc |-> "resume", run |-> r, why |-> "none"]
     \/ /\ (Fault /\ UNCHANGED <<status, journal>>) \/ (Mark(r) /\ BackfillSome(r))
        /\ NextToRecover
        /\ UNCHANGED counter
  /\ UNCHANGED <<log, result, keys, registered, accepted, queue, sending, progress,
                 drainer, page, crashes, losses>>

Resume ==
  /\ worker.pc = "resume"
  /\ Record(worker.run, "resumed", "none", Goto("requeue", "none"), NextToRecover)
  /\ UNCHANGED <<status, result, keys, registered, journal, accepted, queue,
                 pending, progress, drainer, page, crashes, losses>>

Requeue ==
  /\ worker.pc = "requeue" /\ sending = Nothing
  /\ queue' = Append(queue, worker.run)
  /\ NextToRecover
  /\ UNCHANGED <<store, accepted, counter, sending, pending, progress, drainer,
                 page, crashes, faults, losses>>

Serve ==
  /\ worker.pc = "recover" /\ pending = {}
  /\ Finish
  /\ UNCHANGED <<store, accepted, queue, counter, sending, pending, progress,
                 drainer, page, crashes, faults, losses>>

-----------------------------------------------------------------------------
(* The page: iter_attempt_events, and the client that reconnects           *)

StreamVars == <<store, memory, crashes, faults>>

Connected(p, r, after) ==
  [p EXCEPT !.state = "subscribed", !.run = r, !.after = after,
            !.buffer = <<>>, !.subscribed = TRUE, !.replay = <<>>]

\* A page is opened on an Attempt that has not ended.
Open(r) ==
  /\ Up /\ page = NoPage /\ status[r] \in Incomplete
  /\ page' = Connected(page, r, 0)
  /\ UNCHANGED <<StreamVars, losses>>

Lose ==
  /\ page.state \notin {"closed", "lost"} /\ Trouble
  /\ losses' = losses + 1
  /\ page' = Broken(page)
  /\ UNCHANGED StreamVars

\* The client resumes after the last number it has ...
Reconnect ==
  /\ Up /\ page.state = "lost"
  /\ page' = Connected(page, page.run, IF page.got = <<>> THEN 0 ELSE Last(page.got))
  /\ UNCHANGED <<StreamVars, losses>>

\* ... and gives up when several attempts in a row brought nothing new: here
\* at any of them.
GiveUp ==
  /\ page.state = "lost"
  /\ page' = [page EXCEPT !.state = "closed"]
  /\ UNCHANGED <<StreamVars, losses>>

\* The subscription comes first, then the persisted events are listed.
Replay(p) ==
  [p EXCEPT !.state = "replay",
            !.replay = InOrder({e \in log[p.run] : e.seq > p.after})]

ListStored ==
  /\ page.state = "subscribed"
  /\ page' = Replay(page)
  /\ UNCHANGED <<StreamVars, losses>>

EndsStream_Slip(p, e) == e.kind \in Terminal /\ p.state = "live"

\* A terminal event ends the stream, in the replay and in the live part.
EndsStream(p, e) == e.kind \in Terminal

Delivered(p, e) ==
  [p EXCEPT !.got = Append(@, e.seq),
            !.state = IF EndsStream(p, e) THEN "closed" ELSE @,
            !.subscribed = @ /\ ~EndsStream(p, e)]

DeliverStored ==
  /\ page.state = "replay"
  /\ page' = IF page.replay = <<>> THEN [page EXCEPT !.state = "live"]
             ELSE Delivered([page EXCEPT !.replay = Tail(@)], Head(page.replay))
  /\ UNCHANGED <<StreamVars, losses>>

\* What the stream already sent, or the client had before, is skipped.
AlreadySent_Slip(p, e) == e.seq <= p.after
AlreadySent(p, e) == e.seq <= p.after \/ e.seq \in Range(p.got)

DeliverLive ==
  /\ page.state = "live" /\ page.buffer # <<>>
  /\ LET e == Head(page.buffer)
         rest == [page EXCEPT !.buffer = Tail(@)]
     IN page' = IF AlreadySent(page, e) THEN rest ELSE Delivered(rest, e)
  /\ UNCHANGED <<StreamVars, losses>>

-----------------------------------------------------------------------------
Worker ==
  \/ Take \/ Prepare \/ Refuse \/ Announce \/ Start \/ BuildProvider \/ PipelineEnds
  \/ AwaitDrainer \/ SaveResult \/ Complete \/ FailStatus \/ FailEvent

Recovery == Restart \/ (\E r \in Runs : Recover(r)) \/ Resume \/ Requeue \/ Serve

Stream == ListStored \/ DeliverStored \/ DeliverLive

Next ==
  \/ \E k \in Keys, d \in Digests : Post(k, d)
  \/ \E r \in Runs : Enqueue(r)
  \/ Unregister
  \/ Publish
  \/ Worker
  \/ Progress
  \/ Drain
  \/ Crash
  \/ Recovery
  \/ \E r \in Followed : Open(r)
  \/ Lose
  \/ Reconnect
  \/ GiveUp
  \/ Stream

\* The event loop runs every task that can go on, and the process is
\* started again after a crash.  Nobody has to post, to watch or to fail.
Fairness ==
  /\ \A r \in Runs : WF_vars(Enqueue(r))
  /\ WF_vars(Publish)
  /\ WF_vars(Worker)
  /\ WF_vars(Drain)
  /\ WF_vars(Recovery)
  /\ WF_vars(Stream)

Spec == Init /\ [][Next]_vars /\ Fairness
=============================================================================
