-------------------------- MODULE LocalRunsProps --------------------------
(***************************************************************************)
(* What the local Web runtime promises: an accepted Attempt is carried out *)
(* once, across restarts; its events are one sequence that a page sees in  *)
(* order and without gaps; the journal holds what the store holds.         *)
(***************************************************************************)
EXTENDS LocalRuns

\* Where in memory an Attempt is: handed over by the API, queued, being
\* recovered or being executed.
Holders(r) ==
  Cardinality({x \in {"api"} : r \in accepted})
  + Cardinality({i \in DOMAIN queue : queue[i] = r})
  + Cardinality({x \in {"recovery"} : r \in pending})
  + Cardinality({x \in {"worker"} : worker.run = r})

\* While the process lives an Attempt that has not ended is held in exactly
\* one place, and one that has ended in at most one: it is neither forgotten
\* by the API, the queue, a restart or a failing execution, nor carried out
\* twice (a store call that raises may leave it to the next restart).
EachRunIsHeldOnce ==
  worker.pc # "down" =>
    \A r \in Runs :
      /\ Holders(r) <= 1
      /\ r \in IncompleteAttempts /\ faults = 0 => Holders(r) = 1

\* What a page has received, over all its connections, is the beginning of
\* the persisted events in their order: nothing is lost or repeated between
\* the replay and the live part, by a reconnection or by a restart.
PageSeesPrefix ==
  page.run # NoRun =>
    IsPrefix(page.got, Ascending(Numbers(page.run)))

\* attempt.completed is the last event of its Attempt, and attempt.failed is
\* too unless the store refused to record the status it announces: a page
\* that stops at the first terminal event misses nothing.
TerminalIsLast ==
  \A r \in Runs : \A e \in log[r] :
    e.seq < Newest(r) =>
      /\ e.kind # "completed"
      /\ e.kind = "failed" => faults > 0

\* The journal holds no event twice and none that the store does not hold,
\* although a crash may separate the two writes and recovery fills the gap.
JournalHoldsLogOnce ==
  \A r \in Runs :
    /\ IsInjective(journal[r])
    /\ Range(journal[r]) \subseteq Numbers(r)

\* The record of an Attempt's events is sound: it ends with the terminal one,
\* and the journal repeats the store and nothing else.
LogIsSound == TerminalIsLast /\ JournalHoldsLogOnce

\* An accepted Attempt ends, whatever restarts, unless a store call raised.
AcceptedRunEnds ==
  \A r \in Runs :
    status[r] = "queued" ~> (status[r] \in {"completed", "failed"} \/ faults > 0)

\* A page that follows an Attempt whose terminal event is persisted closes,
\* unless its connection breaks or its buffer was too small.
PageIsTold ==
  (page.subscribed /\ HasTerminal(page.run)) ~> ~page.subscribed

\* The reason for which the worker refuses an Attempt is the reason its
\* attempt.failed event gives, when every store call succeeds.
RefusalIsExplained ==
  [][ (worker.pc = "announce" /\ worker'.pc # "announce" /\ Up' /\ faults' = faults)
      => \E e \in log'[worker.run] : e.kind = "failed" /\ e.why = worker.why ]_vars
=============================================================================
