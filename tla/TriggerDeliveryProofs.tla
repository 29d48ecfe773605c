-------------------------- MODULE TriggerDeliveryProofs --------------------------
(***************************************************************************)
(* For any number of handlers, deliveries, repetitions, failures and       *)
(* versions of the policy file: a delivery has its effect once, an answer  *)
(* is given when the Attempt is prepared, and a snapshot is the Attempt's. *)
(***************************************************************************)
EXTENDS TriggerDeliveryProps, FiniteSets, FiniteSetTheorems, TLAPS

Refs == {"main", "other"}
Keys == [ref : Refs, base : Nat, head : Nat, policy : Versions]
Events == [kind : {"start", "draft", "retarget", "push", "retry"},
           ref : Refs, base : Nat, head : Nat, draft : BOOLEAN]
Snapshots == [key : Keys, frozen : Versions]
HandlerSteps == {"authorize", "resolve", "start", "record", "insert", "check", "snapshot",
                 "create", "set"}
Busy == [pc : HandlerSteps, delivery : Deliveries, key : Keys \cup {NoSnapshot},
         attempt : Attempts \cup {None}, prior : Attempts \cup {None},
         replayed : BOOLEAN, created : Nat]

TriggerTypeOK ==
  /\ pull \in [ref : Refs, base : Nat, head : Nat, draft : BOOLEAN]
  /\ sent \in Seq(Events) /\ Len(sent) <= MaxSent
  /\ policy \in Versions
  /\ attemptKey \in Seq(Keys) /\ Len(attemptKey) <= MaxSent
  /\ authority \in Attempts \cup {None} /\ standing \in Attempts \cup {None}
  /\ startedBy \in [Deliveries -> Attempts \cup {None}]
  /\ digest \in [Deliveries -> Keys \cup {NoSnapshot}]
  /\ snapshot \in [Attempts -> Snapshots \cup {NoSnapshot}]
  /\ checkRun \in [Attempts -> Nat] /\ checks \in [Attempts -> Nat]
  /\ over \in [Attempts -> BOOLEAN]
  /\ handler \in [Handlers -> Busy \cup {Idle}]
  /\ receipts \in [Deliveries -> Nat]
  /\ answered \subseteq Deliveries
  /\ faults \in Nat

-----------------------------------------------------------------------------
(* The parts of the inductive invariant.                                   *)

SameCommits(k, e) == k.ref = e.ref /\ k.base = e.base /\ k.head = e.head

WithAttempt == {"record", "insert", "check", "snapshot", "create", "set"}
AsksForReview(e) == e.kind \in {"start", "retarget"} /\ ~e.draft

Starters == {d \in Deliveries : startedBy[d] # None}

\* The store: as many Attempts as deliveries that started one, each delivery
\* its own, and a webhook's Attempt has the commits of its payload.  What no
\* handler has prepared is not prepared.
StoreInv ==
  /\ Cardinality(Starters) = Len(attemptKey)
  /\ \A d \in Starters : d \in DOMAIN sent /\ startedBy[d] \in Started
  /\ \A d, e \in Starters : startedBy[d] = startedBy[e] => d = e
  /\ OneAttemptPerDelivery
  /\ \A d \in Starters : sent[d].kind # "retry" =>
       AsksForReview(sent[d]) /\ SameCommits(attemptKey[startedBy[d]], sent[d])
  /\ \A a \in Attempts \ Started :
       snapshot[a] = NoSnapshot /\ checkRun[a] = None /\ checks[a] = 0
  /\ \A a \in Attempts : checkRun[a] # None => snapshot[a] # NoSnapshot
  /\ \A a \in Attempts : checkRun[a] <= checks[a]
  /\ \A a \in Started : snapshot[a] # NoSnapshot => SameCommits(snapshot[a].key, attemptKey[a])

\* A busy handler: what it holds is its delivery's.
HoldsItsDelivery(w) ==
  /\ w.delivery \in DOMAIN sent
  /\ w.pc \in {"authorize", "resolve"} => sent[w.delivery].kind = "retry"
  /\ w.pc \in {"record", "insert", "check"} => sent[w.delivery].kind # "retry"
  /\ w.pc \notin {"authorize", "resolve"} => w.key \in Keys
  /\ sent[w.delivery].kind # "retry" =>
       AsksForReview(sent[w.delivery]) /\ SameCommits(w.key, sent[w.delivery])
  /\ w.pc \in WithAttempt =>
       /\ w.attempt # None /\ w.attempt = startedBy[w.delivery]
       /\ SameCommits(w.key, attemptKey[w.attempt])
  /\ w.pc \in {"create", "set"} => snapshot[w.attempt] # NoSnapshot
  /\ w.pc = "set" => w.created # 0 /\ w.created <= checks[w.attempt]

HandlersInv == \A h \in Handlers : handler[h] # Idle => HoldsItsDelivery(handler[h])

\* Those that may still create a Check for a delivery.
BeforeCheck == {"start", "record", "insert", "check", "snapshot", "create"}
Pending(d) ==
  {h \in Handlers : handler[h] # Idle /\ handler[h].delivery = d /\ handler[h].pc \in BeforeCheck}

ChecksOf(d) == IF startedBy[d] = None THEN 0 ELSE checks[startedBy[d]]

RetryGoesOn(h) == handler[h] # Idle /\ IsRetry(h) /\ handler[h].pc \in WithAttempt

\* A Check of a webhook's Attempt is paid for by a receipt, and so is every
\* handler that may create one; of a retry only the handler that started the
\* Attempt goes on, and no Check exists while it may create one.
CountInv ==
  /\ \A d \in DOMAIN sent : sent[d].kind # "retry" =>
       Cardinality(Pending(d)) + ChecksOf(d) <= receipts[d]
  /\ \A d \in DOMAIN sent : sent[d].kind = "retry" => ChecksOf(d) <= 1
  /\ \A g, h \in Handlers :
       RetryGoesOn(g) /\ RetryGoesOn(h) /\ handler[g].delivery = handler[h].delivery => g = h
  /\ \A h \in Handlers : RetryGoesOn(h) /\ handler[h].pc # "set" =>
       ChecksOf(handler[h].delivery) = 0

-----------------------------------------------------------------------------
(* Facts about the constants and the types.                                *)

\* Each kind of "none" is none of the values.
LEMMA NoneIsNoValue ==
  /\ \A k \in Keys : k # NoSnapshot
  /\ \A s \in Snapshots : s # NoSnapshot
  /\ \A w \in Busy : w # Idle /\ w.pc # "idle"
  /\ None \notin Attempts
<1>1. ASSUME NEW k \in Keys PROVE k # NoSnapshot
  BY DEF Keys, NoSnapshot
<1>2. ASSUME NEW s \in Snapshots PROVE s # NoSnapshot
  BY DEF Snapshots, NoSnapshot, Versions
<1>3. ASSUME NEW w \in Busy PROVE w # Idle /\ w.pc # "idle"
  BY DEF Busy, Idle, HandlerSteps
<1>4. None \notin Attempts
  BY TriggerAssumption DEF None, Attempts
<1> QED
  BY <1>1, <1>2, <1>3, <1>4

\* A handler that is at a step has a record.
LEMMA BusyHandler ==
  ASSUME TriggerTypeOK, NEW h \in Handlers, handler[h].pc # "idle"
  PROVE  handler[h] \in Busy /\ handler[h] # Idle
<1>1. handler[h] \in Busy \cup {Idle}
  BY DEF TriggerTypeOK
<1>2. Idle.pc = "idle"
  BY DEF Idle
<1> QED
  BY <1>1, <1>2

\* A handler that goes on to another step.
LEMMA HandlerGoesOn ==
  ASSUME TriggerTypeOK, NEW h \in Handlers, handler[h] \in Busy, NEW step \in HandlerSteps,
         handler' = [handler EXCEPT ![h].pc = step]
  PROVE  /\ handler'[h] = [handler[h] EXCEPT !.pc = step] /\ handler'[h] \in Busy
         /\ \A g \in Handlers \ {h} : handler'[g] = handler[g]
         /\ handler' \in [Handlers -> Busy \cup {Idle}]
<1>1. handler \in [Handlers -> Busy \cup {Idle}]
  BY DEF TriggerTypeOK
<1>2. [handler[h] EXCEPT !.pc = step] \in Busy
  BY DEF Busy
<1>3. /\ handler'[h] = [handler[h] EXCEPT !.pc = step]
      /\ \A g \in Handlers \ {h} : handler'[g] = handler[g]
  BY <1>1
<1>4. handler' = [handler EXCEPT ![h] = [handler[h] EXCEPT !.pc = step]]
  BY <1>1
<1> QED
  BY <1>1, <1>2, <1>3, <1>4

\* A handler that ends.
LEMMA HandlerEnds ==
  ASSUME TriggerTypeOK, NEW h \in Handlers, Finish(h)
  PROVE  /\ handler'[h] = Idle /\ \A g \in Handlers \ {h} : handler'[g] = handler[g]
         /\ handler' \in [Handlers -> Busy \cup {Idle}]
BY DEF TriggerTypeOK, Finish

\* As long as a delivery has started no Attempt there is room for one more.
LEMMA RoomForOneMore ==
  ASSUME TriggerTypeOK, StoreInv, NEW d \in Deliveries, startedBy[d] = None
  PROVE  Len(attemptKey) + 1 \in Attempts
<1>1. IsFiniteSet(Deliveries) /\ Cardinality(Deliveries) = MaxSent
  BY FS_Interval, TriggerAssumption DEF Deliveries
<1>2. Starters \subseteq Deliveries /\ Starters \cup {d} \subseteq Deliveries /\ d \notin Starters
  BY DEF Starters
<1>3. IsFiniteSet(Starters) /\ Cardinality(Starters \cup {d}) <= MaxSent
  BY <1>1, <1>2, FS_Subset
<1>4. Cardinality(Starters \cup {d}) = Cardinality(Starters) + 1
  BY <1>2, <1>3, FS_AddElement
<1>5. Len(attemptKey) \in Nat /\ Len(attemptKey) + 1 <= MaxSent
  BY <1>3, <1>4 DEF StoreInv, TriggerTypeOK
<1> QED
  BY <1>5, TriggerAssumption DEF Attempts

\* A delivery that is received finds a handler that waits at its first step.
LEMMA HandlerTakes ==
  ASSUME TriggerTypeOK, NEW h \in Handlers, NEW d \in Deliveries,
         NEW step \in {"start", "authorize"}, NEW key \in Keys \cup {NoSnapshot},
         handler' = [handler EXCEPT ![h] =
           [pc |-> step, delivery |-> d, key |-> key, attempt |-> None, prior |-> None,
            replayed |-> FALSE, created |-> 0]]
  PROVE  /\ handler'[h] = [pc |-> step, delivery |-> d, key |-> key, attempt |-> None,
                           prior |-> None, replayed |-> FALSE, created |-> 0]
         /\ handler'[h] \in Busy
         /\ \A g \in Handlers \ {h} : handler'[g] = handler[g]
         /\ handler' \in [Handlers -> Busy \cup {Idle}]
<1>1. [pc |-> step, delivery |-> d, key |-> key, attempt |-> None, prior |-> None,
       replayed |-> FALSE, created |-> 0] \in Busy
  BY DEF Busy, HandlerSteps, None
<1> QED
  BY <1>1 DEF TriggerTypeOK

\* The key of a payload is a key.
LEMMA PayloadKeyType ==
  ASSUME TriggerTypeOK, NEW e, e.ref \in Refs, e.base \in Nat, e.head \in Nat
  PROVE  PayloadKey(e) \in Keys
BY DEF PayloadKey, Keys, TriggerTypeOK

\* What a step does to the handlers: at most one of them is at another step.
HandlersStep(h) ==
  /\ \A g \in Handlers \ {h} : handler'[g] = handler[g]
  /\ handler' \in [Handlers -> Busy \cup {Idle}]

\* GitHub's events and a new version of the policy file.
LEMMA WorldType ==
  ASSUME TriggerTypeOK,
         \/ PushCommits \/ MarkReady \/ ConvertToDraft \/ Retarget \/ PushTarget \/ ClickRetry
         \/ ChangePolicy
  PROVE  TriggerTypeOK'
<1>1. ASSUME NEW kind \in {"start", "draft", "retarget", "push", "retry"},
             NEW new \in [ref : Refs, base : Nat, head : Nat, draft : BOOLEAN],
             Send(kind, new)
      PROVE  TriggerTypeOK'
  <2>1. [kind |-> kind, ref |-> new.ref, base |-> new.base, head |-> new.head,
         draft |-> new.draft] \in Events
    BY DEF Events
  <2>2. sent' \in Seq(Events) /\ Len(sent') <= MaxSent
    BY <1>1, <2>1, TriggerAssumption DEF Send, TriggerTypeOK
  <2>3. pull' \in [ref : Refs, base : Nat, head : Nat, draft : BOOLEAN]
    BY <1>1 DEF Send
  <2> QED
    BY <1>1, <2>2, <2>3 DEF Send, TriggerTypeOK, store, attempts, web
<1>2. CASE PushCommits
  <2>1. [pull EXCEPT !.head = @ + 1] \in [ref : Refs, base : Nat, head : Nat, draft : BOOLEAN]
    <3>1. pull.head \in Nat /\ pull.head + 1 \in Nat
      BY DEF TriggerTypeOK
    <3> QED
      BY <3>1 DEF TriggerTypeOK
  <2> QED
    BY <1>1, <1>2, <2>1 DEF PushCommits
<1>3. CASE MarkReady
  <2>1. [pull EXCEPT !.draft = FALSE] \in [ref : Refs, base : Nat, head : Nat, draft : BOOLEAN]
    BY DEF TriggerTypeOK
  <2> QED
    BY <1>1, <1>3, <2>1 DEF MarkReady
<1>4. CASE ConvertToDraft
  <2>1. [pull EXCEPT !.draft = TRUE] \in [ref : Refs, base : Nat, head : Nat, draft : BOOLEAN]
    BY DEF TriggerTypeOK
  <2> QED
    BY <1>1, <1>4, <2>1 DEF ConvertToDraft
<1>5. CASE Retarget
  <2>1. [pull EXCEPT !.ref = "other", !.base = 1]
          \in [ref : Refs, base : Nat, head : Nat, draft : BOOLEAN]
    BY DEF TriggerTypeOK, Refs
  <2> QED
    BY <1>1, <1>5, <2>1 DEF Retarget
<1>6. CASE PushTarget
  <2>1. [pull EXCEPT !.base = @ + 1] \in [ref : Refs, base : Nat, head : Nat, draft : BOOLEAN]
    <3>1. pull.base \in Nat /\ pull.base + 1 \in Nat
      BY DEF TriggerTypeOK
    <3> QED
      BY <3>1 DEF TriggerTypeOK
  <2> QED
    BY <1>1, <1>6, <2>1 DEF PushTarget
<1>7. CASE ClickRetry
  BY <1>1, <1>7 DEF ClickRetry, TriggerTypeOK
<1>8. CASE ChangePolicy
  <2>1. policy' \in Versions
    BY <1>8, TriggerAssumption DEF ChangePolicy, TriggerTypeOK, Versions
  <2> QED
    BY <1>8, <2>1 DEF ChangePolicy, TriggerTypeOK, github, store, attempts, web
<1> QED
  BY <1>2, <1>3, <1>4, <1>5, <1>6, <1>7, <1>8

\* What Receive does, by what it does to its handler: it takes the delivery, as
\* one that starts a review or as a retry, or answers it at once.
LEMMA ReceiveCases ==
  ASSUME TriggerTypeOK, NEW h \in Handlers, NEW d \in Deliveries, Receive(h, d)
  PROVE  /\ d \in DOMAIN sent /\ sent[d] \in Events /\ d \in 1..Len(sent)
         /\ handler[h].pc = "idle"
         /\ receipts' = [receipts EXCEPT ![d] = @ + 1]
         /\ standing' \in {standing, None}
         /\ UNCHANGED <<github, policy, attemptKey, authority, startedBy, digest, attempts, faults>>
         /\ \/ /\ AsksForReview(sent[d]) /\ UNCHANGED answered
               /\ handler' = [handler EXCEPT ![h] =
                    [pc |-> "start", delivery |-> d, key |-> PayloadKey(sent[d]),
                     attempt |-> None, prior |-> None, replayed |-> FALSE, created |-> 0]]
            \/ /\ sent[d].kind = "retry" /\ UNCHANGED answered
               /\ handler' = [handler EXCEPT ![h] =
                    [pc |-> "authorize", delivery |-> d, key |-> NoSnapshot,
                     attempt |-> None, prior |-> None, replayed |-> FALSE, created |-> 0]]
            \/ ~AsksForReview(sent[d]) /\ answered' = answered \cup {d} /\ UNCHANGED handler
<1>1. d \in DOMAIN sent /\ sent[d] \in Events /\ d \in 1..Len(sent)
  BY DEF Receive, TriggerTypeOK
<1>2. /\ handler[h].pc = "idle"
      /\ receipts' = [receipts EXCEPT ![d] = @ + 1]
      /\ UNCHANGED <<github, policy, attemptKey, authority, startedBy, digest, attempts, faults>>
  BY DEF Receive, At
<1>3. standing' \in {standing, None}
  BY DEF Receive, Withdraw
<1>4. sent[d].draft \in BOOLEAN
  BY <1>1 DEF Events
<1>5. CASE sent[d].kind = "retry"
  BY <1>1, <1>2, <1>3, <1>5 DEF Receive, AnswerAtOnce, AsksForReview
<1>6. CASE AsksForReview(sent[d])
  BY <1>1, <1>2, <1>3, <1>6 DEF Receive, AnswerAtOnce, AsksForReview
<1>7. CASE sent[d].kind # "retry" /\ ~AsksForReview(sent[d])
  BY <1>1, <1>2, <1>3, <1>4, <1>7 DEF Receive, AnswerAtOnce, AsksForReview
<1> QED
  BY <1>5, <1>6, <1>7

LEMMA ReceiveType ==
  ASSUME TriggerTypeOK, NEW h \in Handlers, NEW d \in Deliveries, Receive(h, d)
  PROVE  TriggerTypeOK'
<1> USE ReceiveCases
<1>1. receipts' \in [Deliveries -> Nat]
  BY DEF TriggerTypeOK
<1>2. PayloadKey(sent[d]) \in Keys
  BY PayloadKeyType DEF Events
<1>3. handler' \in [Handlers -> Busy \cup {Idle}] /\ answered' \subseteq Deliveries
  BY <1>2, HandlerTakes DEF TriggerTypeOK
<1> QED
  BY <1>1, <1>3 DEF TriggerTypeOK, github, attempts

-----------------------------------------------------------------------------
(* The steps of a handler: what each of them does to it.                   *)

\* The record that a busy handler has at each of its steps.
LEMMA AtStep ==
  ASSUME TriggerTypeOK, HandlersInv, NEW h \in Handlers, NEW step \in HandlerSteps, At(h, step)
  PROVE  /\ handler[h] \in Busy /\ handler[h] # Idle /\ handler[h].pc = step
         /\ HoldsItsDelivery(handler[h])
         /\ handler[h].delivery \in Deliveries /\ handler[h].delivery \in DOMAIN sent
<1>1. handler[h].pc # "idle" /\ handler[h].pc = step
  BY DEF At, HandlerSteps
<1>2. handler[h] \in Busy /\ handler[h] # Idle
  BY <1>1, BusyHandler
<1>3. HoldsItsDelivery(handler[h])
  BY <1>2 DEF HandlersInv
<1> QED
  BY <1>1, <1>2, <1>3 DEF HoldsItsDelivery, Busy

\* ReadState and Resolve: a retry looks for the Attempt and its request.
LEMMA LookUpType ==
  ASSUME TriggerTypeOK, HandlersInv, NEW h \in Handlers, ReadState(h) \/ Resolve(h)
  PROVE  /\ TriggerTypeOK' /\ HandlersStep(h)
         /\ UNCHANGED <<github, policy, store, attempts, web>>
         /\ \/ handler'[h] = Idle
            \/ /\ handler'[h] \in Busy /\ handler[h] \in Busy
               /\ sent[handler[h].delivery].kind = "retry"
               /\ handler'[h].delivery = handler[h].delivery
               /\ \/ handler'[h].pc = "resolve"
                  \/ handler'[h].pc = "start" /\ handler'[h].key \in Keys
<1>1. handler \in [Handlers -> Busy \cup {Idle}] /\ authority \in Attempts \cup {None}
  BY DEF TriggerTypeOK
<1>2. CASE ReadState(h)
  <2>1. /\ handler[h] \in Busy /\ handler[h].delivery \in Deliveries
        /\ sent[handler[h].delivery].kind = "retry"
    BY <1>2, AtStep DEF ReadState, HandlerSteps, HoldsItsDelivery
  <2>2. CASE Finish(h)
    BY <1>2, <2>1, <2>2, HandlerEnds
    DEF ReadState, HandlersStep, TriggerTypeOK, github, store, attempts, web
  <2>3. CASE ~Finish(h)
    <3>1. /\ handler' = [handler EXCEPT ![h].prior = authority, ![h].pc = "resolve"]
      BY <1>2, <2>3 DEF ReadState
    <3>2. handler'[h] = [[handler[h] EXCEPT !.prior = authority] EXCEPT !.pc = "resolve"]
      BY <3>1, <1>1
    <3>3. handler'[h] \in Busy
      BY <3>2, <2>1, <1>1 DEF Busy, HandlerSteps
    <3>4. HandlersStep(h)
      BY <3>1, <3>3, <1>1 DEF HandlersStep
    <3>5. handler'[h].delivery = handler[h].delivery /\ handler'[h].pc = "resolve"
      BY <3>2, <2>1 DEF Busy
    <3> QED
      BY <1>2, <2>1, <3>3, <3>4, <3>5
      DEF ReadState, HandlersStep, TriggerTypeOK, github, store, attempts, web
  <2> QED
    BY <2>2, <2>3
<1>3. CASE Resolve(h)
  <2>1. /\ handler[h] \in Busy /\ handler[h].delivery \in Deliveries
        /\ sent[handler[h].delivery].kind = "retry"
    BY <1>3, AtStep DEF Resolve, HandlerSteps, HoldsItsDelivery
  <2>2. PayloadKey(pull) \in Keys
    BY PayloadKeyType DEF TriggerTypeOK
  <2>3. /\ handler' = [handler EXCEPT ![h].key = PayloadKey(pull), ![h].pc = "start"]
    BY <1>3 DEF Resolve
  <2>4. handler'[h] = [[handler[h] EXCEPT !.key = PayloadKey(pull)] EXCEPT !.pc = "start"]
    BY <2>3, <1>1
  <2>5. handler'[h] \in Busy
    BY <2>4, <2>1, <2>2 DEF Busy, HandlerSteps
  <2>6. HandlersStep(h)
    BY <2>3, <2>5, <1>1 DEF HandlersStep
  <2>7. /\ handler'[h].delivery = handler[h].delivery /\ handler'[h].pc = "start"
        /\ handler'[h].key \in Keys
    BY <2>4, <2>1, <2>2 DEF Busy
  <2> QED
    BY <1>3, <2>1, <2>5, <2>6, <2>7
    DEF Resolve, HandlersStep, TriggerTypeOK, github, store, attempts, web
<1> QED
  BY <1>2, <1>3

\* Start finds the Attempt that the delivery started, or refuses.
LEMMA KnownStartType ==
  ASSUME TriggerTypeOK, StoreInv, HandlersInv, NEW h \in Handlers, Start(h),
         KnownDelivery(h) \/ LostAuthority(h)
  PROVE  /\ TriggerTypeOK' /\ HandlersStep(h)
         /\ UNCHANGED <<github, policy, store, attempts, receipts, faults>>
         /\ \/ handler'[h] = Idle /\ answered' = answered
            \/ /\ handler'[h] = Idle /\ sent[handler[h].delivery].kind = "retry"
               /\ answered' = answered \cup {handler[h].delivery}
            \/ /\ handler'[h] \in Busy /\ sent[handler[h].delivery].kind # "retry"
               /\ handler'[h].delivery = handler[h].delivery
               /\ handler'[h].key = handler[h].key /\ handler'[h].pc = "record"
               /\ handler'[h].attempt = startedBy[handler[h].delivery]
               /\ startedBy[handler[h].delivery] # None
               /\ answered' = answered
<1>1. /\ handler[h] \in Busy /\ handler[h].delivery \in Deliveries
  BY AtStep DEF Start, HandlerSteps
<1>2. handler \in [Handlers -> Busy \cup {Idle}] /\ answered \subseteq Deliveries
  BY DEF TriggerTypeOK
<1>3. CASE KnownDelivery(h) /\ IsRetry(h)
  <2>1. Answer(h) /\ UNCHANGED store /\ UNCHANGED <<github, policy, attempts>>
    BY <1>3 DEF Start, Replay, EndsWithReplay
  <2>2. handler'[h] = Idle /\ HandlersStep(h)
    BY <2>1, HandlerEnds DEF Answer, HandlersStep
  <2> QED
    BY <1>1, <1>2, <1>3, <2>1, <2>2
    DEF Answer, HandlersStep, TriggerTypeOK, github, store, attempts, IsRetry, Event
<1>4. CASE KnownDelivery(h) /\ ~IsRetry(h)
  <2> DEFINE a == startedBy[handler[h].delivery]
  <2>1. /\ handler' = [handler EXCEPT ![h].attempt = a, ![h].replayed = TRUE, ![h].pc = "record"]
        /\ UNCHANGED web /\ UNCHANGED store /\ UNCHANGED <<github, policy, attempts>>
    BY <1>4 DEF Start, Replay, EndsWithReplay
  <2>2. a \in Attempts /\ a # None
    BY <1>1, <1>4 DEF TriggerTypeOK, KnownDelivery
  <2>3. handler'[h] = [[[handler[h] EXCEPT !.attempt = a] EXCEPT !.replayed = TRUE]
                         EXCEPT !.pc = "record"]
    BY <2>1, <1>2
  <2>4. handler'[h] \in Busy
    BY <2>2, <2>3, <1>1 DEF Busy, HandlerSteps
  <2>5. HandlersStep(h)
    BY <2>1, <2>4, <1>2 DEF HandlersStep
  <2>6. /\ handler'[h].delivery = handler[h].delivery /\ handler'[h].key = handler[h].key
        /\ handler'[h].pc = "record" /\ handler'[h].attempt = a
    BY <2>3, <1>1 DEF Busy
  <2> HIDE DEF a
  <2>7. TriggerTypeOK'
    BY <2>1, <2>5 DEF HandlersStep, TriggerTypeOK, github, store, attempts, web
  <2> QED
    BY <1>4, <2>1, <2>2, <2>4, <2>5, <2>6, <2>7 DEF a, IsRetry, Event, web
<1>5. CASE ~KnownDelivery(h)
  <2>1. Refuse(h) /\ UNCHANGED store /\ UNCHANGED <<github, policy, attempts>>
    BY <1>5 DEF Start
  <2>2. handler'[h] = Idle /\ HandlersStep(h)
    BY <2>1, HandlerEnds DEF Refuse, HandlersStep
  <2> QED
    BY <2>1, <2>2 DEF Refuse, HandlersStep, TriggerTypeOK, github, store, attempts, web
<1> QED
  BY <1>3, <1>4, <1>5

\* Start makes an Attempt.
LEMMA NewAttemptType ==
  ASSUME TriggerTypeOK, StoreInv, HandlersInv, NEW h \in Handlers, Start(h),
         ~KnownDelivery(h), ~LostAuthority(h)
  PROVE  LET d == handler[h].delivery
             a == Len(attemptKey) + 1
         IN
         /\ TriggerTypeOK' /\ HandlersStep(h)
         /\ handler[h] \in Busy /\ handler[h].pc = "start" /\ HoldsItsDelivery(handler[h])
         /\ UNCHANGED <<github, policy, attempts, digest, web>>
         /\ d \in Deliveries /\ d \in DOMAIN sent /\ startedBy[d] = None
         /\ a \in Attempts /\ a # None /\ a \notin Started
         /\ handler[h].key \in Keys
         /\ attemptKey' = Append(attemptKey, handler[h].key)
         /\ startedBy' = [startedBy EXCEPT ![d] = a]
         /\ handler'[h] \in Busy /\ handler'[h].delivery = d
         /\ handler'[h].key = handler[h].key /\ handler'[h].attempt = a
         /\ handler'[h].pc = IF sent[d].kind = "retry" THEN "snapshot" ELSE "record"
<1> DEFINE d == handler[h].delivery
           a == Len(attemptKey) + 1
           step == IF sent[d].kind = "retry" THEN "snapshot" ELSE "record"
<1>1. /\ handler[h] \in Busy /\ d \in Deliveries /\ d \in DOMAIN sent
      /\ handler[h].pc = "start" /\ HoldsItsDelivery(handler[h])
  BY AtStep DEF Start, HandlerSteps
<1>2. handler[h].key \in Keys
  BY <1>1 DEF HoldsItsDelivery
<1>3. handler \in [Handlers -> Busy \cup {Idle}]
  BY DEF TriggerTypeOK
<1>4. NewAttempt(h) /\ UNCHANGED <<github, policy, attempts>>
  BY DEF Start
<1>5. startedBy[d] = None
  BY DEF KnownDelivery
<1>6. a \in Attempts
  BY <1>1, <1>5, RoomForOneMore
<1>7. a # None /\ a \notin Started /\ Len(attemptKey) \in Nat
  BY <1>6, NoneIsNoValue DEF Started, TriggerTypeOK
<1>8. /\ attemptKey' = Append(attemptKey, handler[h].key)
      /\ authority' = a /\ standing' = None
      /\ startedBy' = [startedBy EXCEPT ![d] = a]
      /\ handler' = [handler EXCEPT ![h].attempt = a, ![h].pc = step]
      /\ UNCHANGED <<digest, web>>
  BY <1>4 DEF NewAttempt, IsRetry, Event
<1>9. handler'[h] = [[handler[h] EXCEPT !.attempt = a] EXCEPT !.pc = step]
  BY <1>8, <1>3
<1>10. handler'[h] \in Busy
  BY <1>9, <1>1, <1>6 DEF Busy, HandlerSteps
<1>11. HandlersStep(h)
  BY <1>8, <1>10, <1>3 DEF HandlersStep
<1>12. /\ handler'[h].delivery = d /\ handler'[h].key = handler[h].key
       /\ handler'[h].attempt = a /\ handler'[h].pc = step
  BY <1>9, <1>1 DEF Busy
<1>13. attemptKey' \in Seq(Keys) /\ Len(attemptKey') <= MaxSent
  BY <1>2, <1>6, <1>7, <1>8, TriggerAssumption DEF TriggerTypeOK, Attempts
<1>14. /\ startedBy' \in [Deliveries -> Attempts \cup {None}]
       /\ authority' \in Attempts \cup {None} /\ standing' \in Attempts \cup {None}
  BY <1>6, <1>8 DEF TriggerTypeOK
<1>15. TriggerTypeOK'
  BY <1>4, <1>8, <1>11, <1>13, <1>14 DEF HandlersStep, TriggerTypeOK, github, attempts, web
<1> QED
  BY <1>1, <1>2, <1>4, <1>5, <1>6, <1>7, <1>8, <1>10, <1>11, <1>12, <1>15

\* The steps that record the request and look for the Check of a known Attempt.
LEMMA RecordType ==
  ASSUME TriggerTypeOK, HandlersInv, NEW h \in Handlers,
         ReadDigest(h) \/ InsertDigest(h) \/ CheckExisting(h)
  PROVE  /\ TriggerTypeOK' /\ HandlersStep(h)
         /\ UNCHANGED <<github, policy, attemptKey, authority, standing, startedBy, attempts,
                        receipts, faults>>
         /\ handler[h] \in Busy /\ HoldsItsDelivery(handler[h])
         /\ handler[h].pc \in {"record", "insert", "check"}
         /\ \/ handler'[h] = Idle /\ answered' = answered
            \/ /\ handler'[h] = Idle /\ checkRun[handler[h].attempt] # None
               /\ answered' = answered \cup {handler[h].delivery}
            \/ /\ handler'[h] \in Busy /\ answered' = answered
               /\ handler'[h].delivery = handler[h].delivery
               /\ handler'[h].key = handler[h].key
               /\ handler'[h].attempt = handler[h].attempt
               /\ handler'[h].pc \in {"insert", "check", "snapshot"}
<1>1. /\ handler[h] \in Busy /\ handler[h].delivery \in Deliveries
      /\ handler[h].pc \in {"record", "insert", "check"} /\ HoldsItsDelivery(handler[h])
  BY AtStep DEF ReadDigest, InsertDigest, CheckExisting, HandlerSteps
<1>2. handler[h].key \in Keys
  BY <1>1 DEF HoldsItsDelivery
<1>3. digest' \in [Deliveries -> Keys \cup {NoSnapshot}]
  BY <1>1, <1>2 DEF ReadDigest, InsertDigest, CheckExisting, TriggerTypeOK, store
<1>4. UNCHANGED <<github, policy, attemptKey, authority, standing, startedBy, attempts,
                  receipts, faults>>
  BY DEF ReadDigest, InsertDigest, CheckExisting, Answer, store, web
<1>5. CASE Finish(h) /\ answered' = answered
  BY <1>1, <1>3, <1>4, <1>5, HandlerEnds DEF HandlersStep, TriggerTypeOK, github, attempts
<1>6. CASE Answer(h) /\ Processed(h)
  <2>1. handler'[h] = Idle /\ HandlersStep(h)
    BY <1>6, HandlerEnds DEF Answer, HandlersStep
  <2>2. /\ answered' = answered \cup {handler[h].delivery}
        /\ checkRun[handler[h].attempt] # None
    BY <1>6 DEF Answer, Processed
  <2> QED
    BY <1>1, <1>3, <1>4, <2>1, <2>2 DEF HandlersStep, TriggerTypeOK, github, attempts
<1>7. ASSUME NEW step \in {"insert", "check", "snapshot"}, Goto(h, step), answered' = answered
      PROVE  /\ TriggerTypeOK' /\ HandlersStep(h) /\ handler'[h] \in Busy
             /\ handler'[h].delivery = handler[h].delivery
             /\ handler'[h].key = handler[h].key
             /\ handler'[h].attempt = handler[h].attempt
             /\ handler'[h].pc = step
  <2>1. /\ handler'[h] = [handler[h] EXCEPT !.pc = step] /\ handler'[h] \in Busy
        /\ HandlersStep(h)
    BY <1>1, <1>7, HandlerGoesOn DEF Goto, HandlersStep, HandlerSteps
  <2>2. TriggerTypeOK'
    BY <1>3, <1>4, <1>7, <2>1 DEF HandlersStep, TriggerTypeOK, github, attempts
  <2> QED
    BY <1>1, <2>1, <2>2 DEF Busy
<1>8. \/ Finish(h) /\ answered' = answered
      \/ Answer(h) /\ Processed(h)
      \/ \E step \in {"insert", "check", "snapshot"} : Goto(h, step) /\ answered' = answered
  BY DEF ReadDigest, InsertDigest, CheckExisting, web
<1> QED
  BY <1>1, <1>4, <1>5, <1>6, <1>7, <1>8

\* The steps that prepare the Attempt, and the failure of a handler.
LEMMA SaveSnapshotType ==
  ASSUME TriggerTypeOK, HandlersInv, NEW h \in Handlers, SaveSnapshot(h)
  PROVE  LET a == handler[h].attempt IN
         /\ TriggerTypeOK' /\ HandlersStep(h)
         /\ UNCHANGED <<github, policy, store, checkRun, checks, over, web>>
         /\ handler[h] \in Busy /\ HoldsItsDelivery(handler[h]) /\ handler[h].pc = "snapshot"
         /\ \/ handler'[h] = Idle /\ snapshot' = snapshot
            \/ /\ handler'[h] \in Busy
               /\ handler'[h].delivery = handler[h].delivery
               /\ handler'[h].key = handler[h].key
               /\ handler'[h].attempt = a /\ a \in Attempts
               /\ handler'[h].pc = "create"
               /\ snapshot' = [snapshot EXCEPT ![a] = [key |-> handler[h].key, frozen |-> policy]]
               /\ [key |-> handler[h].key, frozen |-> policy] \in Snapshots
               /\ snapshot[a] \in {NoSnapshot, [key |-> handler[h].key, frozen |-> policy]}
<1> DEFINE a == handler[h].attempt
           new == [key |-> handler[h].key, frozen |-> policy]
<1>1. /\ handler[h] \in Busy /\ handler[h].pc = "snapshot" /\ HoldsItsDelivery(handler[h])
  BY AtStep DEF SaveSnapshot, HandlerSteps
<1>2. handler[h].key \in Keys /\ a \in Attempts
  BY <1>1, NoneIsNoValue DEF HoldsItsDelivery, WithAttempt, Busy
<1>3. new \in Snapshots
  BY <1>2 DEF Snapshots, TriggerTypeOK
<1>4. UNCHANGED <<github, policy, store, checkRun, checks, over, web>>
  BY DEF SaveSnapshot
<1>5. CASE snapshot[a] \in {NoSnapshot, new}
  <2>1. snapshot' = [snapshot EXCEPT ![a] = new] /\ Goto(h, "create")
    BY <1>5 DEF SaveSnapshot, FrozenSnapshot, SnapshotKey
  <2>2. /\ handler'[h] = [handler[h] EXCEPT !.pc = "create"] /\ handler'[h] \in Busy
        /\ HandlersStep(h)
    BY <1>1, <2>1, HandlerGoesOn DEF Goto, HandlersStep, HandlerSteps
  <2>3. snapshot' \in [Attempts -> Snapshots \cup {NoSnapshot}]
    BY <1>3, <2>1 DEF TriggerTypeOK
  <2>4. TriggerTypeOK'
    BY <1>4, <2>2, <2>3 DEF HandlersStep, TriggerTypeOK, github, store, web
  <2>5. /\ handler'[h].delivery = handler[h].delivery /\ handler'[h].key = handler[h].key
        /\ handler'[h].attempt = a /\ handler'[h].pc = "create"
    BY <1>1, <2>2 DEF Busy
  <2> QED
    BY <1>1, <1>2, <1>3, <1>4, <1>5, <2>1, <2>2, <2>4, <2>5
<1>6. CASE snapshot[a] \notin {NoSnapshot, new}
  <2>1. Finish(h) /\ UNCHANGED snapshot
    BY <1>6 DEF SaveSnapshot, FrozenSnapshot, SnapshotKey
  <2> QED
    BY <1>1, <1>4, <2>1, HandlerEnds
    DEF HandlersStep, TriggerTypeOK, github, store, web
<1> QED
  BY <1>5, <1>6

LEMMA CreateCheckType ==
  ASSUME TriggerTypeOK, HandlersInv, NEW h \in Handlers, CreateCheck(h)
  PROVE  LET a == handler[h].attempt IN
         /\ TriggerTypeOK' /\ HandlersStep(h)
         /\ UNCHANGED <<github, policy, store, snapshot, checkRun, over, web>>
         /\ handler[h] \in Busy /\ HoldsItsDelivery(handler[h]) /\ handler[h].pc = "create"
         /\ a \in Attempts /\ checks' = [checks EXCEPT ![a] = checks[a] + 1]
         /\ handler'[h] \in Busy
         /\ handler'[h].delivery = handler[h].delivery /\ handler'[h].key = handler[h].key
         /\ handler'[h].attempt = a /\ handler'[h].pc = "set"
         /\ handler'[h].created = checks[a] + 1
<1> DEFINE a == handler[h].attempt
<1>1. /\ handler[h] \in Busy /\ handler[h].pc = "create" /\ HoldsItsDelivery(handler[h])
  BY AtStep DEF CreateCheck, HandlerSteps
<1>2. a \in Attempts
  BY <1>1, NoneIsNoValue DEF HoldsItsDelivery, WithAttempt, Busy
<1>3. /\ checks' = [checks EXCEPT ![a] = checks[a] + 1]
      /\ handler' = [handler EXCEPT ![h].created = checks[a] + 1, ![h].pc = "set"]
      /\ UNCHANGED <<github, policy, store, snapshot, checkRun, over, web>>
  BY DEF CreateCheck
<1>4. checks[a] \in Nat /\ checks[a] + 1 \in Nat
  BY <1>2 DEF TriggerTypeOK
<1>5. handler'[h] = [[handler[h] EXCEPT !.created = checks[a] + 1] EXCEPT !.pc = "set"]
  BY <1>3 DEF TriggerTypeOK
<1>6. handler'[h] \in Busy
  BY <1>1, <1>4, <1>5 DEF Busy, HandlerSteps
<1>7. HandlersStep(h)
  BY <1>3, <1>6 DEF HandlersStep, TriggerTypeOK
<1>8. /\ handler'[h].delivery = handler[h].delivery /\ handler'[h].key = handler[h].key
      /\ handler'[h].attempt = a /\ handler'[h].pc = "set"
      /\ handler'[h].created = checks[a] + 1
  BY <1>1, <1>5 DEF Busy
<1>9. TriggerTypeOK'
  <2>1. checks' \in [Attempts -> Nat]
    BY <1>3, <1>4 DEF TriggerTypeOK
  <2> QED
    BY <1>3, <1>7, <2>1 DEF HandlersStep, TriggerTypeOK, github, store, web
<1> QED
  BY <1>1, <1>2, <1>3, <1>6, <1>7, <1>8, <1>9

LEMMA SetCheckRunType ==
  ASSUME TriggerTypeOK, HandlersInv, NEW h \in Handlers, SetCheckRun(h)
  PROVE  LET a == handler[h].attempt IN
         /\ TriggerTypeOK' /\ HandlersStep(h)
         /\ UNCHANGED <<github, policy, store, snapshot, checks, over, receipts, faults>>
         /\ handler[h] \in Busy /\ HoldsItsDelivery(handler[h]) /\ handler[h].pc = "set"
         /\ a \in Attempts
         /\ checkRun' = IF checkRun[a] = None THEN [checkRun EXCEPT ![a] = handler[h].created]
                        ELSE checkRun
         /\ handler'[h] = Idle /\ answered' = answered \cup {handler[h].delivery}
<1> DEFINE a == handler[h].attempt
<1>1. /\ handler[h] \in Busy /\ handler[h].pc = "set" /\ HoldsItsDelivery(handler[h])
      /\ handler[h].delivery \in Deliveries
  BY AtStep DEF SetCheckRun, HandlerSteps
<1>2. a \in Attempts /\ handler[h].created \in Nat
  BY <1>1, NoneIsNoValue DEF HoldsItsDelivery, WithAttempt, Busy
<1>3. /\ checkRun' = IF checkRun[a] = None THEN [checkRun EXCEPT ![a] = handler[h].created]
                     ELSE checkRun
      /\ Finish(h) /\ answered' = answered \cup {handler[h].delivery}
      /\ UNCHANGED <<github, policy, store, snapshot, checks, over, receipts, faults>>
  BY DEF SetCheckRun, Answer
<1>4. checkRun' \in [Attempts -> Nat]
  BY <1>2, <1>3 DEF TriggerTypeOK
<1>5. HandlersStep(h) /\ handler'[h] = Idle
  BY <1>3, HandlerEnds DEF HandlersStep
<1> QED
  BY <1>1, <1>2, <1>3, <1>4, <1>5 DEF HandlersStep, TriggerTypeOK, github, store

LEMMA FailType ==
  ASSUME TriggerTypeOK, NEW h \in Handlers, Fail(h)
  PROVE  /\ TriggerTypeOK' /\ HandlersStep(h) /\ handler'[h] = Idle
         /\ UNCHANGED <<github, policy, store, attempts, receipts, answered>>
BY HandlerEnds DEF Fail, HandlersStep, TriggerTypeOK, github, store, attempts

LEMMA ExecuteType ==
  ASSUME TriggerTypeOK, NEW a \in Attempts, Execute(a)
  PROVE  TriggerTypeOK'
<1>1. over' \in [Attempts -> BOOLEAN] /\ standing' \in Attempts \cup {None}
  BY DEF Execute, TriggerTypeOK
<1> QED
  BY <1>1 DEF Execute, TriggerTypeOK, github, web

-----------------------------------------------------------------------------
(* The store only grows.                                                   *)

\* What no step takes back: a delivery and the Attempt it started, the request
\* key of an Attempt, its snapshot, the Check recorded for it, the Checks of
\* GitHub, the digest of a delivery.
OnlyGrows ==
  /\ \A d \in DOMAIN sent : d \in DOMAIN sent' /\ sent'[d] = sent[d]
  /\ \A d \in Deliveries : startedBy[d] # None => startedBy'[d] = startedBy[d]
  /\ \A d \in Deliveries : digest[d] # NoSnapshot => digest'[d] = digest[d]
  /\ \A a \in Started : a \in Started' /\ attemptKey'[a] = attemptKey[a]
  /\ \A a \in Attempts : snapshot[a] # NoSnapshot => snapshot'[a] = snapshot[a]
  /\ \A a \in Attempts : checkRun[a] # None => checkRun'[a] = checkRun[a]
  /\ \A a \in Attempts : checks[a] <= checks'[a]

\* A step that touches none of this.
LEMMA UntouchedGrows ==
  ASSUME TriggerTypeOK,
         UNCHANGED <<sent, startedBy, digest, attemptKey, snapshot, checkRun, checks>>
  PROVE  OnlyGrows
BY DEF OnlyGrows, Started, TriggerTypeOK

LEMMA SendGrows ==
  ASSUME TriggerTypeOK, NEW kind, NEW new, Send(kind, new)
  PROVE  OnlyGrows
<1>1. \A d \in DOMAIN sent : d \in DOMAIN sent' /\ sent'[d] = sent[d]
  BY DEF Send, TriggerTypeOK
<1>2. UNCHANGED <<startedBy, digest, attemptKey, snapshot, checkRun, checks>>
  BY DEF Send, store, attempts
<1> QED
  BY <1>1, <1>2 DEF OnlyGrows, Started, TriggerTypeOK

LEMMA StepGrows ==
  ASSUME TriggerTypeOK, StoreInv, HandlersInv, NEW h \in Handlers, Step(h)
  PROVE  OnlyGrows
<1>1. CASE ReadState(h) \/ Resolve(h)
  BY <1>1, LookUpType, UntouchedGrows DEF github, store, attempts
<1>2. CASE Start(h)
  <2>1. CASE KnownDelivery(h) \/ LostAuthority(h)
    BY <1>2, <2>1, KnownStartType, UntouchedGrows DEF github, store, attempts
  <2>2. CASE ~KnownDelivery(h) /\ ~LostAuthority(h)
    <3> DEFINE d == handler[h].delivery
               a == Len(attemptKey) + 1
    <3>1. /\ UNCHANGED <<github, policy, attempts, digest, web>>
          /\ d \in Deliveries /\ startedBy[d] = None /\ handler[h].key \in Keys
          /\ attemptKey' = Append(attemptKey, handler[h].key)
          /\ startedBy' = [startedBy EXCEPT ![d] = a]
      BY <1>2, <2>2, NewAttemptType
    <3>2. \A x \in Started : x \in Started' /\ attemptKey'[x] = attemptKey[x]
      BY <3>1 DEF Started, TriggerTypeOK
    <3>3. \A e \in Deliveries : startedBy[e] # None => startedBy'[e] = startedBy[e]
      BY <3>1 DEF TriggerTypeOK
    <3>4. UNCHANGED <<sent, digest, snapshot, checkRun, checks>>
      BY <3>1 DEF github, attempts
    <3>5. \A x \in Attempts : checks[x] <= checks'[x]
      BY <3>4 DEF TriggerTypeOK
    <3> HIDE DEF d, a
    <3> QED
      BY <3>2, <3>3, <3>4, <3>5 DEF OnlyGrows
  <2> QED
    BY <2>1, <2>2
<1>3. CASE ReadDigest(h) \/ CheckExisting(h)
  BY <1>3, UntouchedGrows DEF ReadDigest, CheckExisting, github, store, attempts
<1>4. CASE InsertDigest(h)
  <2>1. \A d \in Deliveries : digest[d] # NoSnapshot => digest'[d] = digest[d]
    BY <1>4 DEF InsertDigest, TriggerTypeOK
  <2>2. UNCHANGED <<sent, startedBy, attemptKey, snapshot, checkRun, checks>>
    BY <1>4 DEF InsertDigest, github, attempts
  <2> QED
    BY <2>1, <2>2 DEF OnlyGrows, Started, TriggerTypeOK
<1>5. CASE SaveSnapshot(h)
  <2>1. \A a \in Attempts : snapshot[a] # NoSnapshot => snapshot'[a] = snapshot[a]
    BY <1>5, SaveSnapshotType DEF TriggerTypeOK
  <2>2. UNCHANGED <<sent, startedBy, digest, attemptKey, checkRun, checks>>
    BY <1>5, SaveSnapshotType DEF github, store
  <2> QED
    BY <2>1, <2>2 DEF OnlyGrows, Started, TriggerTypeOK
<1>6. CASE CreateCheck(h)
  <2>1. \A a \in Attempts : checks[a] <= checks'[a]
    <3>1. PICK b \in Attempts : checks' = [checks EXCEPT ![b] = checks[b] + 1]
      BY <1>6, CreateCheckType
    <3>2. \A a \in Attempts : checks[a] \in Nat
      BY DEF TriggerTypeOK
    <3>3. \A a \in Attempts : checks'[a] = IF a = b THEN checks[a] + 1 ELSE checks[a]
      BY <3>1 DEF TriggerTypeOK
    <3> QED
      BY <3>2, <3>3
  <2>2. UNCHANGED <<sent, startedBy, digest, attemptKey, snapshot, checkRun>>
    BY <1>6, CreateCheckType DEF github, store
  <2> QED
    BY <2>1, <2>2 DEF OnlyGrows, Started, TriggerTypeOK
<1>7. CASE SetCheckRun(h)
  <2>1. \A a \in Attempts : checkRun[a] # None => checkRun'[a] = checkRun[a]
    BY <1>7, SetCheckRunType DEF TriggerTypeOK
  <2>2. UNCHANGED <<sent, startedBy, digest, attemptKey, snapshot, checks>>
    BY <1>7, SetCheckRunType DEF github, store
  <2> QED
    BY <2>1, <2>2 DEF OnlyGrows, Started, TriggerTypeOK
<1> QED
  BY <1>1, <1>2, <1>3, <1>4, <1>5, <1>6, <1>7 DEF Step

LEMMA NextGrows ==
  ASSUME TriggerTypeOK, StoreInv, HandlersInv, [Next]_vars
  PROVE  OnlyGrows
<1>1. CASE PushCommits \/ MarkReady \/ ConvertToDraft \/ Retarget \/ PushTarget \/ ClickRetry
  <2>1. \E kind, new : Send(kind, new)
    BY <1>1 DEF PushCommits, MarkReady, ConvertToDraft, Retarget, PushTarget, ClickRetry
  <2> QED
    BY <2>1, SendGrows
<1>2. CASE ChangePolicy
  BY <1>2, UntouchedGrows DEF ChangePolicy, github, store, attempts
<1>3. ASSUME NEW h \in Handlers, Step(h) PROVE OnlyGrows
  BY <1>3, StepGrows
<1>4. ASSUME NEW h \in Handlers, Fail(h) PROVE OnlyGrows
  BY <1>4, FailType, UntouchedGrows DEF github, store, attempts
<1>5. ASSUME NEW h \in Handlers, NEW d \in Deliveries, Receive(h, d) PROVE OnlyGrows
  BY <1>5, ReceiveCases, UntouchedGrows DEF github, attempts
<1>6. ASSUME NEW a \in Attempts, Execute(a) PROVE OnlyGrows
  BY <1>6, UntouchedGrows DEF Execute, github
<1>7. CASE UNCHANGED vars
  BY <1>7, UntouchedGrows DEF vars, github, store, attempts
<1> QED
  BY <1>1, <1>2, <1>3, <1>4, <1>5, <1>6, <1>7 DEF Next

-----------------------------------------------------------------------------
(* What a handler holds stays its delivery's.                              *)

LEMMA HoldStays ==
  ASSUME TriggerTypeOK, TriggerTypeOK', StoreInv, OnlyGrows,
         NEW w \in Busy, HoldsItsDelivery(w)
  PROVE  HoldsItsDelivery(w)'
<1>1. /\ w.delivery \in DOMAIN sent /\ w.delivery \in DOMAIN sent'
      /\ sent'[w.delivery] = sent[w.delivery] /\ w.delivery \in Deliveries
  BY DEF HoldsItsDelivery, OnlyGrows, Busy
<1>2. w.pc \in WithAttempt =>
        /\ w.attempt # None /\ w.attempt = startedBy'[w.delivery]
        /\ SameCommits(w.key, attemptKey'[w.attempt])
  <2> SUFFICES ASSUME w.pc \in WithAttempt
               PROVE  /\ w.attempt # None /\ w.attempt = startedBy'[w.delivery]
                      /\ SameCommits(w.key, attemptKey'[w.attempt])
    OBVIOUS
  <2>1. /\ w.attempt # None /\ w.attempt = startedBy[w.delivery]
        /\ SameCommits(w.key, attemptKey[w.attempt])
    BY DEF HoldsItsDelivery
  <2>2. w.attempt \in Started
    BY <1>1, <2>1 DEF StoreInv, Starters
  <2> QED
    BY <1>1, <2>1, <2>2 DEF OnlyGrows, SameCommits
<1>3. w.pc \in {"create", "set"} => snapshot'[w.attempt] # NoSnapshot
  BY NoneIsNoValue DEF HoldsItsDelivery, OnlyGrows, WithAttempt, Busy
<1>4. w.pc = "set" => w.created # 0 /\ w.created <= checks'[w.attempt]
  <2> SUFFICES ASSUME w.pc = "set" PROVE w.created # 0 /\ w.created <= checks'[w.attempt]
    OBVIOUS
  <2>1. /\ w.attempt \in Attempts /\ w.created \in Nat
        /\ w.created # 0 /\ w.created <= checks[w.attempt]
    BY DEF HoldsItsDelivery, WithAttempt, Busy
  <2>2. checks[w.attempt] \in Nat /\ checks'[w.attempt] \in Nat
    BY <2>1 DEF TriggerTypeOK
  <2> QED
    BY <2>1, <2>2 DEF OnlyGrows
<1> QED
  BY <1>1, <1>2, <1>3, <1>4 DEF HoldsItsDelivery, SameCommits, AsksForReview

LEMMA OthersStay ==
  ASSUME TriggerTypeOK, TriggerTypeOK', StoreInv, HandlersInv, OnlyGrows,
         NEW g \in Handlers, handler'[g] = handler[g], handler'[g] # Idle
  PROVE  HoldsItsDelivery(handler[g])'
<1>1. handler[g] # Idle /\ handler[g] \in Busy
  BY DEF TriggerTypeOK
<1>2. HoldsItsDelivery(handler[g])
  BY <1>1 DEF HandlersInv
<1>3. \A w \in Busy : HoldsItsDelivery(w) => HoldsItsDelivery(w)'
  BY HoldStays
<1>4. \A w \in Busy : w = handler[g] => HoldsItsDelivery(w)'
  BY <1>2, <1>3
<1>5. \A w \in Busy : w = handler'[g] /\ HoldsItsDelivery(w)' => HoldsItsDelivery(handler[g])'
  BY DEF HoldsItsDelivery
<1> QED
  BY <1>1, <1>4, <1>5

\* So it is enough to look at the handler that moves.
LEMMA HandlersStay ==
  ASSUME TriggerTypeOK, TriggerTypeOK', StoreInv, HandlersInv, OnlyGrows, NEW h \in Handlers,
         HandlersStep(h), handler'[h] # Idle => HoldsItsDelivery(handler[h])'
  PROVE  HandlersInv'
BY OthersStay DEF HandlersInv, HandlersStep

LEMMA HandlersRest ==
  ASSUME TriggerTypeOK, TriggerTypeOK', StoreInv, HandlersInv, OnlyGrows, UNCHANGED handler
  PROVE  HandlersInv'
BY OthersStay DEF HandlersInv

LEMMA ReceiveHolds ==
  ASSUME TriggerTypeOK, TriggerTypeOK', StoreInv, HandlersInv, OnlyGrows,
         NEW h \in Handlers, NEW d \in Deliveries, Receive(h, d)
  PROVE  HandlersInv'
<1>1. /\ d \in DOMAIN sent /\ sent[d] \in Events
      /\ UNCHANGED <<sent, startedBy, attemptKey, snapshot, checks>>
  BY ReceiveCases DEF github, attempts
<1>2. PayloadKey(sent[d]) \in Keys /\ SameCommits(PayloadKey(sent[d]), sent[d])
  BY <1>1, PayloadKeyType DEF Events, SameCommits, PayloadKey
<1>3. CASE UNCHANGED handler
  BY <1>3, HandlersRest
<1>4. CASE /\ AsksForReview(sent[d])
           /\ handler' = [handler EXCEPT ![h] =
                [pc |-> "start", delivery |-> d, key |-> PayloadKey(sent[d]),
                 attempt |-> None, prior |-> None, replayed |-> FALSE, created |-> 0]]
  <2>1. /\ handler'[h] = [pc |-> "start", delivery |-> d, key |-> PayloadKey(sent[d]),
                          attempt |-> None, prior |-> None, replayed |-> FALSE, created |-> 0]
        /\ HandlersStep(h)
    BY <1>2, <1>4, HandlerTakes DEF HandlersStep
  <2>2. /\ handler'[h].pc = "start" /\ handler'[h].delivery = d
        /\ handler'[h].key = PayloadKey(sent[d])
    BY <2>1
  <2>3. HoldsItsDelivery(handler[h])'
    BY <1>1, <1>2, <1>4, <2>2 DEF HoldsItsDelivery, WithAttempt, SameCommits, AsksForReview
  <2> QED
    BY <2>1, <2>3, HandlersStay
<1>5. CASE /\ sent[d].kind = "retry"
           /\ handler' = [handler EXCEPT ![h] =
                [pc |-> "authorize", delivery |-> d, key |-> NoSnapshot,
                 attempt |-> None, prior |-> None, replayed |-> FALSE, created |-> 0]]
  <2>1. /\ handler'[h] = [pc |-> "authorize", delivery |-> d, key |-> NoSnapshot,
                          attempt |-> None, prior |-> None, replayed |-> FALSE, created |-> 0]
        /\ HandlersStep(h)
    BY <1>5, HandlerTakes DEF HandlersStep
  <2>2. handler'[h].pc = "authorize" /\ handler'[h].delivery = d
    BY <2>1
  <2>3. HoldsItsDelivery(handler[h])'
    BY <1>1, <1>5, <2>2 DEF HoldsItsDelivery, WithAttempt, SameCommits, AsksForReview
  <2> QED
    BY <2>1, <2>3, HandlersStay
<1> QED
  BY <1>3, <1>4, <1>5, ReceiveCases

LEMMA StepHolds ==
  ASSUME TriggerTypeOK, TriggerTypeOK', StoreInv, HandlersInv, OnlyGrows,
         NEW h \in Handlers, Step(h)
  PROVE  HandlersInv'
<1>1. CASE ReadState(h) \/ Resolve(h)
  <2>1. handler'[h] # Idle => HoldsItsDelivery(handler[h])'
    <3>1. handler[h] # Idle /\ HoldsItsDelivery(handler[h])
      BY <1>1, AtStep DEF ReadState, Resolve, HandlerSteps
    <3>2. UNCHANGED <<sent, startedBy, attemptKey, snapshot, checks>>
      BY <1>1, LookUpType DEF github, store, attempts
    <3> QED
      BY <1>1, <3>1, <3>2, LookUpType DEF HoldsItsDelivery, WithAttempt, AsksForReview
  <2> QED
    BY <1>1, <2>1, LookUpType, HandlersStay
<1>2. CASE Start(h) /\ (KnownDelivery(h) \/ LostAuthority(h))
  <2>1. handler'[h] # Idle => HoldsItsDelivery(handler[h])'
    <3> SUFFICES ASSUME handler'[h] # Idle PROVE HoldsItsDelivery(handler[h])'
      OBVIOUS
    <3> DEFINE d == handler[h].delivery
    <3>1. /\ HoldsItsDelivery(handler[h]) /\ handler[h].pc = "start" /\ d \in Deliveries
      BY <1>2, AtStep DEF Start, HandlerSteps
    <3>2. UNCHANGED <<sent, startedBy, attemptKey, snapshot, checks>>
      BY <1>2, KnownStartType DEF github, store, attempts
    <3>3. /\ sent[d].kind # "retry" /\ handler'[h].delivery = d
          /\ handler'[h].key = handler[h].key /\ handler'[h].pc = "record"
          /\ handler'[h].attempt = startedBy[d] /\ startedBy[d] # None
      BY <1>2, KnownStartType
    <3>4. SameCommits(attemptKey[startedBy[d]], sent[d])
      BY <3>1, <3>3 DEF StoreInv, Starters
    <3> HIDE DEF d
    <3> QED
      BY <3>1, <3>2, <3>3, <3>4 DEF HoldsItsDelivery, WithAttempt, AsksForReview, SameCommits, d
  <2> QED
    BY <1>2, <2>1, KnownStartType, HandlersStay
<1>3. CASE Start(h) /\ ~KnownDelivery(h) /\ ~LostAuthority(h)
  <2> DEFINE d == handler[h].delivery
             a == Len(attemptKey) + 1
  <2>1. /\ HoldsItsDelivery(handler[h]) /\ handler[h].pc = "start"
        /\ d \in Deliveries /\ d \in DOMAIN sent
        /\ a # None /\ handler[h].key \in Keys
        /\ attemptKey' = Append(attemptKey, handler[h].key)
        /\ startedBy' = [startedBy EXCEPT ![d] = a]
        /\ handler'[h].delivery = d
        /\ handler'[h].key = handler[h].key /\ handler'[h].attempt = a
        /\ handler'[h].pc = IF sent[d].kind = "retry" THEN "snapshot" ELSE "record"
        /\ HandlersStep(h)
    BY <1>3, NewAttemptType
  <2>2. UNCHANGED <<sent, snapshot, checks>>
    BY <1>3, NewAttemptType DEF github, attempts
  <2>3. startedBy'[d] = a /\ attemptKey'[a] = handler[h].key
    <3>1. attemptKey \in Seq(Keys) /\ startedBy \in [Deliveries -> Attempts \cup {None}]
      BY DEF TriggerTypeOK
    <3>2. Append(attemptKey, handler[h].key)[Len(attemptKey) + 1] = handler[h].key
      BY <2>1, <3>1
    <3> QED
      BY <2>1, <3>1, <3>2
  <2>4. HoldsItsDelivery(handler[h])'
    <3> HIDE DEF a, d
    <3> QED
      BY <2>1, <2>2, <2>3 DEF HoldsItsDelivery, WithAttempt, AsksForReview, SameCommits, d
  <2> QED
    BY <2>1, <2>4, HandlersStay
<1>4. CASE ReadDigest(h) \/ InsertDigest(h) \/ CheckExisting(h)
  <2>1. handler'[h] # Idle => HoldsItsDelivery(handler[h])'
    <3>1. UNCHANGED <<sent, startedBy, attemptKey, snapshot, checks>>
      BY <1>4, RecordType DEF github, attempts
    <3> QED
      BY <1>4, <3>1, RecordType DEF HoldsItsDelivery, WithAttempt, AsksForReview, SameCommits
  <2> QED
    BY <1>4, <2>1, RecordType, HandlersStay
<1>5. CASE SaveSnapshot(h)
  <2>1. handler'[h] # Idle => HoldsItsDelivery(handler[h])'
    <3> SUFFICES ASSUME handler'[h] # Idle PROVE HoldsItsDelivery(handler[h])'
      OBVIOUS
    <3> DEFINE a == handler[h].attempt
               new == [key |-> handler[h].key, frozen |-> policy]
    <3>1. /\ HoldsItsDelivery(handler[h]) /\ handler[h].pc = "snapshot" /\ a \in Attempts
          /\ handler'[h].delivery = handler[h].delivery
          /\ handler'[h].key = handler[h].key /\ handler'[h].attempt = a
          /\ handler'[h].pc = "create"
          /\ snapshot' = [snapshot EXCEPT ![a] = new] /\ new \in Snapshots
      BY <1>5, SaveSnapshotType
    <3>2. UNCHANGED <<sent, startedBy, attemptKey, checks>>
      BY <1>5, SaveSnapshotType DEF github, store
    <3>3. snapshot'[a] # NoSnapshot
      BY <3>1, NoneIsNoValue DEF TriggerTypeOK
    <3> QED
      BY <3>1, <3>2, <3>3 DEF HoldsItsDelivery, WithAttempt, AsksForReview, SameCommits
  <2> QED
    BY <1>5, <2>1, SaveSnapshotType, HandlersStay
<1>6. CASE CreateCheck(h)
  <2>1. HoldsItsDelivery(handler[h])'
    <3> DEFINE a == handler[h].attempt
    <3>1. /\ HoldsItsDelivery(handler[h]) /\ handler[h].pc = "create" /\ a \in Attempts
          /\ handler'[h].delivery = handler[h].delivery
          /\ handler'[h].key = handler[h].key /\ handler'[h].attempt = a
          /\ handler'[h].pc = "set" /\ handler'[h].created = checks[a] + 1
          /\ checks' = [checks EXCEPT ![a] = checks[a] + 1]
      BY <1>6, CreateCheckType
    <3>2. UNCHANGED <<sent, startedBy, attemptKey, snapshot>>
      BY <1>6, CreateCheckType DEF github, store
    <3>3. checks[a] \in Nat /\ checks'[a] = checks[a] + 1
      BY <3>1 DEF TriggerTypeOK
    <3> QED
      BY <3>1, <3>2, <3>3 DEF HoldsItsDelivery, WithAttempt, AsksForReview, SameCommits
  <2> QED
    BY <1>6, <2>1, CreateCheckType, HandlersStay
<1>7. CASE SetCheckRun(h)
  BY <1>7, SetCheckRunType, HandlersStay
<1> QED
  BY <1>1, <1>2, <1>3, <1>4, <1>5, <1>6, <1>7 DEF Step

-----------------------------------------------------------------------------
(* The store.                                                              *)

LEMMA UntouchedStore ==
  ASSUME StoreInv, UNCHANGED <<sent, startedBy, attemptKey, snapshot, checkRun, checks>>
  PROVE  StoreInv'
<1>1. Starters' = Starters /\ Started' = Started
  BY DEF Starters, Started
<1>2. OneAttemptPerDelivery'
  BY <1>1 DEF StoreInv, OneAttemptPerDelivery
<1> QED
  BY <1>1, <1>2 DEF StoreInv, SameCommits, AsksForReview

LEMMA SendStore ==
  ASSUME TriggerTypeOK, StoreInv, NEW kind, NEW new, Send(kind, new)
  PROVE  StoreInv'
<1>1. \A d \in DOMAIN sent : d \in DOMAIN sent' /\ sent'[d] = sent[d]
  BY SendGrows DEF OnlyGrows
<1>2. UNCHANGED <<startedBy, attemptKey, snapshot, checkRun, checks>>
  BY DEF Send, store, attempts
<1>3. Starters' = Starters /\ Started' = Started
  BY <1>2 DEF Starters, Started
<1>4. OneAttemptPerDelivery'
  BY <1>2, <1>3 DEF StoreInv, OneAttemptPerDelivery
<1> QED
  BY <1>1, <1>2, <1>3, <1>4 DEF StoreInv, SameCommits, AsksForReview

LEMMA NewAttemptStore ==
  ASSUME TriggerTypeOK, StoreInv, HandlersInv, NEW h \in Handlers, Start(h),
         ~KnownDelivery(h), ~LostAuthority(h)
  PROVE  StoreInv'
<1> DEFINE d == handler[h].delivery
           a == Len(attemptKey) + 1
           k == handler[h].key
<1>1. /\ d \in Deliveries /\ d \in DOMAIN sent /\ startedBy[d] = None
      /\ a \in Attempts /\ a # None /\ a \notin Started /\ k \in Keys
      /\ attemptKey' = Append(attemptKey, k)
      /\ startedBy' = [startedBy EXCEPT ![d] = a]
      /\ HoldsItsDelivery(handler[h])
  BY NewAttemptType
<1>2. UNCHANGED <<sent, snapshot, checkRun, checks>>
  BY NewAttemptType DEF github, attempts
<1>3. sent[d].kind # "retry" => AsksForReview(sent[d]) /\ SameCommits(k, sent[d])
  BY <1>1 DEF HoldsItsDelivery
<1> HIDE DEF d, k
<1>4. /\ Len(attemptKey) \in Nat /\ Len(attemptKey') = a
      /\ attemptKey'[a] = k /\ \A x \in Started : attemptKey'[x] = attemptKey[x]
      /\ Started' = Started \cup {a}
  <2>1. attemptKey \in Seq(Keys) /\ Len(attemptKey) \in Nat
    BY DEF TriggerTypeOK
  <2>2. /\ Len(Append(attemptKey, k)) = Len(attemptKey) + 1
        /\ Append(attemptKey, k)[Len(attemptKey) + 1] = k
        /\ \A x \in 1..Len(attemptKey) : Append(attemptKey, k)[x] = attemptKey[x]
    BY <1>1, <2>1
  <2>3. 1..(Len(attemptKey) + 1) = 1..Len(attemptKey) \cup {Len(attemptKey) + 1}
    BY <2>1
  <2> QED
    BY <1>1, <2>1, <2>2, <2>3 DEF Started
<1> HIDE DEF a
<1>5. startedBy'[d] = a /\ \A e \in Deliveries \ {d} : startedBy'[e] = startedBy[e]
  BY <1>1 DEF TriggerTypeOK
<1>6. Starters' = Starters \cup {d} /\ d \notin Starters /\ Starters \subseteq Deliveries
  BY <1>1, <1>5 DEF Starters
<1>7. \A e \in Starters : e \in Deliveries \ {d} /\ startedBy'[e] = startedBy[e] /\ startedBy[e] \in Started
  BY <1>5, <1>6 DEF StoreInv
<1>8. Cardinality(Starters') = Len(attemptKey')
  <2>1. IsFiniteSet(Starters)
    <3>1. IsFiniteSet(Deliveries)
      BY FS_Interval, TriggerAssumption DEF Deliveries
    <3> QED
      BY <1>6, <3>1, FS_Subset
  <2>2. Cardinality(Starters \cup {d}) = Cardinality(Starters) + 1
    BY <1>6, <2>1, FS_AddElement
  <2> QED
    BY <1>4, <1>6, <2>2 DEF StoreInv, a
<1>9. \A e \in Starters' : e \in DOMAIN sent' /\ startedBy'[e] \in Started'
  BY <1>1, <1>2, <1>4, <1>5, <1>6, <1>7 DEF StoreInv
<1>10. \A e, f \in Starters' : startedBy'[e] = startedBy'[f] => e = f
  BY <1>1, <1>5, <1>6, <1>7 DEF StoreInv
<1>11. OneAttemptPerDelivery'
  <2> SUFFICES ASSUME NEW x \in Started' PROVE \E e \in Deliveries : startedBy'[e] = x
    BY DEF OneAttemptPerDelivery
  <2>1. CASE x = a
    BY <1>1, <1>5, <2>1
  <2>2. CASE x \in Started
    <3>1. PICK e \in Deliveries : startedBy[e] = x
      BY <2>2 DEF StoreInv, OneAttemptPerDelivery
    <3>2. x # None
      BY <2>2, <1>4 DEF Started, None
    <3> QED
      BY <1>1, <1>5, <3>1, <3>2
  <2> QED
    BY <1>4, <2>1, <2>2
<1>12. \A e \in Starters' : sent'[e].kind # "retry" =>
         AsksForReview(sent'[e]) /\ SameCommits(attemptKey'[startedBy'[e]], sent'[e])
  BY <1>2, <1>3, <1>4, <1>5, <1>6, <1>7 DEF StoreInv
<1>13. \A x \in Attempts \ Started' :
         snapshot'[x] = NoSnapshot /\ checkRun'[x] = None /\ checks'[x] = 0
  BY <1>2, <1>4 DEF StoreInv
<1>14. \A x \in Started' : snapshot'[x] # NoSnapshot => SameCommits(snapshot'[x].key, attemptKey'[x])
  BY <1>1, <1>2, <1>4 DEF StoreInv
<1>15. /\ \A x \in Attempts : checkRun'[x] # None => snapshot'[x] # NoSnapshot
       /\ \A x \in Attempts : checkRun'[x] <= checks'[x]
  BY <1>2 DEF StoreInv
<1> QED
  BY <1>8, <1>9, <1>10, <1>11, <1>12, <1>13, <1>14, <1>15
  DEF StoreInv, AsksForReview, SameCommits

\* An Attempt that a handler prepares is one that was started.
LEMMA HeldAttempt ==
  ASSUME TriggerTypeOK, StoreInv, NEW w \in Busy, HoldsItsDelivery(w), w.pc \in WithAttempt
  PROVE  /\ w.attempt \in Started /\ w.attempt \in Attempts
         /\ w.delivery \in Starters /\ startedBy[w.delivery] = w.attempt
BY NoneIsNoValue DEF HoldsItsDelivery, StoreInv, Starters, Busy

LEMMA SaveSnapshotStore ==
  ASSUME TriggerTypeOK, StoreInv, HandlersInv, NEW h \in Handlers, SaveSnapshot(h)
  PROVE  StoreInv'
<1> DEFINE a == handler[h].attempt
           new == [key |-> handler[h].key, frozen |-> policy]
<1>1. /\ handler[h] \in Busy /\ HoldsItsDelivery(handler[h]) /\ handler[h].pc \in WithAttempt
      /\ UNCHANGED <<sent, startedBy, attemptKey, checkRun, checks>>
  BY SaveSnapshotType DEF github, store, WithAttempt
<1>2. CASE UNCHANGED snapshot
  BY <1>1, <1>2, UntouchedStore
<1>3. CASE /\ snapshot' = [snapshot EXCEPT ![a] = new] /\ new \in Snapshots
  <2>1. a \in Started /\ a \in Attempts /\ SameCommits(handler[h].key, attemptKey[a])
    BY <1>1, HeldAttempt DEF HoldsItsDelivery
  <2>2. snapshot'[a] = new /\ new # NoSnapshot /\ \A x \in Attempts \ {a} : snapshot'[x] = snapshot[x]
    BY <1>3, <2>1, NoneIsNoValue DEF TriggerTypeOK
  <2>3. new.key = handler[h].key
    OBVIOUS
  <2> HIDE DEF a, new
  <2>4. Starters' = Starters /\ Started' = Started
    BY <1>1 DEF Starters, Started
  <2>5. OneAttemptPerDelivery'
    BY <1>1, <2>4 DEF StoreInv, OneAttemptPerDelivery
  <2>6. \A x \in Attempts \ Started' :
          snapshot'[x] = NoSnapshot /\ checkRun'[x] = None /\ checks'[x] = 0
    BY <1>1, <2>1, <2>2, <2>4 DEF StoreInv
  <2>7. \A x \in Attempts : checkRun'[x] # None => snapshot'[x] # NoSnapshot
    BY <1>1, <2>2 DEF StoreInv
  <2>8. \A x \in Started' : snapshot'[x] # NoSnapshot => SameCommits(snapshot'[x].key, attemptKey'[x])
    <3>1. Started \subseteq Attempts
      BY TriggerAssumption DEF TriggerTypeOK, Started, Attempts
    <3> QED
      BY <1>1, <2>1, <2>2, <2>3, <2>4, <3>1 DEF StoreInv
  <2> QED
    BY <1>1, <2>4, <2>5, <2>6, <2>7, <2>8 DEF StoreInv, SameCommits, AsksForReview
<1> QED
  BY <1>2, <1>3, SaveSnapshotType

LEMMA CheckStore ==
  ASSUME TriggerTypeOK, StoreInv, HandlersInv, NEW h \in Handlers,
         CreateCheck(h) \/ SetCheckRun(h)
  PROVE  StoreInv'
<1> DEFINE a == handler[h].attempt
<1>1. /\ handler[h] \in Busy /\ HoldsItsDelivery(handler[h]) /\ handler[h].pc \in {"create", "set"}
      /\ UNCHANGED <<sent, startedBy, attemptKey, snapshot>>
  BY CreateCheckType, SetCheckRunType DEF github, store
<1>2. a \in Started /\ a \in Attempts /\ snapshot[a] # NoSnapshot
  BY <1>1, HeldAttempt DEF HoldsItsDelivery, WithAttempt
<1>3. \A x \in Attempts : checks[x] \in Nat /\ checkRun[x] \in Nat
  BY DEF TriggerTypeOK
<1> DEFINE Changes ==
             /\ \A x \in Attempts \ {a} : checks'[x] = checks[x] /\ checkRun'[x] = checkRun[x]
             /\ checkRun'[a] <= checks'[a]
<1>4. ASSUME CreateCheck(h) PROVE Changes
  <2>1. checks' = [checks EXCEPT ![a] = checks[a] + 1] /\ UNCHANGED checkRun
    BY <1>4, CreateCheckType
  <2>2. /\ \A x \in Attempts \ {a} : checks'[x] = checks[x] /\ checkRun'[x] = checkRun[x]
        /\ checks'[a] = checks[a] + 1 /\ checkRun'[a] = checkRun[a]
    BY <1>2, <2>1 DEF TriggerTypeOK
  <2> HIDE DEF a
  <2> QED
    BY <1>2, <1>3, <2>2 DEF StoreInv
<1>5. ASSUME SetCheckRun(h) PROVE Changes
  <2> DEFINE c == handler[h].created
  <2>1. /\ checkRun' = IF checkRun[a] = None THEN [checkRun EXCEPT ![a] = c] ELSE checkRun
        /\ UNCHANGED checks /\ c <= checks[a] /\ c # 0
    BY <1>5, SetCheckRunType DEF HoldsItsDelivery
  <2> HIDE DEF a, c
  <2>2. /\ \A x \in Attempts \ {a} : checkRun'[x] = checkRun[x]
        /\ checkRun'[a] \in {c, checkRun[a]}
    BY <1>2, <2>1 DEF TriggerTypeOK
  <2> QED
    BY <1>2, <1>3, <2>1, <2>2 DEF StoreInv
<1>6. Changes
  BY <1>4, <1>5
<1> HIDE DEF a
<1>7. Starters' = Starters /\ Started' = Started
  BY <1>1 DEF Starters, Started
<1>8. OneAttemptPerDelivery'
  BY <1>1, <1>7 DEF StoreInv, OneAttemptPerDelivery
<1>9. \A x \in Attempts \ Started' :
        snapshot'[x] = NoSnapshot /\ checkRun'[x] = None /\ checks'[x] = 0
  BY <1>1, <1>2, <1>6, <1>7 DEF StoreInv
<1>10. \A x \in Attempts : checkRun'[x] # None => snapshot'[x] # NoSnapshot
  BY <1>1, <1>2, <1>6 DEF StoreInv
<1>11. \A x \in Attempts : checkRun'[x] <= checks'[x]
  BY <1>6 DEF StoreInv
<1> QED
  BY <1>1, <1>7, <1>8, <1>9, <1>10, <1>11 DEF StoreInv, SameCommits, AsksForReview

-----------------------------------------------------------------------------
(* The count of Checks and of those that may create one.                   *)

LEMMA PendingFinite ==
  ASSUME NEW d
  PROVE  IsFiniteSet(Pending(d)) /\ Cardinality(Pending(d)) \in Nat
<1>1. IsFiniteSet(Handlers)
  BY FS_Interval, TriggerAssumption DEF Handlers
<1>2. Pending(d) \subseteq Handlers
  BY DEF Pending
<1> QED
  BY <1>1, <1>2, FS_Subset, FS_CardinalityType

LEMMA PendingFiniteNext ==
  ASSUME NEW d
  PROVE  IsFiniteSet(Pending(d)') /\ Cardinality(Pending(d)') \in Nat
<1>1. IsFiniteSet(Handlers)
  BY FS_Interval, TriggerAssumption DEF Handlers
<1>2. Pending(d)' \subseteq Handlers
  BY DEF Pending
<1> QED
  BY <1>1, <1>2, FS_Subset, FS_CardinalityType

LEMMA SentTypes ==
  ASSUME TriggerTypeOK
  PROVE  /\ DOMAIN sent \subseteq Deliveries
         /\ \A d \in Deliveries : ChecksOf(d) \in Nat /\ receipts[d] \in Nat
<1>1. DOMAIN sent \subseteq Deliveries
  BY TriggerAssumption DEF TriggerTypeOK, Deliveries
<1>2. \A d \in Deliveries : ChecksOf(d) \in Nat /\ receipts[d] \in Nat
  BY DEF TriggerTypeOK, ChecksOf, None
<1> QED
  BY <1>1, <1>2

LEMMA SentTypesNext ==
  ASSUME TriggerTypeOK'
  PROVE  DOMAIN sent' \subseteq Deliveries
BY TriggerAssumption DEF TriggerTypeOK, Deliveries

\* A step after which no more handlers may create a Check, with no more Checks
\* and no fewer receipts.
LEMMA CountsNoMore ==
  ASSUME TriggerTypeOK, TriggerTypeOK', NEW d \in Deliveries,
         Cardinality(Pending(d)) + ChecksOf(d) <= receipts[d],
         Pending(d)' \subseteq Pending(d), ChecksOf(d)' = ChecksOf(d), receipts[d] <= receipts'[d]
  PROVE  Cardinality(Pending(d)') + ChecksOf(d)' <= receipts'[d]
<1>1. Cardinality(Pending(d)') <= Cardinality(Pending(d))
  BY PendingFinite, FS_Subset
<1>2. ChecksOf(d) \in Nat /\ receipts[d] \in Nat /\ receipts'[d] \in Nat
  BY SentTypes DEF TriggerTypeOK
<1> QED
  BY <1>1, <1>2, PendingFinite, PendingFiniteNext

\* A handler of a retry that goes on with its Attempt went on before.
LEMMA MoveCounts ==
  ASSUME TriggerTypeOK, TriggerTypeOK', HandlersInv, CountInv, NEW h \in Handlers,
         HandlersStep(h), UNCHANGED <<sent, receipts>>,
         \A d \in DOMAIN sent : ChecksOf(d)' = ChecksOf(d),
         handler'[h] # Idle =>
           /\ handler[h] # Idle /\ handler'[h].delivery = handler[h].delivery
           /\ ~IsRetry(h) /\ handler'[h].pc \in BeforeCheck => handler[h].pc \in BeforeCheck
           /\ IsRetry(h) /\ handler'[h].pc \in WithAttempt =>
                /\ handler[h].pc \in WithAttempt
                /\ handler[h].pc = "set" => handler'[h].pc = "set"
  PROVE  CountInv'
<1>1. ASSUME NEW d \in DOMAIN sent, sent[d].kind # "retry"
      PROVE  Cardinality(Pending(d)') + ChecksOf(d)' <= receipts'[d]
  <2>1. Pending(d)' \subseteq Pending(d)
    BY <1>1 DEF Pending, HandlersStep, IsRetry, Event
  <2>2. d \in Deliveries /\ receipts[d] <= receipts'[d]
    BY SentTypes DEF TriggerTypeOK
  <2>3. Cardinality(Pending(d)) + ChecksOf(d) <= receipts[d]
    BY <1>1 DEF CountInv
  <2> QED
    BY <2>1, <2>2, <2>3, CountsNoMore
<1>2. \A d \in DOMAIN sent : sent[d].kind = "retry" => ChecksOf(d)' <= 1
  BY DEF CountInv
<1>3. ASSUME NEW g \in Handlers, RetryGoesOn(g)'
      PROVE  /\ RetryGoesOn(g) /\ handler'[g].delivery = handler[g].delivery
             /\ handler[g].pc = "set" => handler'[g].pc = "set"
             /\ handler[g].delivery \in DOMAIN sent
  <2>1. /\ RetryGoesOn(g) /\ handler'[g].delivery = handler[g].delivery
        /\ handler[g].pc = "set" => handler'[g].pc = "set"
    BY <1>3 DEF RetryGoesOn, IsRetry, Event, HandlersStep
  <2>2. handler[g].delivery \in DOMAIN sent
    BY <2>1 DEF RetryGoesOn, HandlersInv, HoldsItsDelivery
  <2> QED
    BY <2>1, <2>2
<1>4. \A f, g \in Handlers :
        RetryGoesOn(f)' /\ RetryGoesOn(g)' /\ handler'[f].delivery = handler'[g].delivery => f = g
  BY <1>3 DEF CountInv
<1>5. ASSUME NEW g \in Handlers, RetryGoesOn(g)', handler'[g].pc # "set"
      PROVE  ChecksOf(handler[g].delivery)' = 0
  <2>1. /\ handler[g].delivery \in DOMAIN sent /\ handler'[g].delivery = handler[g].delivery
        /\ ChecksOf(handler[g].delivery) = 0
    BY <1>3, <1>5 DEF CountInv
  <2>2. \A d \in DOMAIN sent : d = handler'[g].delivery =>
          ChecksOf(d)' = ChecksOf(handler[g].delivery)'
    BY DEF ChecksOf
  <2>3. \A d \in DOMAIN sent : d = handler[g].delivery => ChecksOf(d) = 0
    BY <2>1
  <2> QED
    BY <2>1, <2>2, <2>3
<1> QED
  BY <1>1, <1>2, <1>4, <1>5 DEF CountInv

\* The handlers rest: nothing may be created that might not before.
LEMMA RestCounts ==
  ASSUME TriggerTypeOK, TriggerTypeOK', HandlersInv, CountInv, UNCHANGED handler,
         \A d \in DOMAIN sent : d \in DOMAIN sent' /\ sent'[d] = sent[d],
         \A d \in DOMAIN sent' \ DOMAIN sent : ChecksOf(d) = 0,
         \A d \in Deliveries : ChecksOf(d)' = ChecksOf(d) /\ receipts[d] <= receipts'[d]
  PROVE  CountInv'
<1>1. ASSUME NEW d \in DOMAIN sent', sent'[d].kind # "retry"
      PROVE  Cardinality(Pending(d)') + ChecksOf(d)' <= receipts'[d]
  <2>1. Pending(d)' = Pending(d)
    BY DEF Pending
  <2>2. d \in Deliveries
    BY SentTypesNext
  <2>3. CASE d \in DOMAIN sent
    BY <1>1, <2>1, <2>2, <2>3, CountsNoMore DEF CountInv
  <2>4. CASE d \notin DOMAIN sent
    <3>1. Pending(d) = {}
      BY <2>4 DEF Pending, HandlersInv, HoldsItsDelivery
    <3> QED
      BY <2>1, <2>2, <2>4, <3>1, FS_EmptySet DEF TriggerTypeOK
  <2> QED
    BY <2>3, <2>4
<1>2. ASSUME NEW d \in DOMAIN sent', sent'[d].kind = "retry" PROVE ChecksOf(d)' <= 1
  <2>1. d \in Deliveries
    BY SentTypesNext
  <2> QED
    BY <1>2, <2>1 DEF CountInv
<1>3. ASSUME NEW g \in Handlers, RetryGoesOn(g)'
      PROVE  RetryGoesOn(g) /\ handler[g].delivery \in DOMAIN sent
  <2>1. handler[g] # Idle /\ handler[g].delivery \in DOMAIN sent
    BY <1>3 DEF RetryGoesOn, HandlersInv, HoldsItsDelivery
  <2> QED
    BY <1>3, <2>1 DEF RetryGoesOn, IsRetry, Event
<1>4. \A f, g \in Handlers :
        RetryGoesOn(f)' /\ RetryGoesOn(g)' /\ handler'[f].delivery = handler'[g].delivery => f = g
  BY <1>3 DEF CountInv
<1>5. ASSUME NEW g \in Handlers, RetryGoesOn(g)', handler'[g].pc # "set"
      PROVE  ChecksOf(handler[g].delivery)' = 0
  <2>1. handler[g].delivery \in Deliveries /\ ChecksOf(handler[g].delivery) = 0
    BY <1>3, <1>5, SentTypes DEF CountInv
  <2>2. \A d \in Deliveries : d = handler'[g].delivery =>
          ChecksOf(d)' = ChecksOf(handler[g].delivery)'
    BY DEF ChecksOf
  <2>3. \A d \in Deliveries : d = handler[g].delivery => ChecksOf(d) = 0
    BY <2>1
  <2> QED
    BY <2>1, <2>2, <2>3
<1> QED
  BY <1>1, <1>2, <1>4, <1>5 DEF CountInv

LEMMA SendCounts ==
  ASSUME TriggerTypeOK, TriggerTypeOK', StoreInv, HandlersInv, CountInv,
         NEW kind, NEW new, Send(kind, new)
  PROVE  CountInv'
<1>1. \A d \in DOMAIN sent : d \in DOMAIN sent' /\ sent'[d] = sent[d]
  BY SendGrows DEF OnlyGrows
<1>2. UNCHANGED <<handler, startedBy, checks, receipts>>
  BY DEF Send, store, attempts, web
<1>3. \A d \in DOMAIN sent' \ DOMAIN sent : ChecksOf(d) = 0
  BY SentTypesNext DEF StoreInv, Starters, ChecksOf
<1>4. \A d \in Deliveries : ChecksOf(d)' = ChecksOf(d) /\ receipts[d] <= receipts'[d]
  BY <1>2, SentTypes DEF ChecksOf
<1> QED
  BY <1>1, <1>2, <1>3, <1>4, RestCounts

LEMMA UntouchedCounts ==
  ASSUME TriggerTypeOK, TriggerTypeOK', HandlersInv, CountInv,
         UNCHANGED <<sent, handler, startedBy, checks, receipts>>
  PROVE  CountInv'
<1>1. \A d \in Deliveries : ChecksOf(d)' = ChecksOf(d) /\ receipts[d] <= receipts'[d]
  BY SentTypes DEF ChecksOf
<1> QED
  BY <1>1, RestCounts

\* A receipt pays for the handler that takes the delivery.
LEMMA ReceiveCounts ==
  ASSUME TriggerTypeOK, TriggerTypeOK', HandlersInv, CountInv,
         NEW h \in Handlers, NEW d \in Deliveries, Receive(h, d)
  PROVE  CountInv'
<1>1. /\ UNCHANGED <<sent, startedBy, checks>> /\ receipts' = [receipts EXCEPT ![d] = @ + 1]
      /\ handler[h].pc = "idle" /\ d \in DOMAIN sent /\ sent[d] \in Events
  BY ReceiveCases DEF github, attempts
<1>2. /\ receipts'[d] = receipts[d] + 1
      /\ \A e \in Deliveries : receipts[e] <= receipts'[e]
      /\ \A e \in Deliveries : ChecksOf(e)' = ChecksOf(e)
  <2>1. \A e \in Deliveries : receipts[e] \in Nat
    BY SentTypes
  <2>2. \A e \in Deliveries : receipts'[e] = IF e = d THEN receipts[e] + 1 ELSE receipts[e]
    BY <1>1 DEF TriggerTypeOK
  <2>3. \A e \in Deliveries : ChecksOf(e)' = ChecksOf(e)
    BY <1>1 DEF ChecksOf
  <2> QED
    BY <2>1, <2>2, <2>3
<1>3. CASE UNCHANGED handler
  BY <1>1, <1>2, <1>3, RestCounts
<1>4. CASE ~UNCHANGED handler
  <2>1. /\ HandlersStep(h) /\ handler'[h].delivery = d
        /\ handler'[h].pc = IF sent[d].kind = "retry" THEN "authorize" ELSE "start"
    <3>1. PayloadKey(sent[d]) \in Keys
      BY <1>1, PayloadKeyType DEF Events
    <3>2. CASE /\ sent[d].kind = "retry"
               /\ handler' = [handler EXCEPT ![h] =
                    [pc |-> "authorize", delivery |-> d, key |-> NoSnapshot,
                     attempt |-> None, prior |-> None, replayed |-> FALSE, created |-> 0]]
      BY <3>2, HandlerTakes DEF HandlersStep
    <3>3. CASE /\ AsksForReview(sent[d])
               /\ handler' = [handler EXCEPT ![h] =
                    [pc |-> "start", delivery |-> d, key |-> PayloadKey(sent[d]),
                     attempt |-> None, prior |-> None, replayed |-> FALSE, created |-> 0]]
      BY <3>1, <3>3, HandlerTakes DEF HandlersStep, AsksForReview
    <3> QED
      BY <1>4, <3>2, <3>3, ReceiveCases
  <2>2. ASSUME NEW e \in DOMAIN sent, sent[e].kind # "retry"
        PROVE  Cardinality(Pending(e)') + ChecksOf(e)' <= receipts'[e]
    <3>1. e \in Deliveries /\ Cardinality(Pending(e)) + ChecksOf(e) <= receipts[e]
      BY <2>2, SentTypes DEF CountInv
    <3>2. CASE e # d
      <4>1. Pending(e)' \subseteq Pending(e)
        BY <2>1, <3>2 DEF Pending, HandlersStep
      <4> QED
        BY <1>2, <3>1, <4>1, CountsNoMore
    <3>3. CASE e = d
      <4>1. Pending(d)' \subseteq Pending(d) \cup {h}
        BY <2>1 DEF Pending, HandlersStep
      <4>2. /\ IsFiniteSet(Pending(d) \cup {h})
            /\ Cardinality(Pending(d) \cup {h}) \in Nat
            /\ Cardinality(Pending(d) \cup {h}) <= Cardinality(Pending(d)) + 1
        <5>1. IsFiniteSet(Pending(d)) /\ Cardinality(Pending(d)) \in Nat
          BY PendingFinite
        <5>2. /\ IsFiniteSet(Pending(d) \cup {h})
              /\ Cardinality(Pending(d) \cup {h}) =
                   IF h \in Pending(d) THEN Cardinality(Pending(d)) ELSE Cardinality(Pending(d)) + 1
          BY <5>1, FS_AddElement
        <5> QED
          BY <5>1, <5>2
      <4>3. Cardinality(Pending(d)') <= Cardinality(Pending(d) \cup {h})
        BY <4>1, <4>2, FS_Subset
      <4> QED
        BY <1>2, <3>1, <3>3, <4>2, <4>3, PendingFinite, PendingFiniteNext, SentTypes
    <3> QED
      BY <3>2, <3>3
  <2>3. ASSUME NEW g \in Handlers, RetryGoesOn(g)'
        PROVE  /\ RetryGoesOn(g) /\ handler'[g] = handler[g] /\ handler[g].delivery \in Deliveries
    <3>1. g # h
      BY <2>1, <2>3 DEF RetryGoesOn, WithAttempt
    <3>2. handler'[g] = handler[g] /\ RetryGoesOn(g)
      BY <1>1, <2>1, <2>3, <3>1 DEF RetryGoesOn, HandlersStep, IsRetry, Event
    <3> QED
      BY <3>2, SentTypes DEF RetryGoesOn, HandlersInv, HoldsItsDelivery
  <2>4. \A f, g \in Handlers :
          RetryGoesOn(f)' /\ RetryGoesOn(g)' /\ handler'[f].delivery = handler'[g].delivery => f = g
    BY <2>3 DEF CountInv
  <2>5. ASSUME NEW g \in Handlers, RetryGoesOn(g)', handler'[g].pc # "set"
        PROVE  ChecksOf(handler[g].delivery)' = 0
    <3>1. handler'[g] = handler[g] /\ handler[g].delivery \in Deliveries
          /\ ChecksOf(handler[g].delivery) = 0
      BY <2>3, <2>5 DEF CountInv
    <3> QED
      BY <3>1, <1>1 DEF ChecksOf
  <2>6. \A e \in DOMAIN sent' : sent'[e].kind = "retry" => ChecksOf(e)' <= 1
    BY <1>1, <1>2, SentTypes DEF CountInv
  <2> QED
    BY <1>1, <2>2, <2>4, <2>5, <2>6 DEF CountInv
<1> QED
  BY <1>3, <1>4

\* A new Attempt has no Check, and of a retry only the handler that started it
\* goes on.
LEMMA NewAttemptCounts ==
  ASSUME TriggerTypeOK, TriggerTypeOK', StoreInv, HandlersInv, CountInv,
         NEW h \in Handlers, Start(h), ~KnownDelivery(h), ~LostAuthority(h)
  PROVE  CountInv'
<1> DEFINE d == handler[h].delivery
           a == Len(attemptKey) + 1
<1>1. /\ d \in Deliveries /\ d \in DOMAIN sent /\ startedBy[d] = None
      /\ a \in Attempts /\ a # None /\ a \notin Started
      /\ startedBy' = [startedBy EXCEPT ![d] = a]
      /\ handler[h] \in Busy /\ handler[h].pc = "start" /\ handler[h] # Idle
      /\ handler'[h].delivery = d /\ HandlersStep(h)
      /\ handler'[h].pc = IF sent[d].kind = "retry" THEN "snapshot" ELSE "record"
  BY NewAttemptType, NoneIsNoValue
<1>2. UNCHANGED <<sent, checks, receipts>>
  BY NewAttemptType DEF github, attempts, web
<1>3. checks[a] = 0
  BY <1>1 DEF StoreInv
<1> HIDE DEF a
<1>4. \A e \in Deliveries : ChecksOf(e)' = ChecksOf(e)
  BY <1>1, <1>2, <1>3 DEF TriggerTypeOK, ChecksOf
<1>5. ChecksOf(d)' = 0
  BY <1>1, <1>4 DEF ChecksOf
<1>6. ASSUME NEW e \in DOMAIN sent, sent[e].kind # "retry"
      PROVE  Cardinality(Pending(e)') + ChecksOf(e)' <= receipts'[e]
  <2>1. e \in Deliveries /\ receipts[e] <= receipts'[e]
    BY <1>2, SentTypes
  <2>2. Pending(e)' \subseteq Pending(e)
    BY <1>1 DEF Pending, HandlersStep, BeforeCheck
  <2> QED
    BY <1>4, <1>6, <2>1, <2>2, CountsNoMore DEF CountInv
<1>7. \A e \in DOMAIN sent' : sent'[e].kind = "retry" => ChecksOf(e)' <= 1
  BY <1>2, <1>4, SentTypes DEF CountInv
<1>8. ASSUME NEW g \in Handlers, RetryGoesOn(g)', g # h
      PROVE  /\ RetryGoesOn(g) /\ handler'[g] = handler[g] /\ handler[g].delivery \in Deliveries
             /\ handler[g].delivery # d
  <2>1. handler'[g] = handler[g] /\ RetryGoesOn(g)
    BY <1>1, <1>2, <1>8 DEF RetryGoesOn, HandlersStep, IsRetry, Event
  <2>2. HoldsItsDelivery(handler[g])
    BY <2>1 DEF RetryGoesOn, HandlersInv
  <2>3. handler[g].delivery \in Deliveries /\ startedBy[handler[g].delivery] # None
    BY <2>1, <2>2, SentTypes DEF HoldsItsDelivery, RetryGoesOn
  <2> QED
    BY <1>1, <2>1, <2>3
<1>9. \A f, g \in Handlers :
        RetryGoesOn(f)' /\ RetryGoesOn(g)' /\ handler'[f].delivery = handler'[g].delivery => f = g
  <2> SUFFICES ASSUME NEW f \in Handlers, NEW g \in Handlers, RetryGoesOn(f)', RetryGoesOn(g)',
                      handler'[f].delivery = handler'[g].delivery, f # g
               PROVE  FALSE
    OBVIOUS
  <2>1. CASE f = h
    BY <1>1, <1>8, <2>1
  <2>2. CASE g = h
    BY <1>1, <1>8, <2>2
  <2>3. CASE f # h /\ g # h
    BY <1>8, <2>3 DEF CountInv
  <2> QED
    BY <2>1, <2>2, <2>3
<1>10. ASSUME NEW g \in Handlers, RetryGoesOn(g)', handler'[g].pc # "set"
       PROVE  ChecksOf(handler[g].delivery)' = 0
  <2>1. CASE g = h
    BY <1>1, <1>5, <2>1 DEF ChecksOf
  <2>2. CASE g # h
    <3>1. /\ handler'[g] = handler[g] /\ handler[g].delivery \in Deliveries
          /\ ChecksOf(handler[g].delivery) = 0
      BY <1>8, <1>10, <2>2 DEF CountInv
    <3>2. \A e \in Deliveries : e = handler'[g].delivery =>
            ChecksOf(e)' = ChecksOf(handler[g].delivery)'
      BY DEF ChecksOf
    <3>3. \A e \in Deliveries : e = handler[g].delivery => ChecksOf(e) = 0
      BY <3>1
    <3> QED
      BY <3>1, <3>2, <3>3, <1>4
  <2> QED
    BY <2>1, <2>2
<1> QED
  BY <1>2, <1>6, <1>7, <1>9, <1>10 DEF CountInv

\* The handler that creates a Check may create no more.
LEMMA CreateCounts ==
  ASSUME TriggerTypeOK, TriggerTypeOK', StoreInv, HandlersInv, CountInv,
         NEW h \in Handlers, CreateCheck(h)
  PROVE  CountInv'
<1> DEFINE d == handler[h].delivery
           a == handler[h].attempt
<1>1. /\ handler[h] \in Busy /\ HoldsItsDelivery(handler[h]) /\ handler[h].pc = "create"
      /\ a \in Attempts /\ checks' = [checks EXCEPT ![a] = checks[a] + 1]
      /\ handler'[h].delivery = d /\ handler'[h].pc = "set" /\ HandlersStep(h)
      /\ handler[h] # Idle
  BY CreateCheckType, NoneIsNoValue
<1>2. UNCHANGED <<sent, startedBy, receipts>>
  BY CreateCheckType DEF github, store, web
<1>3. d \in Starters /\ startedBy[d] = a /\ d \in Deliveries /\ d \in DOMAIN sent
  BY <1>1, HeldAttempt DEF WithAttempt, Starters, HoldsItsDelivery
<1>4. \A e \in Deliveries : ChecksOf(e)' = IF e = d THEN ChecksOf(e) + 1 ELSE ChecksOf(e)
  <2> SUFFICES ASSUME NEW e \in Deliveries
               PROVE  ChecksOf(e)' = IF e = d THEN ChecksOf(e) + 1 ELSE ChecksOf(e)
    OBVIOUS
  <2>1. \A x \in Attempts : checks'[x] = IF x = a THEN checks[x] + 1 ELSE checks[x]
    BY <1>1 DEF TriggerTypeOK
  <2>2. CASE startedBy[e] = None
    BY <1>2, <1>3, <2>2 DEF ChecksOf, Starters
  <2>3. CASE startedBy[e] # None
    <3>1. startedBy[e] \in Attempts /\ (startedBy[e] = a <=> e = d)
      BY <1>3, <2>3 DEF TriggerTypeOK, StoreInv, Starters
    <3> HIDE DEF d, a
    <3> QED
      BY <1>2, <2>1, <2>3, <3>1 DEF ChecksOf
  <2> QED
    BY <2>2, <2>3
<1>5. ASSUME NEW e \in DOMAIN sent, sent[e].kind # "retry"
      PROVE  Cardinality(Pending(e)') + ChecksOf(e)' <= receipts'[e]
  <2>1. /\ e \in Deliveries /\ receipts[e] <= receipts'[e]
        /\ Cardinality(Pending(e)) + ChecksOf(e) <= receipts[e]
    BY <1>2, <1>5, SentTypes DEF CountInv
  <2>2. CASE e # d
    <3>1. Pending(e)' \subseteq Pending(e)
      BY <1>1, <2>2 DEF Pending, HandlersStep
    <3> QED
      BY <1>4, <2>1, <2>2, <3>1, CountsNoMore
  <2>3. CASE e = d
    <3>1. h \in Pending(e) /\ Pending(e)' \subseteq Pending(e) \ {h}
      BY <1>1, <2>3 DEF Pending, HandlersStep, BeforeCheck
    <3>2. /\ IsFiniteSet(Pending(e) \ {h})
          /\ Cardinality(Pending(e) \ {h}) = Cardinality(Pending(e)) - 1
      BY <3>1, PendingFinite, FS_RemoveElement
    <3>3. Cardinality(Pending(e)') <= Cardinality(Pending(e) \ {h})
      BY <3>1, <3>2, FS_Subset
    <3>4. /\ Cardinality(Pending(e)) \in Nat /\ Cardinality(Pending(e)') \in Nat
          /\ ChecksOf(e) \in Nat /\ receipts[e] \in Nat
      BY <2>1, PendingFinite, PendingFiniteNext, SentTypes
    <3>5. ChecksOf(e)' = ChecksOf(e) + 1 /\ receipts'[e] = receipts[e]
      BY <1>2, <1>4, <2>1, <2>3
    <3>6. Cardinality(Pending(e)) + ChecksOf(e) <= receipts[e]
      BY <2>1
    <3> QED
      BY <3>2, <3>3, <3>4, <3>5, <3>6
  <2> QED
    BY <2>2, <2>3
<1>6. RetryGoesOn(h) <=> sent[d].kind = "retry"
  BY <1>1 DEF RetryGoesOn, IsRetry, Event, WithAttempt
<1>7. ASSUME NEW e \in DOMAIN sent, sent[e].kind = "retry" PROVE ChecksOf(e)' <= 1
  <2>1. e \in Deliveries /\ ChecksOf(e) <= 1
    BY <1>7, SentTypes DEF CountInv
  <2>2. CASE e = d
    <3>1. ChecksOf(d) = 0
      BY <1>1, <1>6, <1>7, <2>2 DEF CountInv
    <3> QED
      BY <1>4, <2>1, <2>2, <3>1
  <2> QED
    BY <1>4, <2>1, <2>2
<1>8. ASSUME NEW g \in Handlers, RetryGoesOn(g)'
      PROVE  /\ RetryGoesOn(g) /\ handler'[g].delivery = handler[g].delivery
             /\ handler[g].delivery \in Deliveries
             /\ g # h => handler'[g] = handler[g]
  <2>1. /\ handler'[g].delivery = handler[g].delivery /\ RetryGoesOn(g)
        /\ g # h => handler'[g] = handler[g]
    BY <1>1, <1>2, <1>8 DEF RetryGoesOn, HandlersStep, IsRetry, Event, WithAttempt
  <2> QED
    BY <2>1, SentTypes DEF RetryGoesOn, HandlersInv, HoldsItsDelivery
<1>9. \A f, g \in Handlers :
        RetryGoesOn(f)' /\ RetryGoesOn(g)' /\ handler'[f].delivery = handler'[g].delivery => f = g
  BY <1>8 DEF CountInv
<1>10. ASSUME NEW g \in Handlers, RetryGoesOn(g)', handler'[g].pc # "set"
       PROVE  ChecksOf(handler[g].delivery)' = 0
  <2>1. /\ g # h /\ handler'[g] = handler[g] /\ handler[g].delivery \in Deliveries
        /\ RetryGoesOn(g)
    BY <1>1, <1>8, <1>10
  <2>2. ChecksOf(handler[g].delivery) = 0
    BY <1>10, <2>1 DEF CountInv
  <2>3. handler[g].delivery # d
    BY <1>1, <2>1 DEF CountInv, RetryGoesOn, IsRetry, Event, WithAttempt
  <2>4. \A e \in Deliveries : e = handler'[g].delivery =>
          ChecksOf(e)' = ChecksOf(handler[g].delivery)'
    BY DEF ChecksOf
  <2>5. \A e \in Deliveries : e = handler[g].delivery => ChecksOf(e) = 0
    BY <2>2
  <2> HIDE DEF d
  <2> QED
    BY <2>1, <2>3, <2>4, <2>5, <1>4
<1> QED
  BY <1>2, <1>5, <1>7, <1>9, <1>10 DEF CountInv

LEMMA StepCounts ==
  ASSUME TriggerTypeOK, TriggerTypeOK', StoreInv, HandlersInv, CountInv,
         NEW h \in Handlers, Step(h)
  PROVE  CountInv'
<1>1. CASE ReadState(h) \/ Resolve(h)
  <2>1. UNCHANGED <<sent, receipts, startedBy, checks>> /\ HandlersStep(h)
    BY <1>1, LookUpType DEF github, store, attempts, web
  <2>2. handler'[h] # Idle =>
           /\ handler[h] # Idle /\ handler'[h].delivery = handler[h].delivery
           /\ IsRetry(h) /\ handler'[h].pc \notin WithAttempt
    BY <1>1, LookUpType, NoneIsNoValue DEF IsRetry, Event, WithAttempt
  <2> QED
    BY <2>1, <2>2, MoveCounts DEF ChecksOf
<1>2. CASE Start(h) /\ (KnownDelivery(h) \/ LostAuthority(h))
  <2>1. UNCHANGED <<sent, receipts, startedBy, checks>> /\ HandlersStep(h)
    BY <1>2, KnownStartType DEF github, store, attempts
  <2>2. handler'[h] # Idle =>
           /\ handler[h] # Idle /\ handler'[h].delivery = handler[h].delivery
           /\ ~IsRetry(h) /\ handler[h].pc \in BeforeCheck
    <3>1. handler[h] # Idle /\ handler[h].pc = "start"
      BY <1>2, AtStep DEF Start, HandlerSteps
    <3> QED
      BY <1>2, <3>1, KnownStartType DEF IsRetry, Event, BeforeCheck
  <2> QED
    BY <2>1, <2>2, MoveCounts DEF ChecksOf
<1>3. CASE Start(h) /\ ~KnownDelivery(h) /\ ~LostAuthority(h)
  BY <1>3, NewAttemptCounts
<1>4. CASE ReadDigest(h) \/ InsertDigest(h) \/ CheckExisting(h)
  <2>1. UNCHANGED <<sent, receipts, startedBy, checks>> /\ HandlersStep(h)
    BY <1>4, RecordType DEF github, attempts
  <2>2. handler'[h] # Idle =>
           /\ handler[h] # Idle /\ handler'[h].delivery = handler[h].delivery
           /\ ~IsRetry(h) /\ handler[h].pc \in BeforeCheck
    BY <1>4, RecordType, NoneIsNoValue DEF IsRetry, Event, BeforeCheck, HoldsItsDelivery
  <2> QED
    BY <2>1, <2>2, MoveCounts DEF ChecksOf
<1>5. CASE SaveSnapshot(h)
  <2>1. UNCHANGED <<sent, receipts, startedBy, checks>> /\ HandlersStep(h)
    BY <1>5, SaveSnapshotType DEF github, store, web
  <2>2. handler'[h] # Idle =>
           /\ handler[h] # Idle /\ handler'[h].delivery = handler[h].delivery
           /\ handler[h].pc \in BeforeCheck /\ handler[h].pc \in WithAttempt
           /\ handler[h].pc # "set"
    BY <1>5, SaveSnapshotType, NoneIsNoValue DEF BeforeCheck, WithAttempt
  <2> QED
    BY <2>1, <2>2, MoveCounts DEF ChecksOf
<1>6. CASE CreateCheck(h)
  BY <1>6, CreateCounts
<1>7. CASE SetCheckRun(h)
  <2>1. UNCHANGED <<sent, receipts, startedBy, checks>> /\ HandlersStep(h) /\ handler'[h] = Idle
    BY <1>7, SetCheckRunType DEF github, store
  <2> QED
    BY <2>1, MoveCounts DEF ChecksOf
<1> QED
  BY <1>1, <1>2, <1>3, <1>4, <1>5, <1>6, <1>7 DEF Step

-----------------------------------------------------------------------------
(* The deliveries that were answered.                                      *)

AnsweredInv == answered \subseteq DOMAIN sent /\ AnsweredIsPrepared

\* A delivery that asks for a review, with its Attempt prepared.
IsServed(d) ==
  sent[d].kind \in {"start", "retarget"} /\ ~sent[d].draft =>
    startedBy[d] # None /\ snapshot[startedBy[d]] # NoSnapshot /\ checkRun[startedBy[d]] # None

LEMMA ServedStays ==
  ASSUME TriggerTypeOK, OnlyGrows, NEW d \in DOMAIN sent, IsServed(d)
  PROVE  IsServed(d)'
<1>1. sent'[d] = sent[d] /\ d \in Deliveries
  BY SentTypes DEF OnlyGrows
<1> SUFFICES ASSUME sent[d].kind \in {"start", "retarget"}, ~sent[d].draft
             PROVE  /\ startedBy'[d] # None /\ snapshot'[startedBy'[d]] # NoSnapshot
                    /\ checkRun'[startedBy'[d]] # None
  BY <1>1 DEF IsServed
<1>2. /\ startedBy[d] # None /\ snapshot[startedBy[d]] # NoSnapshot
      /\ checkRun[startedBy[d]] # None
  BY DEF IsServed
<1>3. startedBy[d] \in Attempts /\ startedBy'[d] = startedBy[d]
  BY <1>1, <1>2 DEF OnlyGrows, TriggerTypeOK
<1> QED
  BY <1>2, <1>3 DEF OnlyGrows

\* A step that answers at most one delivery, one that is served after it.
LEMMA AnswersServed ==
  ASSUME TriggerTypeOK, OnlyGrows, AnsweredInv, NEW new \in DOMAIN sent,
         \/ answered' = answered
         \/ answered' = answered \cup {new} /\ IsServed(new)'
  PROVE  AnsweredInv'
<1>1. \A d \in answered : d \in DOMAIN sent /\ IsServed(d)
  BY DEF AnsweredInv, AnsweredIsPrepared, IsServed, Prepared
<1>2. \A d \in answered' : d \in DOMAIN sent /\ IsServed(d)'
  BY <1>1, ServedStays
<1>3. answered' \subseteq DOMAIN sent'
  BY <1>2 DEF OnlyGrows
<1>4. AnsweredIsPrepared'
  BY <1>2 DEF AnsweredIsPrepared, IsServed, Prepared
<1> QED
  BY <1>3, <1>4 DEF AnsweredInv

\* A step that answers none.
LEMMA AnswersNone ==
  ASSUME TriggerTypeOK, OnlyGrows, AnsweredInv, UNCHANGED answered
  PROVE  AnsweredInv'
<1>1. \A d \in answered : d \in DOMAIN sent /\ IsServed(d)
  BY DEF AnsweredInv, AnsweredIsPrepared, IsServed, Prepared
<1>2. \A d \in answered' : d \in DOMAIN sent /\ IsServed(d)'
  BY <1>1, ServedStays
<1>3. answered' \subseteq DOMAIN sent'
  BY <1>2 DEF OnlyGrows
<1>4. AnsweredIsPrepared'
  BY <1>2 DEF AnsweredIsPrepared, IsServed, Prepared
<1> QED
  BY <1>3, <1>4 DEF AnsweredInv

LEMMA StepAnswers ==
  ASSUME TriggerTypeOK, TriggerTypeOK', StoreInv, HandlersInv, OnlyGrows, AnsweredInv,
         NEW h \in Handlers, Step(h)
  PROVE  AnsweredInv'
<1> USE AnswersNone
<1>1. CASE ReadState(h) \/ Resolve(h)
  BY <1>1, LookUpType DEF web
<1>2. CASE Start(h) /\ (KnownDelivery(h) \/ LostAuthority(h))
  <2>1. handler[h].delivery \in DOMAIN sent
    BY <1>2, AtStep DEF Start, HandlerSteps
  <2>2. UNCHANGED <<sent, startedBy, snapshot, checkRun>>
    BY <1>2, KnownStartType DEF github, store, attempts
  <2>3. CASE answered' = answered
    BY <2>3
  <2>4. CASE /\ sent[handler[h].delivery].kind = "retry"
             /\ answered' = answered \cup {handler[h].delivery}
    <3>1. PICK d \in DOMAIN sent : d = handler[h].delivery
      BY <2>1
    <3>2. IsServed(d)'
      BY <2>2, <2>4, <3>1 DEF IsServed
    <3> QED
      BY <2>4, <3>1, <3>2, AnswersServed
  <2> QED
    BY <1>2, <2>3, <2>4, KnownStartType
<1>3. CASE Start(h) /\ ~KnownDelivery(h) /\ ~LostAuthority(h)
  BY <1>3, NewAttemptType DEF web
<1>4. CASE ReadDigest(h) \/ InsertDigest(h) \/ CheckExisting(h)
  <2>1. CASE answered' = answered
    BY <2>1
  <2>2. CASE answered' # answered
    <3>1. PICK d : d = handler[h].delivery
      OBVIOUS
    <3>2. /\ handler[h] \in Busy /\ HoldsItsDelivery(handler[h])
          /\ handler[h].pc \in WithAttempt
          /\ checkRun[handler[h].attempt] # None /\ answered' = answered \cup {d}
          /\ UNCHANGED <<sent, startedBy, snapshot, checkRun>>
      BY <1>4, <2>2, <3>1, RecordType DEF WithAttempt, github, attempts
    <3>3. /\ d \in DOMAIN sent /\ startedBy[d] = handler[h].attempt
          /\ handler[h].attempt \in Attempts /\ handler[h].attempt # None
      BY <3>1, <3>2, HeldAttempt, NoneIsNoValue DEF HoldsItsDelivery
    <3>4. snapshot[startedBy[d]] # NoSnapshot
      BY <3>2, <3>3 DEF StoreInv
    <3>5. IsServed(d)'
      BY <3>2, <3>3, <3>4 DEF IsServed
    <3> QED
      BY <3>2, <3>3, <3>5, AnswersServed
  <2> QED
    BY <2>1, <2>2
<1>5. CASE SaveSnapshot(h)
  BY <1>5, SaveSnapshotType DEF web
<1>6. CASE CreateCheck(h)
  BY <1>6, CreateCheckType DEF web
<1>7. CASE SetCheckRun(h)
  <2>1. PICK d, a : d = handler[h].delivery /\ a = handler[h].attempt
    OBVIOUS
  <2>2. /\ handler[h] \in Busy /\ HoldsItsDelivery(handler[h]) /\ handler[h].pc = "set"
        /\ a \in Attempts /\ answered' = answered \cup {d}
        /\ checkRun' = IF checkRun[a] = None THEN [checkRun EXCEPT ![a] = handler[h].created]
                       ELSE checkRun
        /\ UNCHANGED <<sent, startedBy, snapshot>>
    BY <1>7, <2>1, SetCheckRunType DEF github, store
  <2>3. d \in DOMAIN sent /\ startedBy[d] = a /\ a # None
    BY <2>1, <2>2, HeldAttempt, NoneIsNoValue DEF HoldsItsDelivery, WithAttempt
  <2>4. snapshot[a] # NoSnapshot /\ handler[h].created # 0
    BY <2>1, <2>2 DEF HoldsItsDelivery
  <2>5. checkRun'[a] # None
    BY <2>2, <2>4 DEF TriggerTypeOK, None
  <2>6. IsServed(d)'
    BY <2>2, <2>3, <2>4, <2>5 DEF IsServed
  <2> QED
    BY <2>2, <2>3, <2>6, AnswersServed
<1> QED
  BY <1>1, <1>2, <1>3, <1>4, <1>5, <1>6, <1>7 DEF Step

LEMMA ReceiveAnswers ==
  ASSUME TriggerTypeOK, OnlyGrows, AnsweredInv,
         NEW h \in Handlers, NEW d \in Deliveries, Receive(h, d)
  PROVE  AnsweredInv'
<1>1. d \in DOMAIN sent /\ sent[d] \in Events /\ UNCHANGED sent
  BY ReceiveCases DEF github
<1>2. CASE UNCHANGED answered
  BY <1>2, AnswersNone
<1>3. CASE ~AsksForReview(sent[d]) /\ answered' = answered \cup {d}
  <2>1. IsServed(d)'
    BY <1>1, <1>3 DEF IsServed, AsksForReview
  <2> QED
    BY <1>1, <1>3, <2>1, AnswersServed
<1> QED
  BY <1>2, <1>3, ReceiveCases

-----------------------------------------------------------------------------
(* The inductive invariant.                                                *)

TriggerInv == TriggerTypeOK /\ StoreInv /\ HandlersInv /\ CountInv /\ AnsweredInv

LEMMA InitHolds == Init => TriggerInv
<1> SUFFICES ASSUME Init PROVE TriggerInv
  OBVIOUS
<1> DEFINE key == [ref |-> "main", base |-> 1, head |-> 1, policy |-> 1]
<1>1. 1 \in Deliveries /\ 1 \in Attempts /\ 1 \in Versions /\ 1 <= MaxSent
  BY TriggerAssumption DEF Deliveries, Attempts, Versions
<1>2. key \in Keys /\ [key |-> key, frozen |-> 1] \in Snapshots
  BY <1>1 DEF Keys, Refs, Snapshots
<1>3. /\ startedBy = [x \in Deliveries |-> IF x = 1 THEN 1 ELSE None]
      /\ digest = [x \in Deliveries |-> IF x = 1 THEN key ELSE NoSnapshot]
      /\ snapshot = [x \in Attempts |-> IF x = 1 THEN [key |-> key, frozen |-> 1] ELSE NoSnapshot]
      /\ checkRun = [x \in Attempts |-> IF x = 1 THEN 1 ELSE None]
      /\ checks = [x \in Attempts |-> IF x = 1 THEN 1 ELSE 0]
      /\ over = [x \in Attempts |-> IF x = 1 THEN TRUE ELSE FALSE]
      /\ receipts = [x \in Deliveries |-> IF x = 1 THEN 1 ELSE 0]
      /\ attemptKey = <<key>> /\ authority = 1 /\ standing = 1 /\ policy = 1
      /\ handler = [h \in Handlers |-> Idle]
      /\ answered = {1} /\ faults = 0
      /\ pull = [ref |-> "main", base |-> 1, head |-> 1, draft |-> FALSE]
      /\ sent = <<[kind |-> "start", ref |-> "main", base |-> 1, head |-> 1, draft |-> FALSE]>>
  BY DEF Init
<1>4. /\ attemptKey \in Seq(Keys) /\ Len(attemptKey) = 1 /\ attemptKey[1] = key
      /\ DOMAIN attemptKey = {1}
  BY <1>2, <1>3
<1>5. /\ sent \in Seq(Events) /\ Len(sent) = 1 /\ DOMAIN sent = {1}
      /\ sent[1] = [kind |-> "start", ref |-> "main", base |-> 1, head |-> 1, draft |-> FALSE]
  <2>1. [kind |-> "start", ref |-> "main", base |-> 1, head |-> 1, draft |-> FALSE] \in Events
    BY DEF Events, Refs
  <2> QED
    BY <1>3, <2>1
<1>6. Started = {1}
  BY <1>4 DEF Started
<1>7. TriggerTypeOK
  <2>1. pull \in [ref : Refs, base : Nat, head : Nat, draft : BOOLEAN]
    BY <1>3 DEF Refs
  <2>2. /\ startedBy \in [Deliveries -> Attempts \cup {None}]
        /\ digest \in [Deliveries -> Keys \cup {NoSnapshot}]
        /\ snapshot \in [Attempts -> Snapshots \cup {NoSnapshot}]
    BY <1>1, <1>2, <1>3
  <2>3. /\ checkRun \in [Attempts -> Nat] /\ checks \in [Attempts -> Nat]
        /\ over \in [Attempts -> BOOLEAN] /\ receipts \in [Deliveries -> Nat]
        /\ handler \in [Handlers -> Busy \cup {Idle}]
    BY <1>3 DEF None
  <2>4. answered \subseteq Deliveries /\ faults \in Nat
    BY <1>1, <1>3
  <2> QED
    BY <1>1, <1>3, <1>4, <1>5, <2>1, <2>2, <2>3, <2>4 DEF TriggerTypeOK
<1>8. Starters = {1}
  BY <1>1, <1>3 DEF Starters, None
<1>9. StoreInv
  <2>1. Cardinality(Starters) = Len(attemptKey)
    BY <1>4, <1>8, FS_Singleton
  <2>2. OneAttemptPerDelivery
    BY <1>1, <1>3, <1>6 DEF OneAttemptPerDelivery
  <2>3. \A d \in Starters : d \in DOMAIN sent /\ startedBy[d] \in Started
    BY <1>1, <1>3, <1>5, <1>6, <1>8
  <2>4. \A d \in Starters : sent[d].kind # "retry" =>
          AsksForReview(sent[d]) /\ SameCommits(attemptKey[startedBy[d]], sent[d])
    BY <1>1, <1>3, <1>4, <1>5, <1>8 DEF AsksForReview, SameCommits
  <2>5. \A a \in Attempts \ Started :
          snapshot[a] = NoSnapshot /\ checkRun[a] = None /\ checks[a] = 0
    BY <1>3, <1>6
  <2>6. /\ \A a \in Attempts : checkRun[a] # None => snapshot[a] # NoSnapshot
        /\ \A a \in Attempts : checkRun[a] <= checks[a]
    <3>1. [key |-> key, frozen |-> 1] # NoSnapshot
      BY <1>2, NoneIsNoValue
    <3> QED
      BY <1>3, <3>1 DEF None
  <2>7. \A a \in Started : snapshot[a] # NoSnapshot => SameCommits(snapshot[a].key, attemptKey[a])
    BY <1>1, <1>3, <1>4, <1>6 DEF SameCommits
  <2> QED
    BY <1>8, <2>1, <2>2, <2>3, <2>4, <2>5, <2>6, <2>7 DEF StoreInv
<1>10. HandlersInv
  BY <1>3 DEF HandlersInv
<1>11. CountInv
  <2>1. Pending(1) = {}
    BY <1>3 DEF Pending
  <2>2. Cardinality(Pending(1)) = 0
    BY <2>1, FS_EmptySet
  <2>3. ChecksOf(1) = 1 /\ receipts[1] = 1
    BY <1>1, <1>3 DEF ChecksOf, None
  <2> QED
    BY <1>3, <1>5, <2>2, <2>3 DEF CountInv, RetryGoesOn
<1>12. AnsweredInv
  <2>1. startedBy[1] = 1 /\ snapshot[1] # NoSnapshot /\ checkRun[1] # None
    BY <1>1, <1>2, <1>3, NoneIsNoValue DEF None
  <2> QED
    BY <1>1, <1>3, <1>5, <2>1 DEF AnsweredInv, AnsweredIsPrepared, Prepared, None
<1> QED
  BY <1>7, <1>9, <1>10, <1>11, <1>12 DEF TriggerInv

LEMMA WorldStep ==
  ASSUME TriggerInv,
         \/ PushCommits \/ MarkReady \/ ConvertToDraft \/ Retarget \/ PushTarget \/ ClickRetry
         \/ ChangePolicy
  PROVE  TriggerInv'
<1> USE DEF TriggerInv
<1>1. TriggerTypeOK'
  BY WorldType
<1>2. CASE ChangePolicy
  <2>1. UNCHANGED <<sent, startedBy, digest, attemptKey, snapshot, checkRun, checks, handler,
                    receipts, answered>>
    BY <1>2 DEF ChangePolicy, github, store, attempts, web
  <2>2. OnlyGrows
    BY <2>1, UntouchedGrows
  <2> QED
    BY <1>1, <2>1, <2>2, UntouchedStore, HandlersRest, UntouchedCounts, AnswersNone
<1>3. CASE ~ChangePolicy
  <2>1. PICK kind, new : Send(kind, new)
    BY <1>3 DEF PushCommits, MarkReady, ConvertToDraft, Retarget, PushTarget, ClickRetry
  <2>2. OnlyGrows /\ UNCHANGED <<handler, answered>>
    BY <2>1, SendGrows DEF Send, web
  <2> QED
    BY <1>1, <2>1, <2>2, SendStore, HandlersRest, SendCounts, AnswersNone
<1> QED
  BY <1>2, <1>3

LEMMA HandlerStep ==
  ASSUME TriggerInv, NEW h \in Handlers, Step(h)
  PROVE  TriggerInv'
<1> USE DEF TriggerInv
<1>1. TriggerTypeOK'
  BY LookUpType, KnownStartType, NewAttemptType, RecordType, SaveSnapshotType, CreateCheckType,
     SetCheckRunType DEF Step
<1>2. OnlyGrows
  BY StepGrows
<1>3. StoreInv'
  <2>1. CASE ReadState(h) \/ Resolve(h)
    BY <2>1, LookUpType, UntouchedStore DEF github, store, attempts
  <2>2. CASE Start(h) /\ (KnownDelivery(h) \/ LostAuthority(h))
    BY <2>2, KnownStartType, UntouchedStore DEF github, store, attempts
  <2>3. CASE Start(h) /\ ~KnownDelivery(h) /\ ~LostAuthority(h)
    BY <2>3, NewAttemptStore
  <2>4. CASE ReadDigest(h) \/ InsertDigest(h) \/ CheckExisting(h)
    BY <2>4, RecordType, UntouchedStore DEF github, attempts
  <2>5. CASE SaveSnapshot(h)
    BY <2>5, SaveSnapshotStore
  <2>6. CASE CreateCheck(h) \/ SetCheckRun(h)
    BY <2>6, CheckStore
  <2> QED
    BY <2>1, <2>2, <2>3, <2>4, <2>5, <2>6 DEF Step
<1> QED
  BY <1>1, <1>2, <1>3, StepHolds, StepCounts, StepAnswers

LEMMA FailStep ==
  ASSUME TriggerInv, NEW h \in Handlers, Fail(h)
  PROVE  TriggerInv'
<1> USE DEF TriggerInv
<1>1. /\ TriggerTypeOK' /\ HandlersStep(h) /\ handler'[h] = Idle
      /\ UNCHANGED <<sent, startedBy, digest, attemptKey, snapshot, checkRun, checks, receipts,
                     answered>>
  BY FailType DEF github, store, attempts
<1>2. OnlyGrows
  BY <1>1, UntouchedGrows
<1>3. CountInv'
  BY <1>1, MoveCounts DEF ChecksOf
<1> QED
  BY <1>1, <1>2, <1>3, UntouchedStore, HandlersStay, AnswersNone

LEMMA ReceiveStep ==
  ASSUME TriggerInv, NEW h \in Handlers, NEW d \in Deliveries, Receive(h, d)
  PROVE  TriggerInv'
<1> USE DEF TriggerInv
<1>1. UNCHANGED <<sent, startedBy, digest, attemptKey, snapshot, checkRun, checks>>
  BY ReceiveCases DEF github, attempts
<1>2. OnlyGrows
  BY <1>1, UntouchedGrows
<1> QED
  BY <1>1, <1>2, ReceiveType, UntouchedStore, ReceiveHolds, ReceiveCounts, ReceiveAnswers

LEMMA ExecuteStep ==
  ASSUME TriggerInv, NEW a \in Attempts, Execute(a)
  PROVE  TriggerInv'
<1> USE DEF TriggerInv
<1>1. UNCHANGED <<sent, startedBy, digest, attemptKey, snapshot, checkRun, checks, handler,
                  receipts, answered>>
  BY DEF Execute, github, web
<1>2. TriggerTypeOK' /\ OnlyGrows
  BY <1>1, ExecuteType, UntouchedGrows
<1> QED
  BY <1>1, <1>2, UntouchedStore, HandlersRest, UntouchedCounts, AnswersNone

LEMMA RestStep ==
  ASSUME TriggerInv, UNCHANGED vars
  PROVE  TriggerInv'
<1> USE DEF TriggerInv
<1>1. TriggerTypeOK'
  BY DEF TriggerTypeOK, vars, github, store, attempts, web
<1>2. UNCHANGED <<sent, startedBy, digest, attemptKey, snapshot, checkRun, checks, handler,
                  receipts, answered>>
  BY DEF vars, github, store, attempts, web
<1>3. OnlyGrows
  BY <1>2, UntouchedGrows
<1> QED
  BY <1>1, <1>2, <1>3, UntouchedStore, HandlersRest, UntouchedCounts, AnswersNone

\* Whatever GitHub sends, however often a delivery is received and wherever its
\* handlers fail, TriggerInv holds: the store, what the handlers hold, the
\* count of Checks and the answers stay in step.
THEOREM TriggerInvHolds == Spec => []TriggerInv
<1>1. ASSUME TriggerInv, [Next]_vars PROVE TriggerInv'
  BY <1>1, WorldStep, HandlerStep, FailStep, ReceiveStep, ExecuteStep, RestStep DEF Next
<1> QED
  BY <1>1, InitHolds, PTL DEF Spec

\* A delivery has its effect once: one Attempt, and at most one Check each time
\* it is received, of a retry one in all (webhooks.py, retry.py and
\* start_authoritative_attempt in persistence.py).
THEOREM EffectOnce == Spec => []DeliveryHasItsEffectOnce
<1>1. ASSUME TriggerInv PROVE DeliveryHasItsEffectOnce
  <2> USE <1>1 DEF TriggerInv
  <2>1. OneAttemptPerDelivery
    BY DEF StoreInv
  <2>2. ChecksFollowReceipts
    <3> SUFFICES ASSUME NEW d \in Deliveries, startedBy[d] # None
                 PROVE  /\ checks[startedBy[d]] <= (IF sent[d].kind = "retry" THEN 1 ELSE receipts[d])
                        /\ checkRun[startedBy[d]] <= checks[startedBy[d]]
      BY DEF ChecksFollowReceipts
    <3>1. d \in DOMAIN sent /\ startedBy[d] \in Attempts
      BY DEF StoreInv, Starters, TriggerTypeOK
    <3>2. ChecksOf(d) = checks[startedBy[d]] /\ ChecksOf(d) \in Nat /\ receipts[d] \in Nat
      BY SentTypes DEF ChecksOf
    <3>3. CASE sent[d].kind = "retry"
      BY <3>1, <3>2, <3>3 DEF CountInv, StoreInv
    <3>4. CASE sent[d].kind # "retry"
      <4>1. Cardinality(Pending(d)) + ChecksOf(d) <= receipts[d]
        BY <3>1, <3>4 DEF CountInv
      <4>2. ChecksOf(d) <= receipts[d]
        BY <4>1, <3>2, PendingFinite
      <4> QED
        BY <3>1, <3>2, <3>4, <4>2 DEF StoreInv
    <3> QED
      BY <3>3, <3>4
  <2> QED
    BY <2>1, <2>2 DEF DeliveryHasItsEffectOnce
<1> QED
  BY <1>1, TriggerInvHolds, PTL

\* Success is answered only when the Attempt has its snapshot and its Check
\* (_start_and_prepare in webhooks.py).
THEOREM AnswersArePrepared == Spec => []AnsweredIsPrepared
<1>1. TriggerInv => AnsweredIsPrepared
  BY DEF TriggerInv, AnsweredInv
<1> QED
  BY <1>1, TriggerInvHolds, PTL

\* A snapshot has the commits of its Attempt, whichever handler saved it
\* (build_frozen_execution_snapshot and save_execution_snapshot).
THEOREM SnapshotsMatch == Spec => []SnapshotIsOfItsAttempt
<1>1. ASSUME TriggerInv PROVE SnapshotIsOfItsAttempt
  <2> USE <1>1 DEF TriggerInv
  <2> SUFFICES ASSUME NEW a \in Started, snapshot[a] # NoSnapshot
               PROVE  [snapshot[a].key EXCEPT !.policy = attemptKey[a].policy] = attemptKey[a]
    BY DEF SnapshotIsOfItsAttempt
  <2>1. a \in Attempts /\ attemptKey[a] \in Keys
    BY TriggerAssumption DEF TriggerTypeOK, Started, Attempts
  <2>2. snapshot[a].key \in Keys
    BY <2>1 DEF TriggerTypeOK, Snapshots
  <2>3. SameCommits(snapshot[a].key, attemptKey[a])
    BY DEF StoreInv
  <2> QED
    BY <2>1, <2>2, <2>3 DEF SameCommits, Keys
<1> QED
  BY <1>1, TriggerInvHolds, PTL

\* No step takes back what a delivery has started: its Attempt, the request key,
\* the snapshot, the recorded Check and the digest stay as they were first
\* written (ON CONFLICT and "only if NULL" in persistence.py).
THEOREM NothingIsTakenBack == Spec => [][OnlyGrows]_vars
<1>1. ASSUME TriggerInv, [Next]_vars PROVE [OnlyGrows]_vars
  BY <1>1, NextGrows DEF TriggerInv
<1> QED
  BY <1>1, TriggerInvHolds, PTL DEF Spec

================================================================================
