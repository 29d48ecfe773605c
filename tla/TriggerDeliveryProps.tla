-------------------------- MODULE TriggerDeliveryProps --------------------------
(***************************************************************************)
(* What webhook deliveries may do to the Attempts of a pull request,       *)
(* however often and in whatever order they are received.                  *)
(***************************************************************************)
EXTENDS TriggerDelivery

\* "a redelivery returns the first Attempt and never supersedes it again"
\* (TECH-DESIGN D8): every Attempt is the one that some delivery is answered
\* with, so no delivery started two, at the same time or one after the other.
OneAttemptPerDelivery ==
  \A a \in Started : \E d \in Deliveries : startedBy[d] = a

Prepared(a) == snapshot[a] # NoSnapshot /\ checkRun[a] # None

\* A webhook that asks for a review and was answered with success has an
\* Attempt with its snapshot and its Check, so that the worker lists it: a
\* redelivery finishes what a handler that failed left behind, and does not
\* answer before.
AnsweredIsPrepared ==
  \A d \in answered :
    sent[d].kind \in {"start", "retarget"} /\ ~sent[d].draft =>
      startedBy[d] # None /\ Prepared(startedBy[d])

\* A snapshot freezes the commits its Attempt was started for, whoever prepares
\* it and whenever: the payload of a redelivery is the first one's.
SnapshotIsOfItsAttempt ==
  \A a \in Started : snapshot[a] # NoSnapshot =>
    [snapshot[a].key EXCEPT !.policy = attemptKey[a].policy] = attemptKey[a]

\* GitHub gets at most one Check of an Attempt each time its delivery is
\* received, and of a retry only one, however often it is repeated; the Check
\* that is recorded is one of them.
ChecksFollowReceipts ==
  \A d \in Deliveries : LET a == startedBy[d] IN a # None =>
    /\ checks[a] <= (IF sent[d].kind = "retry" THEN 1 ELSE receipts[d])
    /\ checkRun[a] <= checks[a]

\* A delivery has its effect once, however often it is received: one Attempt,
\* and one Check for each time it was received.
DeliveryHasItsEffectOnce == OneAttemptPerDelivery /\ ChecksFollowReceipts

\* A webhook start that one handler takes alone and undisturbed ends with its
\* Attempt executed, wherever an earlier handler of the same delivery failed,
\* unless another Attempt takes authority or the policy file changes (the
\* redelivery then has another digest, or another snapshot, and is refused).
WebhookStartIsExecuted ==
  \A d \in Deliveries :
    (/\ policy = 1 /\ faults = MaxFaults
     /\ \E h \in Handlers :
          /\ At(h, "start") /\ handler[h].delivery = d /\ ~IsRetry(h)
          /\ \A g \in Handlers \ {h} : At(g, "idle") \/ handler[g].delivery # d)
      ~> \/ startedBy[d] # None /\ (over[startedBy[d]] \/ authority # startedBy[d])
         \/ policy # 1

=================================================================================
