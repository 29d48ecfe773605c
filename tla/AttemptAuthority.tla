-------------------------- MODULE AttemptAuthority --------------------------
(***************************************************************************)
(* What the D8 state layer promises about one gate decision per change     *)
(* request, whatever tables and jobs implement it.                         *)
(*                                                                         *)
(* An Attempt takes authority over a change request once, when it starts;  *)
(* it keeps it until another Attempt that was never used before takes it.  *)
(* Only the Attempt in authority can be given the standing decision, once, *)
(* and the standing decision disappears with the authority.  Whatever      *)
(* happens to the standing decision is a new revision.                     *)
(***************************************************************************)
EXTENDS Naturals

CONSTANTS ChangeRequests,  \* pull requests the App reviews
          Attempts,        \* Attempt ids (fresh UUIDs)
          None             \* absent value

VARIABLES authority,   \* the Attempt in authority, per change request
          standing,    \* the Attempt whose gate decision stands, or None
          gate,        \* the standing gate state, or None
          revision,    \* revision of the standing decision
          used,        \* Attempts that took authority somewhere, ever
          decided      \* Attempts that were given a decision, ever

authorityVars == <<authority, standing, gate, revision, used, decided>>

ReportGates == {"Passed", "Blocked", "Error"}
Gates == ReportGates \cup {"Passed with bypass"}

Init ==
  /\ authority = [c \in ChangeRequests |-> None]
  /\ standing = [c \in ChangeRequests |-> None]
  /\ gate = [c \in ChangeRequests |-> None]
  /\ revision = [c \in ChangeRequests |-> 0]
  /\ used = {}
  /\ decided = {}

\* A new Attempt takes authority; losing a prior Attempt is a revision.
TakeAuthority(c, a) ==
  /\ a \notin used
  /\ used' = used \cup {a}
  /\ authority' = [authority EXCEPT ![c] = a]
  /\ standing' = [standing EXCEPT ![c] = None]
  /\ gate' = [gate EXCEPT ![c] = None]
  /\ revision' = [revision EXCEPT ![c] = IF authority[c] = None THEN @ ELSE @ + 1]
  /\ UNCHANGED decided

\* The Attempt in authority is given its only decision, with the gate its
\* review produced.
Decide(c, g) ==
  /\ authority[c] # None
  /\ authority[c] \notin decided
  /\ standing' = [standing EXCEPT ![c] = authority[c]]
  /\ gate' = [gate EXCEPT ![c] = g]
  /\ revision' = [revision EXCEPT ![c] = @ + 1]
  /\ decided' = decided \cup {authority[c]}
  /\ UNCHANGED <<authority, used>>

\* One more blocking finding of the standing decision is accepted as a risk.
AcceptRisk(c) ==
  /\ standing[c] # None
  /\ gate[c] = "Blocked"
  /\ \E g \in {"Blocked", "Passed with bypass"} : gate' = [gate EXCEPT ![c] = g]
  /\ revision' = [revision EXCEPT ![c] = @ + 1]
  /\ UNCHANGED <<authority, standing, used, decided>>

\* The decision is withdrawn: the target branch moved, or the pull request
\* became a draft.
Withdraw(c) ==
  /\ authority[c] # None
  /\ standing' = [standing EXCEPT ![c] = None]
  /\ gate' = [gate EXCEPT ![c] = None]
  /\ revision' = [revision EXCEPT ![c] = @ + 1]
  /\ UNCHANGED <<authority, used, decided>>

Next ==
  \E c \in ChangeRequests :
    \/ \E a \in Attempts : TakeAuthority(c, a)
    \/ \E g \in ReportGates : Decide(c, g)
    \/ AcceptRisk(c)
    \/ Withdraw(c)

Spec == Init /\ [][Next]_authorityVars
=============================================================================
