--------------------------- MODULE ReviewContract ---------------------------
(***************************************************************************)
(* What human review promises, whatever requests, processes and git do: a  *)
(* proposal is decided once; only an approved one has an outcome, one; and *)
(* with a successful outcome, in the same step, a Run that had none gets   *)
(* its successor.                                                          *)
(***************************************************************************)
EXTENDS Naturals

CONSTANTS Refinement, Run

VARIABLES
  verdict,    \* none, pending, approved or rejected
  outcome,    \* open, applied or failed
  successor   \* pairs <<Run, its continuation>>

vars == <<verdict, outcome, successor>>

Init ==
  /\ verdict = [r \in Refinement |-> "none"]
  /\ outcome = [r \in Refinement |-> "open"]
  /\ successor = {}

Propose(r) ==
  /\ verdict[r] = "none"
  /\ verdict' = [verdict EXCEPT ![r] = "pending"]
  /\ UNCHANGED <<outcome, successor>>

Decide(r) ==
  /\ verdict[r] = "pending"
  /\ \E v \in {"approved", "rejected"} : verdict' = [verdict EXCEPT ![r] = v]
  /\ UNCHANGED <<outcome, successor>>

Succeed(r, d, e) ==
  /\ verdict[r] = "approved" /\ outcome[r] = "open"
  /\ d < e
  /\ \A p \in successor : p[1] # d /\ p[2] # e
  /\ outcome' = [outcome EXCEPT ![r] = "applied"]
  /\ successor' = successor \cup {<<d, e>>}
  /\ UNCHANGED verdict

Fail(r) ==
  /\ verdict[r] = "approved" /\ outcome[r] = "open"
  /\ outcome' = [outcome EXCEPT ![r] = "failed"]
  /\ UNCHANGED <<verdict, successor>>

Next ==
  \E r \in Refinement :
    \/ Propose(r)
    \/ Decide(r)
    \/ \E d, e \in Run : Succeed(r, d, e)
    \/ Fail(r)

Spec == Init /\ [][Next]_vars
=============================================================================
