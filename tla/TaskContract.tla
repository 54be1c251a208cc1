---------------------------- MODULE TaskContract ----------------------------
(***************************************************************************)
(* What LocalDaemonStore and the pump together promise about an execution  *)
(* task: a daemon may claim it once, record one terminal under that claim, *)
(* and the server pronounces one verdict, which then stands.               *)
(***************************************************************************)
CONSTANT Task

VARIABLES
  stage,  \* open, claimed, or the kind of the recorded terminal
  verdict \* none, output, error, lost or cancelled

Init ==
  /\ stage = [t \in Task |-> "open"]
  /\ verdict = [t \in Task |-> "none"]

Claim(t) ==
  /\ stage[t] = "open" /\ verdict[t] = "none"
  /\ stage' = [stage EXCEPT ![t] = "claimed"]
  /\ UNCHANGED verdict

Answer(t) ==
  /\ stage[t] = "claimed" /\ verdict[t] = "none"
  /\ \E kind \in {"output", "error"} : stage' = [stage EXCEPT ![t] = kind]
  /\ UNCHANGED verdict

\* An output or an error is only pronounced when the daemon recorded it.
Pronounce(t) ==
  /\ verdict[t] = "none"
  /\ \E v \in {"lost", "cancelled"} \cup ({"output", "error"} \cap {stage[t]}) :
       verdict' = [verdict EXCEPT ![t] = v]
  /\ UNCHANGED stage

Next == \E t \in Task : Claim(t) \/ Answer(t) \/ Pronounce(t)

Spec == Init /\ [][Next]_<<stage, verdict>>
=============================================================================
