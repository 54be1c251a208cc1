------------------------- MODULE GovernanceContract -------------------------
(***************************************************************************)
(* What the governance service promises about Critic and Refinement Runs:  *)
(* a Run is opened once or skipped, ends once, and stays as it ended; a    *)
(* schedule has at most one open Run.                                      *)
(***************************************************************************)
CONSTANTS Schedule, Time, Owner

VARIABLE phase \* none, open, or how the Run has ended

Init == phase = [o \in Owner |-> "none"]

\* Another occurrence of the schedule o belongs to.
Sibling(o, p) == \E s \in Schedule, d, e \in Time : o = <<s, d>> /\ p = <<s, e>>

Begin(o) ==
  /\ phase[o] = "none"
  /\ \A p \in Owner : Sibling(o, p) => phase[p] # "open"
  /\ \E start \in {"open", "skipped"} : phase' = [phase EXCEPT ![o] = start]

End(o) ==
  /\ phase[o] = "open"
  /\ \E end \in {"clean", "proposed", "failed"} : phase' = [phase EXCEPT ![o] = end]

Next == \E o \in Owner : Begin(o) \/ End(o)

Spec == Init /\ [][Next]_phase
=============================================================================
