----------------------------- MODULE RunContract -----------------------------
(***************************************************************************)
(* What an Environment Run promises, whatever queue, Agents, tasks,         *)
(* processes and restarts carry it out: Actions are worked on one at a time *)
(* and in order, Work is attempted at most MaxRetries + 1 times, only a     *)
(* Validation's "done" finishes an Action, a blocked Action reports exactly *)
(* one Feedback in the step that blocks it, and a Run that is over stays    *)
(* as it is.                                                                *)
(***************************************************************************)
EXTENDS Naturals

CONSTANTS Run, NumActions, MaxRetries

Action == 1..NumActions

VARIABLES
  status,   \* status of each Run
  step,     \* how far each Action of each Run is
  attempts, \* Work attempts counted for each Action
  reported  \* Actions of each Run that have a Feedback

vars == <<status, step, attempts, reported>>

Init ==
  /\ status = [r \in Run |-> "absent"]
  /\ step = [r \in Run |-> [a \in Action |-> "waiting"]]
  /\ attempts = [r \in Run |-> [a \in Action |-> 0]]
  /\ reported = [r \in Run |-> {}]

Over == {"completed", "blocked", "stopped"}

\* A Run opens; a continuation imports Actions some finished Run has done.
Open(r, imported) ==
  /\ status[r] = "absent" /\ imported # Action
  /\ \A a \in imported : \E p \in Run : status[p] \in Over /\ step[p][a] = "done"
  /\ status' = [status EXCEPT ![r] = "open"]
  /\ step' = [step EXCEPT ![r] = [a \in Action |-> IF a \in imported THEN "done" ELSE "waiting"]]
  /\ UNCHANGED <<attempts, reported>>

Begin(r, a) ==
  /\ status[r] = "open" /\ step[r][a] = "waiting"
  /\ \A b \in Action : b < a => step[r][b] = "done"
  /\ step' = [step EXCEPT ![r][a] = "doing"]
  /\ UNCHANGED <<status, attempts, reported>>

Attempt(r, a) ==
  /\ status[r] = "open" /\ step[r][a] = "doing" /\ attempts[r][a] <= MaxRetries
  /\ attempts' = [attempts EXCEPT ![r][a] = @ + 1]
  /\ UNCHANGED <<status, step, reported>>

Accept(r, a) ==
  /\ status[r] = "open" /\ step[r][a] = "doing"
  /\ step' = [step EXCEPT ![r][a] = "done"]
  /\ UNCHANGED <<status, attempts, reported>>

Block(r, a) ==
  /\ status[r] = "open" /\ step[r][a] = "doing"
  /\ step' = [step EXCEPT ![r][a] = "blocked"]
  /\ status' = [status EXCEPT ![r] = "blocked"]
  /\ reported' = [reported EXCEPT ![r] = @ \cup {a}]
  /\ UNCHANGED attempts

Complete(r) ==
  /\ status[r] = "open" /\ \A a \in Action : step[r][a] = "done"
  /\ status' = [status EXCEPT ![r] = "completed"]
  /\ UNCHANGED <<step, attempts, reported>>

Stop(r) ==
  /\ status[r] = "open"
  /\ status' = [status EXCEPT ![r] = "stopped"]
  /\ step' = [step EXCEPT ![r] = [a \in Action |-> IF @[a] = "doing" THEN "stopped" ELSE @[a]]]
  /\ UNCHANGED <<attempts, reported>>

Next ==
  \E r \in Run :
    \/ \E imported \in SUBSET Action : Open(r, imported)
    \/ \E a \in Action : Begin(r, a) \/ Attempt(r, a) \/ Accept(r, a) \/ Block(r, a)
    \/ Complete(r) \/ Stop(r)

Spec == Init /\ [][Next]_vars
=============================================================================
