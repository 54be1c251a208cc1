------------------------------ MODULE GateRules ------------------------------
(***************************************************************************)
(* The pure gate rules the server, the browser and the planner share.  A   *)
(* list of States or Actions is a function from its positions in execution *)
(* order (order, then priority) to statuses.                               *)
(***************************************************************************)
EXTENDS Naturals, FiniteSets

EveryDone(status) == DOMAIN status # {} /\ \A x \in DOMAIN status : status[x] = "done"
Some(status, value) == \E x \in DOMAIN status : status[x] = value
Untouched(status) == \A x \in DOMAIN status : status[x] = "pending"

ActionFlags(status) == [done |-> status = "done", blocked |-> status = "blocked"]
StateFlags(status) == [done |-> EveryDone(status), blocked |-> Some(status, "blocked")]

Derived(status, whole) ==
  CASE Some(status, "blocked") -> "blocked"
    [] ~Some(status, "blocked") /\ EveryDone(status) -> whole
    [] OTHER -> IF Untouched(status) THEN "pending" ELSE "running"

DeriveStateStatus(status) == Derived(status, "done")
DeriveEnvironmentStatus(status) == Derived(status, "completed")

\* The first entry that is not done, if there is one.
FirstOpen(status) ==
  {x \in DOMAIN status : status[x] # "done" /\ \A y \in DOMAIN status : y < x => status[y] = "done"}

NextRunnableState(status) == {x \in FirstOpen(status) : status[x] \in {"pending", "running"}}
NextRunnableAction(status) == {x \in FirstOpen(status) : status[x] = "pending"}

Less(n, k) == IF n > k THEN n - k ELSE 0

RetryBudget(maxRetries, workAttempts) ==
  [totalAttempts |-> 1 + maxRetries,
   attemptsUsed |-> workAttempts,
   attemptsRemaining |-> Less(1 + maxRetries, workAttempts),
   retriesRemaining |-> Less(maxRetries, Less(workAttempts, 1)),
   exhausted |-> workAttempts >= 1 + maxRetries]

\* The codes of the issues that keep an Environment from being started.  An
\* Environment is a function from its States to their order and the priorities
\* of their Actions.
Repeats(values) == \E i, j \in DOMAIN values : i # j /\ values[i] = values[j]

RunnableIssues(states, actionsTotal) ==
  LET orders == [s \in DOMAIN states |-> states[s].order]
      actions == UNION {{s} \X (DOMAIN states[s].priorities) : s \in DOMAIN states}
      issues == {<<"empty_environment", states = <<>> >>,
                 <<"duplicate_state_order", Repeats(orders)>>,
                 <<"too_many_actions", Cardinality(actions) > actionsTotal>>,
                 <<"empty_state", \E s \in DOMAIN states : DOMAIN states[s].priorities = {}>>,
                 <<"duplicate_action_priority",
                   \E s \in DOMAIN states : Repeats(states[s].priorities)>>}
  IN {issue[1] : issue \in {i \in issues : i[2]}}
==============================================================================
