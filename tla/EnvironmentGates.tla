--------------------------- MODULE EnvironmentGates ---------------------------
(***************************************************************************)
(* The Runs of EnvironmentRun seen through the shared gate rules.  The     *)
(* server selects and completes with SQL of its own; the rules in GateRules*)
(* and the Run view are what the browser and a reader judge a Run by.      *)
(***************************************************************************)
EXTENDS EnvironmentRun, GateRules

StatusesIn(r, s) == [a \in ActionsIn(s) |-> action[r][a].status]

\* RunQueries.run: the answer to GET /runs/:id.
RunView(r) ==
  [status |-> run[r].status,
   states |-> [s \in State |-> StateFlags(StatusesIn(r, s))],
   actions |-> [a \in Action |-> ActionFlags(action[r][a].status)],
   activeAgent |-> IF run[r].agent = 0 THEN {} ELSE {agent[run[r].agent]}]

\* An Environment the planner accepts; the numbering of EnvironmentRun keeps
\* States and Actions in their order.
ASSUME PlannedEnvironment ==
  RunnableIssues([s \in State |-> [order |-> s, priorities |-> [a \in ActionsIn(s) |-> a]]],
                 4096) = {}

\* What the rows of a Run say, the rules derive from the rows below them.
RowsAgree(r) ==
  LET view == RunView(r) IN
  /\ \A s \in State :
       /\ state[r][s] = "blocked" <=> view.states[s].blocked
       /\ state[r][s] = "done" => DeriveStateStatus(StatusesIn(r, s)) = "done"
  /\ view.status = "blocked" <=> DeriveEnvironmentStatus(state[r]) = "blocked"
  /\ view.status = "completed" => DeriveEnvironmentStatus(state[r]) = "completed"
  /\ \A x \in view.activeAgent :
       ~view.actions[x.action].done /\ ~view.actions[x.action].blocked

\* Work goes on while the budget lasts, and blocks for its exhaustion only then.
BudgetAgrees(r) ==
  LET Exhausted(a) == RetryBudget(MaxRetries, action[r][a].attempt).exhausted IN
  /\ \A x \in RunView(r).activeAgent : x.phase = "work" => ~Exhausted(x.action)
  /\ \A f \in FeedbackOf(r) :
       f.source = "retry_exhaustion" => Exhausted(agent[f.agent].action)

SelectedByRules(r) ==
  LET a == run'[r].action IN
  a \notin {0, run[r].action} =>
    /\ NextRunnableState(state[r]) = {StateOf[a]}
    /\ NextRunnableAction(StatusesIn(r, StateOf[a])) = {a}

\* Two implementations of the gates agree: whatever the store's own queries
\* select is what nextRunnableState and nextRunnableAction select, and after
\* every commit the statuses, flags and retry budget derived from the Actions
\* are those the Run, its States and its Feedback claim, over retries,
\* continuations, cancellations and restarts.
FollowsGates ==
  [][\A r \in Run : SelectedByRules(r) /\ (RowsAgree(r) /\ BudgetAgrees(r))']_vars
===============================================================================
