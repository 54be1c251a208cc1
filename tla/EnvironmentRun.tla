--------------------------- MODULE EnvironmentRun ---------------------------
(***************************************************************************)
(* The execution of Environment Runs by the Ballet server: ordered States, *)
(* prioritised Actions, Validation-led dispatch, the in-memory queue, the  *)
(* single-flight pump, cancellation, human answers, graceful shutdown,     *)
(* process crashes and restart reconciliation.                             *)
(*                                                                         *)
(* Durable variables are SQLite rows; each action commits at most one      *)
(* SQLite transaction, so a crash can fall between any two of them.  The   *)
(* server is one JavaScript thread: "call" is the synchronous call stack   *)
(* between two commits, during which no other handler runs, and "pc" is    *)
(* where the pump is parked when it awaits.                                *)
(*                                                                         *)
(* Actions are numbered in execution order over the whole Environment      *)
(* (State order first, then priority inside the State), as the ORDER BY    *)
(* clauses of the store read them.                                         *)
(***************************************************************************)
EXTENDS Naturals, Sequences, FiniteSets

CONSTANTS
  Run,          \* identifiers of the Environment Runs that may be started
  NoRun,        \* "no Run" in the volatile variables
  NumStates,    \* number of ordered States
  NumActions,   \* number of Actions over all States
  StateOf,      \* the State of each Action
  MaxRetries,   \* maxRetries of every Action
  MaxQuestions, \* bound: needs_input outcomes per Run
  MaxCrashes    \* bound: crashes the environment inflicts

State == 1..NumStates
Action == 1..NumActions

ASSUME ConstantsAssumption ==
  /\ NoRun \notin Run
  /\ NumStates \in Nat \ {0} /\ NumActions \in Nat \ {0}
  /\ MaxRetries \in Nat /\ MaxQuestions \in Nat /\ MaxCrashes \in Nat

\* validateRunnableEnvironment: no State is empty, orders are unique.
ASSUME StateOfAssumption ==
  /\ StateOf \in [Action -> State]
  /\ \A s \in State : \E a \in Action : StateOf[a] = s
  /\ \A a, b \in Action : a < b => StateOf[a] <= StateOf[b]

VARIABLES
  run,      \* environment_runs: one row per Run
  state,    \* state_executions: status of each State
  action,   \* action_executions: one row per Action
  agent,    \* agent_runs with their execution_tasks, in creation order
  feedback, \* feedback_entries created by blocked Actions
  queue,    \* in memory: task ids waiting for the pump
  pc,       \* in memory: where the pump (or the boot sequence) is parked
  held,     \* in memory: the task or Run the parked pump awaits for
  call,     \* in memory: the synchronous call between two commits
  stopping, \* in memory: graceful shutdown has begun
  crashes   \* bound: crashes so far

durable == <<run, state, action, agent, feedback>>
volatile == <<queue, pc, held, call, stopping>>
vars == <<durable, volatile, crashes>>

-----------------------------------------------------------------------------
(* Row types.                                                              *)

RunStatus == {"absent", "pending", "running", "completed", "blocked",
              "cancelled", "interrupted"}
TerminalStatus == {"completed", "blocked", "cancelled", "interrupted"}
StateStatus == {"pending", "running", "blocked", "done", "cancelled", "interrupted"}
ActiveStatus == {"prechecking", "working", "postchecking"}
ActionStatus == {"pending", "blocked", "done", "cancelled", "interrupted"} \cup ActiveStatus
Phase == {"precheck", "work", "postwork"}
LiveStatus == {"queued", "running"}
AgentStatus == {"waiting_for_input", "completed", "failed", "cancelled",
                "interrupted"} \cup LiveStatus
TaskStatus == {"queued", "running", "waiting_for_input", "succeeded", "failed", "cancelled"}
Outcome == {"none", "done", "delegate", "completed", "needs_input", "retry",
            "blocked", "failure", "invalid"}
Failure == {"failure", "invalid"}
FeedbackSource == {"validation_blocked", "retry_exhaustion", "provider_failure",
                   "system_invalid_output"}

RunRow == [status : RunStatus, final : {"none", "running", "failed", "completed"},
           count : Nat, state : State \cup {0}, action : Action \cup {0}, agent : Nat]
ActionRow == [status : ActionStatus, attempt : Nat, imported : BOOLEAN]
\* Whether the prompt an outcome asks for keeps within the limits of
\* composeOrchestrationPrompt.
Prompt == {"fits", "too long"}
AgentRow == [run : Run, action : Action, phase : Phase, attempt : Nat, parent : Nat,
             status : AgentStatus, task : TaskStatus, claimed : BOOLEAN, outcome : Outcome,
             prompt : Prompt]
FeedbackRow == [agent : Nat, source : FeedbackSource]

\* The pump awaits (and HTTP handlers may run), or it is between two
\* iterations of its loop, or the process is down or booting.
AwaitPoint == {"idle", "execute", "finalize", "cleanup"}
PumpPoint == AwaitPoint \cup {"loop", "off", "exited", "recover", "restore", "requeue",
                             "boot", "bootFinalize", "bootCleanup"}
CallPoint == {"none", "apply", "progress", "dispatch", "shutdown"}
HeldRow == [run : Run \cup {NoRun}, task : Nat]
CallRow == [at : CallPoint, run : Run \cup {NoRun}, task : Nat]

NoCall == [at |-> "none", run |-> NoRun, task |-> 0]
Nothing == [run |-> NoRun, task |-> 0]

\* The status an Action has while an Agent of the given phase is live.
StatusDuring(phase) ==
  CASE phase = "precheck" -> "prechecking"
    [] phase = "work" -> "working"
    [] phase = "postwork" -> "postchecking"

-----------------------------------------------------------------------------
(* Reading the store.                                                      *)

Open(r) == run[r].status \in {"pending", "running"}
ActionsIn(s) == {a \in Action : StateOf[a] = s}
\* Faulty: one finished Action is enough.
SomeDone(r, s) == \E a \in ActionsIn(s) : action[r][a].status = "done"

AllDone(r, s) == \A a \in ActionsIn(s) : action[r][a].status = "done"
StatesDone(r) == \A s \in State : state[r][s] = "done"

\* FlowCoordinator.firstOpenState and firstOpenAction.
FirstOpenState(r, s) ==
  /\ state[r][s] # "done"
  /\ \A t \in State : t < s => state[r][t] = "done"

\* Faulty: any unfinished Action of the State, priority ignored.
SomeOpenAction(r, s, a) ==
  /\ StateOf[a] = s
  /\ action[r][a].status # "done"

FirstOpenAction(r, s, a) ==
  /\ StateOf[a] = s
  /\ action[r][a].status # "done"
  /\ \A b \in ActionsIn(s) : b < a => action[r][b].status = "done"

\* EnvironmentRunPlanner.transitionLimit for a uniform maxRetries.
TransitionLimit == 16 + NumActions * (4 + MaxRetries * 3)

\* ControlFlowStore.append, n times inside one transaction.
CountAfter(r, n) == run[r].count + n
Admits(r, n) == CountAfter(r, n) <= TransitionLimit

EventLoopFree == call = NoCall
Listening == pc \in AwaitPoint /\ EventLoopFree

Questions(r) ==
  Cardinality({i \in DOMAIN agent : agent[i].run = r /\ agent[i].outcome = "needs_input"})

-----------------------------------------------------------------------------
Init ==
  /\ run = [r \in Run |-> [status |-> "absent", final |-> "none", count |-> 0,
                           state |-> 0, action |-> 0, agent |-> 0]]
  /\ state = [r \in Run |-> [s \in State |-> "pending"]]
  /\ action = [r \in Run |-> [a \in Action |->
                 [status |-> "pending", attempt |-> 0, imported |-> FALSE]]]
  /\ agent = <<>>
  /\ feedback = {}
  /\ queue = <<>>
  /\ pc = "idle"
  /\ held = Nothing
  /\ call = NoCall
  /\ stopping = FALSE
  /\ crashes = 0

-----------------------------------------------------------------------------
(* The end of the process.                                                 *)

End(point) ==
  /\ queue' = <<>>
  /\ pc' = point
  /\ held' = Nothing
  /\ call' = NoCall
  /\ stopping' = FALSE

\* An unhandled rejection of the pump or of the boot sequence, or a crash.
Die == End("off")

(* EnvironmentRuntimeService.start; "imported" are the Actions whose done   *)
(* evidence a continuation takes over from a terminal parent.  Its target   *)
(* Action is always executed again.                                         *)

DoneIn(r) == {a \in Action : action[r][a].status = "done"}
Importable ==
  {{}} \cup ((UNION {SUBSET DoneIn(p) : p \in {q \in Run : run[q].status \in TerminalStatus}})
             \ {Action})

Start(r, imported) ==
  /\ Listening
  /\ run[r].status = "absent"
  /\ run' = [run EXCEPT ![r] = [@ EXCEPT !.status = "pending",
                                         !.count = 1 + Cardinality(imported)]]
  /\ state' = [state EXCEPT ![r] =
       [s \in State |-> IF ActionsIn(s) \subseteq imported THEN "done" ELSE "pending"]]
  /\ action' = [action EXCEPT ![r] = [a \in Action |->
       [status |-> IF a \in imported THEN "done" ELSE "pending", attempt |-> 0,
        imported |-> a \in imported]]]
  /\ call' = [at |-> "progress", run |-> r, task |-> 0]
  /\ UNCHANGED <<agent, feedback, queue, pc, held, stopping, crashes>>

-----------------------------------------------------------------------------
(* EnvironmentRuntimeService.progress, one commit per step.                 *)

Progressing(r) == call.at = "progress" /\ call.run = r
FinishedState(r, s) == state[r][s] = "running" /\ AllDone(r, s)

\* The Run is over: nothing to progress.
ProgressReturns(r) ==
  /\ Progressing(r) /\ ~Open(r)
  /\ call' = NoCall
  /\ UNCHANGED <<durable, queue, pc, held, stopping, crashes>>

CompleteState(r, s) ==
  /\ Progressing(r) /\ Open(r) /\ FinishedState(r, s) /\ Admits(r, 1)
  /\ state' = [state EXCEPT ![r][s] = "done"]
  /\ run' = [run EXCEPT ![r] = [@ EXCEPT !.state = 0, !.action = 0, !.agent = 0,
                                         !.count = CountAfter(r, 1)]]
  /\ UNCHANGED <<action, agent, feedback, volatile, crashes>>

\* The synchronous part of progress ends where the finalizer is awaited.
ClaimFinalization(r) ==
  /\ Progressing(r) /\ StatesDone(r)
  /\ run[r].status = "running" /\ run[r].final \in {"none", "failed"}
  /\ run[r].state = 0 /\ run[r].action = 0 /\ run[r].agent = 0
  /\ run' = [run EXCEPT ![r] = [@ EXCEPT !.final = "running"]]
  /\ pc' = IF pc = "boot" THEN "bootFinalize" ELSE "finalize"
  /\ held' = [run |-> r, task |-> 0]
  /\ call' = NoCall
  /\ UNCHANGED <<state, action, agent, feedback, queue, stopping, crashes>>

Selectable(r, s, a) ==
  /\ Progressing(r) /\ Open(r) /\ run[r].action = 0 /\ run[r].agent = 0
  /\ \A t \in State : ~FinishedState(r, t)
  /\ FirstOpenState(r, s) /\ state[r][s] \in {"pending", "running"}
  /\ FirstOpenAction(r, s, a) /\ action[r][a].status = "pending"

\* state_activated, when the State is new, and action_selected.
SelectionEvents(r, s) == IF state[r][s] = "pending" THEN 2 ELSE 1

Advance(r, s, a) ==
  /\ Selectable(r, s, a) /\ Admits(r, SelectionEvents(r, s))
  /\ run' = [run EXCEPT ![r] = [@ EXCEPT !.status = "running", !.state = s, !.action = a,
                                         !.count = CountAfter(r, SelectionEvents(r, s))]]
  /\ state' = [state EXCEPT ![r][s] = "running"]
  /\ action' = [action EXCEPT ![r][a] = [@ EXCEPT !.status = "prechecking"]]
  /\ call' = [call EXCEPT !.at = "dispatch"]
  /\ UNCHANGED <<agent, feedback, queue, pc, held, stopping, crashes>>

NewAgent(r, a, phase, parent) ==
  [run |-> r, action |-> a, phase |-> phase, attempt |-> action[r][a].attempt + 1,
   parent |-> parent, status |-> "queued", task |-> "queued", claimed |-> FALSE,
   outcome |-> "none", prompt |-> "fits"]

\* createPrecheck and createTask commit together; the enqueue follows.
DispatchPrecheck(r, a) ==
  /\ call.at = "dispatch" /\ call.run = r /\ Admits(r, 1)
  /\ run[r].action = a /\ action[r][a].status = "prechecking"
  /\ agent' = Append(agent, NewAgent(r, a, "precheck", 0))
  /\ run' = [run EXCEPT ![r] = [@ EXCEPT !.agent = Len(agent) + 1, !.count = CountAfter(r, 1)]]
  /\ queue' = Append(queue, Len(agent) + 1)
  /\ call' = NoCall
  /\ UNCHANGED <<state, action, feedback, pc, held, stopping, crashes>>

\* The Validation's prompt is too long: create throws after advance has
\* committed.  A request that starts the Run is answered with the error; the
\* pump and the boot sequence die of it.
PrecheckTooLong(r) ==
  /\ call.at = "dispatch" /\ call.run = r
  /\ IF pc \in AwaitPoint
     THEN call' = NoCall /\ UNCHANGED <<queue, pc, held, stopping>>
     ELSE Die
  /\ UNCHANGED <<durable, crashes>>

\* The transition limit refuses an event: the exception leaves the pump.
ProgressRefused(r) ==
  /\ \/ \E s \in State : Progressing(r) /\ Open(r) /\ FinishedState(r, s) /\ ~Admits(r, 1)
     \/ \E s \in State, a \in Action :
          Selectable(r, s, a) /\ ~Admits(r, SelectionEvents(r, s))
     \/ call.at = "dispatch" /\ call.run = r /\ ~Admits(r, 1)
  /\ Die
  /\ UNCHANGED <<durable, crashes>>

-----------------------------------------------------------------------------
(* The pump: processNext.                                                  *)

Live(i) == agent[i].status \in LiveStatus
Applying(i) == call.at = "apply" /\ call.task = i
ApplyCall(i) == [at |-> "apply", run |-> agent[i].run, task |-> i]

PumpReady == pc \in {"idle", "loop"} /\ EventLoopFree /\ ~stopping

\* A task that was already answered before the restart: apply its outcome.
TakeAnswered(i) ==
  /\ PumpReady /\ queue # <<>> /\ i = Head(queue)
  /\ agent[i].task \in {"succeeded", "failed"}
  /\ queue' = Tail(queue)
  /\ pc' = "loop"
  /\ call' = ApplyCall(i)
  /\ UNCHANGED <<durable, held, stopping, crashes>>

\* claimTask when it is queued, then provider.execute is awaited.
TakeRunnable(i) ==
  /\ PumpReady /\ queue # <<>> /\ i = Head(queue)
  /\ agent[i].task \in {"queued", "running"} /\ Open(agent[i].run)
  /\ queue' = Tail(queue)
  /\ agent' = [agent EXCEPT ![i] = [@ EXCEPT !.task = "running", !.status = "running"]]
  /\ pc' = "execute"
  /\ held' = [run |-> agent[i].run, task |-> i]
  /\ UNCHANGED <<run, state, action, feedback, call, stopping, crashes>>

\* The task was cancelled while it waited in the queue.
TakeCancelled(i) ==
  /\ PumpReady /\ queue # <<>> /\ i = Head(queue)
  /\ agent[i].task = "cancelled"
  /\ queue' = Tail(queue)
  /\ pc' = "loop"
  /\ UNCHANGED <<durable, held, call, stopping, crashes>>

\* The loop of the pump ends; HTTP handlers may run again.
PumpRests ==
  /\ pc = "loop" /\ EventLoopFree /\ (queue = <<>> \/ stopping)
  /\ pc' = "idle"
  /\ UNCHANGED <<durable, queue, held, call, stopping, crashes>>

\* LocalDaemonStore.claim: the claim outlives a restart of the server.
DaemonClaim(i) ==
  /\ Listening
  /\ agent[i].task = "running" /\ ~agent[i].claimed
  /\ agent' = [agent EXCEPT ![i] = [@ EXCEPT !.claimed = TRUE]]
  /\ UNCHANGED <<run, state, action, feedback, volatile, crashes>>

\* What a provider may answer in each phase; anything else is "invalid".
Answers(phase) ==
  Failure \cup
  CASE phase = "precheck" -> {"done", "delegate", "blocked"}
    [] phase = "work" -> {"completed", "needs_input"}
    [] phase = "postwork" -> {"done", "retry", "blocked"}

\* Only a claimed task has an output; the deadline fails any task.
Terminal(i, o) == o \in Answers(agent[i].phase) /\ (o = "failure" \/ agent[i].claimed)

\* The answer is part of the prompt it asks for.
PromptsFor(o) == IF o \in {"delegate", "completed", "retry"} THEN Prompt ELSE {"fits"}

Executing(i) == pc = "execute" /\ EventLoopFree /\ held.task = i
Returned == pc' = "loop" /\ held' = Nothing

\* Shutdown began or the Run was stopped during the execution.
ProviderIgnored(i) ==
  /\ Executing(i) /\ (stopping \/ ~Open(agent[i].run))
  /\ Returned
  /\ UNCHANGED <<durable, queue, call, stopping, crashes>>

\* finishTask; the outcome is applied in a second transaction.
ProviderAnswers(i, o) ==
  /\ Executing(i) /\ ~stopping /\ Open(agent[i].run)
  /\ Terminal(i, o) /\ o # "needs_input"
  /\ \E p \in PromptsFor(o) :
       agent' = [agent EXCEPT ![i] = [@ EXCEPT !.outcome = o, !.prompt = p,
                   !.task = IF o \in Failure THEN "failed" ELSE "succeeded"]]
  /\ Returned
  /\ call' = ApplyCall(i)
  /\ UNCHANGED <<run, state, action, feedback, queue, stopping, crashes>>

\* waitForWorkInput: task and Agent wait for the human together.
WorkAsks(i) ==
  /\ Executing(i) /\ ~stopping /\ Open(agent[i].run)
  /\ Terminal(i, "needs_input") /\ Questions(agent[i].run) < MaxQuestions
  /\ Admits(agent[i].run, 1)
  /\ agent' = [agent EXCEPT ![i] = [@ EXCEPT
                 !.outcome = "needs_input",
                 !.status = "waiting_for_input", !.task = "waiting_for_input"]]
  /\ run' = [run EXCEPT ![agent[i].run] = [@ EXCEPT !.count = CountAfter(agent[i].run, 1)]]
  /\ Returned
  /\ UNCHANGED <<state, action, feedback, queue, call, stopping, crashes>>

WorkAskRefused(i) ==
  /\ Executing(i) /\ ~stopping /\ Open(agent[i].run)
  /\ Terminal(i, "needs_input") /\ Questions(agent[i].run) < MaxQuestions
  /\ ~Admits(agent[i].run, 1)
  /\ Die
  /\ UNCHANGED <<durable, crashes>>

-----------------------------------------------------------------------------
(* Applying a persisted outcome: applyOutcome, applyProviderFailure and     *)
(* blockInvalid with the transaction of ActionOutcomeCoordinator they run.  *)

AttemptOf(i) == action[agent[i].run][agent[i].action].attempt
\* Faulty: off by one.
OneRetryTooMany(i) == AttemptOf(i) <= MaxRetries + 1

RetryLeft(i) == AttemptOf(i) < MaxRetries + 1

Finishes(i) == agent[i].outcome = "done"

Continues(i) ==
  \/ agent[i].outcome \in {"delegate", "completed"}
  \/ agent[i].outcome = "retry" /\ RetryLeft(i)

NextPhase(i) == IF agent[i].phase = "work" THEN "postwork" ELSE "work"

BlockSource(i) ==
  CASE agent[i].outcome = "blocked" -> "validation_blocked"
    [] agent[i].outcome = "retry" -> "retry_exhaustion"
    [] agent[i].outcome = "failure" /\ agent[i].phase = "work" -> "provider_failure"
    [] OTHER -> "system_invalid_output"

\* Control-flow events of the transaction.
ApplyEvents(i) ==
  IF Finishes(i) THEN (IF agent[i].phase = "precheck" THEN 2 ELSE 1)
  ELSE IF Continues(i) THEN 2
  ELSE IF agent[i].outcome = "blocked" /\ agent[i].phase = "precheck" THEN 4
  ELSE IF BlockSource(i) = "provider_failure" THEN 4 ELSE 3

\* dispatches.create returns.
Composed(i) == Continues(i) => agent[i].prompt = "fits"

Applicable(i) ==
  /\ Applying(i) /\ Live(i) /\ Composed(i)
  /\ Admits(agent[i].run, ApplyEvents(i))

\* Faulty: nothing progresses the Run.
ForgottenProgress(i) == NoCall

AttemptAfter(i) == IF NextPhase(i) = "postwork" THEN AttemptOf(i) + 1 ELSE AttemptOf(i)

ProgressCall(i) == [at |-> "progress", run |-> agent[i].run, task |-> 0]

FinishAction(i) ==
  /\ Applicable(i) /\ Finishes(i)
  /\ agent' = [agent EXCEPT ![i] = [@ EXCEPT !.status = "completed"]]
  /\ action' = [action EXCEPT ![agent[i].run][agent[i].action] = [@ EXCEPT !.status = "done"]]
  /\ run' = [run EXCEPT ![agent[i].run] = [@ EXCEPT !.action = 0, !.agent = 0,
                                                    !.count = CountAfter(agent[i].run, ApplyEvents(i))]]
  /\ call' = ProgressCall(i)
  /\ UNCHANGED <<state, feedback, queue, pc, held, stopping, crashes>>

\* completeAgent, createAgent, updateActiveAgent and createTask, then the
\* enqueue.  The Work attempt is counted when its result is applied.
DispatchNext(i) ==
  /\ Applicable(i) /\ Continues(i)
  /\ LET r == agent[i].run
         a == agent[i].action
         phase == NextPhase(i)
     IN /\ agent' = Append([agent EXCEPT ![i] = [@ EXCEPT !.status = "completed"]],
                           NewAgent(r, a, phase, i))
        /\ action' = [action EXCEPT ![r][a] =
             [@ EXCEPT !.status = StatusDuring(phase), !.attempt = AttemptAfter(i)]]
        /\ run' = [run EXCEPT ![r] = [@ EXCEPT !.agent = Len(agent) + 1,
                                               !.count = CountAfter(r, ApplyEvents(i))]]
  /\ queue' = Append(queue, Len(agent) + 1)
  /\ call' = NoCall
  /\ UNCHANGED <<state, feedback, pc, held, stopping, crashes>>

\* The Feedback id is derived from the Agent, so it is written once.
BlockAction(i) ==
  /\ Applicable(i) /\ ~Finishes(i) /\ ~Continues(i)
  /\ LET r == agent[i].run
         a == agent[i].action
     IN /\ agent' = [agent EXCEPT ![i] = [@ EXCEPT
              !.status = IF agent[i].outcome \in Failure THEN "failed" ELSE "completed"]]
        /\ action' = [action EXCEPT ![r][a] = [@ EXCEPT !.status = "blocked"]]
        /\ state' = [state EXCEPT ![r][StateOf[a]] = "blocked"]
        /\ run' = [run EXCEPT ![r] = [@ EXCEPT !.status = "blocked", !.action = 0,
                                               !.agent = 0, !.count = CountAfter(r, ApplyEvents(i))]]
  /\ feedback' = feedback \cup {[agent |-> i, source |-> BlockSource(i)]}
  /\ call' = IF agent[i].outcome \in Failure THEN NoCall ELSE ProgressCall(i)
  /\ UNCHANGED <<queue, pc, held, stopping, crashes>>

\* Faulty: the Agent's outcome is not rolled back with the refused events.
RefusedHalfway(i) ==
  /\ Applying(i) /\ Live(i) /\ ~Admits(agent[i].run, ApplyEvents(i))
  /\ agent' = [agent EXCEPT ![i] = [@ EXCEPT !.status = "completed"]]
  /\ Die
  /\ UNCHANGED <<run, state, action, feedback, crashes>>

\* The next prompt is too long, completeAgent finds a stopped Agent, or the
\* transition limit refuses.  The task stays answered: a restart applies it again.
ApplyRefused(i) ==
  /\ Applying(i) /\ ~(Live(i) /\ Composed(i) /\ Admits(agent[i].run, ApplyEvents(i)))
  /\ Die
  /\ UNCHANGED <<durable, crashes>>

-----------------------------------------------------------------------------
(* After "await this.finalizer.finalize(...)" of progress.  HTTP handlers   *)
(* run while the pump awaits, so the claimed revision may be stale.         *)

Finalizing(r) == pc \in {"finalize", "bootFinalize"} /\ EventLoopFree /\ held.run = r
ClaimHolds(r) == run[r].status = "running" /\ run[r].final = "running"
Booting == pc \in {"bootFinalize", "bootCleanup"}

FinalizeSucceeds(r) ==
  /\ Finalizing(r) /\ ClaimHolds(r) /\ Admits(r, 1)
  /\ run' = [run EXCEPT ![r] = [@ EXCEPT !.status = "completed", !.final = "completed",
                                         !.count = CountAfter(r, 1)]]
  /\ pc' = IF Booting THEN "bootCleanup" ELSE "cleanup"
  /\ held' = Nothing
  /\ UNCHANGED <<state, action, agent, feedback, queue, call, stopping, crashes>>

\* "await this.finalizer.cleanup": the worktree of the completed Run is removed,
\* or git fails and the exception ends the process.
Cleaning == pc \in {"cleanup", "bootCleanup"} /\ EventLoopFree

CleanupEnds ==
  /\ Cleaning
  /\ pc' = IF Booting THEN "boot" ELSE "loop"
  /\ UNCHANGED <<durable, queue, held, call, stopping, crashes>>

CleanupFails ==
  /\ Cleaning
  /\ Die
  /\ UNCHANGED <<durable, crashes>>

\* The finalizer or the event fails: failFinalization, then the rethrow ends
\* the process.
FinalizeFails(r) ==
  /\ Finalizing(r) /\ ClaimHolds(r)
  /\ run' = [run EXCEPT ![r] = [@ EXCEPT !.final = "failed"]]
  /\ Die
  /\ UNCHANGED <<state, action, agent, feedback, crashes>>

\* The Run was stopped meanwhile: completeEnvironment and failFinalization
\* both refuse the stale revision.
FinalizeStale(r) ==
  /\ Finalizing(r) /\ ~ClaimHolds(r)
  /\ Die
  /\ UNCHANGED <<durable, crashes>>

-----------------------------------------------------------------------------
(* FlowCoordinator.stop, for a cancellation and for the shutdown.           *)

StopAgent(i, kind) ==
  [agent[i] EXCEPT
    !.status = IF @ \in LiveStatus \cup {"waiting_for_input"} THEN kind ELSE @,
    !.task = IF @ \in {"queued", "running", "waiting_for_input"} THEN "cancelled" ELSE @]

Stop(r, kind) ==
  /\ Open(r) /\ Admits(r, 1)
  /\ agent' = IF run[r].agent = 0 THEN agent
              ELSE [agent EXCEPT ![run[r].agent] = StopAgent(run[r].agent, kind)]
  /\ action' = IF run[r].action = 0 THEN action
               ELSE [action EXCEPT ![r][run[r].action] = [@ EXCEPT !.status = kind]]
  /\ state' = IF run[r].state = 0 THEN state ELSE [state EXCEPT ![r][run[r].state] = kind]
  /\ run' = [run EXCEPT ![r] = [@ EXCEPT !.status = kind, !.state = 0, !.action = 0,
                                         !.agent = 0, !.count = CountAfter(r, 1)]]

Cancel(r) ==
  /\ Listening
  /\ Stop(r, "cancelled")
  /\ UNCHANGED <<feedback, volatile, crashes>>

\* The same Work attempt goes on with a new Agent.
ResumeWorkInput(i) ==
  LET r == agent[i].run
      a == agent[i].action
  IN /\ Admits(r, 2)
     /\ agent' = Append([agent EXCEPT ![i] = [@ EXCEPT !.status = "completed",
                                                       !.task = "succeeded"]],
                        NewAgent(r, a, "work", i))
     /\ run' = [run EXCEPT ![r] = [@ EXCEPT !.agent = Len(agent) + 1, !.count = CountAfter(r, 2)]]

\* A response whose prompt is too long is refused and changes nothing.
Answer(i) ==
  /\ Listening
  /\ run[agent[i].run].status = "running" /\ run[agent[i].run].agent = i
  /\ agent[i].status = "waiting_for_input"
  /\ ResumeWorkInput(i)
  /\ queue' = Append(queue, Len(agent) + 1)
  /\ UNCHANGED <<state, action, feedback, pc, held, call, stopping, crashes>>

(* EnvironmentRuntimeService.shutdown inside CompositionRoot.shutdown.      *)

HeldCancelled == pc = "execute" /\ agent[held.task].task # "running"

Shutdown ==
  /\ Listening /\ ~stopping /\ ~HeldCancelled
  /\ stopping' = TRUE
  /\ call' = [NoCall EXCEPT !.at = "shutdown"]
  /\ UNCHANGED <<durable, queue, pc, held, crashes>>

\* provider.cancel refuses a task that is no longer running.
ShutdownFails ==
  /\ Listening /\ ~stopping /\ HeldCancelled
  /\ Die
  /\ UNCHANGED <<durable, crashes>>

InterruptRun(r) ==
  /\ call.at = "shutdown"
  /\ Stop(r, "interrupted")
  /\ UNCHANGED <<feedback, volatile, crashes>>

InterruptRefused(r) ==
  /\ call.at = "shutdown"
  /\ Open(r) /\ ~Admits(r, 1)
  /\ Die
  /\ UNCHANGED <<durable, crashes>>

InterruptsDone ==
  /\ call.at = "shutdown" /\ \A r \in Run : ~Open(r)
  /\ call' = NoCall
  /\ UNCHANGED <<durable, queue, pc, held, stopping, crashes>>

\* The server waits until the pump is out of its loop, then exits.
ShutdownExits ==
  /\ stopping /\ pc = "idle" /\ EventLoopFree
  /\ End("exited")
  /\ UNCHANGED <<durable, crashes>>

-----------------------------------------------------------------------------
(* Crash, restart and EnvironmentRuntimeService.reconcile.                  *)

Crash ==
  /\ pc \notin {"off", "exited"} /\ crashes < MaxCrashes
  /\ Die
  /\ crashes' = crashes + 1
  /\ UNCHANGED durable

\* KeepAlive: launchd starts the process again unless it exited cleanly.
Restart ==
  /\ pc = "off"
  /\ pc' = "recover"
  /\ UNCHANGED <<durable, queue, held, call, stopping, crashes>>

\* After a clean exit somebody starts the server.
StartServer ==
  /\ pc = "exited"
  /\ pc' = "recover"
  /\ UNCHANGED <<durable, queue, held, call, stopping, crashes>>

Unclaimed(i) == agent[i].task \in {"running", "queued"} /\ ~agent[i].claimed

\* recoverAfterRestart: what no daemon claimed is queued again.
RecoverTasks ==
  /\ pc = "recover"
  /\ agent' = [i \in DOMAIN agent |->
       IF Unclaimed(i)
       THEN [agent[i] EXCEPT !.task = "queued",
                             !.status = IF @ = "running" THEN "queued" ELSE @]
       ELSE agent[i]]
  /\ pc' = "restore"
  /\ UNCHANGED <<run, state, action, feedback, queue, held, call, stopping, crashes>>

RecoverFinalizations ==
  /\ pc = "restore"
  /\ run' = [r \in Run |->
       IF ClaimHolds(r) THEN [run[r] EXCEPT !.final = "failed"] ELSE run[r]]
  /\ pc' = "requeue"
  /\ UNCHANGED <<state, action, agent, feedback, queue, held, call, stopping, crashes>>

\* Faulty: an answered task is not applied after a restart.
UnansweredOnly(i) == agent[i].task \in {"queued", "running"} /\ Live(i)

\* recoverableTasks.
Recoverable(i) == agent[i].task \in {"queued", "running", "succeeded", "failed"} /\ Live(i)

InQueue(i) == \E n \in DOMAIN queue : queue[n] = i

\* The oldest recoverable task that is not queued yet.
RequeueTask(i) ==
  /\ pc = "requeue" /\ Recoverable(i) /\ ~InQueue(i)
  /\ \A j \in DOMAIN agent : j < i /\ Recoverable(j) => InQueue(j)
  /\ queue' = Append(queue, i)
  /\ UNCHANGED <<durable, pc, held, call, stopping, crashes>>

RequeueEnds ==
  /\ pc = "requeue" /\ \A i \in DOMAIN agent : Recoverable(i) => InQueue(i)
  /\ pc' = "boot"
  /\ UNCHANGED <<durable, queue, held, call, stopping, crashes>>

Finalizable(r) ==
  /\ run[r].status = "running" /\ run[r].state = 0 /\ run[r].action = 0 /\ run[r].agent = 0
  /\ run[r].final \in {"none", "failed"} /\ StatesDone(r)

ResumeFinalization(r) ==
  /\ pc = "boot" /\ EventLoopFree /\ Finalizable(r)
  /\ call' = [at |-> "progress", run |-> r, task |-> 0]
  /\ UNCHANGED <<durable, queue, pc, held, stopping, crashes>>

\* The first pump call runs before the HTTP server listens.
Boot ==
  /\ pc = "boot" /\ EventLoopFree /\ \A r \in Run : ~Finalizable(r)
  /\ pc' = "loop"
  /\ UNCHANGED <<durable, queue, held, call, stopping, crashes>>

-----------------------------------------------------------------------------
AgentId == DOMAIN agent

ProgressStep(r) ==
  \/ ProgressReturns(r)
  \/ \E s \in State : CompleteState(r, s)
  \/ ClaimFinalization(r)
  \/ \E a \in Action : DispatchPrecheck(r, a) \/ \E s \in State : Advance(r, s, a)
  \/ PrecheckTooLong(r) \/ ProgressRefused(r)

PumpStep ==
  \/ \E i \in AgentId : TakeAnswered(i) \/ TakeRunnable(i) \/ TakeCancelled(i)
  \/ PumpRests

ProviderStep ==
  \E i \in AgentId :
    \/ ProviderIgnored(i)
    \/ \E o \in Outcome : ProviderAnswers(i, o)
    \/ WorkAsks(i)
    \/ WorkAskRefused(i)

ApplyStep ==
  \E i \in AgentId : FinishAction(i) \/ DispatchNext(i) \/ BlockAction(i) \/ ApplyRefused(i)

FinalizeStep(r) == FinalizeSucceeds(r) \/ FinalizeFails(r) \/ FinalizeStale(r)

CleanupStep == CleanupEnds \/ CleanupFails

HttpStep ==
  \/ \E r \in Run : Cancel(r) \/ \E imported \in Importable : Start(r, imported)
  \/ \E i \in AgentId : Answer(i)

ShutdownStep ==
  \/ \E r \in Run : InterruptRun(r) \/ InterruptRefused(r)
  \/ InterruptsDone
  \/ ShutdownExits

BootStep ==
  \/ Restart \/ RecoverTasks \/ RecoverFinalizations \/ RequeueEnds \/ Boot
  \/ \E i \in AgentId : RequeueTask(i)
  \/ \E r \in Run : ResumeFinalization(r)

Next ==
  \/ \E r \in Run : ProgressStep(r) \/ FinalizeStep(r)
  \/ PumpStep \/ ProviderStep \/ ApplyStep \/ CleanupStep
  \/ \E i \in AgentId : DaemonClaim(i)
  \/ HttpStep \/ Shutdown \/ ShutdownFails \/ ShutdownStep
  \/ Crash \/ StartServer \/ BootStep

Spec == Init /\ [][Next]_vars

\* The process runs its own code, the worker timer fires, a provider wait ends
\* at its 30-minute deadline and launchd restarts a process that died.  Nothing
\* is assumed of users, signals or crashes; a finalizer that is tried again and
\* again succeeds at last.
Fairness ==
  /\ \A r \in Run : WF_vars(ProgressStep(r)) /\ WF_vars(FinalizeStep(r))
                    /\ SF_vars(FinalizeSucceeds(r))
  /\ WF_vars(PumpStep) /\ WF_vars(ProviderStep) /\ WF_vars(ApplyStep) /\ WF_vars(CleanupStep)
  /\ WF_vars(ShutdownStep) /\ WF_vars(BootStep)

FairSpec == Spec /\ Fairness

-----------------------------------------------------------------------------
(* Invariants.                                                             *)

\* Every variable has its type.
TypeOK ==
  /\ run \in [Run -> RunRow]
  /\ state \in [Run -> [State -> StateStatus]]
  /\ action \in [Run -> [Action -> ActionRow]]
  /\ agent \in Seq(AgentRow)
  /\ feedback \subseteq FeedbackRow
  /\ queue \in Seq(Nat)
  /\ pc \in PumpPoint
  /\ held \in HeldRow
  /\ call \in CallRow
  /\ stopping \in BOOLEAN
  /\ crashes \in Nat

\* A gate that is not done keeps every later Action untouched: an Action that
\* was ever selected (and not imported by a continuation) has only done
\* Actions before it, across States, retries, cancellations and restarts.
OrderedExecution ==
  \A r \in Run : \A a, b \in Action :
    /\ a < b
    /\ action[r][b].status # "pending" /\ ~action[r][b].imported
    => action[r][a].status = "done"

Pending(i) == Live(i) \/ agent[i].status = "waiting_for_input"

\* The three pointers of a Run and the rows they point at agree after every
\* commit: an Agent that is queued, running or waiting is the active one of a
\* running Run, and its Action is in the status of the Agent's phase.
ActiveLineage ==
  /\ \A i \in AgentId : Pending(i) =>
       LET r == agent[i].run
           a == agent[i].action
       IN /\ run[r].status = "running" /\ run[r].action = a /\ run[r].agent = i
          /\ action[r][a].status = StatusDuring(agent[i].phase)
  /\ \A r \in Run :
       /\ run[r].agent # 0 =>
            run[r].agent \in AgentId /\ agent[run[r].agent].run = r /\ Pending(run[r].agent)
       /\ \A a \in Action : action[r][a].status \in ActiveStatus <=> run[r].action = a

\* Every Agent is caused by one earlier outcome of the same Action, no outcome
\* causes two Agents, and the attempt number only grows where a retry asks.
CausedBy(i, p) ==
  /\ p \in AgentId /\ p < i
  /\ agent[p].run = agent[i].run /\ agent[p].action = agent[i].action
  /\ agent[p].status = "completed"
  /\ <<agent[p].phase, agent[p].outcome, agent[i].phase, agent[i].attempt - agent[p].attempt>> \in
       {<<"precheck", "delegate", "work", 0>>, <<"work", "completed", "postwork", 0>>,
        <<"work", "needs_input", "work", 0>>, <<"postwork", "retry", "work", 1>>}

CausalChain ==
  \A i \in AgentId :
    /\ agent[i].phase = "precheck" => agent[i].parent = 0 /\ agent[i].attempt = 1
    /\ agent[i].phase # "precheck" => CausedBy(i, agent[i].parent)
    /\ \A j \in AgentId : i # j =>
         <<agent[i].run, agent[i].action, agent[i].parent>>
           # <<agent[j].run, agent[j].action, agent[j].parent>>

\* workAttempt counts exactly the Work results that reached postwork
\* Validation, and never exceeds maxRetries + 1.
AttemptsCounted ==
  \A r \in Run, a \in Action :
    /\ action[r][a].attempt <= MaxRetries + 1
    /\ action[r][a].attempt = Cardinality({i \in AgentId :
         agent[i].run = r /\ agent[i].action = a /\ agent[i].phase = "postwork"})

\* A blocked Run has exactly one blocked Action and exactly one Feedback,
\* raised by the last Agent of that Action for the reason its outcome gives;
\* no other Run has any.
FeedbackOf(r) == {f \in feedback : agent[f.agent].run = r}
BlockedIn(r) == {a \in Action : action[r][a].status = "blocked"}
Justified(f) ==
  LET x == agent[f.agent] IN
  CASE f.source = "validation_blocked" -> x.outcome = "blocked"
    [] f.source = "retry_exhaustion" -> x.outcome = "retry" /\ x.attempt = MaxRetries + 1
    [] f.source = "provider_failure" -> x.outcome = "failure" /\ x.phase = "work"
    [] f.source = "system_invalid_output" -> x.outcome \in Failure

BlockedHasFeedback ==
  \A r \in Run :
    IF run[r].status = "blocked"
    THEN \E f \in feedback :
           /\ FeedbackOf(r) = {f} /\ Justified(f)
           /\ BlockedIn(r) = {agent[f.agent].action}
           /\ \A i \in AgentId : agent[i].run = r => i <= f.agent
    ELSE FeedbackOf(r) = {} /\ BlockedIn(r) = {}

\* Work in progress is never forgotten by the process that owns it: while the
\* pump runs, every live Agent is the one awaited or is queued exactly once.
Scheduled ==
  pc \in AwaitPoint \cup {"loop"} /\ EventLoopFree =>
    \A i \in AgentId : Live(i) =>
      Cardinality({n \in DOMAIN queue : queue[n] = i}) + (IF held.task = i THEN 1 ELSE 0) = 1

\* A completed Run is finalized, every State and Action is done, and an Action
\* it did not import was finished by a Validation that answered "done".
CompletionSound ==
  \A r \in Run : run[r].status = "completed" =>
    /\ run[r].final = "completed" /\ StatesDone(r)
    /\ \A a \in Action :
         /\ action[r][a].status = "done"
         /\ action[r][a].imported \/ \E i \in AgentId :
              /\ agent[i].run = r /\ agent[i].action = a
              /\ agent[i].status = "completed" /\ agent[i].outcome = "done"

\* The history of a Run accounts for where it is: no outcome is applied twice
\* and no Agent dispatched twice, attempts count Work results, a block has its
\* one Feedback and a completion its Validations, over every retry, question,
\* crash and restart.
OutcomesAccounted == CausalChain /\ AttemptsCounted /\ BlockedHasFeedback /\ CompletionSound

-----------------------------------------------------------------------------
(* Liveness, under FairSpec.                                               *)

Waiting(r) == run[r].agent # 0 /\ agent[run[r].agent].status = "waiting_for_input"

\* Every Run that is open ends or waits for its human, unless the server is
\* shut down and nobody starts it again.
EveryRunSettles == \A r \in Run : Open(r) ~> (~Open(r) \/ Waiting(r) \/ pc = "exited")

\* The transition limit has room for the largest step of every Run.
LargestStep == 4
WithinLimit == \A r \in Run : Admits(r, LargestStep)

\* No recorded answer asks for a prompt that is too long: such an answer kills
\* the process, and again at every start (ApplyRefused).
AnswersFit == \A i \in AgentId : Live(i) => agent[i].prompt = "fits"

\* No selected Action is without its Validation because its prompt is too long:
\* nothing would ever dispatch it again (PrecheckTooLong).
SelectionsFit == \A r \in Run : run[r].action # 0 /\ run[r].agent = 0 => call.at = "dispatch"

\* The same, as long as the process never dies between two commits, no step is
\* refused by the transition limit and no prompt is too long.  With a prompt
\* that is too long the code keeps the Run open for ever.
SettlesWithinLimit ==
  [](crashes = 0 /\ WithinLimit /\ AnswersFit /\ SelectionsFit) => EveryRunSettles

\* A dispatched Agent does not stay queued or running for ever, at whatever
\* commit the server crashes or a first prompt is too long, unless the
\* transition limit refuses a step or an answer whose next prompt is too long
\* stays: that one kills every process that applies it, before what is queued
\* behind it is taken.
Idle(r) == \A i \in AgentId : agent[i].run = r => ~Live(i)
DispatchSettles ==
  []WithinLimit /\ <>[]AnswersFit => \A r \in Run : ~Idle(r) ~> (Idle(r) \/ pc = "exited")

-----------------------------------------------------------------------------
(* The Run keeps its contract.                                             *)

ContractStatus(s) ==
  CASE s \in {"pending", "running"} -> "open"
    [] s \in {"cancelled", "interrupted"} -> "stopped"
    [] OTHER -> s
ContractStep(s) ==
  CASE s \in ActiveStatus -> "doing"
    [] s = "pending" -> "waiting"
    [] s \in {"cancelled", "interrupted"} -> "stopped"
    [] OTHER -> s

ContractStatuses == [r \in Run |-> ContractStatus(run[r].status)]
ContractSteps == [r \in Run |-> [a \in Action |-> ContractStep(action[r][a].status)]]
ContractAttempts == [r \in Run |-> [a \in Action |-> action[r][a].attempt]]
ContractReports == [r \in Run |-> {agent[f.agent].action : f \in FeedbackOf(r)}]

Contract == INSTANCE RunContract WITH
  status <- ContractStatuses, step <- ContractSteps,
  attempts <- ContractAttempts, reported <- ContractReports

\* Every behaviour of the server is one the contract allows.
KeepsContract == Contract!Spec
=============================================================================
