---------------------------- MODULE GovernanceRun ----------------------------
(***************************************************************************)
(* Critic and Refinement Runs: the schedules that create Critic Runs, the  *)
(* dispatch of one read-only Agent per Run, the application of its answer, *)
(* and what shutdown, death and restart of the server do to them.          *)
(*                                                                         *)
(* SQLite statements are synchronous, so a handler is only interleaved     *)
(* where it awaits: a dispatch awaits its read-only worktree ("jobs") and  *)
(* the pump awaits the provider.  The server may die between any two       *)
(* commits, also inside a handler: a tick that still has a schedule to     *)
(* advance and an answer that is only half applied are states of the model.*)
(*                                                                         *)
(* The clock counts the occurrences of the schedules: the next one after   *)
(* an instant is the next instant.                                         *)
(***************************************************************************)
EXTENDS Naturals, Sequences, FiniteSets

CONSTANTS
  Schedule,     \* the schedules project.json may configure
  Manual,       \* the schedule row of manually requested Critic Runs
  Refinement,   \* Refinement Runs
  Ghost,        \* the id a tick reports for a Critic Run it did not insert
  MaxTime,      \* bound: the last instant
  Events,       \* which of the bounded events below may happen at all
  MaxEvents     \* bound: how many of them happen in a behaviour

Time == 0..MaxTime
Criteria == Schedule \cup {Manual}
CriticRun == Criteria \X Time
Owner == CriticRun \cup Refinement

\* Manual Critic commands, edits of project.json, answers whose application
\* throws, worktrees that cannot be prepared, orderly shutdowns and deaths.
Event == {"manual", "edit", "fault", "failure", "stop", "crash"}

ASSUME GovernanceAssumption ==
  /\ MaxTime \in Nat /\ MaxEvents \in Nat
  /\ Events \subseteq Event
  /\ Manual \notin Schedule
  /\ Refinement \cap CriticRun = {}
  /\ Ghost \notin Owner

VARIABLES
  \* SQLite
  schedule,  \* critic_schedules: config, enabled, next_due_at
  run,       \* critic_runs and refinement_runs: status, agent_run_id, created_at
  agents,    \* agent_runs in their order, each with its execution_task
  proposal,  \* the Agent whose proposal is stored for a Run, 0 if there is none
  evidence,  \* some Run Evidence exists
  \* the project
  config,    \* what project.json says of the Critic
  now,       \* the clock
  \* the server process
  server,    \* how far boot or shutdown has come
  queue,     \* governanceQueue
  pump,      \* GovernanceExecutionService.processNext
  tick,      \* CriticSchedulerService.tick between two commits
  jobs,      \* handlers that await a worktree: the Runs they still dispatch
  dropped,   \* history: the Runs of the handlers that threw since the last start
  count      \* bound: the events so far

store == <<schedule, run, agents, proposal>>
process == <<server, queue, pump, tick, jobs, dropped>>
vars == <<store, evidence, config, now, process, count>>

CriticAnswer == {"clean", "proposal", "unstorable", "invalid"}
RefinementAnswer == {"proposal", "forbidden", "unstorable", "invalid"}
Answers == CriticAnswer \cup RefinementAnswer
AnswersOf(o) == IF o \in Refinement THEN RefinementAnswer ELSE CriticAnswer

ScheduleRow ==
  [config: {"none", "v1", "v2"}, enabled: BOOLEAN, next: 0..MaxTime + 1]
RunRow ==
  [status: {"none", "queued", "running", "completed", "failed", "skipped"},
   agent: Nat, created: Time]
AgentRow ==
  [owner: Owner, status: {"queued", "running", "completed", "failed", "interrupted"},
   task: {"queued", "running", "succeeded", "failed", "cancelled"},
   outcome: {"none"} \cup Answers]

NoTick == [on |-> FALSE, left |-> {}, created |-> {}, made |-> <<>>]
IdlePump == [at |-> "idle", agent |-> 0]

TypeOK ==
  /\ schedule \in [Criteria -> ScheduleRow]
  /\ run \in [Owner -> RunRow]
  /\ agents \in Seq(AgentRow)
  /\ proposal \in [Owner -> 0..Len(agents)]
  /\ evidence \in BOOLEAN
  /\ config \in [readable: BOOLEAN, enabled: BOOLEAN,
                 version: [Schedule -> {"absent", "v1", "v2"}]]
  /\ now \in Time
  /\ server \in {"down", "booting", "recovered", "requeued", "scheduling", "up",
                 "stopping", "released"}
  /\ queue \in Seq(1..Len(agents))
  /\ pump \in [at: {"idle", "executing", "settling", "dying"}, agent: 0..Len(agents)]
  /\ tick \in [on: BOOLEAN, left: SUBSET Schedule, created: SUBSET Schedule,
               made: Seq(Owner \cup {Ghost})]
  /\ jobs \in SUBSET Seq(Owner \cup {Ghost})
  /\ dropped \subseteq Owner
  /\ count \in 0..MaxEvents

Init ==
  /\ schedule = [s \in Criteria |-> [config |-> "none", enabled |-> FALSE, next |-> 0]]
  /\ run = [o \in Owner |-> [status |-> "none", agent |-> 0, created |-> 0]]
  /\ agents = <<>>
  /\ proposal = [o \in Owner |-> 0]
  /\ evidence \in BOOLEAN
  /\ config = [readable |-> TRUE, enabled |-> TRUE, version |-> [s \in Schedule |-> "v1"]]
  /\ now = 0
  /\ server = "down" /\ queue = <<>> /\ pump = IdlePump /\ tick = NoTick /\ jobs = {}
  /\ dropped = {}
  /\ count = 0

-----------------------------------------------------------------------------
(* Rows *)

Active(o) == run[o].status \in {"queued", "running"}

\* An Agent Run without a terminal status.
Live(a) == agents[a].status \in {"queued", "running"}

\* One of the bounded events.
Happens(event) ==
  /\ event \in Events /\ count < MaxEvents
  /\ count' = count + 1

\* HTTP is served and the database open.
Open == server \in {"up", "stopping", "released"}

\* No handler stands between two commits.
Free == ~tick.on /\ pump.at # "settling"

\* The process ends, and with it everything that is not in SQLite.
Gone ==
  /\ server' = "down" /\ queue' = <<>> /\ pump' = IdlePump /\ tick' = NoTick
  /\ jobs' = {} /\ dropped' = {}

-----------------------------------------------------------------------------
(* Dispatch *)

\* queueCritic and queueRefinement only take a queued Run.
Queueable(o) == run[o].status = "queued"

\* persistGovernanceDispatch: Agent, task and Run in one transaction, then the
\* queue.  What the Run was when its worktree was asked for is not read again.
Dispatch(o) ==
  /\ agents' = Append(agents, [owner |-> o, status |-> "queued", task |-> "queued",
                               outcome |-> "none"])
  /\ run' = [run EXCEPT ![o].status = "running", ![o].agent = Len(agents) + 1]
  /\ queue' = Append(queue, Len(agents) + 1)
  /\ UNCHANGED <<schedule, proposal>>

\* A handler is left by a throw, and nothing else dispatches the Runs of its
\* list before the next start of the server.
Drop(list) == dropped' = dropped \cup {o \in Owner : \E i \in DOMAIN list : list[i] = o}

\* A handler goes on with its list: it ends, throws, or awaits the next
\* worktree.  A throw ends a boot; timers and HTTP handlers catch it.
Proceed(list, others) ==
  \/ /\ list = <<>>
     /\ jobs' = others
     /\ server' = IF server = "scheduling" THEN "up" ELSE server
     /\ UNCHANGED dropped
  \/ /\ list # <<>> /\ Head(list) # Ghost /\ Queueable(Head(list))
     /\ jobs' = others \cup {list}
     /\ UNCHANGED <<server, dropped>>
  \/ /\ list # <<>> /\ (IF Head(list) = Ghost THEN TRUE ELSE ~Queueable(Head(list)))
     /\ jobs' = others
     /\ Drop(list)
     /\ server' = IF server = "scheduling" THEN "down" ELSE server

\* prepareReadOnly has succeeded for the first Run of a handler.
Prepared(job) ==
  /\ Free /\ job \in jobs
  /\ Dispatch(Head(job))
  /\ Proceed(Tail(job), jobs \ {job})
  /\ UNCHANGED <<evidence, config, now, pump, tick, count>>

\* prepareReadOnly or the envelope has failed.
PrepareFails(job) ==
  /\ Free /\ job \in jobs
  /\ Happens("failure")
  /\ jobs' = jobs \ {job}
  /\ Drop(job)
  /\ server' = IF server = "scheduling" THEN "down" ELSE server
  /\ UNCHANGED <<store, evidence, config, now, queue, pump, tick>>

-----------------------------------------------------------------------------
(* Schedules *)

NextCriticDue == now + 1

\* Fault: a missed occurrence is made up for, one by one.
NextMissedDue(s) == schedule[s].next + 1

NextDueAfterTick(s) == NextCriticDue

\* configure: schedules that are not configured any more are disabled, the
\* others written when they are new or changed.  Its statements commute and a
\* start after a crash repeats them, so they are one step here.
Configured ==
  [s \in Criteria |->
    IF s = Manual THEN [schedule[s] EXCEPT !.enabled = FALSE]
    ELSE IF config.version[s] = "absent" THEN [schedule[s] EXCEPT !.enabled = FALSE]
    ELSE IF schedule[s].config = config.version[s] /\ schedule[s].enabled = config.enabled
         THEN schedule[s]
    ELSE [config |-> config.version[s], enabled |-> config.enabled, next |-> NextCriticDue]]

\* Fault: only Critic Runs with an Agent count as active.
HasRunningCriticRun(s) == \E d \in Time : run[<<s, d>>].status = "running"

HasActiveCriticRun(s) == \E d \in Time : Active(<<s, d>>)

SchedulesDue == {s \in Schedule : Configured[s].enabled /\ Configured[s].next <= now}

\* configureScheduler and reconcileCritic up to the first commit of a schedule
\* that is due.
Reconcile ==
  /\ schedule' = Configured
  /\ tick' = IF SchedulesDue = {} THEN NoTick
             ELSE [NoTick EXCEPT !.on = TRUE, !.left = SchedulesDue]

\* configureScheduler; a project.json that cannot be read changes nothing.
ConfigureAndTick == IF config.readable THEN Reconcile ELSE UNCHANGED <<schedule, tick>>

\* The scheduler's timer, and POST reconcile while the server runs.
ConfigureScheduler ==
  /\ Free /\ server = "up"
  /\ ConfigureAndTick
  /\ UNCHANGED <<run, agents, proposal, evidence, config, now, server, queue, pump,
                 jobs, dropped, count>>

\* The HTTP command also runs while the server shuts down.
ReconcileCritic ==
  /\ Free /\ Open /\ server # "up"
  /\ config.readable
  /\ Reconcile
  /\ UNCHANGED <<run, agents, proposal, evidence, config, now, server, queue, pump,
                 jobs, dropped, count>>

\* An active Critic Run: the occurrence is dropped.
TickOverlaps(s) ==
  /\ s \in tick.left \ tick.created
  /\ HasActiveCriticRun(s)
  /\ schedule' = [schedule EXCEPT ![s].next = NextDueAfterTick(s)]
  /\ tick' = [tick EXCEPT !.left = @ \ {s}]
  /\ UNCHANGED <<run, agents, proposal, evidence, config, now, server, queue, pump,
                 jobs, dropped, count>>

\* createCriticDue, in one transaction.  An occurrence that has its Critic Run
\* already is left alone, but the tick reports the id it had drawn for it.
CreateCriticDue(s) ==
  LET o == <<s, schedule[s].next>>
  IN /\ s \in tick.left \ tick.created
     /\ ~HasActiveCriticRun(s)
     /\ IF run[o].status = "none"
        THEN run' = [run EXCEPT ![o] = [status |-> IF evidence THEN "queued" ELSE "skipped",
                                        agent |-> 0, created |-> now]]
        ELSE run' = run
     /\ tick' = [tick EXCEPT
          !.created = @ \cup {s},
          !.made = IF run[o].status # "none" THEN Append(@, Ghost)
                   ELSE IF evidence THEN Append(@, o) ELSE @]
     /\ UNCHANGED <<schedule, agents, proposal, evidence, config, now, server, queue,
                    pump, jobs, dropped, count>>

\* updateScheduleNextDue.
AdvanceDue(s) ==
  /\ s \in tick.created
  /\ schedule' = [schedule EXCEPT ![s].next = NextDueAfterTick(s)]
  /\ tick' = [tick EXCEPT !.left = @ \ {s}, !.created = @ \ {s}]
  /\ UNCHANGED <<run, agents, proposal, evidence, config, now, server, queue, pump,
                 jobs, dropped, count>>

\* tick returns and its caller dispatches the Critic Runs that are queued.
TickEnds ==
  /\ tick.on /\ tick.left = {}
  /\ tick' = NoTick
  /\ Proceed(tick.made, jobs)
  /\ UNCHANGED <<store, evidence, config, now, queue, pump, count>>

\* manualCritic: its schedule row, a Critic Run due now, and its dispatch.  A
\* second request in the same instant finds the first one's occurrence.
ManualCritic ==
  LET o == <<Manual, now>>
  IN /\ Free /\ Open
     /\ evidence
     /\ Happens("manual")
     /\ schedule' = [schedule EXCEPT ![Manual] =
                       IF @.enabled THEN @
                       ELSE [config |-> "v1", enabled |-> TRUE, next |-> now]]
     /\ IF run[o].status = "none"
        THEN /\ run' = [run EXCEPT ![o] = [status |-> "queued", agent |-> 0, created |-> now]]
             /\ jobs' = jobs \cup {<<o>>}
        ELSE UNCHANGED <<run, jobs>>
     /\ UNCHANGED <<agents, proposal, evidence, config, now, server, queue, pump, tick,
                    dropped>>

\* createRefinement: a queued Run for chosen Feedback (RefinementFlow) of any
\* Environment Run, and its dispatch.
CreateRefinement(r) ==
  /\ Free /\ Open
  /\ run[r].status = "none"
  /\ run' = [run EXCEPT ![r] = [status |-> "queued", agent |-> 0, created |-> now]]
  /\ jobs' = jobs \cup {<<r>>}
  /\ UNCHANGED <<schedule, agents, proposal, evidence, config, now, server, queue, pump,
                 tick, dropped, count>>

-----------------------------------------------------------------------------
(* The pump *)

SetPump(at, a) == pump' = [at |-> at, agent |-> a]

\* processNext takes a task whose answer was recorded before the last death.
TakeAnswered ==
  LET a == Head(queue)
  IN /\ Free /\ server = "up" /\ pump.at = "idle" /\ queue # <<>>
     /\ agents[a].task \in {"succeeded", "failed"}
     /\ queue' = Tail(queue)
     /\ SetPump("settling", a)
     /\ UNCHANGED <<store, evidence, config, now, server, tick, jobs, dropped, count>>

\* claimTask, or a task a daemon has claimed before the last death, and execute.
TakeRunnable ==
  LET a == Head(queue)
  IN /\ Free /\ server = "up" /\ pump.at = "idle" /\ queue # <<>>
     /\ agents[a].task \in {"queued", "running"}
     /\ agents' = [agents EXCEPT
          ![a].task = "running",
          ![a].status = IF agents[a].task = "queued" THEN "running" ELSE @]
     /\ queue' = Tail(queue)
     /\ SetPump("executing", a)
     /\ UNCHANGED <<schedule, run, proposal, evidence, config, now, server, tick, jobs, dropped,
                    count>>

\* processNext drops an answer that arrives while the server shuts down.
AnswerCounts == server = "up"

\* applyProviderOutput, its first commit: finishTask.
Answer(outcome) ==
  LET a == pump.agent
  IN /\ Free /\ pump.at = "executing"
     /\ outcome \in AnswersOf(agents[a].owner)
     /\ AnswerCounts
     /\ IF outcome \in {"unstorable", "forbidden"} THEN Happens("fault") ELSE UNCHANGED count
     /\ agents' = [agents EXCEPT
          ![a].task = IF outcome = "invalid" THEN "failed" ELSE "succeeded",
          ![a].outcome = outcome]
     /\ SetPump("settling", a)
     /\ UNCHANGED <<schedule, run, proposal, evidence, config, now, server, queue, tick,
                    jobs, dropped>>

DropAnswer ==
  /\ Free /\ pump.at = "executing"
  /\ ~AnswerCounts
  /\ SetPump("idle", 0)
  /\ UNCHANGED <<store, evidence, config, now, server, queue, tick, jobs, dropped, count>>

\* The second commit: completeAgent or failAgent.
SettleAgent ==
  LET a == pump.agent
  IN /\ pump.at = "settling" /\ Live(a)
     /\ agents' = [agents EXCEPT ![a].status =
                     IF agents[a].task = "failed" THEN "failed" ELSE "completed"]
     /\ UNCHANGED <<schedule, run, proposal, evidence, config, now, process, count>>

\* critic_run_id and refinement_run_id are unique among the proposals.
Storable(a) == agents[a].outcome = "proposal" /\ proposal[agents[a].owner] = 0

\* The third commit: applyCritic, applyRefinement or failGovernanceRun.  What
\* cannot be stored throws, and a rejected pump ends the process.
SettleRun ==
  LET a == pump.agent
      o == agents[a].owner
      outcome == agents[a].outcome
  IN /\ pump.at = "settling" /\ ~Live(a)
     /\ \/ /\ outcome = "clean"
           /\ run' = [run EXCEPT ![o].status = "completed"]
           /\ SetPump("idle", 0)
           /\ UNCHANGED proposal
        \/ /\ Storable(a)
           /\ proposal' = [proposal EXCEPT ![o] = a]
           /\ run' = [run EXCEPT ![o].status = IF Active(o) THEN "completed" ELSE @]
           /\ SetPump("idle", 0)
        \/ /\ outcome \in {"invalid", "forbidden"}
           /\ run' = [run EXCEPT ![o].status = "failed"]
           /\ IF outcome = "forbidden" THEN SetPump("dying", 0) ELSE SetPump("idle", 0)
           /\ UNCHANGED proposal
        \/ /\ outcome \in {"proposal", "unstorable"} /\ ~Storable(a)
           /\ SetPump("dying", 0)
           /\ UNCHANGED <<run, proposal>>
     /\ UNCHANGED <<schedule, agents, evidence, config, now, server, queue, tick, jobs, dropped,
                    count>>

\* An unhandled rejection ends the process.
Die ==
  /\ pump.at = "dying" /\ ~tick.on
  /\ Gone
  /\ UNCHANGED <<store, evidence, config, now, count>>

-----------------------------------------------------------------------------
(* Boot, shutdown and death *)

\* launchd starts the server, which opens its database.
StartServer ==
  /\ server = "down"
  /\ server' = "booting" /\ dropped' = {}
  /\ UNCHANGED <<store, evidence, config, now, queue, pump, tick, jobs, count>>

\* recoverAfterRestart: running tasks no daemon has claimed are queued again.
\* Which ones were claimed is left open (LeasedTask).
RecoverTasks ==
  /\ server = "booting"
  /\ \E unclaimed \in SUBSET {a \in DOMAIN agents : agents[a].task = "running"} :
       agents' = [a \in DOMAIN agents |->
         IF a \in unclaimed
         THEN [agents[a] EXCEPT !.task = "queued",
                                !.status = IF @ = "running" THEN "queued" ELSE @]
         ELSE agents[a]]
  /\ server' = "recovered"
  /\ UNCHANGED <<schedule, run, proposal, evidence, config, now, queue, pump, tick, jobs, dropped,
                 count>>

\* A Live Agent whose task is not cancelled.
Recoverable(a) == Live(a) /\ agents[a].task # "cancelled"

\* Fault: a task that a daemon has claimed does not count.
AbandonedUnclaimed(o) ==
  /\ run[o].status = "running"
  /\ ~\E a \in DOMAIN agents : agents[a].owner = o /\ agents[a].task = "queued"

\* Fault: reconcile forgets to look at the status of the Run.
AbandonedAnyStatus(o) == ~\E a \in DOMAIN agents : agents[a].owner = o /\ Recoverable(a)

\* reconcile: a running Run that no Agent works for.
Abandoned(o) ==
  /\ run[o].status = "running"
  /\ ~\E a \in DOMAIN agents : agents[a].owner = o /\ Recoverable(a)

\* Agents in their order.
InOrder(S) ==
  [i \in 1..Cardinality(S) |-> CHOOSE a \in S : Cardinality({b \in S : b <= a}) = i]

\* reconcile: abandoned Runs are queued again, tasks enqueued in their order.
\* The statements for Critic and Refinement Runs commute and a start after a
\* crash repeats them, so they are one step here.
RequeueRuns ==
  /\ server = "recovered"
  /\ run' = [o \in Owner |-> IF Abandoned(o)
                             THEN [run[o] EXCEPT !.status = "queued", !.agent = 0]
                             ELSE run[o]]
  /\ queue' = InOrder({a \in DOMAIN agents : Recoverable(a)})
  /\ server' = "requeued"
  /\ UNCHANGED <<schedule, agents, proposal, evidence, config, now, pump, tick, jobs, dropped,
                 count>>


Undispatched == {o \in Owner : Queueable(o) /\ run[o].agent = 0}

\* reconcile dispatches the queued Runs without an Agent, Critics first.
DispatchAtBoot(o) ==
  /\ server = "requeued"
  /\ o \in Undispatched
  /\ o \in Refinement => Undispatched \subseteq Refinement
  /\ Dispatch(o)
  /\ UNCHANGED <<evidence, config, now, server, pump, tick, jobs, dropped, count>>

\* A worktree that cannot be prepared ends the boot.
BootFails ==
  /\ server = "requeued" /\ Undispatched # {}
  /\ Happens("failure")
  /\ Gone
  /\ UNCHANGED <<store, evidence, config, now>>

\* configureScheduler before HTTP and the pump are started.
ConfigureAtBoot ==
  /\ server = "requeued" /\ Undispatched = {}
  /\ ConfigureAndTick
  /\ server' = IF config.readable /\ SchedulesDue # {} THEN "scheduling" ELSE "up"
  /\ UNCHANGED <<run, agents, proposal, evidence, config, now, queue, pump, jobs, dropped, count>>

\* shutdown: no new work is taken, the active task is cancelled, and one
\* transaction ends every Agent and puts Refinement Runs back.
Shutdown ==
  /\ Free /\ server = "up"
  /\ Happens("stop")
  /\ agents' = [a \in DOMAIN agents |->
       [agents[a] EXCEPT !.task = IF @ \in {"queued", "running"} THEN "cancelled" ELSE @,
                         !.status = IF Live(a) THEN "interrupted" ELSE @]]
  /\ run' = [o \in Owner |-> IF o \in Refinement /\ run[o].status = "running"
                             THEN [run[o] EXCEPT !.status = "queued"] ELSE run[o]]
  /\ server' = "stopping"
  /\ UNCHANGED <<schedule, proposal, evidence, config, now, queue, pump, tick, jobs, dropped>>

\* Fault: a claim that is released is any claim there ever was.
ClaimedEver(o) == run[o].agent # 0

Claimed(o) == run[o].status = "running"

\* releaseCriticClaims, once the Environment Runs are stopped as well.
ReleaseClaims ==
  /\ Free /\ server = "stopping"
  /\ run' = [o \in Owner |-> IF o \in CriticRun /\ Claimed(o)
                             THEN [run[o] EXCEPT !.status = "queued"] ELSE run[o]]
  /\ server' = "released"
  /\ UNCHANGED <<schedule, agents, proposal, evidence, config, now, queue, pump, tick,
                 jobs, dropped, count>>

\* The database is closed when the pump rests, and the process exits.
Exit ==
  /\ Free /\ server = "released" /\ pump.at = "idle"
  /\ Gone
  /\ UNCHANGED <<store, evidence, config, now, count>>

Crash ==
  /\ server # "down"
  /\ Happens("crash")
  /\ Gone
  /\ UNCHANGED <<store, evidence, config, now>>

-----------------------------------------------------------------------------
(* Around the server *)

\* Bounded by MaxTime.
PassTime ==
  /\ Free /\ now < MaxTime
  /\ now' = now + 1
  /\ UNCHANGED <<store, evidence, config, process, count>>

\* An Environment Run completes.
CompleteEnvironment ==
  /\ Free /\ Open /\ ~evidence
  /\ evidence' = TRUE
  /\ UNCHANGED <<store, config, now, process, count>>

\* project.json is edited, also into something that cannot be read.
EditConfig ==
  /\ Free /\ Happens("edit")
  /\ \/ config' = [config EXCEPT !.readable = ~@]
     \/ config' = [config EXCEPT !.enabled = ~@]
     \/ \E s \in Schedule, v \in {"absent", "v1", "v2"} :
          config' = [config EXCEPT !.version[s] = v]
  /\ UNCHANGED <<store, evidence, now, process>>

TickNext ==
  \/ \E s \in Schedule : TickOverlaps(s) \/ CreateCriticDue(s) \/ AdvanceDue(s)
  \/ TickEnds

PumpNext ==
  \/ TakeAnswered \/ TakeRunnable
  \/ (\E outcome \in Answers : Answer(outcome)) \/ DropAnswer
  \/ SettleAgent \/ SettleRun \/ Die

BootNext ==
  \/ StartServer \/ RecoverTasks \/ RequeueRuns
  \/ \E o \in Owner : DispatchAtBoot(o)
  \/ BootFails \/ ConfigureAtBoot

Commands ==
  \/ ConfigureScheduler \/ ReconcileCritic \/ ManualCritic
  \/ \E r \in Refinement : CreateRefinement(r)

Next ==
  \/ \E job \in jobs : Prepared(job) \/ PrepareFails(job)
  \/ TickNext \/ PumpNext \/ BootNext \/ Commands
  \/ Shutdown \/ ReleaseClaims \/ Exit \/ Crash
  \/ PassTime \/ CompleteEnvironment \/ EditConfig

Spec == Init /\ [][Next]_vars

\* launchd starts a server that is gone, the event loop goes on with every
\* handler, every worktree is prepared or refused, and the provider's execute
\* returns (LeasedTask: after 30 minutes at the latest).
Fairness ==
  /\ WF_vars(StartServer) /\ WF_vars(RecoverTasks) /\ WF_vars(RequeueRuns)
  /\ \A o \in Owner : WF_vars(DispatchAtBoot(o))
  /\ WF_vars(ConfigureAtBoot)
  /\ WF_vars(\E job \in jobs : Prepared(job))
  /\ WF_vars(TickNext) /\ WF_vars(PumpNext)
  /\ WF_vars(ReleaseClaims) /\ WF_vars(Exit)

FairSpec == Spec /\ Fairness

-----------------------------------------------------------------------------
(* Properties *)

\* However ticks, commands, restarts and releases follow each other, a
\* configured schedule never has two Critic Runs under way (ARCHITECTURE.md:
\* "Critic overlap or crash").
OneActiveOccurrence ==
  \A s \in Schedule : \A d, e \in Time :
    Active(<<s, d>>) /\ Active(<<s, e>>) => d = e

\* What was missed while the server was down or the schedule busy is made up
\* for by one Critic Run, not by a burst: no two were created at one instant,
\* and none before it was due.
NoCatchUpBurst ==
  \A s \in Schedule : \A d, e \in Time :
    LET first == run[<<s, d>>] second == run[<<s, e>>]
    IN first.status # "none" =>
         /\ d <= first.created
         /\ second.status # "none" /\ first.created = second.created => d = e

\* At most one Agent works for a Run, it is the one the Run points at, and the
\* Run is still open: an answer is never applied for a Run that has ended or
\* has been given to another Agent.
LiveAgentIsCurrent ==
  \A a \in DOMAIN agents :
    Live(a) => Active(agents[a].owner) /\ run[agents[a].owner].agent = a

\* A server that is up has every Agent without a terminal in its queue or in
\* its pump: none waits for the next restart.
LiveAgentsQueued ==
  server = "up" => \A a \in DOMAIN agents :
    Live(a) => pump.agent = a \/ \E i \in DOMAIN queue : queue[i] = a

\* Every Agent that still works is the one its Run waits for, and somebody is
\* going to take its answer.
AgentsAccounted == TypeOK /\ LiveAgentIsCurrent /\ LiveAgentsQueued

\* A completed Run was completed by its own Agent's answer, and its proposal is
\* that Agent's: answers that are replayed or overtaken by a restart add none
\* (overview.md: "Duplicate callbacks and restarts cannot create extra ...").
CompletionEarned ==
  \A o \in Owner :
    /\ run[o].status = "completed" =>
         /\ run[o].agent \in DOMAIN agents
         /\ agents[run[o].agent].status = "completed"
         /\ agents[run[o].agent].outcome = IF proposal[o] = 0 THEN "clean" ELSE "proposal"
    /\ proposal[o] # 0 => run[o].status = "completed" /\ run[o].agent = proposal[o]

\* How a Run stands for the contract.
PhaseOf(o) ==
  IF Active(o) THEN "open"
  ELSE IF run[o].status # "completed" THEN run[o].status
  ELSE IF proposal[o] = 0 THEN "clean" ELSE "proposed"

Phase == [o \in Owner |-> PhaseOf(o)]

Contract == INSTANCE GovernanceContract WITH phase <- Phase

\* Over all crashes and restarts each Run is opened once and ended once, and a
\* schedule opens none while it has one.
KeepsGovernanceContract == Contract!Spec

\* An orderly shutdown has put the Run back and kept its Agent: reconcile only
\* dispatches what has none, so it stays queued for good, and its schedule busy.
Released(o) == run[o].status = "queued" /\ run[o].agent # 0

\* The handler that was to dispatch the Run threw: it waits for the next start.
Left(o) == Queueable(o) /\ run[o].agent = 0 /\ o \in dropped /\ server = "up"

\* A Critic or Refinement Run that is open is brought to an end, is put back by
\* an orderly shutdown, or waits for the next start because its dispatch threw.
EveryGovernanceRunEnds ==
  \A o \in Owner : Active(o) ~> (~Active(o) \/ Released(o) \/ Left(o))


=============================================================================
