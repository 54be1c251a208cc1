----------------------------- MODULE LeasedTask -----------------------------
(***************************************************************************)
(* The lease of an execution task between the Ballet server and the        *)
(* checkout-local daemon: the server's pump awaits a verdict by polling    *)
(* SQLite, the daemon claims the task over loopback HTTP, renews its lease *)
(* while the provider runs and calls back with one terminal.               *)
(*                                                                         *)
(* Both processes read the same clock.  Every instant the code stores      *)
(* (lease_until, the daemon's copy of it, the pump's 30 minutes) is kept   *)
(* as the time that is left and counted down by Tick, so that no bound on  *)
(* the clock is needed.  Timers may be late: Tick never waits for anyone.  *)
(*                                                                         *)
(* A store operation is one synchronous SQLite statement or transaction    *)
(* inside an HTTP handler.  A connection may break before the handler ran, *)
(* after it, or while the daemon gives the call up; a call nobody waits    *)
(* for any more may still reach the server ("orphans").                    *)
(***************************************************************************)
EXTENDS Integers

CONSTANTS
  Task,       \* execution tasks
  NoTask,     \* "no task"
  Lease,      \* LEASE_DURATION_MS, in ticks
  RenewAfter, \* RENEW_AFTER_MS, in ticks
  Budget,     \* EXECUTION_TIMEOUT_MS, in ticks
  MaxCrashes  \* bound: crashes of either process

ASSUME LeaseAssumption ==
  /\ NoTask \notin Task
  /\ Lease \in Nat \ {0}
  /\ RenewAfter \in 1..Lease
  /\ Budget \in Nat \ {0}
  /\ MaxCrashes \in Nat

VARIABLES
  \* SQLite, execution_tasks
  status,     \* status: queued, running, finished (answered or failed), cancelled
  claimed,    \* claim_fencing is 0 or 1
  cancel,     \* cancel_requested_at is set
  terminal,   \* what the daemon recorded: an output or an error
  result,     \* what the server finished the task with
  lease,      \* time left until lease_until, negative once it has passed
  \* the server process
  server,     \* up or down
  executing,  \* the task LocalDaemonOrchestrationProvider.execute waits for
  budget,     \* time left until the deadline of execute
  halting,    \* the task between requestCancellation and FlowCoordinator.stop
  \* the daemon process
  daemon,     \* up, stopping (aborted) or off
  job,        \* the claim loop of the only provider lane and its lease loop
  main,       \* the call the claim loop awaits
  renew,      \* the call the lease loop awaits
  \* between them
  orphans,    \* calls nobody awaits which the server may still serve
  begun,      \* history: jobs started for each task
  crashes     \* bound: crashes so far

store == <<status, claimed, cancel, terminal, result, lease>>
serverVars == <<server, executing, budget, halting>>
daemonVars == <<daemon, job, main, renew>>
vars == <<store, serverVars, daemonVars, orphans, begun, crashes>>

TerminalKind == {"output", "error"}
CallKind == {"claim", "renew"} \cup TerminalKind
Verdict == {"none", "accepted", "rejected", "cancelled", "failed"}

\* One HTTP exchange as the daemon sees it.
Wire == [leg: {"none", "request", "reply"}, verdict: Verdict,
         task: Task \cup {NoTask}, left: 0..Lease]
NoWire == [leg |-> "none", verdict |-> "none", task |-> NoTask, left |-> 0]
Request == [NoWire EXCEPT !.leg = "request"]
Reply(verdict, t, left) ==
  [leg |-> "reply", verdict |-> verdict, task |-> t, left |-> left]
Broken == Reply("failed", NoTask, 0)

Job == [at: {"idle", "claiming", "working", "reporting", "completing", "failing"},
        task: Task \cup {NoTask}, deadline: 0..Lease, sleep: 0..Lease,
        cause: {"none", "lost", "cancelled"}]
IdleJob ==
  [at |-> "idle", task |-> NoTask, deadline |-> 0, sleep |-> 0, cause |-> "none"]

TypeOK ==
  /\ status \in [Task -> {"queued", "running", "finished", "cancelled"}]
  /\ claimed \in [Task -> BOOLEAN]
  /\ cancel \in [Task -> BOOLEAN]
  /\ terminal \in [Task -> {"none"} \cup TerminalKind]
  /\ result \in [Task -> {"none", "lost"} \cup TerminalKind]
  /\ lease \in [Task -> -1..Lease]
  /\ server \in {"up", "down"}
  /\ executing \in Task \cup {NoTask}
  /\ budget \in 0..Budget
  /\ halting \in Task \cup {NoTask}
  /\ daemon \in {"up", "stopping", "off"}
  /\ job \in Job
  /\ main \in Wire
  /\ renew \in Wire
  /\ orphans \in SUBSET [kind: CallKind, task: Task \cup {NoTask}]
  /\ begun \in [Task -> Nat]
  /\ crashes \in 0..MaxCrashes

Init ==
  /\ status = [t \in Task |-> "queued"]
  /\ claimed = [t \in Task |-> FALSE]
  /\ cancel = [t \in Task |-> FALSE]
  /\ terminal = [t \in Task |-> "none"]
  /\ result = [t \in Task |-> "none"]
  /\ lease = [t \in Task |-> 0]
  /\ server = "up" /\ executing = NoTask /\ budget = 0 /\ halting = NoTask
  /\ daemon = "up" /\ job = IdleJob /\ main = NoWire /\ renew = NoWire
  /\ orphans = {}
  /\ begun = [t \in Task |-> 0]
  /\ crashes = 0

-----------------------------------------------------------------------------
(* The server's pump *)

Up == server = "up" /\ halting = NoTask

\* Fault: a pump that leaves the claimed tasks of its predecessor alone.
ExecuteQueuedOnly(t) ==
  /\ Up
  /\ executing = NoTask
  /\ status[t] = "queued"
  /\ status' = [status EXCEPT ![t] = "running"]
  /\ executing' = t
  /\ budget' = Budget
  /\ UNCHANGED <<claimed, cancel, terminal, result, lease, server, halting,
                 daemonVars, orphans, begun, crashes>>

\* processNext takes a queued or recovered task and awaits execute.
Execute(t) ==
  /\ Up
  /\ executing = NoTask
  /\ status[t] \in {"queued", "running"}
  /\ status' = [status EXCEPT ![t] = "running"]
  /\ executing' = t
  /\ budget' = Budget
  /\ UNCHANGED <<claimed, cancel, terminal, result, lease, server, halting,
                 daemonVars, orphans, begun, crashes>>

LeaseExpired(t) == claimed[t] /\ terminal[t] = "none" /\ lease[t] <= 0

\* One turn of the loop of execute: the deadline comes before the terminal,
\* the terminal before the lease.
Outcome(t) ==
  IF budget = 0 THEN "lost"
  ELSE IF terminal[t] # "none" THEN terminal[t]
  ELSE IF LeaseExpired(t) THEN "lost"
  ELSE "pending"

\* execute returns; the task of a cancelled Run is released unfinished.
Poll ==
  /\ Up
  /\ executing # NoTask
  /\ Outcome(executing) # "pending"
  /\ IF status[executing] = "cancelled"
     THEN UNCHANGED <<status, result>>
     ELSE /\ status' = [status EXCEPT ![executing] = "finished"]
          /\ result' = [result EXCEPT ![executing] = Outcome(executing)]
  /\ executing' = NoTask
  /\ budget' = 0
  /\ UNCHANGED <<claimed, cancel, terminal, lease, server, halting,
                 daemonVars, orphans, begun, crashes>>

\* cancel and shutdown first mark the task the pump awaits ...
RequestCancellation(t) ==
  /\ Up
  /\ executing = t
  /\ status[t] = "running"
  /\ cancel' = [cancel EXCEPT ![t] = TRUE]
  /\ halting' = t
  /\ UNCHANGED <<status, claimed, terminal, result, lease, server, executing,
                 budget, daemonVars, orphans, begun, crashes>>

\* ... and then stop the Run, without serving anyone in between.
StopAgent(t) ==
  /\ server = "up"
  /\ halting = t
  /\ status' = [status EXCEPT ![t] = "cancelled"]
  /\ halting' = NoTask
  /\ UNCHANGED <<claimed, cancel, terminal, result, lease, server, executing,
                 budget, daemonVars, orphans, begun, crashes>>

\* A task that still waits for the pump is only stopped.
CancelWaiting(t) ==
  /\ Up
  /\ executing # t
  /\ status[t] \in {"queued", "running"}
  /\ status' = [status EXCEPT ![t] = "cancelled"]
  /\ UNCHANGED <<claimed, cancel, terminal, result, lease, serverVars,
                 daemonVars, orphans, begun, crashes>>

-----------------------------------------------------------------------------
(* The operations of LocalDaemonStore, served to the daemon or to an orphan *)

Claimable(t) ==
  /\ status[t] = "running"
  /\ ~claimed[t]
  /\ terminal[t] = "none"
  /\ ~cancel[t]

\* claim: fencing and the first lease, in one transaction.
Grant(t) ==
  /\ claimed' = [claimed EXCEPT ![t] = TRUE]
  /\ lease' = [lease EXCEPT ![t] = Lease]
  /\ UNCHANGED <<status, cancel, terminal, result>>

Held(t) == status[t] = "running" /\ claimed[t]

\* renew: at its last instant a lease can still be extended.
Renewable(t) == Held(t) /\ lease[t] >= 0

RenewVerdict(t) ==
  IF Held(t) /\ cancel[t] THEN "cancelled"
  ELSE IF Renewable(t) THEN "accepted"
  ELSE "rejected"

Extend(t) ==
  /\ lease' = IF Renewable(t) THEN [lease EXCEPT ![t] = Lease] ELSE lease
  /\ UNCHANGED <<status, claimed, cancel, terminal, result>>

\* requireActiveClaim, and the guard of the terminal's UPDATE.
ActiveClaim(t) == Held(t) /\ lease[t] > 0

\* Fault: a terminal recorded for a claim that is over.
RecordableAnyTime(t) == claimed[t] /\ terminal[t] = "none"

Recordable(t) == ActiveClaim(t) /\ terminal[t] = "none"

\* complete and fail: one terminal; a replay of the same one is no error.
RecordVerdict(t, kind) ==
  IF Recordable(t) \/ terminal[t] = kind THEN "accepted" ELSE "failed"

Record(t, kind) ==
  /\ terminal' = IF Recordable(t) THEN [terminal EXCEPT ![t] = kind] ELSE terminal
  /\ UNCHANGED <<status, claimed, cancel, result, lease>>

AnswerMain(verdict, t, left) ==
  /\ main' = Reply(verdict, t, left)
  /\ UNCHANGED <<serverVars, daemon, job, renew, orphans, begun, crashes>>

HandleClaim ==
  /\ Up
  /\ main.leg = "request" /\ job.at = "claiming"
  /\ \/ \E t \in Task :
          Claimable(t) /\ Grant(t) /\ AnswerMain("accepted", t, Lease)
     \/ /\ \A t \in Task : ~Claimable(t)
        /\ AnswerMain("rejected", NoTask, 0)
        /\ UNCHANGED store

HandleEvents ==
  /\ Up
  /\ main.leg = "request" /\ job.at = "reporting"
  /\ AnswerMain(IF ActiveClaim(job.task) THEN "accepted" ELSE "failed", NoTask, 0)
  /\ UNCHANGED store

HandleTerminal(at, kind) ==
  /\ Up
  /\ main.leg = "request" /\ job.at = at
  /\ Record(job.task, kind)
  /\ AnswerMain(RecordVerdict(job.task, kind), NoTask, 0)

HandleComplete == HandleTerminal("completing", "output")
HandleFail == HandleTerminal("failing", "error")

HandleRenew ==
  /\ Up
  /\ renew.leg = "request"
  /\ Extend(job.task)
  /\ renew' = Reply(RenewVerdict(job.task), NoTask,
                    IF RenewVerdict(job.task) = "accepted" THEN Lease ELSE 0)
  /\ UNCHANGED <<serverVars, daemon, job, main, orphans, begun, crashes>>

\* A call whose connection the daemon has dropped is still carried out.
HandleOrphan(call) ==
  /\ Up
  /\ call \in orphans
  /\ orphans' = orphans \ {call}
  /\ \/ call.kind = "claim" /\ \E t \in Task : Claimable(t) /\ Grant(t)
     \/ call.kind = "claim" /\ (\A t \in Task : ~Claimable(t)) /\ UNCHANGED store
     \/ call.kind = "renew" /\ Extend(call.task)
     \/ call.kind \in TerminalKind /\ Record(call.task, call.kind)
  /\ UNCHANGED <<serverVars, daemonVars, begun, crashes>>

-----------------------------------------------------------------------------
(* The claim loop of the daemon *)

\* What remains of an exchange the daemon gives up.
Orphaned(wire, kind, t) ==
  IF wire.leg = "request" THEN {[kind |-> kind, task |-> t]} ELSE {}

SendClaim ==
  /\ daemon = "up"
  /\ job.at = "idle"
  /\ job' = [job EXCEPT !.at = "claiming"]
  /\ main' = Request
  /\ UNCHANGED <<store, serverVars, daemon, renew, orphans, begun, crashes>>

SleepFor(left) == IF left < RenewAfter THEN left ELSE RenewAfter

\* The claim arrives: the job and its lease loop begin.
ReceiveClaim ==
  /\ job.at = "claiming" /\ main.leg = "reply"
  /\ main' = NoWire
  /\ IF main.verdict = "accepted"
     THEN /\ job' = [at |-> "working", task |-> main.task, cause |-> "none",
                     deadline |-> main.left, sleep |-> SleepFor(main.left)]
          /\ begun' = [begun EXCEPT ![main.task] = @ + 1]
     ELSE job' = IdleJob /\ UNCHANGED begun
  /\ UNCHANGED <<store, serverVars, daemon, renew, orphans, crashes>>

\* The job calls the server and awaits the answer.
SendMain(from, to) ==
  /\ job.at = from
  /\ job.cause = "none"
  /\ job' = [job EXCEPT !.at = to]
  /\ main' = Request
  /\ UNCHANGED <<store, serverVars, daemon, renew, orphans, begun, crashes>>

\* The provider emits an event, ends with an output, or fails.
Report == SendMain("working", "reporting")
Complete == SendMain("working", "completing")
ProviderError == SendMain("working", "failing")

\* The events were stored, or the refusal fails the job.
ReceiveEvents ==
  /\ job.at = "reporting" /\ main.leg = "reply"
  /\ IF main.verdict = "accepted"
     THEN job' = [job EXCEPT !.at = "working"] /\ main' = NoWire
     ELSE job' = [job EXCEPT !.at = "failing"] /\ main' = Request
  /\ UNCHANGED <<store, serverVars, daemon, renew, orphans, begun, crashes>>

\* run returns: the lease loop is stopped and awaited.
EndJob ==
  /\ job' = IdleJob
  /\ main' = NoWire
  /\ renew' = NoWire
  /\ orphans' = orphans \cup Orphaned(renew, "renew", job.task)

\* complete was accepted; a refusal or a lost answer is followed by fail.
ReceiveComplete ==
  /\ job.at = "completing" /\ main.leg = "reply"
  /\ IF main.verdict = "accepted"
     THEN EndJob
     ELSE /\ job' = [job EXCEPT !.at = "failing"]
          /\ main' = Request
          /\ UNCHANGED <<renew, orphans>>
  /\ UNCHANGED <<store, serverVars, daemon, begun, crashes>>

\* Whatever fail answers, the job is over.
ReceiveFail ==
  /\ job.at = "failing" /\ main.leg = "reply"
  /\ EndJob
  /\ UNCHANGED <<store, serverVars, daemon, begun, crashes>>

\* The controller was aborted: provider and pending call end, fail is sent.
Abort ==
  /\ job.at \in {"working", "reporting", "completing"}
  /\ job.cause # "none"
  /\ job' = [job EXCEPT !.at = "failing"]
  /\ main' = Request
  /\ orphans' = IF job.at = "completing"
                THEN orphans \cup Orphaned(main, "output", job.task) ELSE orphans
  /\ UNCHANGED <<store, serverVars, daemon, renew, begun, crashes>>

-----------------------------------------------------------------------------
(* The lease loop of the daemon *)

\* leaseLoop runs until it reports a loss or a cancellation.
Renewing ==
  /\ job.at \in {"working", "reporting", "completing", "failing"}
  /\ job.cause = "none"

\* The delay is over: the lease has passed, or it is renewed.
Wake ==
  /\ Renewing
  /\ renew.leg = "none" /\ job.sleep = 0
  /\ IF job.deadline = 0
     THEN job' = [job EXCEPT !.cause = "lost"] /\ UNCHANGED renew
     ELSE renew' = Request /\ UNCHANGED job
  /\ UNCHANGED <<store, serverVars, daemon, main, orphans, begun, crashes>>

\* Fault: the daemon counts a full lease from the arrival of the answer.
FullLeaseAtReceipt ==
  CASE renew.verdict = "accepted" ->
         [job EXCEPT !.deadline = Lease, !.sleep = SleepFor(Lease)]
    [] renew.verdict = "cancelled" -> [job EXCEPT !.cause = "cancelled"]
    [] renew.verdict = "rejected" -> [job EXCEPT !.cause = "lost"]
    [] OTHER -> IF job.deadline = 0 THEN [job EXCEPT !.cause = "lost"]
                ELSE [job EXCEPT !.sleep = SleepFor(job.deadline)]

\* What the answer makes of the lease: a new deadline, a cause to abort, or,
\* when the call failed before the deadline, another delay.
Renewed ==
  CASE renew.verdict = "accepted" ->
         [job EXCEPT !.deadline = renew.left, !.sleep = SleepFor(renew.left)]
    [] renew.verdict = "cancelled" -> [job EXCEPT !.cause = "cancelled"]
    [] renew.verdict = "rejected" -> [job EXCEPT !.cause = "lost"]
    [] OTHER -> IF job.deadline = 0 THEN [job EXCEPT !.cause = "lost"]
                ELSE [job EXCEPT !.sleep = SleepFor(job.deadline)]

ReceiveRenew ==
  /\ Renewing
  /\ renew.leg = "reply"
  /\ job' = Renewed
  /\ renew' = NoWire
  /\ UNCHANGED <<store, serverVars, daemon, main, orphans, begun, crashes>>

\* The renewal is given up at the deadline.
RenewTimeout ==
  /\ Renewing
  /\ renew.leg # "none" /\ job.deadline = 0
  /\ job' = [job EXCEPT !.cause = "lost"]
  /\ renew' = NoWire
  /\ orphans' = orphans \cup Orphaned(renew, "renew", job.task)
  /\ UNCHANGED <<store, serverVars, daemon, main, begun, crashes>>

-----------------------------------------------------------------------------
(* Connections, processes and time *)

MainKind ==
  CASE job.at = "claiming" -> "claim"
    [] job.at = "completing" -> "output"
    [] OTHER -> "error"

\* The connection of a call breaks: before, after or without being served.
\* An orphaned batch of events changes nothing the model keeps.
LoseMain ==
  /\ main.leg # "none" /\ main # Broken
  /\ main' = Broken
  /\ orphans' = IF job.at = "reporting" THEN orphans
                ELSE orphans \cup Orphaned(main, MainKind, job.task)
  /\ UNCHANGED <<store, serverVars, daemon, job, renew, begun, crashes>>

LoseRenew ==
  /\ renew.leg # "none" /\ renew # Broken
  /\ renew' = Broken
  /\ orphans' = orphans \cup Orphaned(renew, "renew", job.task)
  /\ UNCHANGED <<store, serverVars, daemon, job, main, begun, crashes>>

\* Nobody listens: the connection is refused.
Refused(wire) == IF wire.leg = "request" THEN Broken ELSE wire

Refuse ==
  /\ server = "down"
  /\ main.leg = "request" \/ renew.leg = "request"
  /\ main' = Refused(main) /\ renew' = Refused(renew)
  /\ UNCHANGED <<store, serverVars, daemon, job, orphans, begun, crashes>>

\* The server dies: memory is lost, connections break, SQLite stays.
Crash ==
  /\ server = "up"
  /\ crashes < MaxCrashes
  /\ server' = "down" /\ executing' = NoTask /\ budget' = 0 /\ halting' = NoTask
  /\ main' = Refused(main) /\ renew' = Refused(renew)
  /\ orphans' = {}
  /\ crashes' = crashes + 1
  /\ UNCHANGED <<store, daemon, job, begun>>

\* Fault: recovery that leaves unclaimed tasks to the daemon.
RecoverKeepsRunning ==
  /\ server = "down"
  /\ server' = "up"
  /\ UNCHANGED <<store, executing, budget, halting, daemonVars, orphans, begun,
                 crashes>>

\* Before it listens again, the server requeues what no daemon has claimed.
Recover ==
  /\ server = "down"
  /\ server' = "up"
  /\ status' = [t \in Task |-> IF status[t] = "running" /\ ~claimed[t]
                               THEN "queued" ELSE status[t]]
  /\ UNCHANGED <<claimed, cancel, terminal, result, lease, executing, budget,
                 halting, daemonVars, orphans, begun, crashes>>

\* A restart request or SIGTERM: a claim in flight is given up, a job is not.
DaemonStop ==
  /\ daemon = "up"
  /\ daemon' = "stopping"
  /\ IF job.at = "claiming"
     THEN /\ job' = IdleJob /\ main' = NoWire
          /\ orphans' = orphans \cup Orphaned(main, "claim", NoTask)
     ELSE UNCHANGED <<job, main, orphans>>
  /\ UNCHANGED <<store, serverVars, renew, begun, crashes>>

DaemonExit ==
  /\ daemon = "stopping"
  /\ job.at = "idle"
  /\ daemon' = "off"
  /\ UNCHANGED <<store, serverVars, job, main, renew, orphans, begun, crashes>>

\* The daemon dies with its provider; its last calls may still be served.
DaemonCrash ==
  /\ daemon # "off"
  /\ crashes < MaxCrashes
  /\ daemon' = "off"
  /\ job' = IdleJob /\ main' = NoWire /\ renew' = NoWire
  /\ orphans' = orphans
       \cup Orphaned(renew, "renew", job.task)
       \cup (IF job.at = "reporting" THEN {} ELSE Orphaned(main, MainKind, job.task))
  /\ crashes' = crashes + 1
  /\ UNCHANGED <<store, serverVars, begun>>

\* launchd keeps the daemon alive.
DaemonStart ==
  /\ daemon = "off"
  /\ daemon' = "up"
  /\ UNCHANGED <<store, serverVars, job, main, renew, orphans, begun, crashes>>

Less(n) == IF n > 0 THEN n - 1 ELSE 0

Tick ==
  /\ lease' = [t \in Task |-> IF claimed[t] /\ lease[t] >= 0
                              THEN lease[t] - 1 ELSE lease[t]]
  /\ budget' = Less(budget)
  /\ job' = [job EXCEPT !.deadline = Less(job.deadline), !.sleep = Less(job.sleep)]
  /\ main' = [main EXCEPT !.left = Less(@)]
  /\ renew' = [renew EXCEPT !.left = Less(@)]
  /\ UNCHANGED <<status, claimed, cancel, terminal, result, server, executing,
                 halting, daemon, orphans, begun, crashes>>

ServerNext ==
  \/ \E t \in Task : Execute(t) \/ RequestCancellation(t) \/ StopAgent(t)
                       \/ CancelWaiting(t)
  \/ Poll
  \/ HandleClaim \/ HandleEvents \/ HandleComplete \/ HandleFail \/ HandleRenew
  \/ \E call \in orphans : HandleOrphan(call)
  \/ Crash \/ Recover

DaemonNext ==
  \/ SendClaim \/ ReceiveClaim
  \/ Report \/ Complete \/ ProviderError
  \/ ReceiveEvents \/ ReceiveComplete \/ ReceiveFail \/ Abort
  \/ Wake \/ ReceiveRenew \/ RenewTimeout
  \/ DaemonStop \/ DaemonExit \/ DaemonCrash \/ DaemonStart

Next == ServerNext \/ DaemonNext \/ LoseMain \/ LoseRenew \/ Refuse \/ Tick

Spec == Init /\ [][Next]_vars

\* The event loops of both processes run their timers and handlers, time
\* passes, the pump takes every task in its turn and a dead server is started
\* again.  Nothing is assumed of the provider, the operator or the daemon's
\* polling, and no call has to get through.
Fairness ==
  /\ \A t \in Task : WF_vars(Execute(t)) /\ WF_vars(StopAgent(t))
  /\ WF_vars(Poll) /\ WF_vars(Recover) /\ WF_vars(Tick)
  /\ WF_vars(HandleClaim \/ HandleEvents \/ HandleComplete \/ HandleFail)
  /\ WF_vars(HandleRenew) /\ WF_vars(Refuse)
  /\ WF_vars(ReceiveEvents \/ ReceiveComplete \/ ReceiveFail \/ Abort)
  /\ WF_vars(Wake \/ RenewTimeout) /\ WF_vars(ReceiveRenew)

FairSpec == Spec /\ Fairness

-----------------------------------------------------------------------------
(* Properties *)

Working(t) == job.task = t /\ job.at # "idle" /\ job.at # "claiming"

\* Whatever is lost, aborted, replayed or restarted, no task is handed to a
\* provider twice, and a job is only ever run under a recorded claim
\* (claim_fencing; ARCHITECTURE.md: claimed work is never requeued).
StartedOnce ==
  \A t \in Task :
    /\ begun[t] <= 1
    /\ Working(t) => claimed[t] /\ begun[t] = 1
    /\ terminal[t] # "none" => begun[t] = 1

\* The server never sees a lease as expired while the daemon still believes
\* in it, although each learns the other's view only through answers that
\* may be late or lost: when the pump gives the task up, the daemon's own
\* deadline has passed.
NoEarlyExpiry ==
  \A t \in Task : Working(t) /\ job.cause = "none" /\ lease[t] <= 0 =>
    job.deadline = 0 /\ (renew.leg = "reply" => renew.left = 0)

\* A task that the daemon could claim is the one the pump waits for, so its
\* lease and its answer are watched from the first instant.
ClaimsAreAwaited == server = "up" => \A t \in Task : Claimable(t) => executing = t

\* A claim is made once, for a task that is waited for, and only a claimed task
\* is worked on.
ClaimsHeld == StartedOnce /\ ClaimsAreAwaited

Contract == INSTANCE TaskContract WITH
  stage <- [t \in Task |-> IF terminal[t] # "none" THEN terminal[t]
                           ELSE IF claimed[t] THEN "claimed" ELSE "open"],
  verdict <- [t \in Task |-> IF status[t] = "finished" THEN result[t]
                             ELSE IF status[t] = "cancelled" THEN "cancelled"
                             ELSE "none"]

\* The whole protocol keeps the promise of TaskContract: one claim, one
\* terminal, one verdict, and nothing moves once the verdict is there.
KeepsTaskContract == Contract!Spec

\* Every task the Run has dispatched gets its verdict or is cancelled, also
\* when the daemon never answers or is not there (the pump's 30 minutes).
VerdictReached ==
  \A t \in Task : status[t] = "running" ~> status[t] \in {"finished", "cancelled"}

\* The single pump is always given back, also by a cancelled task.
PumpReleased == \A t \in Task : executing = t ~> executing # t

\* No provider goes on for ever for a task the server has given up or the
\* operator has cancelled (ARCHITECTURE.md: "provider is cancelled").
NoJobOutlivesTask ==
  \A t \in Task : (job.task = t /\ status[t] # "running") ~> job.task # t

\* Nobody waits for ever: neither the Run for a verdict, nor the pump for the
\* daemon, nor the daemon's provider lane for a task that is over.
TasksSettle == VerdictReached /\ PumpReleased /\ NoJobOutlivesTask

=============================================================================
