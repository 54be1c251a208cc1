---------------------------- MODULE DaemonControl ----------------------------
(***************************************************************************)
(* The checkout-local daemon as a process: how launchd keeps it alive, how  *)
(* it reports itself to the server (heartbeat), how the two requests of the *)
(* browser reach it (refresh the provider report, restart), how it takes    *)
(* tasks meanwhile, and what the CLI commands that start and stop it        *)
(* observe.                                                                 *)
(*                                                                          *)
(* The server runs each HTTP handler in one synchronous step.  The daemon   *)
(* runs two coroutines, heartbeatLoop and pollLoop, and awaits every call,  *)
(* so a call is two steps here: it lands at the server, and its reply is    *)
(* handled.  In between the process may be aborted, killed, or lose the     *)
(* reply.  What a task does once it is claimed is module LeasedTask; what   *)
(* the provider does with it is module CodexTurn.                           *)
(***************************************************************************)
EXTENDS Integers, FiniteSets, FiniteSetsExt

CONSTANTS
    Task,           \* the tasks the server hands out, in claim order
    Commands,       \* the daemon commands that are run in a terminal
    MaxPid,         \* bound: daemon processes launched
    MaxFaults       \* bound: calls that fail and processes that crash

ASSUME DaemonAssumption ==
    /\ Commands \subseteq {"start", "stop", "restart"}
    /\ Task \subseteq Nat /\ IsFiniteSet(Task)
    /\ MaxPid \in Nat \ {0} /\ MaxFaults \in Nat

VARIABLES
    row,            \* local_daemon_state, what the server knows of the daemon
    task,           \* execution_tasks: how far each task is
    codex,          \* whether the Codex CLI is installed and logged in
    daemon,         \* the daemon process
    job,            \* launchd holds the daemon's job (KeepAlive)
    cli,            \* the daemon command a terminal runs
    faults,         \* calls failed and processes crashed so far
    lostAck         \* the reply to a restart acknowledgement was lost

controlVars == <<row, task, codex, daemon, job, cli, faults, lostAck>>

Pid == 0..MaxPid
Health == {"ready", "error"}
BeatStep == {"boot", "post", "posted", "probe", "ackRefresh", "ackedRefresh",
             "ackRestart", "ackedRestart", "sleep", "ended"}

DaemonState ==
    [pid : Pid, up : BOOLEAN, beat : BeatStep, looping : BOOLEAN,
     report : Health \cup {"none"}, sampled : Health,
     refresh : BOOLEAN, restart : BOOLEAN, error : BOOLEAN,
     aborted : BOOLEAN, term : BOOLEAN,
     lane : {"idle", "claiming", "claimed", "working"}, work : Task \cup {0}]

Row == [pid : Pid, seen : BOOLEAN, error : BOOLEAN, count : 0..1,
        refresh : BOOLEAN, restart : BOOLEAN]

CommandLine == [cmd : Commands \cup {"none"},
                step : {"idle", "check", "bootout", "bootstrap", "kickstart", "launched", "wait"},
                before : Pid, pid : Pid]

ControlTypeOK ==
    /\ row \in Row
    /\ task \in [Task -> {"absent", "queued", "claimed", "answered", "lost"}]
    /\ codex \in Health
    /\ daemon \in DaemonState
    /\ job \in BOOLEAN /\ lostAck \in BOOLEAN
    /\ cli \in CommandLine
    /\ faults \in 0..MaxFaults

Down(p) ==
    [pid |-> p, up |-> FALSE, beat |-> "ended", looping |-> FALSE,
     report |-> "none", sampled |-> "error",
     refresh |-> FALSE, restart |-> FALSE, error |-> FALSE,
     aborted |-> FALSE, term |-> FALSE, lane |-> "idle", work |-> 0]

NoCommand == [cmd |-> "none", step |-> "idle", before |-> 0, pid |-> 0]

ControlInit ==
    /\ row = [pid |-> 0, seen |-> FALSE, error |-> FALSE, count |-> 0,
              refresh |-> FALSE, restart |-> FALSE]
    /\ task = [t \in Task |-> "absent"]
    /\ codex \in Health
    /\ daemon = Down(0)
    /\ job = TRUE
    /\ cli = NoCommand
    /\ faults = 0
    /\ lostAck = FALSE

-----------------------------------------------------------------------------
(* The server's side: LocalDaemonStore.  A request is pending while its       *)
(* requested_at differs from its acknowledged_at.                            *)

Claims == {t \in Task : task[t] = "claimed"}
Online == row.pid # 0 /\ row.seen /\ ~row.error
ActiveTaskCount == IF Claims # {} THEN Cardinality(Claims) ELSE row.count

RequestRefresh ==
    /\ row' = [row EXCEPT !.refresh = TRUE]
    /\ UNCHANGED <<task, codex, daemon, job, cli, faults, lostAck>>

(* A restart is refused while any claim of a task is open. *)
RequestRestart ==
    /\ Claims = {}
    /\ row' = [row EXCEPT !.restart = TRUE]
    /\ UNCHANGED <<task, codex, daemon, job, cli, faults, lostAck>>

(* The bug RefreshSeesProvider guards against: a heartbeat that takes the     *)
(* request with it, so that a lost reply loses the refresh.                  *)
ConsumingHeartbeat(r) ==
    [r EXCEPT !.pid = daemon.pid, !.seen = TRUE, !.error = daemon.error,
              !.count = IF daemon.lane = "idle" THEN 0 ELSE 1, !.refresh = FALSE]

(* Pid, error and the number of tasks under way, as the daemon sends them.   *)
Heartbeat(r) ==
    [r EXCEPT !.pid = daemon.pid, !.seen = TRUE, !.error = daemon.error,
              !.count = IF daemon.lane = "idle" THEN 0 ELSE 1]

(* The bug RestartHonoured guards against: one acknowledgement for both.      *)
AcknowledgeAll(kind) == [row EXCEPT !.refresh = FALSE, !.restart = FALSE]

(* The acknowledgement names no request: whatever is pending is answered.    *)
Acknowledge(kind) ==
    IF kind = "refresh" THEN [row EXCEPT !.refresh = FALSE]
                        ELSE [row EXCEPT !.restart = FALSE]

FirstQueued == {t \in Task : task[t] = "queued"
                             /\ \A u \in Task : task[u] = "queued" => t <= u}

Enqueue(t) ==
    /\ task[t] = "absent"
    /\ \A u \in Task : u < t => task[u] # "absent"
    /\ task' = [task EXCEPT ![t] = "queued"]
    /\ UNCHANGED <<row, codex, daemon, job, cli, faults, lostAck>>

(* A claim no living daemon renews runs into its lease: runtime_lost.        *)
LeaseExpires(t) ==
    /\ task[t] = "claimed"
    /\ daemon.work # t
    /\ task' = [task EXCEPT ![t] = "lost"]
    /\ UNCHANGED <<row, codex, daemon, job, cli, faults, lostAck>>

(* Three heartbeats are missing: the daemon is gone, or busy probing.        *)
GoesOffline ==
    /\ row.seen
    /\ ~daemon.up \/ daemon.aborted \/ daemon.beat \in {"boot", "probe"}
    /\ row' = [row EXCEPT !.seen = FALSE]
    /\ UNCHANGED <<task, codex, daemon, job, cli, faults, lostAck>>

(* The user installs Codex or logs in. *)
FixCodex ==
    /\ codex = "error"
    /\ codex' = "ready"
    /\ UNCHANGED <<row, task, daemon, job, cli, faults, lostAck>>

Server == \/ RequestRefresh \/ RequestRestart \/ GoesOffline \/ FixCodex
          \/ \E t \in Task : Enqueue(t) \/ LeaseExpires(t)

-----------------------------------------------------------------------------
(* The heartbeat coroutine: run, heartbeatLoop and sendHeartbeat.            *)

(* launchd starts the process: at load, and again whenever it is gone.       *)
Launch ==
    /\ job /\ ~daemon.up /\ daemon.pid < MaxPid
    /\ daemon' = [Down(daemon.pid + 1) EXCEPT !.up = TRUE, !.beat = "boot", !.sampled = codex]
    /\ UNCHANGED <<row, task, codex, job, cli, faults, lostAck>>

(* probeProviders never throws: an error is a report of its own.             *)
Probed ==
    /\ daemon.up /\ ~daemon.aborted
    /\ daemon.beat \in {"boot", "probe"}
    /\ daemon' = [daemon EXCEPT !.report = daemon.sampled, !.sampled = "error",
                     !.beat = IF @ = "boot" THEN "post" ELSE "ackRefresh"]
    /\ UNCHANGED <<row, task, codex, job, cli, faults, lostAck>>

HeartbeatLands ==
    /\ daemon.up /\ daemon.beat = "post"
    /\ row' = Heartbeat(row)
    /\ daemon' = [daemon EXCEPT !.beat = "posted", !.refresh = row.refresh,
                                !.restart = row.restart]
    /\ UNCHANGED <<task, codex, job, cli, faults, lostAck>>

AckLands ==
    /\ daemon.up
    /\ \/ daemon.beat = "ackRefresh" /\ row' = Acknowledge("refresh")
          /\ daemon' = [daemon EXCEPT !.beat = "ackedRefresh", !.refresh = FALSE]
       \/ daemon.beat = "ackRestart" /\ row' = Acknowledge("restart")
          /\ daemon' = [daemon EXCEPT !.beat = "ackedRestart", !.restart = FALSE]
    /\ UNCHANGED <<task, codex, job, cli, faults, lostAck>>

Rested(d) == [d EXCEPT !.beat = "sleep", !.looping = TRUE, !.refresh = FALSE, !.restart = FALSE]

(* The rest of sendHeartbeat, in its order: refresh, then restart.           *)
Replied ==
    /\ daemon.up /\ ~daemon.aborted
    /\ \/ /\ daemon.beat = "posted" /\ daemon.refresh
          /\ daemon' = [daemon EXCEPT !.beat = "probe", !.sampled = codex]
       \/ /\ daemon.beat \in {"posted", "ackedRefresh"} /\ ~daemon.refresh /\ daemon.restart
          /\ daemon' = [daemon EXCEPT !.beat = "ackRestart"]
       \/ /\ daemon.beat \in {"posted", "ackedRefresh"} /\ ~daemon.refresh /\ ~daemon.restart
          /\ daemon' = Rested(daemon)
       \/ /\ daemon.beat = "ackedRestart"
          /\ daemon' = [Rested(daemon) EXCEPT !.aborted = TRUE]
    /\ UNCHANGED <<row, task, codex, job, cli, faults, lostAck>>

(* Any call of sendHeartbeat throws, before or after it landed: the rest of  *)
(* it is skipped and the error is recorded for good.                         *)
CallFails ==
    /\ daemon.up /\ faults < MaxFaults
    /\ daemon.beat \notin {"boot", "probe", "sleep", "ended"}
    /\ daemon' = [Rested(daemon) EXCEPT !.error = TRUE]
    /\ faults' = faults + 1
    /\ lostAck' = (lostAck \/ daemon.beat = "ackedRestart")
    /\ UNCHANGED <<row, task, codex, job, cli>>

NextBeat ==
    /\ daemon.up /\ ~daemon.aborted /\ daemon.beat = "sleep"
    /\ daemon' = [daemon EXCEPT !.beat = "post"]
    /\ UNCHANGED <<row, task, codex, job, cli, faults, lostAck>>

(* The abort signal rejects the call or the probe under way.                 *)
BeatEnds ==
    /\ daemon.up /\ daemon.aborted /\ daemon.beat # "ended"
    /\ daemon' = [daemon EXCEPT !.beat = "ended"]
    /\ UNCHANGED <<row, task, codex, job, cli, faults, lostAck>>

-----------------------------------------------------------------------------
(* The polling coroutine: pollLoop, claimProvider and claimLoop.             *)

Poll ==
    /\ daemon.up /\ daemon.looping /\ ~daemon.aborted
    /\ daemon.report = "ready" /\ daemon.lane = "idle"
    /\ daemon' = [daemon EXCEPT !.lane = "claiming"]
    /\ UNCHANGED <<row, task, codex, job, cli, faults, lostAck>>

ClaimLands ==
    /\ daemon.up /\ daemon.lane = "claiming"
    /\ \/ FirstQueued = {} /\ daemon' = [daemon EXCEPT !.lane = "idle"] /\ UNCHANGED task
       \/ \E t \in FirstQueued :
            /\ task' = [task EXCEPT ![t] = "claimed"]
            /\ daemon' = [daemon EXCEPT !.lane = "claimed", !.work = t]
    /\ UNCHANGED <<row, codex, job, cli, faults, lostAck>>

ClaimReplied ==
    /\ daemon.up /\ ~daemon.aborted /\ daemon.lane = "claimed"
    /\ daemon' = [daemon EXCEPT !.lane = "working"]
    /\ UNCHANGED <<row, task, codex, job, cli, faults, lostAck>>

(* The claim's fetch carries the daemon's own signal: aborted, the claim is  *)
(* taken at the server and unknown here.                                     *)
ClaimLost ==
    /\ daemon.up /\ daemon.lane \in {"claiming", "claimed"}
    /\ \/ daemon.aborted /\ UNCHANGED faults
       \/ faults < MaxFaults /\ faults' = faults + 1
    /\ daemon' = [daemon EXCEPT !.lane = "idle", !.work = 0, !.error = TRUE]
    /\ UNCHANGED <<row, task, codex, job, cli, lostAck>>

(* The runner's terminal is stored, or it throws and the task keeps its claim. *)
TaskEnds ==
    /\ daemon.up /\ daemon.lane = "working"
    /\ \/ /\ task' = [task EXCEPT ![daemon.work] = "answered"]
          /\ daemon' = [daemon EXCEPT !.work = 0, !.lane = IF daemon.aborted THEN "idle" ELSE "claiming"]
          /\ UNCHANGED faults
       \/ /\ faults < MaxFaults /\ faults' = faults + 1
          /\ daemon' = [daemon EXCEPT !.work = 0, !.error = TRUE,
                           !.lane = IF daemon.aborted THEN "idle" ELSE "claiming"]
          /\ UNCHANGED task
    /\ UNCHANGED <<row, codex, job, cli, lostAck>>

(* run returns once both loops and the task under way have ended.            *)
Exit ==
    /\ daemon.up /\ daemon.aborted /\ daemon.beat = "ended" /\ daemon.lane = "idle"
    /\ daemon' = Down(daemon.pid)
    /\ UNCHANGED <<row, task, codex, job, cli, faults, lostAck>>

(* launchd loses patience with a process it told to end, or it crashes.      *)
Killed ==
    /\ daemon.up
    /\ \/ daemon.term /\ UNCHANGED faults
       \/ faults < MaxFaults /\ faults' = faults + 1
    /\ daemon' = Down(daemon.pid)
    /\ UNCHANGED <<row, task, codex, job, cli, lostAck>>

Daemon == \/ Launch \/ Probed \/ HeartbeatLands \/ AckLands \/ Replied \/ CallFails
          \/ NextBeat \/ BeatEnds \/ Poll \/ ClaimLands \/ ClaimReplied \/ ClaimLost
          \/ TaskEnds \/ Exit \/ Killed

-----------------------------------------------------------------------------
(* `ballet daemon start|stop|restart`, and the same calls inside             *)
(* `ballet start|stop|restart|update`: DaemonCliService.                     *)

RunCommand(c) ==
    /\ cli.step = "idle"
    /\ cli' = [cmd |-> c, step |-> IF c = "start" THEN "bootout" ELSE "check",
               before |-> daemon.pid, pid |-> 0]
    /\ UNCHANGED <<row, task, codex, daemon, job, faults, lostAck>>

(* assertIdle: an unreachable server counts as an idle daemon.               *)
AssertIdle ==
    /\ cli.step = "check"
    /\ \/ ActiveTaskCount > 0 /\ cli' = NoCommand /\ UNCHANGED faults
       \/ ActiveTaskCount = 0 /\ cli' = [cli EXCEPT !.step = "bootout"] /\ UNCHANGED faults
       \/ /\ faults < MaxFaults /\ faults' = faults + 1
          /\ cli' = [cli EXCEPT !.step = "bootout"]
    /\ UNCHANGED <<row, task, codex, daemon, job, lostAck>>

ToldToEnd == IF daemon.up THEN [daemon EXCEPT !.aborted = TRUE, !.term = TRUE] ELSE daemon

(* launchctl bootout unloads the job and asks its process to terminate.      *)
Bootout ==
    /\ cli.step = "bootout"
    /\ job' = FALSE
    /\ daemon' = ToldToEnd
    /\ cli' = IF cli.cmd = "stop" THEN NoCommand ELSE [cli EXCEPT !.step = "bootstrap"]
    /\ UNCHANGED <<row, task, codex, faults, lostAck>>

Bootstrap ==
    /\ cli.step = "bootstrap" /\ ~daemon.up
    /\ job' = TRUE
    /\ cli' = [cli EXCEPT !.step = "kickstart"]
    /\ UNCHANGED <<row, task, codex, daemon, faults, lostAck>>

(* launchctl kickstart -k: a process launchd has launched by then is told to  *)
(* end as well, and launchd starts another.                                  *)
Kickstart ==
    /\ cli.step = "kickstart"
    /\ daemon' = ToldToEnd
    /\ cli' = [cli EXCEPT !.step = "launched"]
    /\ UNCHANGED <<row, task, codex, job, faults, lostAck>>

ReadPid ==
    /\ cli.step = "launched" /\ daemon.up
    /\ cli' = [cli EXCEPT !.step = "wait", !.pid = daemon.pid]
    /\ UNCHANGED <<row, task, codex, daemon, job, faults, lostAck>>

(* The bug StartReplaces guards against: any online daemon will do.           *)
AnyDaemonReady == Online

(* waitUntilReady accepts only the heartbeat of the process launchd names.   *)
IsReady == Online /\ row.pid = cli.pid

Ready ==
    /\ cli.step = "wait" /\ IsReady
    /\ cli' = NoCommand
    /\ UNCHANGED <<row, task, codex, daemon, job, faults, lostAck>>

CommandTimesOut ==
    /\ cli.step \in {"bootstrap", "kickstart", "launched", "wait"}
    /\ cli' = NoCommand
    /\ UNCHANGED <<row, task, codex, daemon, job, faults, lostAck>>

CommandSteps == \/ \E c \in Commands : RunCommand(c)
                \/ AssertIdle \/ Bootout \/ Bootstrap \/ Kickstart \/ ReadPid \/ Ready \/ CommandTimesOut

ControlNext == Server \/ Daemon \/ CommandSteps

ControlSpec == ControlInit /\ [][ControlNext]_controlVars

-----------------------------------------------------------------------------
(* ControlFairness.  launchd launches a loaded job's process; the event loop runs    *)
(* the replies of the daemon's calls, its timers (a heartbeat every 15 s, a  *)
(* poll every second) and the abort signal; the server answers each request; *)
(* a provider's task ends (its lease and timeout see to it).  Nobody is      *)
(* obliged to ask for anything, to run a command or to fix Codex.            *)
ControlFairness ==
    /\ WF_controlVars(Launch) /\ WF_controlVars(Probed) /\ WF_controlVars(HeartbeatLands) /\ WF_controlVars(AckLands)
    /\ WF_controlVars(Replied) /\ WF_controlVars(NextBeat) /\ WF_controlVars(BeatEnds)
    /\ WF_controlVars(ClaimLands) /\ WF_controlVars(ClaimReplied) /\ WF_controlVars(daemon.aborted /\ ClaimLost)
    /\ WF_controlVars(TaskEnds) /\ WF_controlVars(Exit) /\ WF_controlVars(Poll)

ControlFairSpec == ControlSpec /\ ControlFairness

-----------------------------------------------------------------------------
(* A state from which the daemon is not obliged to go on: a command took its  *)
(* job from launchd, or the bound on processes is reached.                   *)
Released == ~job \/ daemon.pid = MaxPid

(* A refresh the daemon is answering right now: its heartbeat has read the    *)
(* requests and its acknowledgement has not landed.                          *)
Answering == daemon.beat = "probe" \/ daemon.beat = "ackRefresh"
             \/ (daemon.beat = "posted" /\ daemon.refresh)

(* RestartHonoured: a pending restart request ends the daemon process that    *)
(* runs, and launchd starts another - also when a second request is absorbed *)
(* by the acknowledgement of the first, and after failed heartbeats; only    *)
(* the reply to the acknowledgement itself must not get lost                 *)
(* (BalletDaemon.sendHeartbeat, LocalDaemonStore.acknowledgeRequest).        *)
RestartHonoured ==
    []~lostAck =>
        \A p \in Pid : (row.restart /\ daemon.pid = p) ~> (daemon.pid # p \/ Released)

(* RefreshSeesProvider: once Codex works, a refresh that does not overlap the *)
(* answer to an earlier one leads to a ready report, whatever restarts,      *)
(* crashes and lost replies happen on the way (LocalDaemonStore.request,     *)
(* BalletDaemon.sendHeartbeat).  A refresh that does overlap may be absorbed. *)
RefreshSeesProvider ==
    (row.refresh /\ codex = "ready" /\ ~Answering) ~> (daemon.report = "ready" \/ Released)

(* StartReplaces: a start that reports a ready daemon saw the heartbeat of a  *)
(* process launched by it, never a left-over one of the daemon it replaced   *)
(* (DaemonCliService.waitUntilReady).                                        *)
StartReplaces == [][Ready => row.pid > cli.before]_controlVars

(* StartSound: the same, of rows, calls and processes that keep their types.  *)
StartSound == []ControlTypeOK /\ StartReplaces
=============================================================================
