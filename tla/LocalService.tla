---------------------------- MODULE LocalService ----------------------------
(***************************************************************************)
(* The checkout-local service: the CLI commands of one terminal (start,      *)
(* stop, restart, update), launchd, the server process they install, the     *)
(* daemon beside it, and what they share on disk - service.json, the daemon's *)
(* config.json, state.sqlite and what a release before left behind.          *)
(*                                                                          *)
(* A CLI command is a chain of awaited steps; between any two of them the    *)
(* server may crash, launchd relaunch it, a foreign process take its port,   *)
(* or the command be killed.  Ports, not their contents, tell the parts      *)
(* apart: a probe matches when the process at the port is this checkout's.   *)
(* A probe of a server that lives may fail all the same, and a request to it  *)
(* may get no answer.                                                        *)
(*                                                                          *)
(* What is on disk was written by some release: "current" is what the release *)
(* the executable links to writes and accepts, "previous" what the one        *)
(* before it did.  A command runs the release it was started from, so during  *)
(* `ballet update` it still writes and accepts the previous release's.        *)
(***************************************************************************)
EXTENDS ReleaseUpdate

CONSTANTS
    Port,           \* loopback ports
    MaxForeign,     \* bound: times a foreign process takes a port
    MaxFaults       \* bound: crashes, failed calls and killed commands

ASSUME ServiceAssumption ==
    /\ Port \subseteq Nat \ {0} /\ IsFiniteSet(Port) /\ Port # {}
    /\ MaxForeign \in Nat /\ MaxFaults \in Nat
    /\ MaxForeign + 1 < Cardinality(Port)     \* a port is free, whatever else listens

VARIABLES
    saved,          \* the port in service.json, 0 when there is none
    config,         \* the daemon's config.json: the server's port, its writer's release
    db,             \* the release whose schema state.sqlite has
    legacy,         \* a release before left its own store behind
    job,            \* the port launchd's server job runs with, 0 when unloaded
    server,         \* the server process
    daemon,         \* the daemon process: the port it was started with
    foreign,        \* ports other processes listen on
    taken,          \* how often a foreign process took a port
    faults,
    cli             \* the command under way

serviceVars == <<saved, config, db, legacy, job, server, daemon, foreign, taken, faults, cli>>
vars == <<serviceVars, updVars>>

Opt == Port \cup {0}
Release == {"current", "previous", "old"}
CliStep == {"idle", "update", "stopDaemon", "legacy", "stopServer", "awaitDown", "archive",
            "reuse", "preflight", "install", "awaitReady", "recover", "archiveLegacy",
            "startDaemon", "report"}

TypeOK ==
    /\ saved \in Opt /\ job \in Opt
    /\ config \in [port : Opt, by : Release]
    /\ db \in Release \cup {"absent"}
    /\ legacy \in BOOLEAN
    /\ server \in [phase : {"down", "starting", "opened", "up", "closing"}, port : Opt,
                   relaunch : BOOLEAN]
    /\ daemon \in [port : Opt, busy : BOOLEAN]
    /\ foreign \subseteq Port
    /\ taken \in 0..MaxForeign
    /\ faults \in 0..MaxFaults
    /\ cli \in [cmd : {"none", "start", "stop", "restart", "update"}, step : CliStep,
                port : Opt, attempt : 0..2, legacy : BOOLEAN,
                behind : SUBSET {"config", "db"}, probe : {"sound", "missed"}]
    /\ UpdateTypeOK

(* behind is what the release this update installed writes another way;      *)
(* probe, history that no action reads, whether this command took the server *)
(* it stops for one that is down while it answered.                          *)
NoCommand == [cmd |-> "none", step |-> "idle", port |-> 0, attempt |-> 0, legacy |-> FALSE,
              behind |-> {}, probe |-> "sound"]
ServerDown == [phase |-> "down", port |-> 0, relaunch |-> FALSE]

(* A checkout before its first start, or left by an older release: a config  *)
(* or a database no release since accepts.                                   *)
Init ==
    /\ saved = 0 /\ job = 0
    /\ config \in {[port |-> 0, by |-> release] : release \in {"current", "old"}}
    /\ db \in {"absent", "old"}
    /\ legacy \in BOOLEAN
    /\ server = ServerDown
    /\ daemon = [port |-> 0, busy |-> FALSE]
    /\ foreign = {} /\ taken = 0 /\ faults = 0
    /\ cli = NoCommand
    /\ UpdateInit

Fault == faults < MaxFaults /\ faults' = faults + 1

-----------------------------------------------------------------------------
(* The server process: launchd's job (KeepAlive unless the exit succeeded),  *)
(* createBalletServer and index.ts.                                          *)

Listening(p) == p \in foreign \/ (server.phase \in {"up", "closing"} /\ server.port = p)

ServerLaunches ==
    /\ job # 0 /\ server.phase = "down" /\ server.relaunch
    /\ server' = [phase |-> "starting", port |-> job, relaunch |-> FALSE]
    /\ UNCHANGED <<saved, config, db, legacy, job, daemon, foreign, taken, faults, cli, updVars>>

Failed == [ServerDown EXCEPT !.relaunch = TRUE]

(* DaemonConfigStore.ensure comes first, then the database is opened: a       *)
(* server that cannot open it has already written its port into config.json. *)
(* It is of the release the executable links to (one launched just before the *)
(* link changed is taken for the new one as well).                           *)
ServerOpens ==
    /\ server.phase = "starting"
    /\ config' = [port |-> server.port, by |-> "current"]
    /\ IF db \in {"absent", "current"}
       THEN server' = [server EXCEPT !.phase = "opened"] /\ db' = "current"
       ELSE server' = Failed /\ UNCHANGED db
    /\ UNCHANGED <<saved, legacy, job, daemon, foreign, taken, faults, cli, updVars>>

ServerListens ==
    /\ server.phase = "opened"
    /\ server' = IF server.port \in foreign THEN Failed ELSE [server EXCEPT !.phase = "up"]
    /\ UNCHANGED <<saved, config, db, legacy, job, daemon, foreign, taken, faults, cli, updVars>>

(* shutdown has run to its end: exit code 0, launchd lets it be.             *)
ServerCloses ==
    /\ server.phase = "closing"
    /\ server' = ServerDown
    /\ UNCHANGED <<saved, config, db, legacy, job, daemon, foreign, taken, faults, cli, updVars>>

(* A crash, or a shutdown that throws: any other exit code.                  *)
ServerCrashes ==
    /\ server.phase # "down" /\ Fault
    /\ server' = Failed
    /\ UNCHANGED <<saved, config, db, legacy, job, daemon, foreign, taken, cli, updVars>>

ForeignTakes(p) ==
    /\ ~Listening(p) /\ taken < MaxForeign
    /\ foreign' = foreign \cup {p} /\ taken' = taken + 1
    /\ UNCHANGED <<saved, config, db, legacy, job, server, daemon, faults, cli, updVars>>

ForeignLeaves(p) ==
    /\ p \in foreign
    /\ foreign' = foreign \ {p}
    /\ UNCHANGED <<saved, config, db, legacy, job, server, daemon, taken, faults, cli, updVars>>

(* The daemon takes a task of the server it knows, and ends it.              *)
DaemonWorks ==
    /\ daemon.port # 0
    /\ \/ ~daemon.busy /\ server.phase = "up" /\ server.port = daemon.port
       \/ daemon.busy
    /\ daemon' = [daemon EXCEPT !.busy = ~@]
    /\ UNCHANGED <<saved, config, db, legacy, job, server, foreign, taken, faults, cli, updVars>>

Processes == \/ ServerLaunches \/ ServerOpens \/ ServerListens \/ ServerCloses \/ ServerCrashes
             \/ DaemonWorks \/ \E p \in Port : ForeignTakes(p) \/ ForeignLeaves(p)

-----------------------------------------------------------------------------
(* The CLI: BalletCli, LocalServerService and LegacyDaemonCutover.           *)

(* This checkout's server answers at p.  A command that probes p may still    *)
(* see no answer: the probe times out, or the server is too busy for it.      *)
Answers(p) == server.phase \in {"up", "closing"} /\ server.port = p

(* What the command's own release writes and accepts.                        *)
Own(file) == IF file \in cli.behind THEN "previous" ELSE "current"
Accepts == db \in {"absent", Own("db")}

(* launchctl bootout: the job is gone; a server that runs gets SIGTERM, one   *)
(* that still starts has no handler for it yet.                              *)
BootoutServer ==
    /\ job' = 0
    /\ server' = IF server.phase \in {"up", "closing"}
                 THEN [server EXCEPT !.phase = "closing"] ELSE ServerDown

StepTo(step) == cli' = [cli EXCEPT !.step = step]
Free == {p \in Port : ~Listening(p)}

RunCommand(c) ==
    /\ cli.step = "idle"
    /\ cli' = [NoCommand EXCEPT !.cmd = c,
                 !.step = CASE c = "start" -> "legacy" [] c = "update" -> "update"
                            [] OTHER -> "stopDaemon"]
    /\ upd' = IF c = "update" THEN [NoUpdate EXCEPT !.step = "download"] ELSE NoUpdate
    /\ UNCHANGED <<saved, config, db, legacy, job, server, daemon, foreign, taken, faults,
                   link, bundle>>

CommandFails ==
    /\ cli' = NoCommand
    /\ upd' = NoUpdate
    /\ UNCHANGED <<link, bundle>>

Older(release) == CASE release = "current" -> "previous" [] release = "absent" -> "absent"
                    [] OTHER -> "old"

(* A release may write the database, the config, both or neither another way *)
(* than the one before: what is on disk ages, and this command, which the    *)
(* release before still runs, falls behind.                                  *)
Outdated ==
    IF link' = link THEN UNCHANGED <<config, db, cli>>
    ELSE \E changed \in SUBSET {"config", "db"} :
           /\ db' = IF "db" \in changed THEN Older(db) ELSE db
           /\ config' = IF "config" \in changed THEN [config EXCEPT !.by = Older(@)] ELSE config
           /\ cli' = [cli EXCEPT !.behind = changed]

(* The updater's own steps, then the rest of the command as in a restart.    *)
UpdateStepTaken ==
    /\ cli.step = "update" /\ upd.step \notin {"done", "failed"}
    /\ UpdateNext
    /\ Outdated
    /\ UNCHANGED <<saved, legacy, job, server, daemon, foreign, taken, faults>>

UpdateOver ==
    /\ cli.step = "update" /\ upd.step \in {"done", "failed"}
    /\ \/ upd.step = "done" /\ StepTo("stopDaemon") /\ upd' = NoUpdate /\ UNCHANGED <<link, bundle>>
       \/ upd.step = "failed" /\ CommandFails
    /\ UNCHANGED <<saved, config, db, legacy, job, server, daemon, foreign, taken, faults>>

(* stopIfIdle: the status is asked of the server the config names; anything   *)
(* but a busy answer lets the daemon be stopped, also no answer at all.  A    *)
(* server that closes still answers until it no longer listens.              *)
BusyAnswer == /\ config.port # 0 /\ config.by = Own("config")
              /\ daemon.busy /\ Answers(config.port)

StopDaemon ==
    /\ cli.step = "stopDaemon"
    /\ \/ BusyAnswer /\ CommandFails /\ UNCHANGED daemon
       \/ /\ daemon' = [port |-> 0, busy |-> FALSE]
          /\ StepTo(IF cli.cmd = "stop" THEN "stopServer" ELSE "legacy")
          /\ UNCHANGED updVars
    /\ UNCHANGED <<saved, config, db, legacy, job, server, foreign, taken, faults>>

(* A store of the release before is remembered: it makes a start a restart.  *)
FindLegacy ==
    /\ cli.step = "legacy"
    /\ cli' = [cli EXCEPT !.legacy = legacy,
                  !.step = IF cli.cmd = "start" /\ ~legacy THEN "reuse" ELSE "stopServer"]
    /\ UNCHANGED <<saved, config, db, legacy, job, server, daemon, foreign, taken, faults, updVars>>

AfterStop == IF cli.cmd = "stop" THEN "report" ELSE "archive"

(* The server is left to launchd: it is down, or its probe was missed.        *)
LeaveToLaunchd ==
    /\ BootoutServer
    /\ cli' = [cli EXCEPT !.step = AfterStop,
                          !.probe = IF Answers(saved) THEN "missed" ELSE @]

(* stopGracefully: a server that answers is asked to shut down and waited     *)
(* for - the request itself may fail, its answer may be lost; one that does   *)
(* not answer is left to launchd.                                            *)
StopServer ==
    /\ cli.step = "stopServer"
    /\ \/ saved = 0 /\ StepTo(AfterStop) /\ UNCHANGED <<job, server, updVars>>
       \/ /\ saved # 0 /\ Answers(saved)
          /\ server' = [server EXCEPT !.phase = "closing"]
          /\ (StepTo("awaitDown") /\ UNCHANGED updVars) \/ CommandFails
          /\ UNCHANGED job
       \/ saved # 0 /\ Answers(saved) /\ CommandFails /\ UNCHANGED <<job, server>>
       \/ saved # 0 /\ LeaveToLaunchd /\ UNCHANGED updVars
    /\ UNCHANGED <<saved, config, db, legacy, daemon, foreign, taken, faults>>

(* The port no longer answers, or the last two probes of it were missed.      *)
AwaitDown ==
    /\ cli.step = "awaitDown"
    /\ LeaveToLaunchd
    /\ UNCHANGED <<saved, config, db, legacy, daemon, foreign, taken, faults, updVars>>

(* The deadline passes and the port still answers: the command fails and the  *)
(* service stays loaded.                                                     *)
ShutdownTimesOut ==
    /\ cli.step = "awaitDown" /\ Listening(saved)
    /\ CommandFails
    /\ UNCHANGED <<saved, config, db, legacy, job, server, daemon, foreign, taken, faults>>

(* archiveIncompatibleDatabase: the preflight creates a database that is      *)
(* missing, and only the schema's own error moves one away.                  *)
Opened == IF db = "absent" THEN Own("db") ELSE db

ArchiveDatabase ==
    /\ cli.step = "archive"
    /\ db' = IF Accepts THEN Opened ELSE "absent"
    /\ cli' = [cli EXCEPT !.step = "reuse", !.probe = "sound"]
    /\ UNCHANGED <<saved, config, legacy, job, server, daemon, foreign, taken, faults, updVars>>

(* loadOrCreateServiceState and reuseOrStopExisting: a server that starts may *)
(* become ready within the two seconds it is given; one that is not seen to   *)
(* answer by then is unloaded.                                               *)
ReuseServer ==
    /\ cli.step = "reuse"
    /\ \E p \in IF saved = 0 THEN Free ELSE {saved} :
         /\ saved' = p
         /\ \/ /\ Answers(p)
               /\ cli' = [cli EXCEPT !.step = "archiveLegacy", !.port = p]
               /\ UNCHANGED <<job, server>>
            \/ /\ BootoutServer
               /\ cli' = [cli EXCEPT !.step = "preflight", !.port = p]
    /\ UNCHANGED <<config, db, legacy, daemon, foreign, taken, faults, updVars>>

(* preflightDatabase, then ensureAvailablePort.                              *)
Preflight ==
    /\ cli.step = "preflight"
    /\ \/ ~Accepts /\ CommandFails /\ UNCHANGED <<saved, db>>
       \/ /\ Accepts /\ db' = Opened
          /\ \E p \in IF Listening(cli.port) THEN Free ELSE {cli.port} :
               saved' = p /\ cli' = [cli EXCEPT !.step = "install", !.port = p]
          /\ UNCHANGED updVars
    /\ UNCHANGED <<config, legacy, job, server, daemon, foreign, taken, faults>>

(* launchctl bootstrap and kickstart, once the job before is gone; it throws  *)
(* while that job's process has not ended.                                   *)
Install ==
    /\ cli.step = "install"
    /\ \/ /\ server.phase = "down"
          /\ job' = cli.port
          /\ server' = Failed
          /\ StepTo("awaitReady")
       \/ server.phase # "down" /\ StepTo("recover") /\ UNCHANGED <<job, server>>
    /\ UNCHANGED <<saved, config, db, legacy, daemon, foreign, taken, faults, updVars>>

AwaitReady ==
    /\ cli.step = "awaitReady"
    /\ (Answers(cli.port) /\ StepTo("archiveLegacy")) \/ StepTo("recover")
    /\ UNCHANGED <<saved, config, db, legacy, job, server, daemon, foreign, taken, faults, updVars>>

(* The port cannot be bound: somebody else has it, or this checkout's own     *)
(* server, which came up or goes down too late.                              *)
Claimed == Listening(cli.port)

RecoverUnsaved ==
    /\ cli.step = "recover" /\ Claimed /\ cli.attempt < 2
    /\ BootoutServer
    /\ \E p \in Free \ {cli.port} :
         cli' = [cli EXCEPT !.step = "install", !.port = p, !.attempt = @ + 1]
    /\ UNCHANGED <<saved, config, db, legacy, daemon, foreign, taken, faults, updVars>>

RecoverForEver ==
    /\ cli.step = "recover"
    /\ \/ /\ Claimed
          /\ BootoutServer
          /\ \E p \in Free \ {cli.port} :
               saved' = p /\ cli' = [cli EXCEPT !.step = "install", !.port = p]
          /\ UNCHANGED updVars
       \/ ~Claimed /\ CommandFails /\ UNCHANGED <<saved, job, server>>
    /\ UNCHANGED <<config, db, legacy, daemon, foreign, taken, faults>>

(* installWithConflictRecovery: only a port that cannot be bound is replaced, *)
(* and only twice.                                                           *)
Recover ==
    /\ cli.step = "recover"
    /\ \/ /\ Claimed /\ cli.attempt < 2
          /\ BootoutServer
          /\ \E p \in Free \ {cli.port} :
               /\ saved' = p
               /\ cli' = [cli EXCEPT !.step = "install", !.port = p, !.attempt = @ + 1]
          /\ UNCHANGED updVars
       \/ /\ ~(Claimed /\ cli.attempt < 2)
          /\ CommandFails
          /\ UNCHANGED <<saved, job, server>>
    /\ UNCHANGED <<config, db, legacy, daemon, foreign, taken, faults>>

ArchiveLegacy ==
    /\ cli.step = "archiveLegacy"
    /\ legacy' = (legacy /\ ~cli.legacy)
    /\ StepTo("startDaemon")
    /\ UNCHANGED <<saved, config, db, job, server, daemon, foreign, taken, faults, updVars>>

(* The daemon, of the release linked, reads config.json when it starts, and   *)
(* is ready when the command, which reads it too, learns from the server it   *)
(* names of the daemon's first heartbeat.                                    *)
StartDaemon ==
    /\ cli.step = "startDaemon"
    /\ daemon' = [port |-> IF config.by = "current" THEN config.port ELSE 0, busy |-> FALSE]
    /\ \/ /\ config.port # 0 /\ config.by = "current" /\ config.by = Own("config")
          /\ Answers(config.port)
          /\ StepTo("report") /\ UNCHANGED updVars
       \/ CommandFails
    /\ UNCHANGED <<saved, config, db, legacy, job, server, foreign, taken, faults>>

Report ==
    /\ cli.step = "report"
    /\ cli' = NoCommand
    /\ UNCHANGED <<saved, config, db, legacy, job, server, daemon, foreign, taken, faults, updVars>>

(* The terminal is closed in the middle of a command.                        *)
CommandKilled ==
    /\ cli.step # "idle" /\ Fault
    /\ CommandFails
    /\ UNCHANGED <<saved, config, db, legacy, job, server, daemon, foreign, taken>>

CommandStep ==
    \/ UpdateStepTaken \/ UpdateOver \/ StopDaemon \/ FindLegacy \/ StopServer \/ AwaitDown
    \/ ShutdownTimesOut \/ ArchiveDatabase \/ ReuseServer \/ Preflight \/ Install
    \/ AwaitReady \/ Recover \/ ArchiveLegacy \/ StartDaemon \/ Report

Next == \/ Processes \/ CommandStep \/ CommandKilled
        \/ \E c \in {"start", "stop", "restart", "update"} : RunCommand(c)

Spec == Init /\ [][Next]_vars

-----------------------------------------------------------------------------
(* Fairness.  launchd launches, the server's start and shutdown run to their *)
(* end, and a command goes on as long as it is not killed: its waits are     *)
(* polls with a deadline.  Nobody has to run a command.                      *)
Fairness ==
    /\ WF_vars(ServerLaunches) /\ WF_vars(ServerOpens) /\ WF_vars(ServerListens)
    /\ WF_vars(ServerCloses) /\ WF_vars(CommandStep)

FairSpec == Spec /\ Fairness

-----------------------------------------------------------------------------
(* ReportedServerIsReached: when a command says that Ballet runs at a port,   *)
(* service.json, the daemon's config and the daemon that was started all name *)
(* that port, whatever ports were lost and replaced on the way, and so does   *)
(* launchd's job - or there is none, because the server that answered was     *)
(* already being shut down for an earlier command, and goes                  *)
(* (BalletCli.start, LocalServerService.installWithConflictRecovery).         *)
Leaving == job = 0 /\ server.phase \in {"closing", "down"}

ReportedServerIsReached ==
    [][Report /\ cli.cmd # "stop" =>
          /\ {saved, config.port, daemon.port} = {cli.port}
          /\ job = cli.port \/ Leaving]_vars

(* ArchivedWhileClosed: a database is moved to the archive while no server    *)
(* serves from it and none can be launched: also not one that launchd         *)
(* relaunched while the command waited.  The one server that may still have   *)
(* it open is one that is being shut down and was taken for down: its probes  *)
(* were missed by this command, or an earlier command that missed them has    *)
(* since moved the service to another port                                    *)
(* (LocalServerService.stopGracefully, archiveIncompatibleDatabase).          *)
TakenForDown == server.phase = "closing" /\ (cli.probe = "missed" \/ server.port # saved)

ArchivedWhileClosed ==
    [][ArchiveDatabase /\ ~Accepts => job = 0 /\ (server.phase = "down" \/ TakenForDown)]_vars

(* CommandsSound: no command reports or archives what is not so, and rows,    *)
(* processes and ports keep their types.                                     *)
CommandsSound == []TypeOK /\ ReportedServerIsReached /\ ArchivedWhileClosed

(* CommandEnds: every command comes to an end: no wait for a port, for a      *)
(* shutdown or for launchd goes on for ever                                   *)
(* (LocalServerService.stopGracefully, waitUntilReady).                       *)
CommandEnds == (cli.step # "idle") ~> (cli.step = "idle")
=============================================================================
