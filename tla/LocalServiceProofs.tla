-------------------------- MODULE LocalServiceProofs --------------------------
(***************************************************************************)
(* Proofs about LocalService for every set of ports, any number of bundles *)
(* and any number of crashes, lost ports, failed calls and killed commands: *)
(* the executable always works, and no command reports or archives what is *)
(* not so.                                                                 *)
(*                                                                         *)
(* Both rest on one fact about launchd and service.json: a job that is     *)
(* loaded has the port service.json names, and a server that is not being  *)
(* shut down has the job's.  That holds because a command only changes the *)
(* port after it has unloaded the job - whatever it saw of the server: a   *)
(* probe may be missed, and a server may go on shutting down at a port     *)
(* that is no longer the saved one.                                        *)
(***************************************************************************)
EXTENDS LocalService, TLAPS

-----------------------------------------------------------------------------
(* The inductive invariant *)

ServerRow == [phase : {"down", "starting", "opened", "up", "closing"}, port : Opt,
              relaunch : BOOLEAN]

DaemonRow == [port : Opt, busy : BOOLEAN]

ConfigRow == [port : Opt, by : Release]

CommandRow == [cmd : {"none", "start", "stop", "restart", "update"}, step : CliStep,
               port : Opt, attempt : 0..2, legacy : BOOLEAN,
               behind : SUBSET {"config", "db"}, probe : {"sound", "missed"}]

\* TypeOK, with a name for each kind of record.
Rows ==
    /\ saved \in Opt /\ job \in Opt /\ config \in ConfigRow
    /\ db \in Release \cup {"absent"} /\ legacy \in BOOLEAN
    /\ server \in ServerRow /\ daemon \in DaemonRow /\ cli \in CommandRow
    /\ foreign \subseteq Port /\ taken \in 0..MaxForeign /\ faults \in 0..MaxFaults
    /\ UpdateTypeOK

\* Whose port the launchd job and the server have.
Ports ==
    /\ job # 0 => job = saved
    /\ server.phase \in {"starting", "opened", "up"} => server.port = job /\ job # 0
    /\ server.phase = "closing" => server.port # 0 /\ (job # 0 => server.port = job)

\* What a command that stops or installs the server has established so far.
Reached ==
    /\ cli.step = "archive" => job = 0 /\ (server.phase = "down" \/ TakenForDown)
    /\ cli.step \in {"preflight", "install"} => job = 0
    /\ cli.step \in {"preflight", "install", "awaitReady", "recover", "archiveLegacy",
                     "startDaemon"} => cli.port = saved /\ saved # 0
    /\ cli.step \in {"archiveLegacy", "startDaemon"} /\ server.phase # "down" =>
          server.port = saved
    /\ cli.step = "report" /\ cli.cmd # "stop" =>
          cli.port = saved /\ config.port = saved /\ daemon.port = saved /\ saved # 0

\* The bundle under construction is not the one in use, and it is of a genuine
\* release; the first bundle is never removed.
Installing ==
    /\ bundle[0] = "complete" /\ bundle[link] = "complete"
    /\ upd.step \in {"extract", "create", "copy", "verify", "link"} \/ upd.new # 0
          => upd.got = "genuine"
    /\ upd.step = "download" => upd.new = 0
    /\ upd.step \in {"copy", "verify", "link"} => upd.new # 0 /\ upd.new # link
    /\ upd.step = "link" => bundle[upd.new] = "complete"

Inv == Rows /\ Ports /\ Reached /\ Installing

-----------------------------------------------------------------------------
(* Types *)

\* Whether launchd relaunches it is a field like any other.
LEMMA RelaunchRow ==
    ASSUME NEW row \in ServerRow, NEW again \in BOOLEAN
    PROVE  /\ [row EXCEPT !.relaunch = again] \in ServerRow
           /\ [row EXCEPT !.relaunch = again].phase = row.phase
BY DEF ServerRow

\* The rows of a server that does not run.
LEMMA ServerRows ==
    /\ Opt \subseteq Int /\ 0 \in Opt
    /\ ServerDown \in ServerRow /\ ServerDown.phase = "down"
    /\ Failed \in ServerRow /\ Failed.phase = "down"
<1>1. Opt \subseteq Int /\ 0 \in Opt
    BY ServiceAssumption DEF Opt
<1>2. ServerDown \in ServerRow /\ ServerDown.phase = "down"
    BY <1>1 DEF ServerDown, ServerRow
<1>3. TRUE \in BOOLEAN
    OBVIOUS
<1>4. Failed \in ServerRow /\ Failed.phase = ServerDown.phase
    BY <1>2, <1>3, RelaunchRow DEF Failed
<1> QED BY <1>1, <1>2, <1>4

\* The phase of a server that goes on.
LEMMA PhaseRow ==
    ASSUME server \in ServerRow, NEW phase \in {"opened", "up", "closing"},
           server' = [server EXCEPT !.phase = phase]
    PROVE  server' \in ServerRow /\ server'.phase = phase /\ server'.port = server.port
BY DEF ServerRow

\* A command at its next step.
LEMMA StepRow ==
    ASSUME cli \in CommandRow, NEW step \in CliStep, StepTo(step)
    PROVE  cli' \in CommandRow /\ cli'.step = step /\ cli'.port = cli.port /\ cli'.cmd = cli.cmd
BY DEF CommandRow, StepTo

\* A command at its next step, with the port it found.
LEMMA PortRow ==
    ASSUME cli \in CommandRow, NEW step \in CliStep, NEW p \in Opt,
           cli' = [cli EXCEPT !.step = step, !.port = p]
    PROVE  cli' \in CommandRow /\ cli'.step = step /\ cli'.port = p /\ cli'.cmd = cli.cmd
BY DEF CommandRow

\* No command.
LEMMA IdleRow == NoCommand \in CommandRow /\ NoCommand.step = "idle" /\ NoCommand.cmd = "none"
BY ServerRows DEF NoCommand, CommandRow, CliStep

\* A release a file may have been written by, once it is older.
LEMMA OlderRelease ==
    /\ \A release \in Release : Older(release) \in Release
    /\ Older("absent") = "absent"
BY DEF Older, Release

\* A command that begins.
LEMMA BeginRow ==
    ASSUME NEW c \in {"start", "stop", "restart", "update"}, NEW step \in CliStep,
           cli' = [NoCommand EXCEPT !.cmd = c, !.step = step]
    PROVE  cli' \in CommandRow /\ cli'.step = step
<1>1. ASSUME NEW row \in CommandRow
      PROVE  /\ [row EXCEPT !.cmd = c, !.step = step] \in CommandRow
             /\ [row EXCEPT !.cmd = c, !.step = step].step = step
    BY DEF CommandRow
<1> QED BY <1>1, IdleRow

\* A command that tries once more, at another port.
LEMMA RetryRow ==
    ASSUME cli \in CommandRow, cli.attempt < 2, NEW p \in Opt,
           cli' = [cli EXCEPT !.step = "install", !.port = p, !.attempt = @ + 1]
    PROVE  cli' \in CommandRow /\ cli'.step = "install" /\ cli'.port = p
<1>1. cli.attempt + 1 \in 0..2
    BY DEF CommandRow
<1> QED BY <1>1 DEF CommandRow, CliStep

\* A database that a command opened.
LEMMA OpenedRow ==
    ASSUME db \in Release \cup {"absent"}
    PROVE  Opened \in Release \cup {"absent"}
BY DEF Opened, Own, Release

\* A daemon that does not run.
LEMMA DaemonRows == [port |-> 0, busy |-> FALSE] \in DaemonRow
BY ServerRows DEF DaemonRow

\* A command that fails.
LEMMA FailRow ==
    ASSUME CommandFails
    PROVE  cli' \in CommandRow /\ cli'.step = "idle" /\ cli'.cmd = "none"
BY IdleRow DEF CommandFails

\* An update's step keeps the types of bundles, link and updater.
LEMMA UpdateTypes ==
    ASSUME UpdateTypeOK, UpdateNext
    PROVE  UpdateTypeOK'
<1> USE UpdateAssumption DEF UpdateTypeOK, At, Go, BundleId
<1>1. ASSUME NEW d \in Download \ {"none"}, FetchRelease(d) PROVE UpdateTypeOK'
    BY <1>1 DEF FetchRelease, UpdateStep
<1>2. CASE VerifyChecksum \/ VerifyAttestation \/ CheckExtracted
    BY <1>2 DEF VerifyChecksum, VerifyAttestation, CheckExtracted, UpdateStep
<1>3. ASSUME NEW b \in BundleId, BrewUpgrade(b) PROVE UpdateTypeOK'
    BY <1>3 DEF BrewUpgrade, UpdateStep
<1>4. CASE CreateBundle
    BY <1>4 DEF CreateBundle, BundleDirectory, Fresh, UpdateStep
<1>5. CASE CopyBundle \/ CheckBundle
    BY <1>5 DEF CopyBundle, CheckBundle, UpdateStep
<1>6. CASE Activate
    BY <1>6 DEF Activate, UpdateStep
<1>7. CASE UpdateFails
    BY <1>7 DEF UpdateFails, NoUpdate, UpdateStep, Download
<1> QED BY <1>1, <1>2, <1>3, <1>4, <1>5, <1>6, <1>7 DEF UpdateNext

\* An update's step keeps the bundle in use whole.
LEMMA UpdateInstalls ==
    ASSUME UpdateTypeOK, Installing, UpdateNext
    PROVE  Installing'
<1> USE UpdateAssumption DEF UpdateTypeOK, Installing, At, Go, BundleId
<1>1. ASSUME NEW d \in Download \ {"none"}, FetchRelease(d) PROVE Installing'
    BY <1>1 DEF FetchRelease
<1>2. CASE VerifyChecksum \/ VerifyAttestation \/ CheckExtracted
    BY <1>2 DEF VerifyChecksum, VerifyAttestation, CheckExtracted, Attested
<1>3. ASSUME NEW b \in BundleId, BrewUpgrade(b) PROVE Installing'
    BY <1>3 DEF BrewUpgrade, Fresh
<1>4. CASE CreateBundle
    BY <1>4 DEF CreateBundle, BundleDirectory, Fresh
<1>5. CASE CopyBundle \/ CheckBundle
    BY <1>5 DEF CopyBundle, CheckBundle
<1>6. CASE Activate
    BY <1>6 DEF Activate
<1>7. CASE UpdateFails
    BY <1>7 DEF UpdateFails, NoUpdate
<1> QED BY <1>1, <1>2, <1>3, <1>4, <1>5, <1>6, <1>7 DEF UpdateNext

-----------------------------------------------------------------------------
(* The updater beside the service *)

\* Whatever a step does to the updater, its types and bundles stay sound.
LEMMA UpdaterStep ==
    ASSUME Rows, Installing, [Next]_vars
    PROVE  UpdateTypeOK' /\ Installing'
<1>1. CASE UNCHANGED updVars
    BY <1>1 DEF updVars, Rows, UpdateTypeOK, Installing
<1>2. CASE UpdateNext
    BY <1>2, UpdateTypes, UpdateInstalls DEF Rows
<1>3. CASE upd' = NoUpdate /\ UNCHANGED <<link, bundle>>
    BY <1>3, UpdateAssumption DEF Rows, UpdateTypeOK, Installing, NoUpdate, BundleId, UpdateStep, Download
<1>4. CASE upd' = [NoUpdate EXCEPT !.step = "download"] /\ UNCHANGED <<link, bundle>>
    BY <1>4, UpdateAssumption DEF Rows, UpdateTypeOK, Installing, NoUpdate, BundleId, UpdateStep, Download
<1>5. CASE Processes
    BY <1>1, <1>5 DEF Processes, ServerLaunches, ServerOpens, ServerListens, ServerCloses,
       ServerCrashes, DaemonWorks, ForeignTakes, ForeignLeaves
<1>6. CASE \/ FindLegacy \/ AwaitDown \/ ArchiveDatabase \/ ReuseServer
           \/ Install \/ AwaitReady \/ ArchiveLegacy \/ Report
    BY <1>1, <1>6 DEF FindLegacy, AwaitDown, ArchiveDatabase, ReuseServer, Install,
       AwaitReady, ArchiveLegacy, Report
<1>7. CASE StopDaemon \/ StopServer \/ Preflight \/ Recover \/ StartDaemon
  <2>1. UNCHANGED updVars \/ CommandFails
    BY <1>7 DEF StopDaemon, StopServer, Preflight, Recover, StartDaemon
  <2> QED BY <1>1, <1>3, <2>1 DEF CommandFails
<1>8. CASE UpdateStepTaken \/ UpdateOver \/ ShutdownTimesOut \/ CommandKilled
  <2>1. UpdateNext \/ (upd' = NoUpdate /\ UNCHANGED <<link, bundle>>)
    BY <1>8 DEF UpdateStepTaken, UpdateOver, ShutdownTimesOut, CommandKilled, CommandFails
  <2> QED BY <1>2, <1>3, <2>1
<1>9. ASSUME NEW c \in {"start", "stop", "restart", "update"}, RunCommand(c)
      PROVE  UpdateTypeOK' /\ Installing'
    BY <1>3, <1>4, <1>9 DEF RunCommand
<1>10. CASE UNCHANGED vars
    BY <1>1, <1>10 DEF vars
<1> QED BY <1>5, <1>6, <1>7, <1>8, <1>9, <1>10 DEF Next, CommandStep

-----------------------------------------------------------------------------
(* The service *)

\* launchctl bootout leaves no job, and no server but one that shuts down.
LEMMA BootoutEnds ==
    ASSUME Rows, Ports, BootoutServer
    PROVE  /\ job' = 0 /\ server' \in ServerRow
           /\ \/ server'.phase = "down"
              \/ /\ server'.phase = "closing" /\ server'.port = server.port /\ server.port # 0
                 /\ server.phase \in {"up", "closing"}
<1>1. CASE server.phase \in {"up", "closing"}
  <2>1. server' \in ServerRow /\ server'.phase = "closing" /\ server'.port = server.port
    BY <1>1, PhaseRow DEF BootoutServer, Rows
  <2> QED BY <1>1, <2>1 DEF BootoutServer, Ports
<1>2. CASE ~(server.phase \in {"up", "closing"})
    BY <1>2, ServerRows DEF BootoutServer
<1> QED BY <1>1, <1>2

\* A server that answers at the saved port, told to shut down, has the job's port.
LEMMA ClosingPorts ==
    ASSUME Rows, Ports, Answers(saved), saved # 0, job' = job, saved' = saved,
           server' = [server EXCEPT !.phase = "closing"]
    PROVE  server' \in ServerRow /\ Ports'
BY PhaseRow DEF Rows, Ports, Answers

\* The steps at which nothing is said of the port.
Unsettled == {"idle", "update", "stopDaemon", "legacy", "stopServer", "awaitDown", "reuse"}

\* A command that only goes on to such a step disturbs nothing.
LEMMA OnlySteps ==
    ASSUME Ports, UNCHANGED <<saved, job, server, foreign>>, cli'.step \in Unsettled
    PROVE  Ports' /\ Reached'
BY DEF Ports, Reached, Unsettled

\* Steps of the server, of launchd, of the daemon and of foreign processes.
LEMMA ProcessesKeep ==
    ASSUME Rows, Ports, Reached, Processes, UpdateTypeOK'
    PROVE  Rows' /\ Ports' /\ Reached'
<1>1. CASE ServerLaunches
  <2>1. /\ server' \in ServerRow /\ server'.phase = "starting" /\ server'.port = job
        /\ job # 0 /\ server.phase = "down"
        /\ UNCHANGED <<saved, config, db, legacy, job, daemon, foreign, taken, faults, cli>>
    BY <1>1 DEF ServerLaunches, Rows, ServerRow
  <2>2. Rows'
    BY <2>1 DEF Rows
  <2> QED BY <2>1, <2>2 DEF Ports, Reached, TakenForDown
<1>2. CASE ServerOpens
  <2>1. /\ server.phase = "starting" /\ config' = [port |-> server.port, by |-> "current"]
        /\ UNCHANGED <<saved, legacy, job, daemon, foreign, taken, faults, cli>>
    BY <1>2 DEF ServerOpens
  <2>2. /\ server' \in ServerRow /\ db' \in Release \cup {"absent"}
        /\ server'.phase = "down" \/ (server'.phase = "opened" /\ server'.port = server.port)
    BY <1>2, ServerRows, PhaseRow DEF ServerOpens, Rows, Release
  <2>3. /\ server.port \in Opt /\ server.port = job /\ job = saved /\ job # 0
        /\ config' \in ConfigRow /\ config'.port = saved
    BY <2>1 DEF Rows, ServerRow, Ports, ConfigRow, Release
  <2>4. Rows'
    BY <2>1, <2>2, <2>3 DEF Rows
  <2> QED BY <2>1, <2>2, <2>3, <2>4 DEF Ports, Reached, TakenForDown
<1>3. CASE ServerListens
  <2>1. /\ server.phase = "opened"
        /\ UNCHANGED <<saved, config, db, legacy, job, daemon, foreign, taken, faults, cli>>
    BY <1>3 DEF ServerListens
  <2>2. /\ server' \in ServerRow
        /\ server'.phase = "down" \/ (server'.phase = "up" /\ server'.port = server.port)
    BY <1>3, ServerRows, PhaseRow DEF ServerListens, Rows
  <2>3. Rows'
    BY <2>1, <2>2 DEF Rows
  <2> QED BY <2>1, <2>2, <2>3 DEF Ports, Reached, TakenForDown
<1>4. CASE ServerCloses \/ ServerCrashes
  <2>1. /\ server' \in ServerRow /\ server'.phase = "down" /\ faults' \in 0..MaxFaults
        /\ UNCHANGED <<saved, config, db, legacy, job, daemon, foreign, taken, cli>>
    BY <1>4, ServerRows, ServiceAssumption DEF ServerCloses, ServerCrashes, Fault, Rows
  <2>2. Rows'
    BY <2>1 DEF Rows
  <2> QED BY <2>1, <2>2 DEF Ports, Reached, TakenForDown
<1>5. CASE DaemonWorks
  <2>1. UNCHANGED <<saved, config, db, legacy, job, server, foreign, taken, faults, cli>>
    BY <1>5 DEF DaemonWorks
  <2>2. daemon' \in DaemonRow /\ daemon'.port = daemon.port
    BY <1>5 DEF DaemonWorks, Rows, DaemonRow
  <2>3. Rows'
    BY <2>1, <2>2 DEF Rows
  <2> QED BY <2>1, <2>2, <2>3 DEF Ports, Reached, TakenForDown
<1>6. ASSUME NEW p \in Port, ForeignTakes(p) \/ ForeignLeaves(p) PROVE Rows' /\ Ports' /\ Reached'
  <2>1. /\ UNCHANGED <<saved, config, db, legacy, job, server, daemon, faults, cli>>
        /\ \/ foreign' = foreign \cup {p} /\ taken < MaxForeign /\ taken' = taken + 1
           \/ foreign' = foreign \ {p} /\ taken' = taken
    BY <1>6 DEF ForeignTakes, ForeignLeaves
  <2>2. foreign' \subseteq Port
    BY <2>1 DEF Rows
  <2>3. taken' \in 0..MaxForeign
    BY <2>1, ServiceAssumption DEF Rows
  <2>4. /\ foreign' \subseteq Port /\ taken' \in 0..MaxForeign
        /\ UNCHANGED <<saved, config, db, legacy, job, server, daemon, faults, cli>>
    BY <2>1, <2>2, <2>3
  <2>5. Rows'
    BY <2>4 DEF Rows
  <2> QED BY <2>4, <2>5 DEF Ports, Reached, TakenForDown
<1> QED BY <1>1, <1>2, <1>3, <1>4, <1>5, <1>6 DEF Processes

\* A command begins, is killed, or takes a step of its update.
LEMMA UpdateCommandKeeps ==
    ASSUME Rows, Ports, Reached, UpdateTypeOK',
           \/ \E c \in {"start", "stop", "restart", "update"} : RunCommand(c)
           \/ CommandKilled \/ UpdateStepTaken \/ UpdateOver
    PROVE  Rows' /\ Ports' /\ Reached'
<1>1. ASSUME NEW c \in {"start", "stop", "restart", "update"}, RunCommand(c)
      PROVE  Rows' /\ Ports' /\ Reached'
  <2> DEFINE step == CASE c = "start" -> "legacy" [] c = "update" -> "update"
                       [] OTHER -> "stopDaemon"
  <2>1. step \in CliStep /\ step \in Unsettled
    BY DEF CliStep, Unsettled
  <2>2. cli' = [NoCommand EXCEPT !.cmd = c, !.step = step]
    BY <1>1 DEF RunCommand
  <2> HIDE DEF step
  <2>3. cli' \in CommandRow /\ cli'.step \in Unsettled
    BY <2>1, <2>2, BeginRow
  <2>4. UNCHANGED <<saved, config, db, legacy, job, server, daemon, foreign, taken, faults>>
    BY <1>1 DEF RunCommand
  <2> QED BY <2>3, <2>4, OnlySteps DEF Rows
<1>2. CASE CommandKilled
  <2>1. cli' \in CommandRow /\ cli'.step \in Unsettled
    BY <1>2, FailRow DEF CommandKilled, Unsettled
  <2>2. /\ UNCHANGED <<saved, config, db, legacy, job, server, daemon, foreign, taken>>
        /\ faults' \in 0..MaxFaults
    BY <1>2, ServiceAssumption DEF CommandKilled, Fault, Rows
  <2> QED BY <2>1, <2>2, OnlySteps DEF Rows
<1>3. CASE UpdateStepTaken
  <2>1. /\ cli.step = "update" /\ Outdated
        /\ UNCHANGED <<saved, legacy, job, server, daemon, foreign, taken, faults>>
    BY <1>3 DEF UpdateStepTaken
  <2>2. CASE link' = link
    <3>1. UNCHANGED <<config, db, cli>>
      BY <2>1, <2>2 DEF Outdated
    <3> QED BY <2>1, <3>1, OnlySteps DEF Rows, Unsettled
  <2>3. CASE link' # link
    <3> PICK changed \in SUBSET {"config", "db"} :
           /\ db' = IF "db" \in changed THEN Older(db) ELSE db
           /\ config' = IF "config" \in changed THEN [config EXCEPT !.by = Older(@)] ELSE config
           /\ cli' = [cli EXCEPT !.behind = changed]
      BY <2>1, <2>3 DEF Outdated
    <3>1. db' \in Release \cup {"absent"}
      BY OlderRelease DEF Rows
    <3>2. config' \in ConfigRow
      BY OlderRelease DEF Rows, ConfigRow
    <3>3. cli' \in CommandRow /\ cli'.step \in Unsettled
      BY <2>1 DEF Rows, CommandRow, Unsettled
    <3> QED BY <2>1, <3>1, <3>2, <3>3, OnlySteps DEF Rows
  <2> QED BY <2>2, <2>3
<1>4. CASE UpdateOver
  <2>1. cli' \in CommandRow /\ cli'.step \in Unsettled
    BY <1>4, FailRow, StepRow DEF UpdateOver, Rows, CliStep, Unsettled
  <2>2. UNCHANGED <<saved, config, db, legacy, job, server, daemon, foreign, taken, faults>>
    BY <1>4 DEF UpdateOver
  <2> QED BY <2>1, <2>2, OnlySteps DEF Rows
<1> QED BY <1>1, <1>2, <1>3, <1>4

\* A server left to launchd: no job, and no server but one taken for down.
LEMMA LeavingKeeps ==
    ASSUME Rows, Ports, Reached, UpdateTypeOK', LeaveToLaunchd,
           UNCHANGED <<saved, config, db, legacy, daemon, foreign, taken, faults>>
    PROVE  Rows' /\ Ports' /\ Reached'
<1>1. /\ job' = 0 /\ server' \in ServerRow
      /\ \/ server'.phase = "down"
         \/ /\ server'.phase = "closing" /\ server'.port = server.port /\ server.port # 0
            /\ server.phase \in {"up", "closing"}
    BY BootoutEnds DEF LeaveToLaunchd
<1>2. AfterStop \in {"archive", "report"} /\ (AfterStop = "report" => cli.cmd = "stop")
    BY DEF AfterStop
<1>3. /\ cli' \in CommandRow /\ cli'.step = AfterStop /\ cli'.cmd = cli.cmd
      /\ Answers(saved) => cli'.probe = "missed"
    BY <1>2 DEF LeaveToLaunchd, Rows, CommandRow, CliStep
<1>4. server'.phase = "down" \/ TakenForDown'
    BY <1>1, <1>3 DEF TakenForDown, Answers
<1>5. Rows'
    BY <1>1, <1>3, ServerRows DEF Rows
<1> QED BY <1>1, <1>2, <1>3, <1>4, <1>5 DEF Ports, Reached

\* The steps up to the moment the old server and its database are out of use.
LEMMA StoppingKeeps ==
    ASSUME Rows, Ports, Reached, UpdateTypeOK',
           \/ StopDaemon \/ FindLegacy \/ StopServer \/ AwaitDown
           \/ ShutdownTimesOut \/ ArchiveDatabase
    PROVE  Rows' /\ Ports' /\ Reached'
<1>1. CASE StopDaemon
  <2>1. cli' \in CommandRow /\ cli'.step \in Unsettled
    BY <1>1, FailRow, StepRow DEF StopDaemon, Rows, CliStep, Unsettled
  <2>2. daemon' \in DaemonRow
    BY <1>1, DaemonRows DEF StopDaemon, Rows
  <2>3. UNCHANGED <<saved, config, db, legacy, job, server, foreign, taken, faults>>
    BY <1>1 DEF StopDaemon
  <2> QED BY <2>1, <2>2, <2>3, OnlySteps DEF Rows
<1>2. CASE FindLegacy
  <2>1. cli' \in CommandRow /\ cli'.step \in Unsettled
    BY <1>2 DEF FindLegacy, Rows, CommandRow, CliStep, Unsettled
  <2>2. UNCHANGED <<saved, config, db, legacy, job, server, daemon, foreign, taken, faults>>
    BY <1>2 DEF FindLegacy
  <2> QED BY <2>1, <2>2, OnlySteps DEF Rows
<1>3. CASE StopServer
  <2>1. UNCHANGED <<saved, config, db, legacy, daemon, foreign, taken, faults>>
    BY <1>3 DEF StopServer
  <2>2. CASE saved = 0 /\ StepTo(AfterStop) /\ UNCHANGED <<job, server>>
    <3>1. /\ cli' \in CommandRow /\ cli'.step \in {"archive", "report"}
          /\ cli'.cmd = cli.cmd /\ (cli'.step = "report" => cli.cmd = "stop")
      BY <2>2, StepRow DEF AfterStop, Rows, CliStep
    <3>2. job = 0
      BY <2>2 DEF Ports
    <3>3. server.phase = "down" \/ TakenForDown'
      BY <2>1, <2>2, <3>2 DEF Ports, Rows, ServerRow, TakenForDown
    <3>4. Rows'
      BY <2>1, <2>2, <3>1 DEF Rows
    <3> QED BY <2>1, <2>2, <3>1, <3>2, <3>3, <3>4 DEF Ports, Reached
  <2>3. CASE /\ saved # 0 /\ Answers(saved) /\ UNCHANGED job
             /\ server' = [server EXCEPT !.phase = "closing"]
             /\ (StepTo("awaitDown") /\ UNCHANGED updVars) \/ CommandFails
    <3>1. cli' \in CommandRow /\ cli'.step \in Unsettled
      BY <2>3, FailRow, StepRow DEF Rows, CliStep, Unsettled
    <3>2. server' \in ServerRow /\ Ports'
      BY <2>1, <2>3, ClosingPorts
    <3>3. Rows'
      BY <2>1, <2>3, <3>1, <3>2 DEF Rows
    <3> QED BY <3>1, <3>2, <3>3 DEF Reached, Unsettled
  <2>4. CASE CommandFails /\ UNCHANGED <<job, server>>
    <3>1. cli' \in CommandRow /\ cli'.step \in Unsettled
      BY <2>4, FailRow DEF Unsettled
    <3> QED BY <2>1, <2>4, <3>1, OnlySteps DEF Rows
  <2>5. CASE LeaveToLaunchd
    BY <2>1, <2>5, LeavingKeeps
  <2> QED BY <1>3, <2>2, <2>3, <2>4, <2>5 DEF StopServer
<1>4. CASE AwaitDown
    BY <1>4, LeavingKeeps DEF AwaitDown
<1>5. CASE ShutdownTimesOut
  <2>1. cli' \in CommandRow /\ cli'.step \in Unsettled
    BY <1>5, FailRow DEF ShutdownTimesOut, Unsettled
  <2>2. UNCHANGED <<saved, config, db, legacy, job, server, daemon, foreign, taken, faults>>
    BY <1>5 DEF ShutdownTimesOut
  <2> QED BY <2>1, <2>2, OnlySteps DEF Rows
<1>6. CASE ArchiveDatabase
  <2>1. cli' \in CommandRow /\ cli'.step \in Unsettled
    BY <1>6 DEF ArchiveDatabase, Rows, CommandRow, CliStep, Unsettled
  <2>2. /\ UNCHANGED <<saved, config, legacy, job, server, daemon, foreign, taken, faults>>
        /\ db' \in Release \cup {"absent"}
    BY <1>6, OpenedRow DEF ArchiveDatabase, Rows
  <2> QED BY <2>1, <2>2, OnlySteps DEF Rows
<1> QED BY <1>1, <1>2, <1>3, <1>4, <1>5, <1>6

\* The steps that find a port and install the server at it.
LEMMA InstallingKeeps ==
    ASSUME Rows, Ports, Reached, UpdateTypeOK',
           ReuseServer \/ Preflight \/ Install \/ AwaitReady \/ Recover
    PROVE  Rows' /\ Ports' /\ Reached'
<1>1. CASE ReuseServer
  <2> PICK p \in IF saved = 0 THEN Free ELSE {saved} :
         /\ saved' = p
         /\ \/ /\ Answers(p)
               /\ cli' = [cli EXCEPT !.step = "archiveLegacy", !.port = p]
               /\ UNCHANGED <<job, server>>
            \/ /\ BootoutServer
               /\ cli' = [cli EXCEPT !.step = "preflight", !.port = p]
    BY <1>1 DEF ReuseServer
  <2>1. p \in Opt /\ p # 0 /\ (job # 0 => p = saved)
    BY ServiceAssumption DEF Free, Opt, Rows, Ports
  <2>2. UNCHANGED <<config, db, legacy, daemon, foreign, taken, faults>>
    BY <1>1 DEF ReuseServer
  <2>3. CASE /\ Answers(p) /\ UNCHANGED <<job, server>>
             /\ cli' = [cli EXCEPT !.step = "archiveLegacy", !.port = p]
    <3>1. server.port = p
      BY <2>3 DEF Answers
    <3>2. cli' \in CommandRow /\ cli'.step = "archiveLegacy" /\ cli'.port = p
      BY <2>1, <2>3, PortRow DEF Rows, CliStep
    <3>3. Rows'
      BY <2>1, <2>2, <2>3, <3>2 DEF Rows
    <3> QED BY <2>1, <2>2, <2>3, <3>1, <3>2, <3>3 DEF Ports, Reached
  <2>4. CASE BootoutServer /\ cli' = [cli EXCEPT !.step = "preflight", !.port = p]
    <3>1. /\ job' = 0 /\ server' \in ServerRow
          /\ \/ server'.phase = "down"
             \/ server'.phase = "closing" /\ server'.port = server.port /\ server.port # 0
      BY <2>4, BootoutEnds
    <3>2. cli' \in CommandRow /\ cli'.step = "preflight" /\ cli'.port = p
      BY <2>1, <2>4, PortRow DEF Rows, CliStep
    <3>3. Rows'
      BY <2>1, <2>2, <3>1, <3>2, ServerRows DEF Rows
    <3> QED BY <2>1, <3>1, <3>2, <3>3 DEF Ports, Reached
  <2> QED BY <2>3, <2>4
<1>2. CASE Preflight
  <2>1. /\ cli.step = "preflight"
        /\ UNCHANGED <<config, legacy, job, server, daemon, foreign, taken, faults>>
    BY <1>2 DEF Preflight
  <2>2. CASE CommandFails /\ UNCHANGED <<saved, db>>
    <3>1. cli' \in CommandRow /\ cli'.step \in Unsettled
      BY <2>2, FailRow DEF Unsettled
    <3> QED BY <2>1, <2>2, <3>1, OnlySteps DEF Rows
  <2>3. ASSUME db' = Opened, NEW p \in IF Listening(cli.port) THEN Free ELSE {cli.port},
               saved' = p, cli' = [cli EXCEPT !.step = "install", !.port = p]
        PROVE  Rows' /\ Ports' /\ Reached'
    <3>1. p \in Opt /\ p # 0
      BY <2>1, <2>3, ServiceAssumption DEF Free, Opt, Reached, Rows
    <3>2. cli' \in CommandRow /\ cli'.step = "install" /\ cli'.port = p
      BY <2>3, <3>1, PortRow DEF Rows, CliStep
    <3>3. job = 0 /\ job' = 0 /\ server' = server
      BY <2>1 DEF Reached
    <3>4. Rows'
      BY <2>1, <2>3, <3>1, <3>2, OpenedRow DEF Rows
    <3> QED BY <2>3, <3>1, <3>2, <3>3, <3>4 DEF Ports, Reached
  <2> QED BY <1>2, <2>2, <2>3 DEF Preflight
<1>3. CASE Install
  <2>1. cli.step = "install" /\ UNCHANGED <<saved, config, db, legacy, daemon, foreign, taken, faults>>
    BY <1>3 DEF Install
  <2>2. cli.port = saved /\ saved # 0
    BY <2>1 DEF Reached
  <2>3. CASE job' = cli.port /\ server' = Failed /\ StepTo("awaitReady")
    <3>1. cli' \in CommandRow /\ cli'.step = "awaitReady" /\ cli'.port = cli.port
      BY <2>3, StepRow DEF Rows, CliStep
    <3>2. Rows'
      BY <2>1, <2>2, <2>3, <3>1, ServerRows DEF Rows
    <3> QED BY <2>1, <2>2, <2>3, <3>1, <3>2, ServerRows DEF Ports, Reached
  <2>4. CASE StepTo("recover") /\ UNCHANGED <<job, server>>
    <3>1. cli' \in CommandRow /\ cli'.step = "recover" /\ cli'.port = cli.port
      BY <2>4, StepRow DEF Rows, CliStep
    <3>2. Rows'
      BY <2>1, <2>4, <3>1 DEF Rows
    <3> QED BY <2>1, <2>2, <2>4, <3>1, <3>2 DEF Ports, Reached
  <2> QED BY <1>3, <2>3, <2>4 DEF Install
<1>4. CASE AwaitReady
  <2>1. /\ cli.step = "awaitReady"
        /\ UNCHANGED <<saved, config, db, legacy, job, server, daemon, foreign, taken, faults>>
    BY <1>4 DEF AwaitReady
  <2>2. /\ cli' \in CommandRow /\ cli'.port = cli.port
        /\ cli'.step = "recover" \/ (cli'.step = "archiveLegacy" /\ server.port = cli.port)
    BY <1>4, StepRow DEF AwaitReady, Rows, CliStep, Answers
  <2>3. Rows'
    BY <2>1, <2>2 DEF Rows
  <2> QED BY <2>1, <2>2, <2>3 DEF Ports, Reached
<1>5. CASE Recover
  <2>1. cli.step = "recover" /\ UNCHANGED <<config, db, legacy, daemon, foreign, taken, faults>>
    BY <1>5 DEF Recover
  <2>2. CASE CommandFails /\ UNCHANGED <<saved, job, server>>
    <3>1. cli' \in CommandRow /\ cli'.step \in Unsettled
      BY <2>2, FailRow DEF Unsettled
    <3> QED BY <2>1, <2>2, <3>1, OnlySteps DEF Rows
  <2>3. ASSUME cli.attempt < 2, BootoutServer, NEW p \in Free \ {cli.port}, saved' = p,
               cli' = [cli EXCEPT !.step = "install", !.port = p, !.attempt = @ + 1]
        PROVE  Rows' /\ Ports' /\ Reached'
    <3>1. p \in Opt /\ p # 0
      BY ServiceAssumption DEF Free, Opt
    <3>2. cli' \in CommandRow /\ cli'.step = "install" /\ cli'.port = p
      BY <2>3, <3>1, RetryRow DEF Rows
    <3>3. /\ job' = 0 /\ server' \in ServerRow
          /\ \/ server'.phase = "down"
             \/ server'.phase = "closing" /\ server'.port = server.port /\ server.port # 0
      BY <2>3, BootoutEnds
    <3>4. Rows'
      BY <2>1, <2>3, <3>1, <3>2, <3>3, ServerRows DEF Rows
    <3> QED BY <2>3, <3>1, <3>2, <3>3, <3>4 DEF Ports, Reached
  <2> QED BY <1>5, <2>2, <2>3 DEF Recover
<1> QED BY <1>1, <1>2, <1>3, <1>4, <1>5

\* The steps that start the daemon and report.
LEMMA ReportingKeeps ==
    ASSUME Rows, Ports, Reached, UpdateTypeOK', ArchiveLegacy \/ StartDaemon \/ Report
    PROVE  Rows' /\ Ports' /\ Reached'
<1>1. CASE ArchiveLegacy
  <2>1. /\ cli.step = "archiveLegacy" /\ legacy' \in BOOLEAN
        /\ UNCHANGED <<saved, config, db, job, server, daemon, foreign, taken, faults>>
    BY <1>1 DEF ArchiveLegacy
  <2>2. cli' \in CommandRow /\ cli'.step = "startDaemon" /\ cli'.port = cli.port
    BY <1>1, StepRow DEF ArchiveLegacy, Rows, CliStep
  <2>3. Rows'
    BY <2>1, <2>2 DEF Rows
  <2> QED BY <2>1, <2>2, <2>3 DEF Ports, Reached
<1>2. CASE StartDaemon
  <2>1. /\ cli.step = "startDaemon"
        /\ UNCHANGED <<saved, config, db, legacy, job, server, foreign, taken, faults>>
    BY <1>2 DEF StartDaemon
  <2>2. /\ daemon' \in DaemonRow
        /\ daemon'.port = IF config.by = "current" THEN config.port ELSE 0
    <3>1. config.port \in Opt /\ 0 \in Opt
      BY ServerRows DEF Rows, ConfigRow
    <3> QED BY <1>2, <3>1 DEF StartDaemon, DaemonRow
  <2>3. CASE CommandFails
    <3>1. cli' \in CommandRow /\ cli'.step \in Unsettled
      BY <2>3, FailRow DEF Unsettled
    <3> QED BY <2>1, <2>2, <3>1, OnlySteps DEF Rows
  <2>4. CASE /\ config.port # 0 /\ config.by = "current" /\ Answers(config.port)
             /\ StepTo("report")
    <3>1. cli' \in CommandRow /\ cli'.step = "report" /\ cli'.port = cli.port
      BY <2>4, StepRow DEF Rows, CliStep
    <3>2. config.port = saved /\ cli.port = saved /\ saved # 0
      BY <2>1, <2>4 DEF Reached, Answers
    <3>3. Rows'
      BY <2>1, <2>2, <3>1 DEF Rows
    <3> QED BY <2>1, <2>2, <2>4, <3>1, <3>2, <3>3 DEF Ports, Reached
  <2> QED BY <1>2, <2>3, <2>4 DEF StartDaemon
<1>3. CASE Report
  <2>1. cli' \in CommandRow /\ cli'.step \in Unsettled
    BY <1>3, IdleRow DEF Report, Unsettled
  <2>2. UNCHANGED <<saved, config, db, legacy, job, server, daemon, foreign, taken, faults>>
    BY <1>3 DEF Report
  <2> QED BY <2>1, <2>2, OnlySteps DEF Rows
<1> QED BY <1>1, <1>2, <1>3

\* Inv is inductive.
THEOREM InvCorrect == Spec => []Inv
<1>1. Init => Inv
  <2> SUFFICES ASSUME Init PROVE Inv
    OBVIOUS
  <2>1. cli \in CommandRow /\ cli.step = "idle" /\ server \in ServerRow /\ server.phase = "down"
    BY IdleRow, ServerRows DEF Init
  <2>2. daemon \in DaemonRow
    BY DaemonRows DEF Init
  <2>3. UpdateTypeOK /\ Installing
    BY UpdateAssumption
    DEF Init, UpdateInit, UpdateTypeOK, Installing, NoUpdate, BundleId, UpdateStep, Download
  <2>4. config \in ConfigRow /\ db \in Release \cup {"absent"}
    BY ServerRows DEF Init, ConfigRow, Release
  <2>5. Rows
    BY <2>1, <2>2, <2>3, <2>4, ServerRows, ServiceAssumption DEF Init, Rows
  <2> QED BY <2>1, <2>3, <2>5 DEF Init, Inv, Ports, Reached
<1>2. Inv /\ [Next]_vars => Inv'
  <2> SUFFICES ASSUME Inv, [Next]_vars PROVE Inv'
    OBVIOUS
  <2>1. UpdateTypeOK' /\ Installing'
    BY UpdaterStep DEF Inv
  <2>2. CASE Processes
    BY <2>1, <2>2, ProcessesKeep DEF Inv
  <2>3. CASE CommandStep
    BY <2>1, <2>3, UpdateCommandKeeps, StoppingKeeps, InstallingKeeps, ReportingKeeps
    DEF CommandStep, Inv
  <2>4. CASE CommandKilled \/ \E c \in {"start", "stop", "restart", "update"} : RunCommand(c)
    BY <2>1, <2>4, UpdateCommandKeeps DEF Inv
  <2>5. CASE UNCHANGED vars
    BY <2>1, <2>5 DEF vars, serviceVars, Inv, Rows, Ports, Reached, TakenForDown
  <2> QED BY <2>2, <2>3, <2>4, <2>5 DEF Next
<1> QED BY <1>1, <1>2, PTL DEF Spec

-----------------------------------------------------------------------------
(* The properties *)

\* The executable always leads to a bundle that was copied whole, checked and
\* made from a genuine release, whichever step of whichever update failed.
THEOREM ExecutableWorksCorrect == Spec => []ExecutableWorks
<1>1. Inv => ExecutableWorks
    BY DEF Inv, Installing, ExecutableWorks
<1> QED BY <1>1, InvCorrect, PTL

\* A command that reports a port is followed by everything that names one, and
\* a database is archived only while nothing is launched and no server has it open
\* but one that shuts down and was taken for down - though any probe may be missed.
THEOREM CommandsSoundCorrect == Spec => CommandsSound
<1>1. Inv => TypeOK
    BY DEF Inv, Rows, TypeOK, ServerRow, DaemonRow, ConfigRow, CommandRow
<1>2. Inv /\ [Next]_vars => [Report /\ cli.cmd # "stop" =>
                                /\ {saved, config.port, daemon.port} = {cli.port}
                                /\ job = cli.port \/ Leaving]_vars
  <2> SUFFICES ASSUME Inv, Report, cli.cmd # "stop"
               PROVE  {saved, config.port, daemon.port} = {cli.port} /\ (job = cli.port \/ Leaving)
    OBVIOUS
  <2>1. cli.port = saved /\ config.port = saved /\ daemon.port = saved
    BY DEF Inv, Reached, Report
  <2>2. CASE job # 0
    BY <2>1, <2>2 DEF Inv, Ports
  <2>3. CASE job = 0
    BY <2>1, <2>3 DEF Inv, Ports, Rows, ServerRow, Leaving
  <2> QED BY <2>1, <2>2, <2>3
<1>3. Inv /\ [Next]_vars => [ArchiveDatabase /\ ~Accepts =>
                                job = 0 /\ (server.phase = "down" \/ TakenForDown)]_vars
    BY DEF Inv, Reached, ArchiveDatabase
<1> QED BY <1>1, <1>2, <1>3, InvCorrect, PTL
        DEF Spec, CommandsSound, ReportedServerIsReached, ArchivedWhileClosed

===============================================================================
