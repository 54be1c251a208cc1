---------------------------- MODULE RunPlanning ----------------------------
(***************************************************************************)
(* The files a Run is planned from, and the start of a Run.                *)
(*                                                                         *)
(* .ballet/project.json, the Agent files .codex/agents/*.toml and the      *)
(* Skill files belong to the user's Git checkout.  The server edits them   *)
(* for its authoring requests: config alone (EditConfig), one Skill        *)
(* (PutSkill, RemoveSkill), or config together with Agent files in several *)
(* writes that a failure undoes (Command, WriteNext, Undo).  A request is  *)
(* one synchronous stretch of the server's event loop, so nothing of the   *)
(* server runs between its writes; a crash, a failing write and the git    *)
(* processes of a start do.                                                *)
(*                                                                         *)
(* POST start reads those files and then waits for git four times: HEAD,   *)
(* the status, HEAD again and the new worktree.  Until its row is written  *)
(* nothing locks the files, and the user may commit.                       *)
(***************************************************************************)
EXTENDS Naturals, Sequences, SequencesExt, FiniteSets, Functions

CONSTANTS
  Action,          \* ids of Actions
  Skill,           \* ids of Skills
  Text,            \* contents of a config, an Agent or a Skill
  LongText,        \* contents of Skills that together exceed the prompt limit
  Start,           \* requests that start a Run
  FirstAction,     \* the Action a new project has
  MaxEdits,        \* bound: authoring requests
  MaxCommits,      \* bound: commits of the user
  MaxFaults,       \* bound: writes and git commands that fail
  MaxCrashes       \* bound: deaths of the server

ASSUME PlanningAssumption ==
  /\ FirstAction \in Action
  /\ LongText \subseteq Text /\ LongText # Text
  /\ Text \cap (Action \X {"validation", "work"}) = {} /\ <<>> \notin Text
  /\ {MaxEdits, MaxCommits, MaxFaults, MaxCrashes} \subseteq Nat

VARIABLES
  disk,       \* the checkout's files
  commits,    \* the commits of its branch, oldest first
  command,    \* the authoring command that is writing, or Idle
  start,      \* the start requests
  run,        \* the Runs they created
  worktree,   \* commit checked out in the worktree of a Run, 0 for none
  task,       \* the Agent task a Run dispatched last
  used        \* how much of each bound is used

vars == <<disk, commits, command, start, run, worktree, task, used>>

(***************************************************************************)
(* Files.                                                                  *)
(***************************************************************************)
Role == {"validation", "work"}
Absent == <<>>
Critic == "critic"

\* The Agent files: a validation and a work file for every Action, and one
\* for a governance Agent, which always exists.
ActionFile == Action \X Role
AgentFile == ActionFile \cup {<<Critic, Critic>>}

\* What a file holds: a starter text, which names its own Action and role,
\* or a text of the user.
AgentText == AgentFile \cup Text

Config == [actions : SUBSET Action, text : Text, skills : SUBSET Skill]

FilesOf(actions) == actions \X Role

\* The Agent files are exactly those of the Actions, and no two have the
\* same instructions.
RequireActionSet(agent, actions) ==
  LET present == {f \in ActionFile : agent[f] # Absent}
  IN /\ present = FilesOf(actions)
     /\ IsInjective(Restrict(agent, present))

\* What a Run freezes of a project.
SnapshotOf(project) ==
  [config |-> project.config,
   agent  |-> Restrict(project.agent, FilesOf(project.config.actions)
                                        \cup {<<Critic, Critic>>}),
   skill  |-> Restrict(project.skill, project.config.skills)]

HeadCommit == Len(commits)
Clean == disk = commits[HeadCommit]

(***************************************************************************)
(* Runs.                                                                   *)
(***************************************************************************)
Idle == [op |-> "none"]
NoTask == [role |-> "none"]
NoStart == [pc |-> "new", base |-> 0, raced |-> FALSE, snapshot |-> [skill |-> <<>>]]
InFlight == {"head", "status", "base", "add", "create", "discard"}

Active == {s \in Start : run[s] = "active"}
Free == command = Idle

\* Skills the snapshots of these Runs hold; they may be neither changed
\* (active Runs) nor removed (all Runs).
SkillsOf(starts) == UNION {DOMAIN start[s].snapshot.skill : s \in starts}

Spend(kind, bound) ==
  /\ used[kind] < bound
  /\ used' = [used EXCEPT ![kind] = @ + 1]

\* An edit or a commit between the read of the files and the check that they
\* are committed.
Race == [s \in Start |-> IF start[s].pc \in {"head", "status"}
                         THEN [start[s] EXCEPT !.raced = TRUE] ELSE start[s]]

TypeOK ==
  /\ disk.config \in Config
  /\ disk.agent \in [AgentFile -> AgentText \cup {Absent}]
  /\ disk.skill \in [Skill -> Text \cup {Absent}]
  /\ command.op \in {"none", "writing", "undoing"}
  /\ \A s \in Start : /\ start[s].pc \in InFlight \cup {"new", "done"}
                      /\ start[s].base \in 0..HeadCommit
  /\ run \in [Start -> {"none", "active", "over"}]
  /\ worktree \in [Start -> 0..HeadCommit]
  /\ DOMAIN task = Start

Init ==
  /\ disk = [config |-> [actions |-> {FirstAction}, text |-> CHOOSE t \in Text : TRUE,
                         skills |-> Skill],
             agent  |-> [f \in AgentFile |->
                           IF f \in FilesOf({FirstAction}) \cup {<<Critic, Critic>>}
                           THEN f ELSE Absent],
             skill  |-> [k \in Skill |-> CHOOSE t \in Text : t \notin LongText]]
  /\ commits = <<disk>>
  /\ command = Idle
  /\ start = [s \in Start |-> NoStart]
  /\ run = [s \in Start |-> "none"]
  /\ worktree = [s \in Start |-> 0]
  /\ task = [s \in Start |-> NoTask]
  /\ used = [edit |-> 0, fault |-> 0, undo |-> 0, crash |-> 0]

-----------------------------------------------------------------------------
(***************************************************************************)
(* Authoring.                                                              *)
(***************************************************************************)

\* An edit of the files from a request: the hash the client sends is checked
\* against the same files in the same step, so only the change shows here.
Edit(project) ==
  /\ Free
  /\ Spend("edit", MaxEdits)
  /\ disk' = project
  /\ start' = Race
  /\ UNCHANGED <<commits, run, worktree, task>>

\* Project, Environment, State, order and priority commands: they write the
\* config and leave the Actions' files alone.
EditConfig(text, skills) ==
  LET config == [disk.config EXCEPT !.text = text, !.skills = skills]
  IN /\ config # disk.config
     /\ Active = {}
     /\ Edit([disk EXCEPT !.config = config])
     /\ UNCHANGED command

SkillLockedByConfig(k) == Active # {} /\ k \in disk.config.skills
SkillLocked(k) == k \in SkillsOf(Active)

PutSkill(k, text) ==
  /\ disk.skill[k] # text
  /\ ~SkillLocked(k)
  /\ Edit([disk EXCEPT !.skill[k] = text])
  /\ UNCHANGED command

RemoveSkill(k) ==
  /\ disk.skill[k] # Absent
  /\ k \notin disk.config.skills \cup SkillsOf({s \in Start : run[s] # "none"})
  /\ Edit([disk EXCEPT !.skill[k] = Absent])
  /\ UNCHANGED command

\* A command that changes config and Agent files: the config is saved first,
\* then one file after the other is written or deleted.  A command on an
\* Action checks the inventory at its end and keeps the texts it writes over;
\* the one on a governance Agent does neither.  A State created or removed
\* with several Actions writes their files in the same way, in more steps.
Command(config, writes, inventory) ==
  LET kept == IF inventory THEN {writes[i][1] : i \in DOMAIN writes} ELSE {}
  IN /\ Active = {}
     /\ config.actions # {}
     /\ Edit([disk EXCEPT !.config = config])
     /\ command' = [op |-> "writing", todo |-> writes, inventory |-> inventory,
                    config |-> disk.config, files |-> [f \in kept |-> disk.agent[f]]]

Writes(a, validation, work) ==
  <<  <<<<a, "validation">>, validation>>, <<<<a, "work">>, work>>  >>

CreateAction(a) ==
  /\ a \notin disk.config.actions
  /\ \A f \in FilesOf({a}) : disk.agent[f] = Absent
  /\ Command([disk.config EXCEPT !.actions = @ \cup {a}],
             Writes(a, <<a, "validation">>, <<a, "work">>), TRUE)

UpdateAction(a, text, validation, work) ==
  /\ a \in disk.config.actions
  /\ \A f \in FilesOf({a}) : disk.agent[f] # Absent
  /\ Command([disk.config EXCEPT !.text = text], Writes(a, validation, work), TRUE)

RemoveAction(a) ==
  /\ a \in disk.config.actions
  /\ \A f \in FilesOf({a}) : disk.agent[f] # Absent
  /\ Command([disk.config EXCEPT !.actions = @ \ {a}], Writes(a, Absent, Absent), TRUE)

PutAgent(text, skills) ==
  Command([disk.config EXCEPT !.skills = skills], << <<<<Critic, Critic>>, text>> >>, FALSE)

WriteNext ==
  /\ command.op = "writing"
  /\ command.todo # <<>>
  /\ LET write == Head(command.todo)
     IN disk' = [disk EXCEPT !.agent[write[1]] = write[2]]
  /\ command' = [command EXCEPT !.todo = Tail(@)]
  /\ UNCHANGED <<commits, start, run, worktree, task, used>>

\* The writes are done and the inventory holds: the command succeeds.
Accepted ==
  command.inventory => RequireActionSet(disk.agent, disk.config.actions)

CommandEnds ==
  /\ command.op = "writing"
  /\ command.todo = <<>>
  /\ Accepted
  /\ command' = Idle
  /\ UNCHANGED <<disk, commits, start, run, worktree, task, used>>

\* A write fails, or a read after the last one, or the inventory does not hold.
CommandFails ==
  /\ command.op = "writing"
  /\ \/ Spend("fault", MaxFaults)
     \/ command.todo = <<>> /\ ~Accepted /\ UNCHANGED used
  /\ command' = [command EXCEPT !.op = "undoing"]
  /\ UNCHANGED <<disk, commits, start, run, worktree, task>>

\* The files a failed command kept: those that were there get their text
\* back, those that were not are deleted.
RestoredFileThatWas(f) == IF command.files[f] = Absent THEN disk.agent[f] ELSE command.files[f]
RestoredFile(f) == command.files[f]

Restored(files) ==
  [disk EXCEPT !.config = command.config,
               !.agent = [f \in AgentFile |-> IF f \in files THEN RestoredFile(f)
                                                             ELSE @[f]]]

Undo ==
  /\ command.op = "undoing"
  /\ disk' = Restored(DOMAIN command.files)
  /\ command' = Idle
  /\ UNCHANGED <<commits, start, run, worktree, task, used>>

\* A write of the undoing fails too: config, then a part of the files.
PartlyRestored ==
  \/ UNCHANGED disk
  \/ \E files \in SUBSET DOMAIN command.files : disk' = Restored(files)

UndoFails ==
  /\ command.op = "undoing"
  /\ Spend("undo", MaxFaults)
  /\ PartlyRestored
  /\ command' = Idle
  /\ UNCHANGED <<commits, start, run, worktree, task>>

(***************************************************************************)
(* The user commits what the checkout holds.                               *)
(***************************************************************************)
Commit ==
  /\ Free
  /\ ~Clean
  /\ HeadCommit <= MaxCommits
  /\ commits' = Append(commits, disk)
  /\ start' = Race
  /\ UNCHANGED <<disk, command, run, worktree, task, used>>

-----------------------------------------------------------------------------
(***************************************************************************)
(* The start of a Run.                                                     *)
(***************************************************************************)
At(s, pc) == start[s].pc = pc

Goto(s, pc) == start' = [start EXCEPT ![s].pc = pc]

\* The answer to the client; nothing is left of the request.
Refuse(s) ==
  /\ Goto(s, "done")
  /\ UNCHANGED <<disk, commits, command, run, worktree, task>>

Reads(s) ==
  /\ At(s, "new")
  /\ Free
  /\ UNCHANGED used
  /\ IF RequireActionSet(disk.agent, disk.config.actions)
     THEN /\ start' = [start EXCEPT ![s] = [@ EXCEPT !.pc = "head",
                                                     !.snapshot = SnapshotOf(disk)]]
          /\ UNCHANGED <<disk, commits, command, run, worktree, task>>
     ELSE Refuse(s)

\* The Skills that the config selects must exist.
SkillsResolved(s) ==
  Absent \notin Range(start[s].snapshot.skill)

\* The daemon is away, or Codex not ready, or without a model of an Agent.
PreflightFails(s) == Refuse(s)

\* git rev-parse HEAD, then the selected Skills and the provider's preflight.
ReadsHead(s) ==
  /\ At(s, "head")
  /\ UNCHANGED used
  /\ \/ /\ SkillsResolved(s)
        /\ start' = [start EXCEPT ![s].pc = "status", ![s].base = HeadCommit]
        /\ UNCHANGED <<disk, commits, command, run, worktree, task>>
     \/ PreflightFails(s)

AnyStatus == TRUE
StatusAccepted == Clean

ChecksStatus(s) ==
  /\ At(s, "status")
  /\ UNCHANGED used
  /\ IF StatusAccepted
     THEN Goto(s, "base") /\ UNCHANGED <<disk, commits, command, run, worktree, task>>
     ELSE Refuse(s)

ChecksBase(s) ==
  /\ At(s, "base")
  /\ UNCHANGED used
  /\ IF HeadCommit = start[s].base
     THEN Goto(s, "add") /\ UNCHANGED <<disk, commits, command, run, worktree, task>>
     ELSE Refuse(s)

AddsWorktree(s) ==
  /\ At(s, "add")
  /\ \/ /\ worktree' = [worktree EXCEPT ![s] = start[s].base]
        /\ Goto(s, "create")
        /\ UNCHANGED <<disk, commits, command, run, task, used>>
     \/ Spend("fault", MaxFaults) /\ Refuse(s)

\* The task of an Agent: everything in it comes from the snapshot.
SkillsTooLong(s) ==
  \E k \in DOMAIN start[s].snapshot.skill : start[s].snapshot.skill[k] \in LongText

\* What a role may do, and to which Runs' worktrees: only Work writes, and
\* only to the worktree of its own Run.
ToolPolicy(role) == IF role = "work" THEN "workspace_write" ELSE "read_only"

Permissions(role, s) ==
  [readable |-> {s},
   writable |-> IF ToolPolicy(role) = "workspace_write" THEN {s} ELSE {}]

TaskOf(s, a, role) ==
  [role |-> role, agent |-> start[s].snapshot.agent[<<a, role>>],
   resources |-> start[s].snapshot.skill,
   access |-> Permissions(role, s), head |-> start[s].base]

\* The row is written and the first Action selected, each in its transaction;
\* then the Agent is dispatched, which fails on a prompt that is too long.
\* Any failure discards the worktree.
Creates(s) ==
  /\ At(s, "create")
  /\ Free
  /\ UNCHANGED <<disk, commits, command, worktree>>
  /\ \/ /\ ~SkillsTooLong(s)
        /\ \E a \in start[s].snapshot.config.actions :
              task' = [task EXCEPT ![s] = TaskOf(s, a, "validation")]
        /\ run' = [run EXCEPT ![s] = "active"]
        /\ Goto(s, "done")
        /\ UNCHANGED used
     \/ /\ SkillsTooLong(s)
        /\ run' = [run EXCEPT ![s] = "active"]
        /\ Goto(s, "discard")
        /\ UNCHANGED <<task, used>>
     \/ /\ Spend("fault", MaxFaults)
        /\ Goto(s, "discard")
        /\ UNCHANGED <<run, task>>

CreateFailsUndiscarded(s) ==
  /\ At(s, "discard")
  /\ Goto(s, "done")
  /\ UNCHANGED <<disk, commits, command, run, worktree, task, used>>

Discards(s) ==
  /\ At(s, "discard")
  /\ worktree' = [worktree EXCEPT ![s] = 0]
  /\ Goto(s, "done")
  /\ UNCHANGED <<disk, commits, command, run, task, used>>

(***************************************************************************)
(* The rest of a Run, which EnvironmentRun details: Agents take turns, and *)
(* the Run completes, its worktree going with it, or ends some other way.  *)
(***************************************************************************)
Dispatches(s) ==
  /\ run[s] = "active"
  /\ Free
  /\ task[s] # NoTask
  /\ \E a \in start[s].snapshot.config.actions, role \in Role :
        task' = [task EXCEPT ![s] = TaskOf(s, a, role)]
  /\ UNCHANGED <<disk, commits, command, start, run, worktree, used>>

Completes(s) ==
  /\ run[s] = "active"
  /\ Free
  /\ task[s] # NoTask
  /\ run' = [run EXCEPT ![s] = "over"]
  /\ worktree' = [worktree EXCEPT ![s] = 0]
  /\ UNCHANGED <<disk, commits, command, start, task, used>>

Ends(s) ==
  /\ run[s] = "active"
  /\ Free
  /\ run' = [run EXCEPT ![s] = "over"]
  /\ UNCHANGED <<disk, commits, command, start, worktree, task, used>>

\* The server dies, and with it the requests it was serving, and is started
\* again.  What was on disk stays as it was.
Crash ==
  /\ Spend("crash", MaxCrashes)
  /\ start' = [s \in Start |-> IF start[s].pc \in InFlight
                               THEN [start[s] EXCEPT !.pc = "done"] ELSE start[s]]
  /\ IF command.op = "undoing" THEN PartlyRestored ELSE UNCHANGED disk
  /\ command' = Idle
  /\ UNCHANGED <<commits, run, worktree, task>>

-----------------------------------------------------------------------------
EnvironmentRequests ==
  \/ \E text \in Text, skills \in SUBSET Skill : EditConfig(text, skills)
  \/ \E a \in Action : \/ CreateAction(a)
                       \/ RemoveAction(a)
                       \/ \E text, validation, work \in Text :
                             UpdateAction(a, text, validation, work)

DocumentRequests ==
  \/ \E text \in Text, skills \in SUBSET Skill : PutAgent(text, skills)
  \/ \E k \in Skill : RemoveSkill(k) \/ \E text \in Text : PutSkill(k, text)

Authoring ==
  \/ EnvironmentRequests \/ DocumentRequests
  \/ WriteNext \/ CommandEnds \/ CommandFails \/ Undo \/ UndoFails

Starting(s) ==
  \/ Reads(s) \/ ReadsHead(s) \/ ChecksStatus(s) \/ ChecksBase(s)
  \/ AddsWorktree(s) \/ Creates(s) \/ Discards(s)
  \/ Dispatches(s) \/ Completes(s) \/ Ends(s)

Next == Authoring \/ Commit \/ Crash \/ \E s \in Start : Starting(s)

Spec == Init /\ [][Next]_vars

-----------------------------------------------------------------------------
(***************************************************************************)
(* Properties.                                                             *)
(***************************************************************************)

\* Config and Agent files belong together whenever no command is writing:
\* neither a write that fails nor an inventory that is refused leaves one
\* without the other.  Only a crash in the middle of a command, or a failure
\* of the undoing itself, does.
ProjectWhole ==
  Free /\ used.crash = 0 /\ used.undo = 0
     => RequireActionSet(disk.agent, disk.config.actions)

\* A Run works on what its snapshot froze: unless the files changed, or were
\* committed, between their read and the check that they are committed, the
\* commit in the Run's worktree holds the config, the Agents and the Skills
\* of the snapshot.
SnapshotCommitted ==
  \A s \in Start : run[s] # "none" /\ worktree[s] # 0 /\ ~start[s].raced
     => SnapshotOf(commits[worktree[s]]) = start[s].snapshot

\* What a step leaves as it is for the sake of the active Runs.
LockedFilesKept ==
  \A s \in Active : /\ disk'.config = disk.config
                    /\ disk'.agent = disk.agent
                    /\ \A k \in DOMAIN start[s].snapshot.skill :
                          disk'.skill[k] = disk.skill[k]

\* While a Run is active no request changes config or an Agent, or a Skill
\* the Run's snapshot holds, be it still selected in the config or not.
LockedWhileActive == [][LockedFilesKept]_vars

\* A worktree belongs to a Run or to a request that is about to create one,
\* and an active Run has its worktree.  The exceptions: a crash leaves the
\* worktree of the request it killed, and a Run whose first Agent could not
\* be dispatched loses its own.
WorktreesOwned ==
  \A s \in Start :
     /\ worktree[s] # 0 /\ run[s] = "none"
           => At(s, "create") \/ At(s, "discard") \/ used.crash > 0
     /\ run[s] = "active" /\ worktree[s] = 0 => SkillsTooLong(s)

\* Files, requests and Runs have their types, and no worktree is without owner.
PlanningSound == TypeOK /\ WorktreesOwned

\* An active Run has a worktree.
ActiveRunHasWorktree ==
  \A s \in Start : run[s] = "active" => worktree[s] # 0
=============================================================================
