-------------------------- MODULE RunPlanningProofs --------------------------
(***************************************************************************)
(* Proofs about RunPlanning for every set of Actions, Skills, texts and    *)
(* starts, and any number of edits, commits, failures and crashes.         *)
(***************************************************************************)
EXTENDS RunPlanning, TLAPS

-----------------------------------------------------------------------------
(* The inductive invariant *)

Project == [config : Config,
            agent  : [AgentFile -> AgentText \cup {Absent}],
            skill  : [Skill -> Text \cup {Absent}]]

Write == AgentFile \X (AgentText \cup {Absent})

\* What a command found in the files it writes.
Found == UNION {[files -> AgentText \cup {Absent}] : files \in SUBSET AgentFile}

Writing == [op : {"writing", "undoing"}, todo : Seq(Write), inventory : BOOLEAN,
            config : Config, files : Found]

Snapshots == {[skill |-> <<>>]} \cup {SnapshotOf(project) : project \in Project}

Request == [pc : InFlight \cup {"new", "done"}, base : Nat, raced : BOOLEAN,
            snapshot : Snapshots]

Rows ==
  /\ start \in [Start -> Request]
  /\ run \in [Start -> {"none", "active", "over"}]
  /\ worktree \in [Start -> Nat]
  /\ DOMAIN task = Start
  /\ used \in [{"edit", "fault", "undo", "crash"} -> Nat]

Files ==
  /\ disk \in Project
  /\ commits \in Seq(Project) /\ HeadCommit > 0
  /\ command = Idle \/ command \in Writing

Kept == Rows /\ Files

\* No Run is active while a command writes; one with an inventory writes only
\* to files that it knows how to restore, one without leaves those of Actions alone.
Exclusive ==
  command # Idle =>
    /\ Active = {}
    /\ \A i \in DOMAIN command.todo :
         /\ command.inventory => command.todo[i][1] \in DOMAIN command.files
         /\ ~command.inventory => command.todo[i][1] \notin ActionFile

\* The Agent files as the undoing would leave them.
Undone == [f \in AgentFile |-> IF f \in DOMAIN command.files THEN command.files[f]
                                                             ELSE disk.agent[f]]

\* Without a crash and without a failure of the undoing, the Agent files fit
\* the config, or will when the command is undone.
Whole ==
  used.crash = 0 /\ used.undo = 0 =>
    /\ command = Idle => RequireActionSet(disk.agent, disk.config.actions)
    /\ command # Idle =>
         /\ RequireActionSet(Undone, command.config.actions)
         /\ command.op = "writing" /\ ~command.inventory
              => RequireActionSet(disk.agent, disk.config.actions)

Early == {"new", "head", "status", "base", "add"}

\* How far a start is, and what it owns.
Owned(s) ==
  /\ start[s].base <= HeadCommit
  /\ start[s].pc \in {"status", "base", "add", "create"} \/ run[s] # "none"
       => start[s].base \in 1..HeadCommit
  /\ start[s].pc \in Early => run[s] = "none" /\ worktree[s] = 0
  /\ At(s, "create") => run[s] = "none" /\ worktree[s] = start[s].base
  /\ worktree[s] # 0 => worktree[s] = start[s].base /\ start[s].base \in 1..HeadCommit
  /\ worktree[s] # 0 /\ run[s] = "none" => At(s, "create") \/ At(s, "discard") \/ used.crash > 0
  /\ At(s, "discard") /\ run[s] = "active" => SkillsTooLong(s)
  /\ run[s] = "active" /\ worktree[s] = 0 => SkillsTooLong(s)

\* The snapshot is what is on disk, then what is committed, unless the files
\* changed between.
Frozen(s) ==
  ~start[s].raced =>
    /\ start[s].pc \in {"head", "status"}
         => command = Idle /\ SnapshotOf(disk) = start[s].snapshot
    /\ At(s, "status") => start[s].base = HeadCommit
    /\ start[s].pc \in {"base", "add", "create"} \/ run[s] # "none"
         => SnapshotOf(commits[start[s].base]) = start[s].snapshot

Inv == /\ Kept /\ Exclusive /\ Whole
       /\ \A s \in Start : Owned(s) /\ Frozen(s)

-----------------------------------------------------------------------------
(* Helpers *)

\* Records that freeze or change a project are projects again.
LEMMA ProjectFields ==
  ASSUME NEW project \in Project
  PROVE  /\ project.config \in Config
         /\ project.agent \in [AgentFile -> AgentText \cup {Absent}]
         /\ project.skill \in [Skill -> Text \cup {Absent}]
         /\ SnapshotOf(project) \in Snapshots
  BY DEF Project, Snapshots

\* A project with another config is a project, with the same files.
LEMMA NewConfig ==
  ASSUME NEW project \in Project, NEW config \in Config
  PROVE  /\ [project EXCEPT !.config = config] \in Project
         /\ [project EXCEPT !.config = config].config = config
         /\ [project EXCEPT !.config = config].agent = project.agent
         /\ [project EXCEPT !.config = config].skill = project.skill
  BY DEF Project

\* A project with another text in one Agent file is a project.
LEMMA NewAgent ==
  ASSUME NEW project \in Project, NEW f \in AgentFile, NEW text \in AgentText \cup {Absent}
  PROVE  /\ [project EXCEPT !.agent[f] = text] \in Project
         /\ [project EXCEPT !.agent[f] = text].config = project.config
         /\ [project EXCEPT !.agent[f] = text].agent = [project.agent EXCEPT ![f] = text]
         /\ [project EXCEPT !.agent[f] = text].skill = project.skill
  BY DEF Project

\* A project with another text in one Skill is a project.
LEMMA NewSkill ==
  ASSUME NEW project \in Project, NEW k \in Skill, NEW text \in Text \cup {Absent}
  PROVE  /\ [project EXCEPT !.skill[k] = text] \in Project
         /\ [project EXCEPT !.skill[k] = text].config = project.config
         /\ [project EXCEPT !.skill[k] = text].agent = project.agent
         /\ \A j \in Skill \ {k} : [project EXCEPT !.skill[k] = text].skill[j] = project.skill[j]
  BY DEF Project

\* Files that a failed command restores make a project: the old config, and
\* the old text in those files.
LEMMA RestoredFields ==
  ASSUME Kept, command # Idle, NEW files \in SUBSET DOMAIN command.files
  PROVE  /\ Restored(files) \in Project
         /\ Restored(files).config = command.config
         /\ Restored(files).skill = disk.skill
         /\ Restored(files).agent = [f \in AgentFile |-> IF f \in files THEN command.files[f]
                                                                        ELSE disk.agent[f]]
<1>1. command.config \in Config /\ disk \in Project
  BY DEF Kept, Files, Writing
<1>2. \A f \in files : command.files[f] \in AgentText \cup {Absent}
  BY DEF Kept, Files, Writing, Found
<1> DEFINE D == [disk EXCEPT !.config = command.config]
<1>3. D \in Project /\ D.config = command.config /\ D.agent = disk.agent /\ D.skill = disk.skill
  BY <1>1, NewConfig
<1>4. Restored(files) = [D EXCEPT !.agent = [f \in AgentFile |->
                           IF f \in files THEN RestoredFile(f) ELSE D.agent[f]]]
  BY DEF Restored
<1> HIDE DEF D
<1>5. /\ Restored(files).config = D.config /\ Restored(files).skill = D.skill
      /\ Restored(files).agent = [f \in AgentFile |-> IF f \in files THEN RestoredFile(f)
                                                                     ELSE D.agent[f]]
      /\ Restored(files) = [config |-> Restored(files).config, agent |-> Restored(files).agent,
                             skill |-> Restored(files).skill]
  BY <1>3, <1>4 DEF Project
<1>6. \A f \in AgentFile : (IF f \in files THEN RestoredFile(f) ELSE D.agent[f])
                              \in AgentText \cup {Absent}
  BY <1>2, <1>3 DEF Project, RestoredFile
<1> QED BY <1>1, <1>3, <1>5, <1>6 DEF Project, RestoredFile

\* A race changes nothing of a start but that.
LEMMA RaceType ==
  ASSUME start \in [Start -> Request]
  PROVE  /\ Race \in [Start -> Request]
         /\ \A s \in Start : /\ Race[s].pc = start[s].pc
                             /\ Race[s].base = start[s].base
                             /\ Race[s].snapshot = start[s].snapshot
                             /\ start[s].pc \in {"head", "status"} => Race[s].raced
                             /\ start[s].raced => Race[s].raced
                             /\ start[s].pc \notin {"head", "status"} => Race[s] = start[s]
  BY DEF Race, Request

\* A start that goes on changes nothing of itself but its place.
LEMMA GotoType ==
  ASSUME start \in [Start -> Request], NEW s \in Start,
         NEW pc \in InFlight \cup {"new", "done"}, Goto(s, pc)
  PROVE  /\ start' \in [Start -> Request]
         /\ start'[s].pc = pc /\ start'[s].base = start[s].base
         /\ start'[s].raced = start[s].raced /\ start'[s].snapshot = start[s].snapshot
         /\ \A r \in Start \ {s} : start'[r] = start[r]
  BY DEF Goto, Request

\* Only the Actions' files count for the set of an Environment.
LEMMA SameActionFiles ==
  ASSUME NEW a, NEW b, NEW actions, \A f \in ActionFile : a[f] = b[f]
  PROVE  RequireActionSet(a, actions) <=> RequireActionSet(b, actions)
<1>1. {f \in ActionFile : a[f] # Absent} = {f \in ActionFile : b[f] # Absent}
  OBVIOUS
<1> DEFINE present == {f \in ActionFile : a[f] # Absent}
<1>2. Restrict(a, present) = Restrict(b, present)
  BY DEF Restrict
<1> QED BY <1>1, <1>2 DEF RequireActionSet

-----------------------------------------------------------------------------
(* Which steps touch what *)

\* Requests of the author leave commits, Runs, worktrees and tasks alone.
LEMMA AuthoringFrame ==
  ASSUME Authoring
  PROVE  UNCHANGED <<commits, run, worktree, task>> /\ (start' = Race \/ start' = start)
  BY DEF Authoring, EnvironmentRequests, DocumentRequests, EditConfig, PutSkill, RemoveSkill,
         Command, CreateAction, UpdateAction, RemoveAction, PutAgent, WriteNext, CommandEnds,
         CommandFails, Undo, UndoFails, Edit

\* A start of a Run leaves the files alone.
LEMMA StartingFrame ==
  ASSUME NEW s \in Start, Starting(s)
  PROVE  UNCHANGED <<disk, commits, command>>
  BY DEF Starting, Reads, ReadsHead, PreflightFails, ChecksStatus, ChecksBase, AddsWorktree,
         Creates, Discards, Dispatches, Completes, Ends, Refuse

\* What is counted.
Bounds == {"edit", "fault", "undo", "crash"}

\* Using a bound counts it up, and leaves the others alone.
LEMMA SpendType ==
  ASSUME used \in [Bounds -> Nat], NEW kind \in Bounds, NEW bound, Spend(kind, bound)
  PROVE  /\ used' \in [Bounds -> Nat]
         /\ used'[kind] = used[kind] + 1
         /\ \A k \in Bounds \ {kind} : used'[k] = used[k]
  BY DEF Spend, Bounds

\* An author spends an edit, a fault or a failure of the undoing, if anything.
LEMMA AuthoringUse ==
  ASSUME Authoring
  PROVE  \/ UNCHANGED used
         \/ Spend("edit", MaxEdits) \/ Spend("fault", MaxFaults) \/ Spend("undo", MaxFaults)
  BY DEF Authoring, EnvironmentRequests, DocumentRequests, EditConfig, PutSkill, RemoveSkill,
         Command, CreateAction, UpdateAction, RemoveAction, PutAgent, WriteNext, CommandEnds,
         CommandFails, Undo, UndoFails, Edit

\* A start spends a fault, if anything.
LEMMA StartingUse ==
  ASSUME NEW s \in Start, Starting(s)
  PROVE  UNCHANGED used \/ Spend("fault", MaxFaults)
  BY DEF Starting, Reads, ReadsHead, PreflightFails, ChecksStatus, ChecksBase, AddsWorktree,
         Creates, Discards, Dispatches, Completes, Ends, Refuse

-----------------------------------------------------------------------------
(* Types *)

\* What a command is when it begins.
LEMMA CommandType ==
  ASSUME Kept, NEW config \in Config, NEW writes \in Seq(Write), NEW inventory \in BOOLEAN,
         Command(config, writes, inventory)
  PROVE  /\ command' \in Writing
         /\ disk' \in Project
         /\ disk'.config = config /\ disk'.agent = disk.agent /\ disk'.skill = disk.skill
         /\ command'.op = "writing" /\ command'.todo = writes
         /\ command'.inventory = inventory /\ command'.config = disk.config
         /\ inventory => DOMAIN command'.files = {writes[i][1] : i \in DOMAIN writes}
         /\ \A f \in DOMAIN command'.files : command'.files[f] = disk.agent[f]
<1> DEFINE F == IF inventory THEN {writes[i][1] : i \in DOMAIN writes} ELSE {}
           Old == [f \in F |-> disk.agent[f]]
<1>1. disk' = [disk EXCEPT !.config = config]
  BY DEF Command, Edit
<1>2. \A i \in DOMAIN writes : writes[i] \in Write
  OBVIOUS
<1>3. F \in SUBSET AgentFile
  BY <1>2 DEF Write
<1>4. disk.agent \in [AgentFile -> AgentText \cup {Absent}] /\ disk.config \in Config
  BY ProjectFields DEF Kept, Files
<1>5. Old \in [F -> AgentText \cup {Absent}]
  BY <1>3, <1>4
<1>6. Old \in Found
  BY <1>3, <1>5 DEF Found
<1>7. command' = [op |-> "writing", todo |-> writes, inventory |-> inventory,
                  config |-> disk.config, files |-> Old]
  BY DEF Command
<1> HIDE DEF Old, F
<1>8. command' \in Writing
  BY <1>4, <1>6, <1>7 DEF Writing
<1>9. DOMAIN Old = F /\ \A f \in F : Old[f] = disk.agent[f]
  BY DEF Old
<1>10. disk \in Project
  BY DEF Kept, Files
<1>11. DOMAIN command'.files = F /\ \A f \in F : command'.files[f] = disk.agent[f]
  BY <1>7, <1>9
<1> QED BY <1>1, <1>7, <1>8, <1>10, <1>11, NewConfig DEF F

\* The two files of an Action, in the order in which they are written.
LEMMA WritesType ==
  ASSUME NEW a \in Action, NEW validation \in AgentText \cup {Absent},
         NEW work \in AgentText \cup {Absent}
  PROVE  /\ Writes(a, validation, work) \in Seq(Write)
         /\ DOMAIN Writes(a, validation, work) = {1, 2}
         /\ Writes(a, validation, work)[1] = <<<<a, "validation">>, validation>>
         /\ Writes(a, validation, work)[2] = <<<<a, "work">>, work>>
<1>1. <<a, "validation">> \in AgentFile /\ <<a, "work">> \in AgentFile
  BY DEF AgentFile, ActionFile, Role
<1>2. <<<<a, "validation">>, validation>> \in Write /\ <<<<a, "work">>, work>> \in Write
  BY <1>1 DEF Write
<1> QED BY <1>2 DEF Writes

\* An undoing leaves project files, also one that fails half-way.
LEMMA UndoneFiles ==
  ASSUME Kept, command.op = "undoing"
  PROVE  /\ command # Idle
         /\ Restored(DOMAIN command.files) \in Project
         /\ PartlyRestored => disk' \in Project
<1>1. command # Idle
  BY DEF Idle
<1>2. \A files \in SUBSET DOMAIN command.files : Restored(files) \in Project
  BY <1>1, RestoredFields
<1>3. DOMAIN command.files \in SUBSET DOMAIN command.files
  OBVIOUS
<1>4. disk \in Project
  BY DEF Kept, Files
<1> QED BY <1>1, <1>2, <1>3, <1>4 DEF PartlyRestored

\* Requests of the author leave project files and a command of its type.
LEMMA AuthoringFiles ==
  ASSUME Kept, Authoring
  PROVE  disk' \in Project /\ (command' = Idle \/ command' \in Writing)
<1> USE DEF Kept, Files
<1>1. ASSUME NEW text \in Text, NEW skills \in SUBSET Skill, EditConfig(text, skills)
      PROVE  disk' \in Project /\ command' = command
  <2>1. [disk.config EXCEPT !.text = text, !.skills = skills] \in Config
    BY <1>1, ProjectFields DEF Config
  <2> QED BY <1>1, <2>1, NewConfig DEF EditConfig, Edit
<1>2. ASSUME NEW a \in Action, CreateAction(a) \/ RemoveAction(a)
      PROVE  disk' \in Project /\ command' \in Writing
  <2>1. disk.config \in Config
    BY ProjectFields
  <2>2. /\ [disk.config EXCEPT !.actions = @ \cup {a}] \in Config
        /\ [disk.config EXCEPT !.actions = @ \ {a}] \in Config
    BY <2>1 DEF Config
  <2>3. <<a, "validation">> \in AgentText /\ <<a, "work">> \in AgentText
    BY DEF AgentText, AgentFile, ActionFile, Role
  <2>4. /\ Writes(a, <<a, "validation">>, <<a, "work">>) \in Seq(Write)
        /\ Writes(a, Absent, Absent) \in Seq(Write)
    BY <2>3, WritesType
  <2> QED BY <1>2, <2>2, <2>4, CommandType DEF CreateAction, RemoveAction
<1>3. ASSUME NEW a \in Action, NEW text \in Text, NEW validation \in Text, NEW work \in Text,
             UpdateAction(a, text, validation, work)
      PROVE  disk' \in Project /\ command' \in Writing
  <2>1. [disk.config EXCEPT !.text = text] \in Config
    BY ProjectFields DEF Config
  <2>2. Writes(a, validation, work) \in Seq(Write)
    BY WritesType DEF AgentText
  <2> QED BY <1>3, <2>1, <2>2, CommandType DEF UpdateAction
<1>4. ASSUME NEW text \in Text, NEW skills \in SUBSET Skill, PutAgent(text, skills)
      PROVE  disk' \in Project /\ command' \in Writing
  <2>1. [disk.config EXCEPT !.skills = skills] \in Config
    BY ProjectFields DEF Config
  <2>2. << <<<<Critic, Critic>>, text>> >> \in Seq(Write)
    BY DEF Write, AgentFile, AgentText
  <2> QED BY <1>4, <2>1, <2>2, CommandType DEF PutAgent
<1>5. ASSUME NEW k \in Skill, RemoveSkill(k) \/ \E text \in Text : PutSkill(k, text)
      PROVE  disk' \in Project /\ command' = command
  BY <1>5, NewSkill DEF RemoveSkill, PutSkill, Edit
<1>6. CASE WriteNext
  <2>1. command \in Writing /\ command.todo \in Seq(Write) /\ command.todo # <<>>
    BY <1>6 DEF WriteNext, Idle, Writing
  <2>2. Head(command.todo) \in Write /\ Tail(command.todo) \in Seq(Write)
    BY <2>1
  <2>3. command' \in Writing
    BY <1>6, <2>1, <2>2 DEF WriteNext, Writing
  <2>4. disk' = [disk EXCEPT !.agent[Head(command.todo)[1]] = Head(command.todo)[2]]
    BY <1>6 DEF WriteNext
  <2> QED BY <2>2, <2>3, <2>4, NewAgent DEF Write
<1>7. CASE CommandEnds
  BY <1>7 DEF CommandEnds
<1>8. CASE CommandFails
  BY <1>8 DEF CommandFails, Writing, Idle
<1>9. CASE Undo
  BY <1>9, UndoneFiles DEF Undo
<1>10. CASE UndoFails
  BY <1>10, UndoneFiles DEF UndoFails
<1> QED BY <1>1, <1>2, <1>3, <1>4, <1>5, <1>6, <1>7, <1>8, <1>9, <1>10
        DEF Authoring, EnvironmentRequests, DocumentRequests

\* The steps of a start keep the types of starts, Runs and worktrees.
LEMMA StartingRows ==
  ASSUME Kept, NEW s \in Start, Starting(s)
  PROVE  Rows'
<1> USE DEF Kept, Rows
<1>1. used' \in [Bounds -> Nat]
  BY StartingUse, SpendType DEF Bounds
<1>2. SnapshotOf(disk) \in Snapshots
  BY ProjectFields DEF Files
<1>3. HeadCommit \in Nat
  BY DEF Files, HeadCommit
<1>4. start' \in [Start -> Request]
  <2>1. CASE Reads(s)
    <3>1. CASE start' = [start EXCEPT ![s] = [@ EXCEPT !.pc = "head", !.snapshot = SnapshotOf(disk)]]
      BY <3>1, <1>2 DEF Request, InFlight
    <3>2. CASE Goto(s, "done")
      BY <3>2, GotoType
    <3> QED BY <2>1, <3>1, <3>2 DEF Reads, Refuse
  <2>2. CASE ReadsHead(s)
    BY <2>2, <1>3 DEF ReadsHead, PreflightFails, Refuse, Goto, Request, InFlight
  <2>3. CASE ChecksStatus(s) \/ ChecksBase(s) \/ AddsWorktree(s) \/ Creates(s) \/ Discards(s)
    BY <2>3 DEF ChecksStatus, ChecksBase, AddsWorktree, Creates, Discards, Refuse, Goto,
                Request, InFlight
  <2>4. CASE Dispatches(s) \/ Completes(s) \/ Ends(s)
    BY <2>4 DEF Dispatches, Completes, Ends
  <2> QED BY <2>1, <2>2, <2>3, <2>4 DEF Starting
<1>5. /\ run' \in [Start -> {"none", "active", "over"}]
      /\ worktree' \in [Start -> Nat]
      /\ DOMAIN task' = Start
  <2>1. CASE Reads(s) \/ ReadsHead(s) \/ ChecksStatus(s) \/ ChecksBase(s)
    BY <2>1 DEF Reads, ReadsHead, PreflightFails, ChecksStatus, ChecksBase, Refuse
  <2>2. CASE AddsWorktree(s)
    BY <2>2 DEF AddsWorktree, Refuse, Request
  <2>3. CASE Creates(s)
    BY <2>3 DEF Creates
  <2>4. CASE Discards(s) \/ Dispatches(s) \/ Completes(s) \/ Ends(s)
    BY <2>4 DEF Discards, Dispatches, Completes, Ends
  <2> QED BY <2>1, <2>2, <2>3, <2>4 DEF Starting
<1> QED BY <1>1, <1>4, <1>5 DEF Bounds

\* A new project has its types.
LEMMA KeptInit == Init => Kept
<1> SUFFICES ASSUME Init PROVE Kept
  OBVIOUS
<1>1. PICK short \in Text : short \notin LongText
  BY PlanningAssumption
<1>2. (CHOOSE t \in Text : TRUE) \in Text /\ (CHOOSE t \in Text : t \notin LongText) \in Text
  BY <1>1
<1>3. disk \in Project
  <2>1. FirstAction \in Action
    BY PlanningAssumption
  <2>2. disk.config \in Config
    BY <1>2, <2>1 DEF Init, Config
  <2>3. disk.agent \in [AgentFile -> AgentText \cup {Absent}]
    BY DEF Init, AgentText
  <2>4. disk.skill \in [Skill -> Text \cup {Absent}]
    BY <1>2 DEF Init
  <2>5. disk = [config |-> disk.config, agent |-> disk.agent, skill |-> disk.skill]
    BY DEF Init
  <2> QED BY <2>2, <2>3, <2>4, <2>5 DEF Project
<1>4. commits \in Seq(Project) /\ HeadCommit > 0
  BY <1>3 DEF Init, HeadCommit
<1>5. NoStart \in Request
  BY DEF NoStart, Request, Snapshots
<1>6. Rows
  BY <1>5 DEF Init, Rows
<1> QED BY <1>3, <1>4, <1>6 DEF Init, Kept, Files

\* Every step keeps the types.
LEMMA KeptStep == Kept /\ [Next]_vars => Kept'
<1> SUFFICES ASSUME Kept, [Next]_vars PROVE Kept'
  OBVIOUS
<1>1. CASE Authoring
  <2>1. start' \in [Start -> Request]
    BY <1>1, AuthoringFrame, RaceType DEF Kept, Rows
  <2>2. used' \in [Bounds -> Nat]
    BY <1>1, AuthoringUse, SpendType DEF Kept, Rows, Bounds
  <2>3. Rows'
    BY <1>1, <2>1, <2>2, AuthoringFrame DEF Kept, Rows, Bounds
  <2> QED BY <1>1, <2>3, AuthoringFiles, AuthoringFrame DEF Kept, Files, HeadCommit
<1>2. CASE Commit
  <2>1. start' \in [Start -> Request]
    BY <1>2, RaceType DEF Commit, Kept, Rows
  <2>2. commits' \in Seq(Project) /\ HeadCommit' > 0
    BY <1>2 DEF Commit, Kept, Files, HeadCommit
  <2> QED BY <1>2, <2>1, <2>2 DEF Commit, Kept, Rows, Files
<1>3. CASE Crash
  <2>1. start' \in [Start -> Request]
    BY <1>3 DEF Crash, Kept, Rows, Request
  <2>2. used' \in [Bounds -> Nat]
    BY <1>3, SpendType DEF Crash, Kept, Rows, Bounds
  <2>3. disk' \in Project
    <3>1. CASE command.op = "undoing"
      BY <1>3, <3>1, UndoneFiles DEF Crash
    <3> QED BY <1>3, <3>1 DEF Crash, Kept, Files
  <2> QED BY <1>3, <2>1, <2>2, <2>3 DEF Crash, Kept, Rows, Files, Bounds, HeadCommit
<1>4. ASSUME NEW s \in Start, Starting(s) PROVE Kept'
  BY <1>4, StartingRows, StartingFrame DEF Kept, Files, HeadCommit
<1>5. CASE UNCHANGED vars
  BY <1>5 DEF vars, Kept, Rows, Files, HeadCommit
<1> QED BY <1>1, <1>2, <1>3, <1>4, <1>5 DEF Next

-----------------------------------------------------------------------------
(* One writer *)

\* What the requests of the author do to the command: an edit in one step
\* needs it idle and leaves it so, a command begins, goes on or is over.
LEMMA AuthoringCommand ==
  ASSUME Kept, Authoring
  PROVE  \/ command = Idle /\ command' = Idle
         \/ /\ command = Idle /\ Active = {} /\ command'.op = "writing"
            /\ disk'.agent = disk.agent /\ command'.config = disk.config
            /\ command'.inventory
                 => DOMAIN command'.files = {command'.todo[i][1] : i \in DOMAIN command'.todo}
            /\ \A f \in DOMAIN command'.files : command'.files[f] = disk.agent[f]
            /\ command'.inventory \/ /\ disk'.config.actions = disk.config.actions
                                     /\ \A i \in DOMAIN command'.todo :
                                           command'.todo[i][1] \notin ActionFile
         \/ WriteNext \/ CommandEnds \/ CommandFails \/ Undo \/ UndoFails
<1> USE DEF Kept, Files
<1>1. disk.config \in Config
  BY ProjectFields
<1>2. ASSUME NEW a \in Action, CreateAction(a) \/ RemoveAction(a)
      PROVE  \E config \in Config, writes \in Seq(Write) : Command(config, writes, TRUE)
  <2>1. /\ [disk.config EXCEPT !.actions = @ \cup {a}] \in Config
        /\ [disk.config EXCEPT !.actions = @ \ {a}] \in Config
    BY <1>1 DEF Config
  <2>2. <<a, "validation">> \in AgentText /\ <<a, "work">> \in AgentText
    BY DEF AgentText, AgentFile, ActionFile, Role
  <2>3. /\ Writes(a, <<a, "validation">>, <<a, "work">>) \in Seq(Write)
        /\ Writes(a, Absent, Absent) \in Seq(Write)
    BY <2>2, WritesType
  <2> QED BY <1>2, <2>1, <2>3 DEF CreateAction, RemoveAction
<1>3. ASSUME NEW a \in Action, NEW text \in Text, NEW validation \in Text, NEW work \in Text,
             UpdateAction(a, text, validation, work)
      PROVE  \E config \in Config, writes \in Seq(Write) : Command(config, writes, TRUE)
  <2>1. [disk.config EXCEPT !.text = text] \in Config
    BY <1>1 DEF Config
  <2>2. Writes(a, validation, work) \in Seq(Write)
    BY WritesType DEF AgentText
  <2> QED BY <1>3, <2>1, <2>2 DEF UpdateAction
<1>4. ASSUME NEW config \in Config, NEW writes \in Seq(Write), Command(config, writes, TRUE)
      PROVE  /\ command = Idle /\ Active = {} /\ command'.op = "writing"
             /\ disk'.agent = disk.agent /\ command'.config = disk.config
             /\ DOMAIN command'.files = {command'.todo[i][1] : i \in DOMAIN command'.todo}
             /\ \A f \in DOMAIN command'.files : command'.files[f] = disk.agent[f]
             /\ command'.inventory
  <2>1. command = Idle /\ Active = {}
    BY <1>4 DEF Command, Edit, Free
  <2>2. /\ command'.todo = writes
        /\ DOMAIN command'.files = {writes[i][1] : i \in DOMAIN writes}
    BY <1>4, CommandType
  <2>3. DOMAIN command'.files = {command'.todo[i][1] : i \in DOMAIN command'.todo}
    BY <2>2
  <2> QED BY <1>4, <2>1, <2>3, CommandType
<1>5. ASSUME NEW text \in Text, NEW skills \in SUBSET Skill, PutAgent(text, skills)
      PROVE  /\ command = Idle /\ Active = {} /\ command'.op = "writing"
             /\ disk'.agent = disk.agent /\ command'.config = disk.config
             /\ ~command'.inventory
             /\ \A f \in DOMAIN command'.files : command'.files[f] = disk.agent[f]
             /\ disk'.config.actions = disk.config.actions
             /\ \A i \in DOMAIN command'.todo : command'.todo[i][1] \notin ActionFile
  <2> DEFINE config == [disk.config EXCEPT !.skills = skills]
             writes == << <<<<Critic, Critic>>, text>> >>
  <2>1. config \in Config /\ config.actions = disk.config.actions
    BY <1>1 DEF Config
  <2>2. writes \in Seq(Write)
    BY DEF Write, AgentFile, AgentText
  <2>3. \A i \in DOMAIN writes : writes[i][1] \notin ActionFile
    BY DEF ActionFile, Role, Critic
  <2>4. Command(config, writes, FALSE)
    BY <1>5 DEF PutAgent
  <2>5. command = Idle /\ Active = {}
    BY <2>4 DEF Command, Edit, Free
  <2> HIDE DEF config, writes
  <2>6. /\ command'.todo = writes /\ disk'.config = config
    BY <2>1, <2>2, <2>4, CommandType
  <2> QED BY <2>1, <2>2, <2>3, <2>4, <2>5, <2>6, CommandType
<1>6. ASSUME \/ EnvironmentRequests /\ ~\E a \in Action : \/ CreateAction(a) \/ RemoveAction(a)
                  \/ \E text, validation, work \in Text : UpdateAction(a, text, validation, work)
             \/ \E k \in Skill : RemoveSkill(k) \/ \E text \in Text : PutSkill(k, text)
      PROVE  command = Idle /\ command' = Idle
  BY <1>6 DEF EnvironmentRequests, EditConfig, PutSkill, RemoveSkill, Edit, Free
<1> QED BY <1>2, <1>3, <1>4, <1>5, <1>6 DEF Authoring, EnvironmentRequests, DocumentRequests

\* A Run becomes active only while no command writes.
LEMMA StartingRun ==
  ASSUME Kept, NEW s \in Start, Starting(s), command # Idle
  PROVE  \A r \in Start : run'[r] = "active" => run[r] = "active"
  BY DEF Starting, Reads, ReadsHead, PreflightFails, ChecksStatus, ChecksBase, AddsWorktree,
         Creates, Discards, Dispatches, Completes, Ends, Refuse, Free, Kept, Rows

\* The writer stays the only one, and keeps to its files.
LEMMA ExclusiveStep ==
  ASSUME Kept, Exclusive, [Next]_vars
  PROVE  Exclusive'
<1>1. CASE Authoring
  <2>1. UNCHANGED run
    BY <1>1, AuthoringFrame
  <2>2. CASE command = Idle
    <3>1. ~WriteNext /\ ~CommandEnds /\ ~CommandFails /\ ~Undo /\ ~UndoFails
      BY <2>2 DEF Idle, WriteNext, CommandEnds, CommandFails, Undo, UndoFails
    <3> QED BY <1>1, <2>1, <3>1, AuthoringCommand DEF Exclusive, Active
  <2>3. CASE WriteNext
    <3>1. command \in Writing /\ command.todo \in Seq(Write) /\ command.todo # <<>> /\ command # Idle
      BY <2>3 DEF WriteNext, Idle, Writing, Kept, Files
    <3>2. /\ command'.todo = Tail(command.todo) /\ command'.files = command.files
          /\ command'.inventory = command.inventory
      BY <2>3, <3>1 DEF WriteNext, Writing
    <3>3. \A i \in DOMAIN command'.todo : i + 1 \in DOMAIN command.todo
                                          /\ command'.todo[i] = command.todo[i + 1]
      BY <3>1, <3>2
    <3> QED BY <2>1, <3>1, <3>2, <3>3 DEF Exclusive, Active
  <2>4. CASE CommandFails
    <3>1. command \in Writing /\ command # Idle
      BY <2>4 DEF CommandFails, Idle, Kept, Files
    <3>2. /\ command'.todo = command.todo /\ command'.files = command.files
          /\ command'.inventory = command.inventory
      BY <2>4, <3>1 DEF CommandFails, Writing
    <3> QED BY <2>1, <3>1, <3>2 DEF Exclusive, Active
  <2>5. CASE CommandEnds \/ Undo \/ UndoFails
    BY <2>5 DEF CommandEnds, Undo, UndoFails, Exclusive
  <2> QED BY <1>1, <2>2, <2>3, <2>4, <2>5, AuthoringCommand
<1>2. CASE Commit
  BY <1>2 DEF Commit, Free, Exclusive
<1>3. CASE Crash
  BY <1>3 DEF Crash, Exclusive
<1>4. ASSUME NEW s \in Start, Starting(s) PROVE Exclusive'
  BY <1>4, StartingFrame, StartingRun DEF Exclusive, Active
<1>5. CASE UNCHANGED vars
  BY <1>5 DEF vars, Exclusive, Active
<1> QED BY <1>1, <1>2, <1>3, <1>4, <1>5 DEF Next

-----------------------------------------------------------------------------
(* Whole projects *)

\* An edit in one step leaves the Agent files and the set of Actions alone.
LEMMA EditFrame ==
  ASSUME Kept, Authoring, command = Idle, command' = Idle
  PROVE  disk'.agent = disk.agent /\ disk'.config.actions = disk.config.actions
<1> USE DEF Kept, Files
<1>1. ASSUME NEW text \in Text, NEW skills \in SUBSET Skill, EditConfig(text, skills)
      PROVE  disk'.agent = disk.agent /\ disk'.config.actions = disk.config.actions
  <2> DEFINE config == [disk.config EXCEPT !.text = text, !.skills = skills]
  <2>1. config \in Config /\ config.actions = disk.config.actions
    BY ProjectFields DEF Config
  <2>2. disk' = [disk EXCEPT !.config = config]
    BY <1>1 DEF EditConfig, Edit
  <2> HIDE DEF config
  <2> QED BY <2>1, <2>2, NewConfig
<1>2. ASSUME NEW k \in Skill, RemoveSkill(k) \/ \E text \in Text : PutSkill(k, text)
      PROVE  disk'.agent = disk.agent /\ disk'.config = disk.config
  <2>1. CASE RemoveSkill(k)
    BY <2>1, NewSkill DEF RemoveSkill, Edit
  <2>2. ASSUME NEW text \in Text, PutSkill(k, text)
        PROVE  disk'.agent = disk.agent /\ disk'.config = disk.config
    BY <2>2, NewSkill DEF PutSkill, Edit
  <2> QED BY <1>2, <2>1, <2>2
<1>3. ~ \/ WriteNext \/ CommandEnds \/ CommandFails \/ Undo \/ UndoFails
        \/ \E text \in Text, skills \in SUBSET Skill : PutAgent(text, skills)
        \/ \E a \in Action : \/ CreateAction(a) \/ RemoveAction(a)
             \/ \E text, validation, work \in Text : UpdateAction(a, text, validation, work)
  BY DEF Idle, WriteNext, CommandEnds, CommandFails, Undo, UndoFails, PutAgent, CreateAction,
         RemoveAction, UpdateAction, Command
<1> QED BY <1>1, <1>2, <1>3 DEF Authoring, EnvironmentRequests, DocumentRequests

\* Requests of the author keep a project whole, at rest and under way.
LEMMA AuthoringWhole ==
  ASSUME Kept, Exclusive, Whole, Authoring, used'.crash = 0, used'.undo = 0
  PROVE  /\ command' = Idle => RequireActionSet(disk'.agent, disk'.config.actions)
         /\ command' # Idle =>
              /\ RequireActionSet(Undone', command'.config.actions)
              /\ command'.op = "writing" /\ ~command'.inventory
                   => RequireActionSet(disk'.agent, disk'.config.actions)
<1>1. used.crash = 0 /\ used.undo = 0 /\ ~Spend("undo", MaxFaults)
  BY AuthoringUse, SpendType DEF Kept, Rows, Bounds, Spend
<1>2. ~UndoFails
  BY <1>1 DEF UndoFails
<1>3. ActionFile \subseteq AgentFile
  BY DEF AgentFile
<1>4. CASE command = Idle /\ command' = Idle
  BY <1>1, <1>4, EditFrame, SameActionFiles DEF Whole
<1>5. CASE /\ command = Idle /\ command'.op = "writing"
           /\ disk'.agent = disk.agent /\ command'.config = disk.config
           /\ \A f \in DOMAIN command'.files : command'.files[f] = disk.agent[f]
           /\ command'.inventory \/ disk'.config.actions = disk.config.actions
  <2>1. command' # Idle
    BY <1>5 DEF Idle
  <2>2. RequireActionSet(disk.agent, disk.config.actions)
    BY <1>1, <1>5 DEF Whole
  <2>3. \A f \in ActionFile : Undone'[f] = disk.agent[f]
    BY <1>3, <1>5 DEF Undone
  <2>4. RequireActionSet(Undone', disk.config.actions)
    BY <2>2, <2>3, SameActionFiles
  <2> QED BY <1>5, <2>1, <2>2, <2>4
<1>6. CASE WriteNext
  <2>1. command \in Writing /\ command.todo \in Seq(Write) /\ command.todo # <<>>
        /\ command # Idle /\ command.op = "writing"
    BY <1>6 DEF WriteNext, Idle, Writing, Kept, Files
  <2>2. /\ command'.config = command.config /\ command'.files = command.files
        /\ command'.inventory = command.inventory /\ command'.op = "writing"
    BY <1>6, <2>1 DEF WriteNext, Writing
  <2>3. command' # Idle
    BY <2>2 DEF Idle
  <2> DEFINE f == Head(command.todo)[1]
  <2>4. /\ command.inventory => f \in DOMAIN command.files
        /\ ~command.inventory => f \notin ActionFile
    BY <2>1 DEF Exclusive
  <2>5. Head(command.todo) \in Write
    BY <2>1
  <2>6. /\ f \in AgentFile
        /\ disk'.config = disk.config
        /\ disk'.agent = [disk.agent EXCEPT ![f] = Head(command.todo)[2]]
    BY <1>6, <2>5, NewAgent DEF WriteNext, Write, Kept, Files
  <2>7. disk.agent \in [AgentFile -> AgentText \cup {Absent}]
    BY ProjectFields DEF Kept, Files
  <2> HIDE DEF f
  <2>8. \A g \in ActionFile : Undone'[g] = Undone[g]
    BY <1>3, <2>2, <2>4, <2>6, <2>7 DEF Undone
  <2>9. RequireActionSet(Undone', command'.config.actions)
    <3>1. RequireActionSet(Undone, command.config.actions)
      BY <1>1, <2>1 DEF Whole
    <3> QED BY <2>2, <2>8, <3>1, SameActionFiles
  <2>10. ASSUME ~command'.inventory PROVE RequireActionSet(disk'.agent, disk'.config.actions)
    <3>1. RequireActionSet(disk.agent, disk.config.actions)
      BY <1>1, <2>1, <2>2, <2>10 DEF Whole
    <3>2. \A g \in ActionFile : disk'.agent[g] = disk.agent[g]
      BY <1>3, <2>2, <2>4, <2>6, <2>7, <2>10
    <3>3. RequireActionSet(disk'.agent, disk.config.actions)
      BY <3>1, <3>2, SameActionFiles
    <3>4. disk'.config = disk.config
      BY <2>6
    <3> QED BY <3>3, <3>4
  <2> QED BY <2>3, <2>9, <2>10
<1>7. CASE CommandEnds
  <2>1. command # Idle /\ command.op = "writing"
    BY <1>7 DEF CommandEnds, Idle
  <2>2. RequireActionSet(disk.agent, disk.config.actions)
    BY <1>1, <1>7, <2>1 DEF CommandEnds, Accepted, Whole
  <2> QED BY <1>7, <2>2 DEF CommandEnds
<1>8. CASE CommandFails
  <2>1. command \in Writing /\ command # Idle
    BY <1>8 DEF CommandFails, Idle, Kept, Files
  <2>2. /\ command'.config = command.config /\ command'.files = command.files
        /\ command'.op = "undoing" /\ disk' = disk
    BY <1>8, <2>1 DEF CommandFails, Writing
  <2>3. RequireActionSet(Undone, command.config.actions)
    BY <1>1, <2>1 DEF Whole
  <2>4. Undone' = Undone
    BY <2>2 DEF Undone
  <2> QED BY <2>2, <2>3, <2>4 DEF Idle
<1>9. CASE Undo
  <2>1. command # Idle
    BY <1>9 DEF Undo, Idle
  <2>2. RequireActionSet(Undone, command.config.actions)
    BY <1>1, <2>1 DEF Whole
  <2>3. disk'.config = command.config /\ disk'.agent = Undone
    BY <1>9, <2>1, RestoredFields DEF Undo, Undone
  <2> QED BY <1>9, <2>2, <2>3 DEF Undo
<1> QED BY <1>2, <1>4, <1>5, <1>6, <1>7, <1>8, <1>9, AuthoringCommand

\* No step but a crash or a failed undoing breaks a project.
LEMMA WholeStep ==
  ASSUME Kept, Exclusive, Whole, [Next]_vars
  PROVE  Whole'
<1>1. CASE Authoring
  BY <1>1, AuthoringWhole DEF Whole
<1>2. CASE Commit
  BY <1>2 DEF Commit, Whole, Undone
<1>3. CASE Crash
  <2>1. used'.crash # 0
    BY <1>3, SpendType DEF Crash, Kept, Rows, Bounds
  <2> QED BY <2>1 DEF Whole
<1>4. ASSUME NEW s \in Start, Starting(s) PROVE Whole'
  <2>1. used'.crash = used.crash /\ used'.undo = used.undo
    BY <1>4, StartingUse, SpendType DEF Kept, Rows, Bounds
  <2> QED BY <1>4, <2>1, StartingFrame DEF Whole, Undone
<1>5. CASE UNCHANGED vars
  BY <1>5 DEF vars, Whole, Undone
<1> QED BY <1>1, <1>2, <1>3, <1>4, <1>5 DEF Next

-----------------------------------------------------------------------------
(* Starts *)

\* A start leaves the other requests, Runs and worktrees alone.
LEMMA StartingOthers ==
  ASSUME Kept, NEW r \in Start, NEW s \in Start \ {r}, Starting(r)
  PROVE  start'[s] = start[s] /\ run'[s] = run[s] /\ worktree'[s] = worktree[s]
<1> USE DEF Kept, Rows, Goto
<1>1. CASE Reads(r) \/ ReadsHead(r) \/ ChecksStatus(r) \/ ChecksBase(r)
  BY <1>1 DEF Reads, ReadsHead, PreflightFails, ChecksStatus, ChecksBase, Refuse
<1>2. CASE AddsWorktree(r) \/ Discards(r)
  BY <1>2 DEF AddsWorktree, Discards, Refuse
<1>3. CASE Creates(r)
  BY <1>3 DEF Creates
<1>4. CASE Dispatches(r) \/ Completes(r) \/ Ends(r)
  BY <1>4 DEF Dispatches, Completes, Ends
<1> QED BY <1>1, <1>2, <1>3, <1>4 DEF Starting

\* What keeps the place of a start, its snapshot, its Run and its worktree
\* keeps what it owns.
LEMMA OwnedFrame ==
  ASSUME Kept, NEW s \in Start, Owned(s), HeadCommit' \in Nat, HeadCommit' >= HeadCommit,
         start'[s].pc = start[s].pc, start'[s].base = start[s].base,
         start'[s].snapshot = start[s].snapshot,
         run'[s] = run[s], worktree'[s] = worktree[s],
         used.crash > 0 => used'.crash > 0
  PROVE  Owned(s)'
<1>1. HeadCommit \in Nat /\ start[s].base \in Nat
  BY DEF Kept, Files, HeadCommit, Rows, Request
<1> QED BY <1>1 DEF Owned, At, SkillsTooLong

\* Deaths are counted and never forgotten.
LEMMA CrashGrows ==
  ASSUME Kept, [Next]_vars, used.crash > 0
  PROVE  used'.crash > 0
<1> USE DEF Kept, Rows, Bounds
<1>1. CASE Authoring
  BY <1>1, AuthoringUse, SpendType
<1>2. CASE Crash
  BY <1>2, SpendType DEF Crash
<1>3. ASSUME NEW s \in Start, Starting(s) PROVE used'.crash > 0
  BY <1>3, StartingUse, SpendType
<1> QED BY <1>1, <1>2, <1>3 DEF Next, Commit, vars

\* The steps of a start and of its Run keep what it owns.
LEMMA StartingOwned ==
  ASSUME Kept, NEW s \in Start, Owned(s), Starting(s), used.crash > 0 => used'.crash > 0
  PROVE  Owned(s)'
<1>1. HeadCommit' = HeadCommit /\ HeadCommit \in Nat /\ HeadCommit > 0
  BY StartingFrame DEF HeadCommit, Kept, Files
<1>2. start[s] \in Request /\ start \in [Start -> Request]
  BY DEF Kept, Rows
<1> USE <1>1, <1>2, GotoType DEF Owned, At, Early, InFlight
<1>3. CASE Reads(s)
  <2>1. run'[s] = "none" /\ worktree'[s] = 0
    BY <1>3 DEF Reads, Refuse
  <2>2. CASE start' = [start EXCEPT ![s] = [@ EXCEPT !.pc = "head", !.snapshot = SnapshotOf(disk)]]
    <3>1. start'[s].pc = "head" /\ start'[s].base = start[s].base
      BY <2>2 DEF Request
    <3> QED BY <2>1, <3>1
  <2>3. CASE Goto(s, "done")
    BY <2>1, <2>3
  <2> QED BY <1>3, <2>2, <2>3 DEF Reads, Refuse
<1>4. CASE ReadsHead(s)
  <2>1. run'[s] = "none" /\ worktree'[s] = 0
    BY <1>4 DEF ReadsHead, PreflightFails, Refuse
  <2>2. CASE start' = [start EXCEPT ![s].pc = "status", ![s].base = HeadCommit]
    <3>1. start'[s].pc = "status" /\ start'[s].base = HeadCommit
      BY <2>2 DEF Request
    <3> QED BY <2>1, <3>1
  <2>3. CASE Goto(s, "done")
    BY <2>1, <2>3
  <2> QED BY <1>4, <2>2, <2>3 DEF ReadsHead, PreflightFails, Refuse
<1>5. CASE ChecksStatus(s) \/ ChecksBase(s)
  <2>1. run'[s] = "none" /\ worktree'[s] = 0 /\ start'[s].base = start[s].base
    BY <1>5 DEF ChecksStatus, ChecksBase, Refuse
  <2>2. start'[s].pc \in {"base", "add", "done"} /\ start[s].pc \in {"status", "base"}
    BY <1>5 DEF ChecksStatus, ChecksBase, Refuse
  <2> QED BY <2>1, <2>2
<1>6. CASE AddsWorktree(s)
  <2>1. run'[s] = "none" /\ start'[s].base = start[s].base /\ start[s].pc = "add"
    BY <1>6 DEF AddsWorktree, Refuse
  <2>2. \/ start'[s].pc = "create" /\ worktree'[s] = start[s].base
        \/ start'[s].pc = "done" /\ worktree'[s] = 0
    BY <1>6 DEF AddsWorktree, Refuse, Kept, Rows
  <2> QED BY <2>1, <2>2 DEF Request
<1>7. CASE Creates(s)
  <2>1. /\ start'[s].base = start[s].base /\ start'[s].snapshot = start[s].snapshot
        /\ start[s].pc = "create" /\ start'[s].pc \in {"done", "discard"}
        /\ worktree' = worktree
    BY <1>7 DEF Creates
  <2>2. /\ run'[s] = "active" /\ start'[s].pc = "discard" => SkillsTooLong(s)
        /\ start'[s].pc = "done" => run'[s] = "active"
    BY <1>7, <2>1 DEF Creates, Kept, Rows
  <2>3. SkillsTooLong(s) => SkillsTooLong(s)'
    BY <2>1 DEF SkillsTooLong
  <2> QED BY <2>1, <2>2, <2>3
<1>8. CASE Discards(s)
  <2>1. /\ start'[s].base = start[s].base /\ start'[s].snapshot = start[s].snapshot
        /\ start[s].pc = "discard" /\ start'[s].pc = "done"
        /\ worktree'[s] = 0 /\ run' = run
    BY <1>8 DEF Discards, Kept, Rows
  <2>2. SkillsTooLong(s) => SkillsTooLong(s)'
    BY <2>1 DEF SkillsTooLong
  <2> QED BY <2>1, <2>2
<1>9. CASE Dispatches(s)
  BY <1>9 DEF Dispatches, SkillsTooLong
<1>10. CASE Completes(s) \/ Ends(s)
  BY <1>10 DEF Completes, Ends, Kept, Rows
<1> QED BY <1>3, <1>4, <1>5, <1>6, <1>7, <1>8, <1>9, <1>10 DEF Starting

\* Every step keeps what every start owns.
LEMMA OwnedStep ==
  ASSUME Kept, NEW s \in Start, Owned(s), [Next]_vars
  PROVE  Owned(s)'
<1>1. used.crash > 0 => used'.crash > 0
  BY CrashGrows
<1>2. HeadCommit \in Nat
  BY DEF HeadCommit, Kept, Files
<1>3. CASE Authoring
  <2>1. HeadCommit' = HeadCommit /\ run'[s] = run[s] /\ worktree'[s] = worktree[s]
    BY <1>3, AuthoringFrame DEF HeadCommit
  <2>2. /\ start'[s].pc = start[s].pc /\ start'[s].base = start[s].base
        /\ start'[s].snapshot = start[s].snapshot
    BY <1>3, AuthoringFrame, RaceType DEF Kept, Rows
  <2> QED BY <1>1, <1>2, <2>1, <2>2, OwnedFrame
<1>4. CASE Commit
  <2>1. HeadCommit' = HeadCommit + 1 /\ run'[s] = run[s] /\ worktree'[s] = worktree[s]
    BY <1>4 DEF Commit, HeadCommit, Kept, Files
  <2>2. /\ start'[s].pc = start[s].pc /\ start'[s].base = start[s].base
        /\ start'[s].snapshot = start[s].snapshot
    BY <1>4, RaceType DEF Commit, Kept, Rows
  <2> QED BY <1>1, <1>2, <2>1, <2>2, OwnedFrame
<1>5. CASE Crash
  <2>1. used'.crash > 0
    BY <1>5, SpendType DEF Crash, Kept, Rows, Bounds
  <2>2. /\ start'[s].base = start[s].base /\ start'[s].snapshot = start[s].snapshot
        /\ \/ start'[s].pc = start[s].pc /\ start[s].pc = "new"
           \/ start'[s].pc = "done"
    BY <1>5 DEF Crash, Kept, Rows, Request
  <2>3. UNCHANGED <<run, worktree, commits>>
    BY <1>5 DEF Crash
  <2> QED BY <2>1, <2>2, <2>3 DEF Owned, At, Early, SkillsTooLong, HeadCommit
<1>6. ASSUME NEW r \in Start, Starting(r) PROVE Owned(s)'
  <2>1. CASE r = s
    BY <1>1, <1>6, <2>1, StartingOwned
  <2>2. CASE r # s
    <3>1. start'[s] = start[s] /\ run'[s] = run[s] /\ worktree'[s] = worktree[s]
      BY <1>6, <2>2, StartingOthers
    <3>2. HeadCommit' = HeadCommit
      BY <1>6, StartingFrame DEF HeadCommit
    <3> QED BY <1>1, <1>2, <3>1, <3>2, OwnedFrame
  <2> QED BY <2>1, <2>2
<1>7. CASE UNCHANGED vars
  BY <1>7, <1>1, <1>2, OwnedFrame DEF vars, HeadCommit
<1> QED BY <1>3, <1>4, <1>5, <1>6, <1>7 DEF Next

-----------------------------------------------------------------------------
(* Snapshots *)

\* An author who edits while no command writes races every start that has not
\* yet checked the status.
LEMMA AuthoringRaces ==
  ASSUME Authoring, command = Idle
  PROVE  start' = Race
BY DEF Authoring, EnvironmentRequests, DocumentRequests, EditConfig, PutSkill, RemoveSkill,
       Command, CreateAction, UpdateAction, RemoveAction, PutAgent, WriteNext, CommandEnds,
       CommandFails, Undo, UndoFails, Edit, Idle

\* The steps of a start and of its Run keep the snapshot true to the files,
\* then to the commit.
LEMMA StartingFrozen ==
  ASSUME Kept, NEW s \in Start, Owned(s), Frozen(s), Starting(s)
  PROVE  Frozen(s)'
<1>1. disk' = disk /\ commits' = commits /\ command' = command /\ HeadCommit' = HeadCommit
  BY StartingFrame DEF HeadCommit
<1>2. start[s] \in Request /\ start \in [Start -> Request]
  BY DEF Kept, Rows
<1>3. SnapshotOf(disk)' = SnapshotOf(disk)
  BY <1>1 DEF SnapshotOf
<1> USE <1>1, <1>2, <1>3, GotoType DEF Frozen, At, InFlight
<1>4. CASE Reads(s)
  <2>1. run'[s] = "none"
    BY <1>4 DEF Reads, Refuse, Owned, Early
  <2>2. CASE start' = [start EXCEPT ![s] = [@ EXCEPT !.pc = "head", !.snapshot = SnapshotOf(disk)]]
    <3>1. start'[s].pc = "head" /\ start'[s].snapshot = SnapshotOf(disk)
      BY <2>2 DEF Request
    <3> QED BY <1>4, <2>1, <3>1 DEF Reads, Free
  <2>3. CASE Goto(s, "done")
    BY <2>1, <2>3
  <2> QED BY <1>4, <2>2, <2>3 DEF Reads, Refuse
<1>5. CASE ReadsHead(s)
  <2>1. run'[s] = "none" /\ start[s].pc = "head"
    BY <1>5 DEF ReadsHead, PreflightFails, Refuse, Owned, Early
  <2>2. CASE start' = [start EXCEPT ![s].pc = "status", ![s].base = HeadCommit]
    <3>1. /\ start'[s].pc = "status" /\ start'[s].base = HeadCommit
          /\ start'[s].snapshot = start[s].snapshot /\ start'[s].raced = start[s].raced
      BY <2>2 DEF Request
    <3> QED BY <2>1, <3>1
  <2>3. CASE Goto(s, "done")
    BY <2>1, <2>3
  <2> QED BY <1>5, <2>2, <2>3 DEF ReadsHead, PreflightFails, Refuse
<1>6. CASE ChecksStatus(s)
  <2>1. run'[s] = "none" /\ start[s].pc = "status"
    BY <1>6 DEF ChecksStatus, Refuse, Owned, Early
  <2>2. CASE Clean /\ Goto(s, "base")
    BY <2>1, <2>2 DEF Clean
  <2>3. CASE Goto(s, "done")
    BY <2>1, <2>3
  <2> QED BY <1>6, <2>2, <2>3 DEF ChecksStatus, StatusAccepted, Refuse
<1>7. CASE ChecksBase(s) \/ AddsWorktree(s)
  <2>1. run'[s] = "none" /\ start[s].pc \in {"base", "add"}
    BY <1>7 DEF ChecksBase, AddsWorktree, Refuse, Owned, Early
  <2>2. Goto(s, "add") \/ Goto(s, "create") \/ Goto(s, "done")
    BY <1>7 DEF ChecksBase, AddsWorktree, Refuse
  <2> QED BY <2>1, <2>2
<1>8. CASE Creates(s)
  <2>1. start[s].pc = "create" /\ (Goto(s, "done") \/ Goto(s, "discard"))
    BY <1>8 DEF Creates
  <2> QED BY <2>1
<1>9. CASE Discards(s)
  <2>1. run' = run /\ Goto(s, "done")
    BY <1>9 DEF Discards
  <2> QED BY <2>1
<1>10. CASE Dispatches(s) \/ Completes(s) \/ Ends(s)
  <2>1. start' = start /\ (run'[s] # "none" => run[s] # "none")
    BY <1>10 DEF Dispatches, Completes, Ends, Kept, Rows
  <2> QED BY <2>1
<1> QED BY <1>4, <1>5, <1>6, <1>7, <1>8, <1>9, <1>10 DEF Starting

\* Every step keeps every snapshot that no change of the files overtook.
LEMMA FrozenStep ==
  ASSUME Kept, NEW s \in Start, Owned(s), Frozen(s), [Next]_vars
  PROVE  Frozen(s)'
<1>1. CASE Authoring
  <2>1. /\ start'[s].pc = start[s].pc /\ start'[s].base = start[s].base
        /\ start'[s].snapshot = start[s].snapshot
        /\ start[s].raced => start'[s].raced
    BY <1>1, AuthoringFrame, RaceType DEF Kept, Rows
  <2>2. ~start'[s].raced => start[s].pc \notin {"head", "status"}
    BY <1>1, <2>1, AuthoringRaces, RaceType DEF Frozen, Kept, Rows
  <2>3. run' = run /\ commits' = commits
    BY <1>1, AuthoringFrame
  <2> QED BY <2>1, <2>2, <2>3 DEF Frozen, At
<1>2. CASE Commit
  <2>1. /\ start'[s].pc = start[s].pc /\ start'[s].base = start[s].base
        /\ start'[s].snapshot = start[s].snapshot
        /\ start[s].raced => start'[s].raced
        /\ ~start'[s].raced => start[s].pc \notin {"head", "status"}
    BY <1>2, RaceType DEF Commit, Kept, Rows
  <2>2. start[s].base \in 1..HeadCommit => commits'[start[s].base] = commits[start[s].base]
    BY <1>2 DEF Commit, HeadCommit, Kept, Files
  <2>3. run' = run
    BY <1>2 DEF Commit
  <2> QED BY <2>1, <2>2, <2>3 DEF Frozen, At, Owned
<1>3. CASE Crash
  <2>1. /\ start'[s].base = start[s].base /\ start'[s].snapshot = start[s].snapshot
        /\ start'[s].raced = start[s].raced /\ start'[s].pc \in {"new", "done"}
    BY <1>3 DEF Crash, Kept, Rows, Request
  <2>2. run' = run /\ commits' = commits
    BY <1>3 DEF Crash
  <2> QED BY <2>1, <2>2 DEF Frozen, At
<1>4. ASSUME NEW r \in Start, Starting(r) PROVE Frozen(s)'
  <2>1. CASE r = s
    BY <1>4, <2>1, StartingFrozen
  <2>2. CASE r # s
    <3>1. start'[s] = start[s] /\ run'[s] = run[s]
      BY <1>4, <2>2, StartingOthers
    <3>2. disk' = disk /\ commits' = commits /\ command' = command
      BY <1>4, StartingFrame
    <3> QED BY <3>1, <3>2 DEF Frozen, At, HeadCommit, SnapshotOf
  <2> QED BY <2>1, <2>2
<1>5. CASE UNCHANGED vars
  BY <1>5 DEF vars, Frozen, At, HeadCommit, SnapshotOf
<1> QED BY <1>1, <1>2, <1>3, <1>4, <1>5 DEF Next

-----------------------------------------------------------------------------
(* The invariant and what follows *)

\* A new project is whole, and nothing has started.
LEMMA InvInit == Init => Inv
<1> SUFFICES ASSUME Init PROVE Inv
  OBVIOUS
<1>1. Kept
  BY KeptInit
<1>2. Exclusive
  BY DEF Init, Exclusive
<1>3. RequireActionSet(disk.agent, disk.config.actions)
  <2>1. disk.config.actions = {FirstAction} /\ FirstAction \in Action
    BY PlanningAssumption DEF Init
  <2>2. \A f \in ActionFile : disk.agent[f] = IF f \in FilesOf({FirstAction}) THEN f ELSE Absent
    BY DEF Init, AgentFile, ActionFile, Role, Critic
  <2>3. FilesOf({FirstAction}) \subseteq ActionFile
    BY <2>1 DEF FilesOf, ActionFile
  <2>4. \A f \in ActionFile : f # Absent
    BY DEF ActionFile, Absent
  <2>5. {f \in ActionFile : disk.agent[f] # Absent} = FilesOf({FirstAction})
    BY <2>2, <2>3, <2>4
  <2>6. IsInjective(Restrict(disk.agent, FilesOf({FirstAction})))
    BY <2>2, <2>3 DEF IsInjective, Restrict
  <2> QED BY <2>1, <2>5, <2>6 DEF RequireActionSet
<1>4. Whole
  BY <1>3 DEF Init, Whole
<1>5. \A s \in Start : Owned(s) /\ Frozen(s)
  <2>1. HeadCommit \in Nat
    BY <1>1 DEF Kept, Files, HeadCommit
  <2> QED BY <2>1 DEF Init, Owned, Frozen, NoStart, At, Early
<1> QED BY <1>1, <1>2, <1>4, <1>5 DEF Inv

\* Every step keeps the invariant.
LEMMA InvStep == Inv /\ [Next]_vars => Inv'
<1> SUFFICES ASSUME Inv, [Next]_vars PROVE Inv'
  OBVIOUS
<1>1. Kept' /\ Exclusive' /\ Whole'
  BY KeptStep, ExclusiveStep, WholeStep DEF Inv
<1>2. \A s \in Start : Owned(s)' /\ Frozen(s)'
  BY OwnedStep, FrozenStep DEF Inv
<1> QED BY <1>1, <1>2 DEF Inv

\* In every reachable state one command writes at most, the project is whole
\* unless something died or could not be undone, and every start is true to
\* what it read.
THEOREM InvCorrect == Spec => []Inv
<1>1. Init => Inv
  BY InvInit
<1>2. Inv /\ [Next]_vars => Inv'
  BY InvStep
<1> QED BY <1>1, <1>2, PTL DEF Spec

\* However often commands fail, config and Agent files belong together when
\* none is writing, unless the server died or an undoing failed.
THEOREM ProjectWholeCorrect == Spec => []ProjectWhole
<1>1. Inv => ProjectWhole
  BY DEF Inv, Whole, ProjectWhole, Free
<1> QED BY <1>1, InvCorrect, PTL

\* The commit in the worktree of a Run holds its snapshot, unless the files
\* changed between their read and the check that they are committed.
THEOREM SnapshotCommittedCorrect == Spec => []SnapshotCommitted
<1>1. Inv => SnapshotCommitted
  BY DEF Inv, Owned, Frozen, SnapshotCommitted
<1> QED BY <1>1, InvCorrect, PTL

\* Files, requests and Runs have their types, and no worktree is without
\* an owner, however many starts there are.
THEOREM PlanningSoundCorrect == Spec => []PlanningSound
<1>1. Inv => PlanningSound
  <2> SUFFICES ASSUME Inv PROVE TypeOK /\ WorktreesOwned
    BY DEF PlanningSound
  <2>1. HeadCommit \in Nat
    BY DEF Inv, Kept, Files, HeadCommit
  <2>2. \A s \in Start : start[s].base \in 0..HeadCommit /\ worktree[s] \in 0..HeadCommit
    BY <2>1 DEF Inv, Kept, Rows, Request, Owned
  <2>3. command.op \in {"none", "writing", "undoing"}
    BY DEF Inv, Kept, Files, Idle, Writing
  <2>4. TypeOK
    BY <2>2, <2>3 DEF TypeOK, Inv, Kept, Rows, Files, Project, Request
  <2>5. WorktreesOwned
    BY DEF Inv, Owned, WorktreesOwned
  <2> QED BY <2>4, <2>5
<1> QED BY <1>1, InvCorrect, PTL

\* No step changes, while a Run is active, what the Run was started from.
THEOREM LockedWhileActiveCorrect == Spec => LockedWhileActive
<1>1. ASSUME Inv, [Next]_vars, NEW s \in Active
      PROVE  /\ disk'.config = disk.config
             /\ disk'.agent = disk.agent
             /\ \A k \in DOMAIN start[s].snapshot.skill : disk'.skill[k] = disk.skill[k]
  <2>1. command = Idle /\ Active # {} /\ s \in Start /\ run[s] = "active"
    BY <1>1 DEF Inv, Exclusive, Active
  <2>2. CASE Authoring
    <3>1. ~ \/ WriteNext \/ CommandEnds \/ CommandFails \/ Undo \/ UndoFails
            \/ \E text \in Text, skills \in SUBSET Skill : PutAgent(text, skills)
            \/ EnvironmentRequests
      BY <2>1 DEF Idle, WriteNext, CommandEnds, CommandFails, Undo, UndoFails, PutAgent,
         EnvironmentRequests, EditConfig, CreateAction, RemoveAction, UpdateAction, Command
    <3>2. PICK k \in Skill : RemoveSkill(k) \/ \E text \in Text : PutSkill(k, text)
      BY <2>2, <3>1 DEF Authoring, DocumentRequests
    <3>3. k \notin DOMAIN start[s].snapshot.skill
      BY <2>1, <3>2 DEF RemoveSkill, PutSkill, SkillLocked, SkillsOf, Active
    <3>4. \E text \in Text \cup {Absent} : disk' = [disk EXCEPT !.skill[k] = text]
      BY <3>2 DEF RemoveSkill, PutSkill, Edit
    <3>5. /\ disk'.config = disk.config /\ disk'.agent = disk.agent
          /\ \A j \in Skill \ {k} : disk'.skill[j] = disk.skill[j]
      BY <1>1, <3>4, NewSkill DEF Inv, Kept, Files
    <3>6. DOMAIN start[s].snapshot.skill \subseteq Skill
      <4>1. start[s].snapshot \in Snapshots
        BY <1>1, <2>1 DEF Inv, Kept, Rows, Request
      <4>2. CASE start[s].snapshot = [skill |-> <<>>]
        BY <4>2
      <4>3. ASSUME NEW project \in Project, start[s].snapshot = SnapshotOf(project)
            PROVE  DOMAIN start[s].snapshot.skill \subseteq Skill
        <5>1. start[s].snapshot.skill = Restrict(project.skill, project.config.skills)
          BY <4>3 DEF SnapshotOf
        <5>2. project.config.skills \subseteq Skill
          BY ProjectFields DEF Config
        <5> QED BY <5>1, <5>2 DEF Restrict
      <4> QED BY <4>1, <4>2, <4>3 DEF Snapshots
    <3> QED BY <3>3, <3>5, <3>6
  <2>3. CASE Commit \/ Crash
    BY <2>1, <2>3 DEF Commit, Crash, Idle
  <2>4. CASE \E r \in Start : Starting(r)
    BY <2>4, StartingFrame
  <2> QED BY <1>1, <2>2, <2>3, <2>4 DEF Next, vars
<1>2. Inv /\ [Next]_vars => [LockedFilesKept]_vars
  BY <1>1 DEF LockedFilesKept
<1> QED BY <1>2, InvCorrect, PTL DEF Spec, LockedWhileActive
=============================================================================
