------------------------- MODULE GovernanceRunProofs -------------------------
(***************************************************************************)
(* Proofs about GovernanceRun for every set of schedules and Refinement    *)
(* Runs, any length of time and any number of manual commands, edits,      *)
(* faults, failures, shutdowns and crashes.                                *)
(*                                                                         *)
(* What keeps an answer from being applied twice, or for a Run that has    *)
(* gone on, is that a Run waiting for a worktree waits in one handler and  *)
(* has no Agent, and that the pump and the queue name each Agent once.     *)
(***************************************************************************)
EXTENDS GovernanceRun, FiniteSetTheorems, TLAPS

-----------------------------------------------------------------------------
(* The inductive invariant *)

\* An Agent's row: a task under way belongs to a live Agent without an answer,
\* and what the Agent says of its task is what its task says.
AgentRows ==
  \A a \in DOMAIN agents :
    /\ agents[a].task \in {"queued", "running"} => Live(a)
    /\ agents[a].task = "cancelled" => ~Live(a)
    /\ agents[a].task = "succeeded" => agents[a].outcome \in Answers \ {"invalid"}
    /\ agents[a].task = "failed" <=> agents[a].outcome = "invalid"
    /\ agents[a].status = "completed" => agents[a].task = "succeeded"
    /\ agents[a].status = "failed" => agents[a].task = "failed"

\* A Run in a handler that awaits its worktree is queued and has no Agent.
Waits(o) == run[o].status = "queued" /\ run[o].agent = 0

\* A list of a handler names each Run once.
Single(list) ==
  \A i, j \in DOMAIN list : list[i] = list[j] /\ list[i] # Ghost => i = j

\* Two lists of handlers name no Run together.
Disjoint(list, other) ==
  \A i \in DOMAIN list, j \in DOMAIN other : list[i] = other[j] => list[i] = Ghost

AllWait(list) == \A i \in DOMAIN list : list[i] # Ghost => Waits(list[i])

\* The Runs handlers have still to dispatch.
Waiting ==
  /\ \A job \in jobs :
       /\ job # <<>> /\ Head(job) # Ghost
       /\ Single(job) /\ AllWait(job) /\ Disjoint(job, tick.made)
  /\ \A job, other \in jobs : job # other => Disjoint(job, other)
  /\ Single(tick.made) /\ AllWait(tick.made)

\* What is at work at each stage of the server.
Stages ==
  /\ ~tick.on => tick = NoTick
  /\ tick.created \subseteq tick.left
  /\ server \notin {"up", "stopping", "released"} => pump = IdlePump
  /\ server \in {"down", "booting", "recovered", "requeued"} => ~tick.on /\ jobs = {}
  /\ server = "scheduling" => IF tick.on THEN jobs = {} ELSE \E job \in jobs : jobs = {job}

\* The queue while tasks are taken from it, or are going to be.
Queued ==
  server \in {"requeued", "scheduling", "up"} =>
    /\ \A i \in DOMAIN queue : Live(queue[i]) /\ queue[i] # pump.agent
    /\ \A i, j \in DOMAIN queue : queue[i] = queue[j] => i = j
    /\ \A a \in DOMAIN agents : Live(a) => pump.agent = a \/ \E i \in DOMAIN queue : queue[i] = a

\* The Agent in the pump.
Current(a) == a # 0 /\ Active(agents[a].owner) /\ run[agents[a].owner].agent = a

Pumped ==
  /\ pump.at \in {"executing", "settling"} <=> pump.agent # 0
  /\ pump.at = "executing" /\ server = "up" => Live(pump.agent)
  /\ pump.at = "settling" =>
       /\ server = "up" /\ ~tick.on
       /\ Current(pump.agent)
       /\ agents[pump.agent].task \in {"succeeded", "failed"}
       /\ agents[pump.agent].status # "interrupted"

\* A Run was not created before it was due, and the schedule has gone on from
\* the instant it was created at, or is about to.
Dues ==
  /\ \A s \in Schedule, d \in Time : run[<<s, d>>].status # "none" =>
       /\ d <= run[<<s, d>>].created /\ run[<<s, d>>].created <= now
       /\ schedule[s].next > run[<<s, d>>].created \/ schedule[s].next = d
  /\ \A s \in tick.left \ tick.created : schedule[s].next <= now

\* A Run that has an Agent was given one that exists.
Pointers == \A o \in Owner : run[o].agent \in 0..Len(agents)

Rows == AgentRows /\ Pointers /\ LiveAgentIsCurrent /\ CompletionEarned

Occurrences == Dues /\ OneActiveOccurrence /\ NoCatchUpBurst

Inv == TypeOK /\ Rows /\ Waiting /\ Stages /\ Queued /\ Pumped /\ Occurrences

-----------------------------------------------------------------------------
(* The queue at boot *)

\* InOrder lists a set of Agents, each once.
LEMMA InOrderProperties ==
  ASSUME NEW n \in Nat, NEW S \in SUBSET (1..n)
  PROVE  /\ InOrder(S) \in Seq(S)
         /\ DOMAIN InOrder(S) = 1..Cardinality(S)
         /\ \A i, j \in DOMAIN InOrder(S) : InOrder(S)[i] = InOrder(S)[j] => i = j
         /\ \A a \in S : \E i \in DOMAIN InOrder(S) : InOrder(S)[i] = a
<1> DEFINE Upto(a) == {b \in S : b <= a}
           N == Cardinality(S)
           rank == [a \in S |-> Cardinality(Upto(a))]
<1>1. IsFiniteSet(S) /\ N \in Nat
  <2>1. IsFiniteSet(1..n)
    BY FS_Interval
  <2>2. IsFiniteSet(S)
    BY <2>1, FS_Subset
  <2> QED BY <2>2, FS_CardinalityType
<1>2. ASSUME NEW a \in S
      PROVE  IsFiniteSet(Upto(a)) /\ Cardinality(Upto(a)) \in 1..N
  <2>1. Upto(a) \in SUBSET S /\ a \in Upto(a)
    OBVIOUS
  <2>2. IsFiniteSet(Upto(a)) /\ Cardinality(Upto(a)) <= N
    BY <1>1, <2>1, FS_Subset
  <2>3. Cardinality(Upto(a)) \in Nat /\ Cardinality(Upto(a)) # 0
    BY <2>1, <2>2, FS_CardinalityType, FS_EmptySet
  <2> QED BY <1>1, <2>2, <2>3
<1>3. ASSUME NEW a \in S, NEW b \in S, a < b
      PROVE  Cardinality(Upto(a)) # Cardinality(Upto(b))
  <2>1. Upto(a) \in SUBSET Upto(b) /\ b \in Upto(b) /\ b \notin Upto(a)
    <3>1. a \in Int /\ b \in Int /\ ~(b <= a) /\ b <= b
      BY <1>3
    <3>2. ASSUME NEW c \in S, c <= a PROVE c <= b
      <4>1. c \in Int
        OBVIOUS
      <4> QED BY <1>3, <3>1, <3>2, <4>1
    <3> QED BY <3>1, <3>2
  <2>2. IsFiniteSet(Upto(b))
    BY <1>2
  <2>3. Cardinality(Upto(b)) = Cardinality(Upto(a)) => Upto(b) = Upto(a)
    <3> HIDE DEF Upto
    <3> QED BY <2>1, <2>2, FS_Subset
  <2> QED BY <2>1, <2>3
<1>4. rank \in Injection(S, 1..N)
  <2>1. rank \in [S -> 1..N]
    BY <1>2
  <2>2. ASSUME NEW a \in S, NEW b \in S, rank[a] = rank[b] PROVE a = b
    BY <1>3, <2>2
  <2> QED BY <2>1, <2>2 DEF Injection, IsInjective
<1>5. IsFiniteSet(1..N) /\ Cardinality(1..N) = N
  BY <1>1, FS_Interval
<1>6. rank \in Surjection(S, 1..N)
  BY <1>1, <1>4, <1>5, FS_Injection
<1>7. ASSUME NEW i \in 1..N
      PROVE  InOrder(S)[i] \in S /\ rank[InOrder(S)[i]] = i
  <2>1. \E a \in S : Cardinality(Upto(a)) = i
    BY <1>6 DEF Surjection
  <2> QED BY <1>7, <2>1 DEF InOrder
<1>8. DOMAIN InOrder(S) = 1..N /\ InOrder(S) \in [1..N -> S]
  BY <1>7 DEF InOrder
<1>9. InOrder(S) \in Seq(S)
  BY <1>1, <1>8
<1>10. \A i, j \in 1..N : InOrder(S)[i] = InOrder(S)[j] => i = j
  BY <1>7
<1>11. ASSUME NEW a \in S PROVE \E i \in 1..N : InOrder(S)[i] = a
  <2>1. rank[a] \in 1..N
    BY <1>2
  <2>2. rank[InOrder(S)[rank[a]]] = rank[a] /\ InOrder(S)[rank[a]] \in S
    BY <1>7, <2>1
  <2>3. InOrder(S)[rank[a]] = a
    BY <1>4, <2>2 DEF Injection, IsInjective
  <2> QED BY <2>1, <2>3
<1> QED BY <1>8, <1>9, <1>10, <1>11

-----------------------------------------------------------------------------
(* Rows *)

\* The rows a table of Agents holds.
LEMMA AgentTable ==
  ASSUME TypeOK
  PROVE  /\ Len(agents) \in Nat /\ DOMAIN agents = 1..Len(agents)
         /\ \A a \in DOMAIN agents : agents[a] \in AgentRow /\ agents[a].owner \in Owner
<1>1. Len(agents) \in Nat /\ agents \in [1..Len(agents) -> AgentRow]
  BY DEF TypeOK
<1>2. \A row \in AgentRow : row.owner \in Owner
  BY DEF AgentRow
<1> QED BY <1>1, <1>2

\* Agents whose rows are written in place.
LEMMA InPlace ==
  ASSUME TypeOK, agents' \in [1..Len(agents) -> AgentRow]
  PROVE  agents' \in Seq(AgentRow) /\ Len(agents') = Len(agents) /\ DOMAIN agents' = DOMAIN agents
<1>1. Len(agents) \in Nat /\ DOMAIN agents = 1..Len(agents)
  BY AgentTable
<1>2. agents' \in Seq(AgentRow) /\ DOMAIN agents' = 1..Len(agents)
  BY <1>1
<1>3. Len(agents') = Len(agents)
  BY <1>1, <1>2
<1> QED BY <1>1, <1>2, <1>3

\* A step that writes the row of one Agent, and not its owner.
Writes(a) ==
  /\ agents' \in Seq(AgentRow) /\ Len(agents') = Len(agents) /\ DOMAIN agents' = DOMAIN agents
  /\ \A b \in DOMAIN agents : b # a => agents'[b] = agents[b]
  /\ agents'[a].owner = agents[a].owner

\* claimTask writes the task and the status.
LEMMA ClaimRow ==
  ASSUME TypeOK, NEW a \in DOMAIN agents, NEW task \in {"running"},
         NEW status \in {"queued", "running", "completed", "failed", "interrupted"},
         agents' = [agents EXCEPT ![a].task = task, ![a].status = status]
  PROVE  /\ Writes(a)
         /\ agents'[a].task = task /\ agents'[a].status = status
         /\ agents'[a].outcome = agents[a].outcome
<1>1. agents \in [1..Len(agents) -> AgentRow] /\ Len(agents) \in Nat
  BY DEF TypeOK
<1>2. agents' \in [1..Len(agents) -> AgentRow]
  BY <1>1 DEF AgentRow
<1>3. agents' \in Seq(AgentRow) /\ Len(agents') = Len(agents) /\ DOMAIN agents' = DOMAIN agents
  BY <1>2, InPlace
<1> QED BY <1>1, <1>3 DEF Writes, AgentRow

\* finishTask writes the task and the answer.
LEMMA AnswerRow ==
  ASSUME TypeOK, NEW a \in DOMAIN agents, NEW task \in {"failed", "succeeded"},
         NEW outcome \in Answers,
         agents' = [agents EXCEPT ![a].task = task, ![a].outcome = outcome]
  PROVE  /\ Writes(a)
         /\ agents'[a].task = task /\ agents'[a].outcome = outcome
         /\ agents'[a].status = agents[a].status
<1>1. agents \in [1..Len(agents) -> AgentRow] /\ Len(agents) \in Nat
  BY DEF TypeOK
<1>2. agents' \in [1..Len(agents) -> AgentRow]
  BY <1>1 DEF AgentRow
<1>3. agents' \in Seq(AgentRow) /\ Len(agents') = Len(agents) /\ DOMAIN agents' = DOMAIN agents
  BY <1>2, InPlace
<1> QED BY <1>1, <1>3 DEF Writes, AgentRow

\* completeAgent and failAgent write the status.
LEMMA StatusRow ==
  ASSUME TypeOK, NEW a \in DOMAIN agents, NEW status \in {"failed", "completed"},
         agents' = [agents EXCEPT ![a].status = status]
  PROVE  /\ Writes(a)
         /\ agents'[a].status = status
         /\ agents'[a].task = agents[a].task /\ agents'[a].outcome = agents[a].outcome
<1>1. agents \in [1..Len(agents) -> AgentRow] /\ Len(agents) \in Nat
  BY DEF TypeOK
<1>2. agents' \in [1..Len(agents) -> AgentRow]
  BY <1>1 DEF AgentRow
<1>3. agents' \in Seq(AgentRow) /\ Len(agents') = Len(agents) /\ DOMAIN agents' = DOMAIN agents
  BY <1>2, InPlace
<1> QED BY <1>1, <1>3 DEF Writes, AgentRow

\* recoverAfterRestart makes tasks wait again, and Agents that ran for them.
Recovers ==
  /\ agents' \in Seq(AgentRow) /\ Len(agents') = Len(agents) /\ DOMAIN agents' = DOMAIN agents
  /\ \A a \in DOMAIN agents :
       /\ agents'[a].owner = agents[a].owner /\ agents'[a].outcome = agents[a].outcome
       /\ \/ agents'[a] = agents[a]
          \/ /\ agents[a].task = "running" /\ agents'[a].task = "queued"
             /\ \/ agents[a].status = "running" /\ agents'[a].status = "queued"
                \/ agents[a].status # "running" /\ agents'[a].status = agents[a].status

LEMMA RecoverRows ==
  ASSUME TypeOK, RecoverTasks
  PROVE  Recovers
<1>1. agents \in [1..Len(agents) -> AgentRow] /\ Len(agents) \in Nat
  BY DEF TypeOK
<1>2. PICK unclaimed \in SUBSET {a \in DOMAIN agents : agents[a].task = "running"} :
        agents' = [a \in DOMAIN agents |->
          IF a \in unclaimed
          THEN [agents[a] EXCEPT !.task = "queued",
                                 !.status = IF @ = "running" THEN "queued" ELSE @]
          ELSE agents[a]]
  BY DEF RecoverTasks
<1>3. ASSUME NEW a \in DOMAIN agents
      PROVE  /\ agents'[a] \in AgentRow
             /\ agents'[a].owner = agents[a].owner /\ agents'[a].outcome = agents[a].outcome
             /\ \/ agents'[a] = agents[a]
                \/ /\ agents[a].task = "running" /\ agents'[a].task = "queued"
                   /\ \/ agents[a].status = "running" /\ agents'[a].status = "queued"
                      \/ agents[a].status # "running" /\ agents'[a].status = agents[a].status
  BY <1>1, <1>2 DEF AgentRow
<1>4. agents' \in [1..Len(agents) -> AgentRow]
  BY <1>1, <1>2, <1>3
<1>5. agents' \in Seq(AgentRow) /\ Len(agents') = Len(agents) /\ DOMAIN agents' = DOMAIN agents
  BY <1>4, InPlace
<1> QED BY <1>3, <1>5 DEF Recovers

\* shutdown cancels what was under way and ends every Agent.
Interrupts ==
  /\ agents' \in Seq(AgentRow) /\ Len(agents') = Len(agents) /\ DOMAIN agents' = DOMAIN agents
  /\ \A a \in DOMAIN agents :
       /\ agents'[a].owner = agents[a].owner /\ agents'[a].outcome = agents[a].outcome
       /\ agents'[a].task = IF agents[a].task \in {"queued", "running"} THEN "cancelled"
                            ELSE agents[a].task
       /\ agents'[a].status = IF Live(a) THEN "interrupted" ELSE agents[a].status

LEMMA ShutdownRows ==
  ASSUME TypeOK, Shutdown
  PROVE  Interrupts
<1>1. agents \in [1..Len(agents) -> AgentRow] /\ Len(agents) \in Nat
  BY DEF TypeOK
<1>2. agents' = [a \in DOMAIN agents |->
        [agents[a] EXCEPT !.task = IF @ \in {"queued", "running"} THEN "cancelled" ELSE @,
                          !.status = IF Live(a) THEN "interrupted" ELSE @]]
  BY DEF Shutdown
<1>3. ASSUME NEW a \in DOMAIN agents
      PROVE  /\ agents'[a] \in AgentRow
             /\ agents'[a].owner = agents[a].owner /\ agents'[a].outcome = agents[a].outcome
             /\ agents'[a].task = IF agents[a].task \in {"queued", "running"} THEN "cancelled"
                                  ELSE agents[a].task
             /\ agents'[a].status = IF Live(a) THEN "interrupted" ELSE agents[a].status
  BY <1>1, <1>2 DEF AgentRow
<1>4. agents' \in [1..Len(agents) -> AgentRow]
  BY <1>1, <1>2, <1>3
<1>5. agents' \in Seq(AgentRow) /\ Len(agents') = Len(agents) /\ DOMAIN agents' = DOMAIN agents
  BY <1>4, InPlace
<1> QED BY <1>3, <1>5 DEF Interrupts

\* A dispatch appends an Agent, gives it the Run, and enqueues its task.
Dispatches(o) ==
  LET new == Len(agents) + 1
  IN /\ agents' \in Seq(AgentRow) /\ Len(agents') = new /\ DOMAIN agents' = 1..new
     /\ \A a \in DOMAIN agents : agents'[a] = agents[a]
     /\ agents'[new].owner = o /\ agents'[new].status = "queued"
     /\ agents'[new].task = "queued" /\ agents'[new].outcome = "none"
     /\ run' \in [Owner -> RunRow]
     /\ run'[o].status = "running" /\ run'[o].agent = new /\ run'[o].created = run[o].created
     /\ \A p \in Owner : p # o => run'[p] = run[p]
     /\ queue' \in Seq(1..new)
     /\ DOMAIN queue' = 1..Len(queue) + 1 /\ queue'[Len(queue) + 1] = new
     /\ \A i \in DOMAIN queue : queue'[i] = queue[i]
     /\ UNCHANGED <<schedule, proposal>>

LEMMA DispatchRows ==
  ASSUME TypeOK, NEW o \in Owner, Dispatch(o)
  PROVE  Dispatches(o)
<1> DEFINE new == Len(agents) + 1
           row == [owner |-> o, status |-> "queued", task |-> "queued", outcome |-> "none"]
<1>1. Len(agents) \in Nat /\ agents \in Seq(AgentRow) /\ DOMAIN agents = 1..Len(agents)
  BY DEF TypeOK
<1>2. row \in AgentRow
  BY DEF AgentRow
<1>3. /\ agents' \in Seq(AgentRow) /\ Len(agents') = new /\ DOMAIN agents' = 1..new
      /\ \A a \in DOMAIN agents : agents'[a] = agents[a]
      /\ agents'[new] = row
  BY <1>1, <1>2 DEF Dispatch
<1>4. /\ run' \in [Owner -> RunRow]
      /\ run'[o].status = "running" /\ run'[o].agent = new /\ run'[o].created = run[o].created
      /\ \A p \in Owner : p # o => run'[p] = run[p]
  <2>1. run \in [Owner -> RunRow] /\ new \in Nat
    BY <1>1 DEF TypeOK
  <2>2. run' = [run EXCEPT ![o].status = "running", ![o].agent = new]
    BY DEF Dispatch
  <2> HIDE DEF new
  <2> QED BY <2>1, <2>2 DEF RunRow
<1>5. queue \in Seq(1..new) /\ new \in 1..new
  BY <1>1 DEF TypeOK
<1>6. /\ queue' \in Seq(1..new)
      /\ DOMAIN queue' = 1..Len(queue) + 1 /\ queue'[Len(queue) + 1] = new
      /\ \A i \in DOMAIN queue : queue'[i] = queue[i]
  BY <1>5 DEF Dispatch
<1>7. UNCHANGED <<schedule, proposal>>
  BY DEF Dispatch
<1> QED BY <1>3, <1>4, <1>6, <1>7 DEF Dispatches

-----------------------------------------------------------------------------
(* What a step leaves alone *)

\* Runs are schedule occurrences or Refinement Runs.
LEMMA Owners ==
  /\ \A s \in Criteria, d \in Time : <<s, d>> \in Owner /\ <<s, d>> \in CriticRun
  /\ Schedule \subseteq Criteria /\ Manual \in Criteria
  /\ Refinement \subseteq Owner /\ CriticRun \subseteq Owner
  /\ \A o \in CriticRun : \E s \in Criteria, d \in Time : o = <<s, d>>
BY DEF Owner, CriticRun, Criteria

LEMMA SameRows ==
  ASSUME Rows, UNCHANGED <<run, agents, proposal>>
  PROVE  Rows'
BY DEF Rows, AgentRows, Pointers, LiveAgentIsCurrent, CompletionEarned, Live, Active

LEMMA SameOccurrences ==
  ASSUME Occurrences, UNCHANGED <<run, schedule, now>>,
         tick'.left \ tick'.created \subseteq tick.left \ tick.created
  PROVE  Occurrences'
BY DEF Occurrences, Dues, OneActiveOccurrence, NoCatchUpBurst, Active

LEMMA SameWaiting ==
  ASSUME Waiting, UNCHANGED <<run, jobs>>, tick'.made = tick.made
  PROVE  Waiting'
BY DEF Waiting, Single, Disjoint, AllWait, Waits

\* Only the pump writes the row of the Agent it holds.
LEMMA PumpRests ==
  ASSUME Pumped, UNCHANGED pump, pump.at # "settling",
         server' = "up" => server = "up" \/ pump = IdlePump,
         pump.at = "executing" /\ server' = "up" /\ Live(pump.agent) => Live(pump.agent)'
  PROVE  Pumped'
BY DEF Pumped, IdlePump

\* The queue as it is serves Agents that go on as they are.
LEMMA QueueRests ==
  ASSUME TypeOK, Queued, UNCHANGED queue, pump'.agent = pump.agent,
         DOMAIN agents' = DOMAIN agents,
         server' \in {"requeued", "scheduling", "up"} =>
           server \in {"requeued", "scheduling", "up"},
         \A a \in DOMAIN agents : a # pump.agent => (Live(a)' <=> Live(a))
  PROVE  Queued'
<1>1. \A i \in DOMAIN queue : queue[i] \in DOMAIN agents
  BY DEF TypeOK
<1> QED BY <1>1 DEF Queued

LEMMA SameQueue ==
  ASSUME TypeOK, Queued, UNCHANGED <<queue, pump, agents>>,
         server' \in {"requeued", "scheduling", "up"} =>
           server \in {"requeued", "scheduling", "up"}
  PROVE  Queued'
BY QueueRests DEF Live

\* Runs that keep their instant, and do not begin.
GoesOn(o) ==
  /\ run'[o].created = run[o].created
  /\ run'[o].status = "none" <=> run[o].status = "none"
  /\ Active(o)' => Active(o)

LEMMA RunsGoOn ==
  ASSUME Occurrences, UNCHANGED <<schedule, now>>,
         tick'.left \ tick'.created \subseteq tick.left \ tick.created,
         \A o \in Owner : GoesOn(o)
  PROVE  Occurrences'
<1>1. \A s \in Schedule, d \in Time : GoesOn(<<s, d>>)
  BY Owners
<1>2. Dues'
  BY <1>1 DEF Occurrences, Dues, GoesOn
<1>3. OneActiveOccurrence'
  BY <1>1 DEF Occurrences, OneActiveOccurrence, GoesOn
<1>4. NoCatchUpBurst'
  BY <1>1 DEF Occurrences, NoCatchUpBurst, GoesOn
<1> QED BY <1>2, <1>3, <1>4 DEF Occurrences

\* Nothing settles while another handler is between two commits or may begin.
LEMMA NotSettling ==
  ASSUME Pumped, Free \/ tick.on \/ server # "up"
  PROVE  pump.at # "settling"
BY DEF Pumped, Free

-----------------------------------------------------------------------------
(* The end of the process *)

LEMMA GoneKeeps ==
  ASSUME Inv, Gone, UNCHANGED <<store, evidence, config, now>>, count' \in 0..MaxEvents
  PROVE  Inv'
<1>1. /\ server' = "down" /\ queue' = <<>> /\ pump' = IdlePump /\ tick' = NoTick /\ jobs' = {}
      /\ dropped' = {} /\ UNCHANGED <<schedule, run, agents, proposal, evidence, config, now>>
  BY DEF Gone, store
<1>2. TypeOK'
  BY <1>1, AgentTable DEF Inv, TypeOK, NoTick, IdlePump
<1>3. Rows'
  BY <1>1, SameRows DEF Inv
<1>4. Occurrences'
  BY <1>1, SameOccurrences DEF Inv, NoTick
<1>5. Waiting' /\ Stages' /\ Queued' /\ Pumped'
  BY <1>1 DEF Waiting, Stages, Queued, Pumped, NoTick, IdlePump, Single, AllWait
<1> QED BY <1>2, <1>3, <1>4, <1>5 DEF Inv

-----------------------------------------------------------------------------
(* Schedules *)

LEMMA EventCount ==
  ASSUME TypeOK, NEW event, Happens(event)
  PROVE  count' \in 0..MaxEvents
BY GovernanceAssumption DEF TypeOK, Happens

\* The tick between two commits.
TickRow == [on: BOOLEAN, left: SUBSET Schedule, created: SUBSET Schedule,
            made: Seq(Owner \cup {Ghost})]

LEMMA TickRows ==
  /\ NoTick \in TickRow
  /\ NoTick.left = {} /\ NoTick.created = {} /\ NoTick.made = <<>> /\ ~NoTick.on
BY DEF NoTick, TickRow

\* A tick that begins.
LEMMA TickBegins ==
  ASSUME NEW on \in BOOLEAN, NEW left \in SUBSET Schedule,
         tick' = [NoTick EXCEPT !.on = on, !.left = left]
  PROVE  /\ tick' \in TickRow /\ tick'.on = on /\ tick'.left = left
         /\ tick'.created = {} /\ tick'.made = <<>>
<1>1. ASSUME NEW row \in TickRow, tick' = [row EXCEPT !.on = on, !.left = left]
      PROVE  /\ tick' \in TickRow /\ tick'.on = on /\ tick'.left = left
             /\ tick'.created = row.created /\ tick'.made = row.made
  BY <1>1 DEF TickRow
<1> QED BY <1>1, TickRows

\* What configure writes.
LEMMA ConfiguredRows ==
  ASSUME TypeOK
  PROVE  /\ Configured \in [Criteria -> ScheduleRow]
         /\ \A s \in Schedule :
              Configured[s].next = schedule[s].next \/ Configured[s].next = now + 1
<1>1. now \in Nat /\ now <= MaxTime /\ MaxTime \in Nat
  BY GovernanceAssumption DEF TypeOK, Time
<1>2. ASSUME NEW s \in Criteria
      PROVE  /\ Configured[s] \in ScheduleRow
             /\ Configured[s].next = schedule[s].next \/ Configured[s].next = now + 1
  <2> DEFINE off == [schedule[s] EXCEPT !.enabled = FALSE]
             new == [config |-> config.version[s], enabled |-> config.enabled,
                     next |-> now + 1]
  <2>1. schedule[s] \in ScheduleRow
    BY DEF TypeOK
  <2>2. off \in ScheduleRow /\ off.next = schedule[s].next
    <3>1. ASSUME NEW row \in ScheduleRow, NEW on \in BOOLEAN
          PROVE  LET next == [row EXCEPT !.enabled = on]
                 IN  next \in ScheduleRow /\ next.next = row.next
      BY DEF ScheduleRow
    <3> QED BY <2>1, <3>1
  <2>3. s # Manual /\ config.version[s] # "absent" =>
          new \in ScheduleRow /\ new.next = now + 1
    <3>1. s # Manual => config.version[s] \in {"absent", "v1", "v2"}
      BY DEF TypeOK, Criteria
    <3>2. config.enabled \in BOOLEAN
      BY DEF TypeOK
    <3>3. now + 1 \in 0..MaxTime + 1
      BY <1>1
    <3> QED BY <3>1, <3>2, <3>3 DEF ScheduleRow
  <2>4. Configured[s] \in {schedule[s], off, new} /\
          (s = Manual \/ config.version[s] = "absent" => Configured[s] = off)
    BY DEF Configured, NextCriticDue
  <2> HIDE DEF off, new
  <2> QED BY <2>1, <2>2, <2>3, <2>4
<1>3. Configured = [s \in Criteria |-> Configured[s]]
  BY DEF Configured
<1> QED BY <1>2, <1>3, Owners

\* What configureScheduler leaves behind: its schedules, and a tick that has
\* the ones that are due before it.
LEMMA ConfigureWrites ==
  ASSUME TypeOK, tick = NoTick, ConfigureAndTick
  PROVE  /\ schedule' \in [Criteria -> ScheduleRow]
         /\ \A s \in Schedule :
              schedule'[s].next = schedule[s].next \/ schedule'[s].next = now + 1
         /\ tick' \in TickRow /\ tick'.made = <<>> /\ tick'.created = {}
         /\ \A s \in tick'.left : schedule'[s].next <= now
         /\ ~tick'.on => tick' = NoTick
         /\ tick'.on <=> config.readable /\ SchedulesDue # {}
<1>1. CASE Reconcile /\ config.readable
  <2>1. schedule' = Configured
    BY <1>1 DEF Reconcile
  <2>2. CASE SchedulesDue = {}
    BY <1>1, <2>1, <2>2, ConfiguredRows, TickRows DEF Reconcile
  <2>3. CASE SchedulesDue # {}
    <3>1. tick' = [NoTick EXCEPT !.on = TRUE, !.left = SchedulesDue]
      BY <1>1, <2>3 DEF Reconcile
    <3>2. SchedulesDue \in SUBSET Schedule
      BY DEF SchedulesDue
    <3>3. TRUE \in BOOLEAN
      OBVIOUS
    <3>4. /\ tick' \in TickRow /\ tick'.on = TRUE /\ tick'.left = SchedulesDue
          /\ tick'.created = {} /\ tick'.made = <<>>
      BY <3>1, <3>2, <3>3, TickBegins
    <3>5. \A s \in SchedulesDue : Configured[s].next <= now
      BY DEF SchedulesDue
    <3> QED BY <1>1, <2>1, <2>3, <3>4, <3>5, ConfiguredRows
  <2> QED BY <2>2, <2>3
<1>2. CASE ~config.readable
  BY <1>2, TickRows DEF ConfigureAndTick, TypeOK
<1> QED BY <1>1, <1>2 DEF ConfigureAndTick

\* A schedule that is written goes on from its last Critic Run.
LEMMA DuesConfigured ==
  ASSUME TypeOK, Occurrences, UNCHANGED <<run, now>>,
         \A s \in Schedule : schedule'[s].next = schedule[s].next \/ schedule'[s].next = now + 1,
         \A s \in tick'.left \ tick'.created : schedule'[s].next <= now
  PROVE  Occurrences'
<1>1. ASSUME NEW s \in Schedule, NEW d \in Time, run[<<s, d>>].status # "none"
      PROVE  schedule'[s].next > run[<<s, d>>].created \/ schedule'[s].next = d
  <2>1. run[<<s, d>>].created <= now /\ run[<<s, d>>].created \in Nat /\ now \in Nat
    BY <1>1, Owners DEF Occurrences, Dues, TypeOK, RunRow, Time
  <2>2. schedule[s].next > run[<<s, d>>].created \/ schedule[s].next = d
    BY <1>1 DEF Occurrences, Dues
  <2> QED BY <2>1, <2>2
<1>2. Dues'
  BY <1>1 DEF Occurrences, Dues
<1>3. OneActiveOccurrence' /\ NoCatchUpBurst'
  BY DEF Occurrences, OneActiveOccurrence, NoCatchUpBurst, Active
<1> QED BY <1>2, <1>3 DEF Occurrences

\* configureScheduler at a running server.
LEMMA ConfigureKeeps ==
  ASSUME Inv, ConfigureScheduler \/ ReconcileCritic
  PROVE  Inv'
<1>1. /\ Free /\ server \in {"up", "stopping", "released"} /\ ConfigureAndTick
      /\ UNCHANGED <<run, agents, proposal, evidence, config, now, server, queue, pump,
                     jobs, dropped, count>>
  BY DEF ConfigureScheduler, ReconcileCritic, ConfigureAndTick, Open
<1>2. tick = NoTick
  BY <1>1 DEF Free, Inv, Stages
<1>3. /\ schedule' \in [Criteria -> ScheduleRow]
      /\ \A s \in Schedule :
           schedule'[s].next = schedule[s].next \/ schedule'[s].next = now + 1
      /\ tick' \in TickRow /\ tick'.made = <<>> /\ tick'.created = {}
      /\ \A s \in tick'.left : schedule'[s].next <= now
      /\ ~tick'.on => tick' = NoTick
  BY <1>1, <1>2, ConfigureWrites DEF Inv
<1>4. TypeOK'
  BY <1>1, <1>3 DEF Inv, TypeOK, TickRow
<1>5. Rows' /\ Occurrences'
  BY <1>1, <1>3, SameRows, DuesConfigured DEF Inv
<1>6. Waiting'
  BY <1>1, <1>2, <1>3, SameWaiting, TickRows DEF Inv
<1>7. Stages'
  BY <1>1, <1>2, <1>3 DEF Inv, Stages
<1>8. Queued'
  BY <1>1, SameQueue DEF Inv
<1>9. Pumped'
  BY <1>1, PumpRests, NotSettling DEF Inv, Live
<1> QED BY <1>4, <1>5, <1>6, <1>7, <1>8, <1>9 DEF Inv

\* configureScheduler at boot.
LEMMA ConfigureAtBootKeeps ==
  ASSUME Inv, ConfigureAtBoot
  PROVE  Inv'
<1>1. /\ server = "requeued" /\ ConfigureAndTick
      /\ server' = IF config.readable /\ SchedulesDue # {} THEN "scheduling" ELSE "up"
      /\ UNCHANGED <<run, agents, proposal, evidence, config, now, queue, pump, jobs, dropped,
                     count>>
  BY DEF ConfigureAtBoot
<1>2. tick = NoTick /\ jobs = {} /\ pump = IdlePump
  BY <1>1 DEF Inv, Stages
<1>3. /\ schedule' \in [Criteria -> ScheduleRow]
      /\ \A s \in Schedule :
           schedule'[s].next = schedule[s].next \/ schedule'[s].next = now + 1
      /\ tick' \in TickRow /\ tick'.made = <<>> /\ tick'.created = {}
      /\ \A s \in tick'.left : schedule'[s].next <= now
      /\ ~tick'.on => tick' = NoTick
      /\ tick'.on <=> config.readable /\ SchedulesDue # {}
  BY <1>1, <1>2, ConfigureWrites DEF Inv
<1>4. TypeOK'
  BY <1>1, <1>3 DEF Inv, TypeOK, TickRow
<1>5. Rows' /\ Occurrences'
  BY <1>1, <1>3, SameRows, DuesConfigured DEF Inv
<1>6. Waiting'
  BY <1>1, <1>2, <1>3, SameWaiting, TickRows DEF Inv
<1>7. Stages'
  BY <1>1, <1>2, <1>3 DEF Inv, Stages
<1>8. Queued'
  BY <1>1, SameQueue DEF Inv
<1>9. Pumped'
  BY <1>1, <1>2 DEF Pumped, IdlePump
<1> QED BY <1>4, <1>5, <1>6, <1>7, <1>8, <1>9 DEF Inv

-----------------------------------------------------------------------------
(* Ticks *)

\* The schedule of a tick goes on to its next instant and leaves the tick.
Advances(s) ==
  /\ s \in tick.left
  /\ schedule' = [schedule EXCEPT ![s].next = now + 1]
  /\ tick' \in TickRow /\ tick'.on = tick.on /\ tick'.made = tick.made
  /\ tick'.left = tick.left \ {s} /\ tick'.created = tick.created \ {s}
  /\ UNCHANGED <<run, agents, proposal, evidence, config, now, server, queue, pump, jobs, dropped,
                 count>>

LEMMA AdvanceWrites ==
  ASSUME Inv, NEW s \in Schedule, TickOverlaps(s) \/ AdvanceDue(s)
  PROVE  Advances(s)
<1>1. tick \in TickRow /\ tick.created \subseteq tick.left
  BY DEF Inv, TypeOK, TickRow, Stages
<1>2. CASE TickOverlaps(s)
  <2>1. /\ s \in tick.left /\ s \notin tick.created
        /\ tick' = [tick EXCEPT !.left = @ \ {s}]
    BY <1>2 DEF TickOverlaps
  <2>2. /\ tick' \in TickRow /\ tick'.on = tick.on /\ tick'.made = tick.made
        /\ tick'.left = tick.left \ {s} /\ tick'.created = tick.created
    BY <1>1, <2>1 DEF TickRow
  <2>3. tick.created = tick.created \ {s}
    BY <2>1
  <2> QED BY <1>2, <2>1, <2>2, <2>3 DEF TickOverlaps, Advances, NextDueAfterTick, NextCriticDue
<1>3. CASE AdvanceDue(s)
  <2>1. s \in tick.left /\ tick' = [tick EXCEPT !.left = @ \ {s}, !.created = @ \ {s}]
    BY <1>1, <1>3 DEF AdvanceDue
  <2>2. /\ tick' \in TickRow /\ tick'.on = tick.on /\ tick'.made = tick.made
        /\ tick'.left = tick.left \ {s} /\ tick'.created = tick.created \ {s}
    BY <1>1, <2>1 DEF TickRow
  <2> QED BY <1>3, <2>1, <2>2 DEF AdvanceDue, Advances, NextDueAfterTick, NextCriticDue
<1> QED BY <1>2, <1>3

LEMMA AdvanceKeeps ==
  ASSUME Inv, NEW s \in Schedule, Advances(s)
  PROVE  Inv'
<1>1. tick.on
  BY TickRows DEF Advances, Inv, Stages
<1>2. now \in Nat /\ now + 1 \in 0..MaxTime + 1
  BY GovernanceAssumption DEF Inv, TypeOK, Time
<1>3. /\ schedule' \in [Criteria -> ScheduleRow]
      /\ schedule'[s].next = now + 1
      /\ \A other \in Schedule : other # s => schedule'[other] = schedule[other]
  <2>1. schedule \in [Criteria -> ScheduleRow] /\ s \in Criteria
    BY Owners DEF Inv, TypeOK
  <2>2. schedule' = [schedule EXCEPT ![s].next = now + 1]
    BY DEF Advances
  <2>3. schedule' \in [Criteria -> ScheduleRow] /\ schedule'[s].next = now + 1
    BY <1>2, <2>1, <2>2 DEF ScheduleRow
  <2> QED BY <2>1, <2>2, <2>3, Owners
<1>4. TypeOK'
  BY <1>3 DEF Advances, Inv, TypeOK, TickRow
<1>5. Rows'
  BY SameRows DEF Advances, Inv
<1>6. Occurrences'
  <2>1. \A other \in tick'.left \ tick'.created : schedule'[other].next <= now
    <3>1. \A other \in tick'.left \ tick'.created :
            other # s /\ other \in tick.left \ tick.created /\ other \in Schedule
      BY DEF Advances, Inv, TypeOK
    <3> QED BY <1>3, <3>1 DEF Inv, Occurrences, Dues
  <2> QED BY <1>3, <2>1, DuesConfigured DEF Advances, Inv
<1>7. Waiting'
  BY SameWaiting DEF Advances, Inv
<1>8. Stages'
  BY <1>1 DEF Advances, Inv, Stages
<1>9. Queued'
  BY SameQueue DEF Advances, Inv
<1>10. Pumped'
  BY <1>1, PumpRests, NotSettling DEF Advances, Inv, Live
<1> QED BY <1>4, <1>5, <1>6, <1>7, <1>8, <1>9, <1>10 DEF Inv

-----------------------------------------------------------------------------
(* Runs that begin *)

\* A Run that begins: no Run had its row.
Begins(o) ==
  /\ run[o].status = "none"
  /\ run' \in [Owner -> RunRow]
  /\ run'[o].status \in {"queued", "skipped"} /\ run'[o].agent = 0 /\ run'[o].created = now
  /\ \A p \in Owner : p # o => run'[p] = run[p]

LEMMA BeginRow ==
  ASSUME TypeOK, NEW o \in Owner, NEW status \in {"queued", "skipped"},
         run[o].status = "none",
         run' = [run EXCEPT ![o] = [status |-> status, agent |-> 0, created |-> now]]
  PROVE  Begins(o) /\ run'[o].status = status
<1>1. [status |-> status, agent |-> 0, created |-> now] \in RunRow
  BY DEF TypeOK, RunRow
<1> QED BY <1>1 DEF TypeOK, Begins

LEMMA BeginKeepsRows ==
  ASSUME TypeOK, Rows, NEW o \in Owner, Begins(o), UNCHANGED <<agents, proposal>>
  PROVE  Rows'
<1>1. Len(agents) \in Nat /\ \A a \in DOMAIN agents : agents[a].owner \in Owner
  BY AgentTable
<1>2. AgentRows' /\ Pointers'
  BY <1>1 DEF Rows, AgentRows, Pointers, Live, Begins
<1>3. LiveAgentIsCurrent'
  BY <1>1 DEF Rows, LiveAgentIsCurrent, Live, Active, Begins
<1>4. CompletionEarned'
  BY DEF Rows, CompletionEarned, Begins
<1> QED BY <1>2, <1>3, <1>4 DEF Rows

\* No handler waits for a Run that only begins.
LEMMA NotMentioned ==
  ASSUME NEW o \in Owner, Begins(o), NEW list \in Seq(Owner \cup {Ghost}), AllWait(list)
  PROVE  \A i \in DOMAIN list :
           list[i] # o /\ (list[i] # Ghost => run'[list[i]] = run[list[i]])
<1> TAKE i \in DOMAIN list
<1>1. list[i] \in Owner \cup {Ghost} /\ o # Ghost
  BY GovernanceAssumption
<1>2. list[i] # Ghost => run[list[i]].status = "queued"
  BY DEF AllWait, Waits
<1> QED BY <1>1, <1>2 DEF Begins

\* A Run that begins outside the configured schedules.
LEMMA BeginsElsewhere ==
  ASSUME TypeOK, Occurrences, NEW o, \A p \in Owner : p # o => run'[p] = run[p],
         \A s \in Schedule, d \in Time : <<s, d>> # o,
         \A s \in Schedule : schedule'[s] = schedule[s], UNCHANGED <<now, tick>>
  PROVE  Occurrences'
<1>1. \A s \in Schedule, d \in Time : run'[<<s, d>>] = run[<<s, d>>]
  BY Owners
<1>2. tick.left \subseteq Schedule
  BY DEF TypeOK
<1>3. Dues'
  <2>1. ASSUME NEW s \in Schedule, NEW d \in Time, run'[<<s, d>>].status # "none"
        PROVE  /\ d <= run'[<<s, d>>].created /\ run'[<<s, d>>].created <= now
               /\ schedule'[s].next > run'[<<s, d>>].created \/ schedule'[s].next = d
    BY <1>1, <2>1 DEF Occurrences, Dues
  <2>2. ASSUME NEW s \in tick.left \ tick.created PROVE schedule'[s].next <= now
    BY <1>2 DEF Occurrences, Dues
  <2>3. now' = now /\ tick' = tick
    OBVIOUS
  <2> QED BY <2>1, <2>2, <2>3 DEF Dues
<1>4. OneActiveOccurrence' /\ NoCatchUpBurst'
  BY <1>1 DEF Occurrences, OneActiveOccurrence, NoCatchUpBurst, Active
<1> QED BY <1>3, <1>4 DEF Occurrences

\* Its handler awaits its worktree.
LEMMA BeginsWaiting ==
  ASSUME TypeOK, Waiting, NEW o \in Owner, Begins(o), run'[o].status = "queued",
         jobs' = jobs \cup {<<o>>}, tick' = tick
  PROVE  Waiting'
<1>1. o # Ghost
  BY GovernanceAssumption
<1>2. \A list \in jobs \cup {tick.made} :
        /\ list \in Seq(Owner \cup {Ghost}) /\ AllWait(list)
        /\ \A i \in DOMAIN list : list[i] # o /\ (list[i] # Ghost => run'[list[i]] = run[list[i]])
  <2>1. \A list \in jobs \cup {tick.made} : list \in Seq(Owner \cup {Ghost}) /\ AllWait(list)
    BY DEF TypeOK, Waiting
  <2> QED BY <2>1, NotMentioned
<1>3. /\ <<o>> # <<>> /\ Head(<<o>>) = o /\ DOMAIN <<o>> = {1} /\ <<o>>[1] = o
      /\ Single(<<o>>)
  BY DEF Single
<1>4. \A list \in jobs \cup {tick.made} : Disjoint(<<o>>, list) /\ Disjoint(list, <<o>>)
  BY <1>2, <1>3 DEF Disjoint
<1>5. \A list \in jobs \cup {tick.made, <<o>>} :
        \A i \in DOMAIN list : list[i] # Ghost =>
          run'[list[i]].status = "queued" /\ run'[list[i]].agent = 0
  BY <1>2, <1>3 DEF AllWait, Waits, Begins
<1>6. \A job \in jobs' :
        /\ job # <<>> /\ Head(job) # Ghost /\ Single(job) /\ Disjoint(job, tick.made)
  BY <1>1, <1>3, <1>4 DEF Waiting
<1>7. \A job, other \in jobs' : job # other => Disjoint(job, other)
  BY <1>4 DEF Waiting
<1>8. Single(tick.made)
  BY DEF Waiting
<1> QED BY <1>5, <1>6, <1>7, <1>8 DEF Waiting, AllWait, Waits, Single, Disjoint

LEMMA ManualKeeps ==
  ASSUME Inv, ManualCritic
  PROVE  Inv'
<1> DEFINE o == <<Manual, now>>
<1>1. /\ Free /\ Open /\ count' \in 0..MaxEvents
      /\ UNCHANGED <<agents, proposal, evidence, config, now, server, queue, pump, tick,
                     dropped>>
  BY EventCount DEF ManualCritic, Inv
<1>2. o \in Owner /\ \A s \in Schedule, d \in Time : <<s, d>> # o
  BY Owners, GovernanceAssumption DEF Inv, TypeOK
<1>3. /\ schedule' \in [Criteria -> ScheduleRow]
      /\ \A s \in Schedule : schedule'[s] = schedule[s]
  <2>1. schedule \in [Criteria -> ScheduleRow] /\ now \in 0..MaxTime + 1
    BY GovernanceAssumption DEF Inv, TypeOK, Time
  <2>2. \A on \in BOOLEAN : [config |-> "v1", enabled |-> on, next |-> now] \in ScheduleRow
    BY <2>1 DEF ScheduleRow
  <2>3. TRUE \in BOOLEAN
    OBVIOUS
  <2>4. [config |-> "v1", enabled |-> TRUE, next |-> now] \in ScheduleRow
    BY <2>2, <2>3
  <2> DEFINE new == [config |-> "v1", enabled |-> TRUE, next |-> now]
  <2>5. schedule' = [schedule EXCEPT ![Manual] = IF @.enabled THEN @ ELSE new]
    BY DEF ManualCritic
  <2> HIDE DEF new
  <2> QED BY <2>1, <2>4, <2>5, Owners, GovernanceAssumption DEF new
<1>4. Stages'
  BY <1>1 DEF Inv, Stages, Open
<1>5. Queued'
  BY <1>1, SameQueue DEF Inv
<1>6. Pumped'
  BY <1>1, PumpRests, NotSettling DEF Inv, Live
<1>7. CASE run[o].status = "none"
  <2>1. /\ run' = [run EXCEPT ![o] = [status |-> "queued", agent |-> 0, created |-> now]]
        /\ jobs' = jobs \cup {<<o>>}
    BY <1>7 DEF ManualCritic
  <2>2. Begins(o) /\ run'[o].status = "queued"
    BY <1>2, <1>7, <2>1, BeginRow DEF Inv
  <2>3. Rows'
    BY <1>1, <1>2, <2>2, BeginKeepsRows DEF Inv
  <2>4. Occurrences'
    BY <1>1, <1>2, <1>3, <2>2, BeginsElsewhere DEF Inv, Begins
  <2>5. Waiting'
    BY <1>1, <1>2, <2>1, <2>2, BeginsWaiting DEF Inv
  <2>6. TypeOK'
    <3>1. <<o>> \in Seq(Owner \cup {Ghost})
      BY <1>2
    <3> QED BY <1>1, <1>3, <2>1, <2>2, <3>1 DEF Inv, TypeOK, Begins
  <2> QED BY <1>4, <1>5, <1>6, <2>3, <2>4, <2>5, <2>6 DEF Inv
<1>8. CASE run[o].status # "none"
  <2>1. UNCHANGED <<run, jobs>>
    BY <1>8 DEF ManualCritic
  <2>2. Rows' /\ Waiting' /\ Occurrences'
    BY <1>1, <1>2, <1>3, <2>1, SameRows, SameWaiting, BeginsElsewhere DEF Inv
  <2>3. TypeOK'
    BY <1>1, <1>3, <2>1 DEF Inv, TypeOK
  <2> QED BY <1>4, <1>5, <1>6, <2>2, <2>3 DEF Inv
<1> QED BY <1>7, <1>8

LEMMA RefinementKeeps ==
  ASSUME Inv, NEW r \in Refinement, CreateRefinement(r)
  PROVE  Inv'
<1>1. /\ Free /\ Open /\ run[r].status = "none"
      /\ run' = [run EXCEPT ![r] = [status |-> "queued", agent |-> 0, created |-> now]]
      /\ jobs' = jobs \cup {<<r>>}
      /\ UNCHANGED <<schedule, agents, proposal, evidence, config, now, server, queue, pump,
                     tick, dropped, count>>
  BY DEF CreateRefinement
<1>2. r \in Owner /\ \A s \in Schedule, d \in Time : <<s, d>> # r
  BY Owners, GovernanceAssumption
<1>3. Begins(r) /\ run'[r].status = "queued"
  BY <1>1, <1>2, BeginRow DEF Inv
<1>4. Rows'
  BY <1>1, <1>2, <1>3, BeginKeepsRows DEF Inv
<1>5. Occurrences'
  BY <1>1, <1>2, <1>3, BeginsElsewhere DEF Inv, Begins
<1>6. Waiting'
  BY <1>1, <1>2, <1>3, BeginsWaiting DEF Inv
<1>7. Stages'
  BY <1>1 DEF Inv, Stages, Open
<1>8. Queued'
  BY <1>1, SameQueue DEF Inv
<1>9. Pumped'
  BY <1>1, PumpRests, NotSettling DEF Inv, Live
<1>10. TypeOK'
  <2>1. <<r>> \in Seq(Owner \cup {Ghost})
    BY <1>2
  <2> QED BY <1>1, <1>3, <2>1 DEF Inv, TypeOK, Begins
<1> QED BY <1>4, <1>5, <1>6, <1>7, <1>8, <1>9, <1>10 DEF Inv

\* createCriticDue creates an occurrence of its schedule that is due, when none
\* is under way, and its schedule has not gone on from this instant.
LEMMA DueBegins ==
  ASSUME TypeOK, Occurrences, NEW s \in Schedule, s \in tick.left \ tick.created,
         ~HasActiveCriticRun(s), Begins(<<s, schedule[s].next>>), UNCHANGED <<schedule, now>>,
         tick'.left = tick.left, tick'.created = tick.created \cup {s}
  PROVE  Occurrences'
<1> DEFINE due == schedule[s].next
           o == <<s, due>>
<1>1. /\ due <= now /\ due \in Time /\ now \in Time /\ Time \subseteq Nat
      /\ \A d \in Time : <<s, d>> \in Owner /\ run[<<s, d>>].created \in Nat
  <2>1. due <= now
    BY DEF Occurrences, Dues
  <2>2. due \in Nat /\ now \in Time
    BY Owners DEF TypeOK, ScheduleRow
  <2>3. \A d \in Time : <<s, d>> \in Owner
    BY Owners
  <2>4. \A d \in Time : run[<<s, d>>].created \in Time
    BY <2>3 DEF TypeOK, RunRow
  <2> QED BY <2>1, <2>2, <2>3, <2>4, GovernanceAssumption DEF Time
<1>2. /\ run[o].status = "none" /\ run'[o].created = now
      /\ \A d \in Time : d # due => run'[<<s, d>>] = run[<<s, d>>]
      /\ \A t \in Schedule, d \in Time : t # s => run'[<<t, d>>] = run[<<t, d>>]
  BY <1>1, Owners DEF Begins
<1>3. ASSUME NEW d \in Time, run[<<s, d>>].status # "none"
      PROVE  run[<<s, d>>].created # now /\ d # due /\ ~Active(<<s, d>>)
  <2>1. d # due /\ ~Active(<<s, d>>)
    BY <1>2, <1>3 DEF HasActiveCriticRun
  <2>2. due > run[<<s, d>>].created
    BY <1>3, <2>1 DEF Occurrences, Dues
  <2> QED BY <1>1, <2>1, <2>2
<1>4. Dues'
  <2>1. ASSUME NEW t \in Schedule, NEW d \in Time, run'[<<t, d>>].status # "none"
        PROVE  /\ d <= run'[<<t, d>>].created /\ run'[<<t, d>>].created <= now
               /\ schedule[t].next > run'[<<t, d>>].created \/ schedule[t].next = d
    <3>1. CASE t = s /\ d = due
      BY <1>1, <1>2, <3>1
    <3>2. CASE ~(t = s /\ d = due)
      <4>1. run'[<<t, d>>] = run[<<t, d>>]
        BY <1>2, <3>2
      <4> QED BY <2>1, <4>1 DEF Occurrences, Dues
    <3> QED BY <3>1, <3>2
  <2>2. \A t \in tick'.left \ tick'.created : schedule[t].next <= now
    BY DEF Occurrences, Dues
  <2> QED BY <2>1, <2>2 DEF Dues
<1>5. OneActiveOccurrence'
  <2>1. ASSUME NEW d \in Time, d # due PROVE ~Active(<<s, d>>)'
    BY <1>1, <1>2, <1>3, <2>1 DEF Active
  <2> QED BY <1>2, <2>1 DEF Occurrences, OneActiveOccurrence, Active
<1>6. NoCatchUpBurst'
  <2>1. ASSUME NEW t \in Schedule, NEW d \in Time, run'[<<t, d>>].status # "none"
        PROVE  d <= run'[<<t, d>>].created
    BY <1>4, <2>1 DEF Dues
  <2>2. ASSUME NEW t \in Schedule, NEW d \in Time, NEW e \in Time,
               run'[<<t, d>>].status # "none", run'[<<t, e>>].status # "none",
               run'[<<t, d>>].created = run'[<<t, e>>].created
        PROVE  d = e
    <3>1. CASE t # s
      BY <1>2, <2>2, <3>1 DEF Occurrences, NoCatchUpBurst
    <3>2. CASE t = s /\ (d = due \/ e = due)
      BY <1>2, <1>3, <2>2, <3>2
    <3>3. CASE t = s /\ d # due /\ e # due
      BY <1>2, <2>2, <3>3 DEF Occurrences, NoCatchUpBurst
    <3> QED BY <3>1, <3>2, <3>3
  <2> QED BY <2>1, <2>2 DEF NoCatchUpBurst
<1> QED BY <1>4, <1>5, <1>6 DEF Occurrences

\* The rows of the Runs handlers wait for, while another Run begins.
LEMMA StillWait ==
  ASSUME TypeOK, Waiting, NEW o \in Owner, Begins(o)
  PROVE  \A list \in jobs \cup {tick.made} :
           /\ list \in Seq(Owner \cup {Ghost})
           /\ \A i \in DOMAIN list :
                /\ list[i] # o
                /\ list[i] # Ghost =>
                     run'[list[i]].status = "queued" /\ run'[list[i]].agent = 0
<1>1. \A list \in jobs \cup {tick.made} : list \in Seq(Owner \cup {Ghost}) /\ AllWait(list)
  BY DEF TypeOK, Waiting
<1>2. \A list \in jobs \cup {tick.made} : \A i \in DOMAIN list :
        list[i] # o /\ (list[i] # Ghost => run'[list[i]] = run[list[i]])
  BY <1>1, NotMentioned
<1> QED BY <1>1, <1>2 DEF AllWait, Waits

\* A tick reports one more Run, or the id of one it did not insert.
LEMMA MadeGrows ==
  ASSUME TypeOK, Waiting, NEW o \in Owner \cup {Ghost}, tick'.made = Append(tick.made, o),
         jobs' = jobs,
         \/ o = Ghost /\ run' = run
         \/ o \in Owner /\ Begins(o) /\ run'[o].status = "queued"
  PROVE  Waiting'
<1> DEFINE made == tick.made
           n == Len(made)
<1>1. /\ made \in Seq(Owner \cup {Ghost}) /\ n \in Nat /\ DOMAIN made = 1..n
      /\ DOMAIN tick'.made = 1..n + 1 /\ tick'.made[n + 1] = o
      /\ \A i \in 1..n : tick'.made[i] = made[i]
  BY DEF TypeOK
<1>2. \A list \in jobs \cup {made} : \A i \in DOMAIN list :
        /\ list[i] = o => o = Ghost
        /\ list[i] # Ghost => run'[list[i]].status = "queued" /\ run'[list[i]].agent = 0
  <2>1. CASE o = Ghost /\ run' = run
    BY <2>1 DEF Waiting, AllWait, Waits
  <2>2. CASE o \in Owner /\ Begins(o)
    BY <2>2, StillWait
  <2> QED BY <2>1, <2>2
<1>3. o # Ghost => run'[o].status = "queued" /\ run'[o].agent = 0
  BY DEF Begins
<1>4. Single(tick'.made)
  BY <1>1, <1>2 DEF Waiting, Single
<1>5. \A job \in jobs : Disjoint(job, tick'.made)
  BY <1>1, <1>2 DEF Waiting, Disjoint
<1>6. \A i \in DOMAIN tick'.made : tick'.made[i] # Ghost =>
        run'[tick'.made[i]].status = "queued" /\ run'[tick'.made[i]].agent = 0
  BY <1>1, <1>2, <1>3
<1> HIDE DEF made, n
<1>7. \A job \in jobs : job # <<>> /\ Head(job) # Ghost /\ Single(job)
  BY DEF Waiting
<1>8. \A job, other \in jobs : job # other => Disjoint(job, other)
  BY DEF Waiting
<1>9. \A job \in jobs : \A i \in DOMAIN job : job[i] # Ghost =>
        run'[job[i]].status = "queued" /\ run'[job[i]].agent = 0
  BY <1>2
<1> QED BY <1>4, <1>5, <1>6, <1>7, <1>8, <1>9 DEF Waiting, AllWait, Waits, Single, Disjoint

LEMMA CreateDueKeeps ==
  ASSUME Inv, NEW s \in Schedule, CreateCriticDue(s)
  PROVE  Inv'
<1> DEFINE o == <<s, schedule[s].next>>
           made == IF run[o].status # "none" THEN Append(tick.made, Ghost)
                   ELSE IF evidence THEN Append(tick.made, o) ELSE tick.made
<1>1. /\ s \in tick.left \ tick.created /\ ~HasActiveCriticRun(s)
      /\ IF run[o].status = "none"
         THEN run' = [run EXCEPT ![o] = [status |-> IF evidence THEN "queued" ELSE "skipped",
                                         agent |-> 0, created |-> now]]
         ELSE run' = run
      /\ tick' = [tick EXCEPT !.created = @ \cup {s}, !.made = made]
      /\ UNCHANGED <<schedule, agents, proposal, evidence, config, now, server, queue,
                     pump, jobs, dropped, count>>
  BY DEF CreateCriticDue
<1>2. o \in Owner
  <2>1. schedule[s].next <= now /\ schedule[s].next \in Nat /\ now \in Time
    BY <1>1, Owners DEF Inv, Occurrences, Dues, TypeOK, ScheduleRow
  <2>2. schedule[s].next \in Time
    BY <2>1, GovernanceAssumption DEF Time
  <2> QED BY <2>2, Owners
<1>3. /\ tick' \in TickRow /\ tick'.on = tick.on /\ tick'.left = tick.left
      /\ tick'.created = tick.created \cup {s} /\ tick'.made = made
  <2>1. tick \in TickRow
    BY DEF Inv, TypeOK, TickRow
  <2>2. made \in Seq(Owner \cup {Ghost})
    <3>1. tick.made \in Seq(Owner \cup {Ghost})
      BY <2>1 DEF TickRow
    <3> HIDE DEF o
    <3> QED BY <1>2, <3>1
  <2> HIDE DEF made
  <2> QED BY <1>1, <2>1, <2>2 DEF TickRow
<1>4. tick.on
  BY <1>1, TickRows DEF Inv, Stages
<1>5. Stages'
  BY <1>1, <1>3, <1>4 DEF Inv, Stages
<1>6. Queued'
  BY <1>1, SameQueue DEF Inv
<1>7. Pumped'
  BY <1>1, <1>4, PumpRests, NotSettling DEF Inv, Live
<1>8. CASE run[o].status = "none"
  <2> DEFINE status == IF evidence THEN "queued" ELSE "skipped"
  <2>1. status \in {"queued", "skipped"} /\ (evidence => status = "queued")
    OBVIOUS
  <2>2. run' = [run EXCEPT ![o] = [status |-> status, agent |-> 0, created |-> now]]
    BY <1>1, <1>8
  <2> HIDE DEF status, o
  <2>3. Begins(o) /\ run'[o].status = status
    BY <1>2, <1>8, <2>1, <2>2, BeginRow DEF Inv
  <2>4. Rows'
    BY <1>1, <1>2, <2>3, BeginKeepsRows DEF Inv
  <2>5. Occurrences'
    BY <1>1, <1>3, <2>3, DueBegins DEF Inv, o
  <2>6. Waiting'
    <3>1. CASE evidence
      BY <1>1, <1>2, <1>3, <1>8, <2>1, <2>3, <3>1, MadeGrows DEF Inv
    <3>2. CASE ~evidence
      <4>1. tick'.made = tick.made /\ jobs' = jobs
        BY <1>1, <1>3, <1>8, <3>2
      <4>2. \A list \in jobs \cup {tick.made} : \A i \in DOMAIN list : list[i] # Ghost =>
              run'[list[i]].status = "queued" /\ run'[list[i]].agent = 0
        BY <1>2, <2>3, StillWait DEF Inv
      <4> QED BY <4>1, <4>2 DEF Inv, Waiting, AllWait, Waits, Single, Disjoint
    <3> QED BY <3>1, <3>2
  <2>7. TypeOK'
    BY <1>1, <1>3, <2>3 DEF Inv, TypeOK, TickRow, Begins
  <2> QED BY <1>5, <1>6, <1>7, <2>4, <2>5, <2>6, <2>7 DEF Inv
<1>9. CASE run[o].status # "none"
  <2>1. run' = run /\ tick'.made = Append(tick.made, Ghost)
    BY <1>1, <1>3, <1>9
  <2>2. Rows'
    BY <1>1, <2>1, SameRows DEF Inv
  <2>3. Occurrences'
    <3>1. tick'.left \ tick'.created \subseteq tick.left \ tick.created
      BY <1>3
    <3> QED BY <1>1, <2>1, <3>1, SameOccurrences DEF Inv
  <2>4. Waiting'
    BY <1>1, <2>1, MadeGrows DEF Inv
  <2>5. TypeOK'
    BY <1>1, <1>3, <2>1 DEF Inv, TypeOK, TickRow
  <2> QED BY <1>5, <1>6, <1>7, <2>2, <2>3, <2>4, <2>5 DEF Inv
<1> QED BY <1>8, <1>9

-----------------------------------------------------------------------------
(* Dispatch *)

LEMMA ProceedWrites ==
  ASSUME NEW list, NEW others, Proceed(list, others)
  PROVE  /\ server # "scheduling" => server' = server
         /\ server = "scheduling" => server' \in {"scheduling", "up", "down"}
         /\ \/ jobs' = others /\ server' # "scheduling"
            \/ jobs' = others \cup {list} /\ list # <<>> /\ Head(list) # Ghost /\ server' = server
         /\ dropped \subseteq Owner => dropped' \subseteq Owner
BY DEF Proceed, Drop

\* The second list of a pair that is disjoint.
LEMMA DisjointBoth ==
  ASSUME NEW list, NEW other, Disjoint(list, other)
  PROVE  Disjoint(other, list)
BY DEF Disjoint

LEMMA TickEndsKeeps ==
  ASSUME Inv, TickEnds
  PROVE  Inv'
<1>1. /\ tick.on /\ tick' = NoTick /\ Proceed(tick.made, jobs)
      /\ UNCHANGED <<schedule, run, agents, proposal, evidence, config, now, queue, pump, count>>
  BY DEF TickEnds, store
<1>2. /\ server # "scheduling" => server' = server
      /\ server = "scheduling" => server' \in {"scheduling", "up", "down"}
      /\ \/ jobs' = jobs /\ server' # "scheduling"
         \/ /\ jobs' = jobs \cup {tick.made} /\ tick.made # <<>> /\ Head(tick.made) # Ghost
            /\ server' = server
  BY <1>1, ProceedWrites
<1>3. Rows' /\ Occurrences'
  BY <1>1, TickRows, SameRows, SameOccurrences DEF Inv
<1>4. Waiting'
  <2>1. DOMAIN tick'.made = {}
    BY <1>1, TickRows
  <2>2. \A job \in jobs' :
          job # <<>> /\ Head(job) # Ghost /\ Single(job) /\ AllWait(job)
    BY <1>2 DEF Inv, Waiting
  <2>3. \A job, other \in jobs' : job # other => Disjoint(job, other)
    BY <1>2, DisjointBoth DEF Inv, Waiting
  <2> HIDE <1>2
  <2> QED BY <1>1, <2>1, <2>2, <2>3 DEF Waiting, Single, AllWait, Waits, Disjoint
<1>5. Stages'
  BY <1>1, <1>2, TickRows DEF Inv, Stages
<1>6. Queued'
  BY <1>1, <1>2, SameQueue DEF Inv
<1>7. Pumped'
  <2>1. server' = "up" => server = "up" \/ pump = IdlePump
    BY <1>2 DEF Inv, Stages
  <2> QED BY <1>1, <2>1, PumpRests, NotSettling DEF Inv, Live
<1>8. TypeOK'
  <2>1. jobs' \in SUBSET Seq(Owner \cup {Ghost})
    BY <1>2 DEF Inv, TypeOK
  <2>2. server' \in {"down", "booting", "recovered", "requeued", "scheduling", "up",
                     "stopping", "released"}
    BY <1>2 DEF Inv, TypeOK
  <2>3. dropped' \subseteq Owner
    BY <1>1, ProceedWrites DEF Inv, TypeOK
  <2> QED BY <1>1, <2>1, <2>2, <2>3, TickRows DEF Inv, TypeOK, TickRow
<1> QED BY <1>3, <1>4, <1>5, <1>6, <1>7, <1>8 DEF Inv

LEMMA PrepareFailsKeeps ==
  ASSUME Inv, NEW job \in jobs, PrepareFails(job)
  PROVE  Inv'
<1>1. /\ ~tick.on /\ Free /\ jobs' = jobs \ {job} /\ count' \in 0..MaxEvents
      /\ server' = IF server = "scheduling" THEN "down" ELSE server
      /\ UNCHANGED <<schedule, run, agents, proposal, evidence, config, now, queue, pump, tick>>
  BY EventCount DEF PrepareFails, Free, Inv, store
<1>2. Rows' /\ Occurrences'
  BY <1>1, SameRows, SameOccurrences DEF Inv
<1>3. Waiting'
  BY <1>1 DEF Inv, Waiting, Single, AllWait, Waits, Disjoint
<1>4. Stages'
  BY <1>1 DEF Inv, Stages
<1>5. Queued'
  BY <1>1, SameQueue DEF Inv
<1>6. Pumped'
  BY <1>1, PumpRests, NotSettling DEF Inv, Live
<1>7. TypeOK'
  <2>1. dropped' \subseteq Owner
    BY DEF PrepareFails, Drop, Inv, TypeOK
  <2> QED BY <1>1, <2>1 DEF Inv, TypeOK
<1> QED BY <1>2, <1>3, <1>4, <1>5, <1>6, <1>7 DEF Inv

\* A Run that waits gets its first Agent: no other works for it, and its row
\* has no result.
LEMMA DispatchKeepsRows ==
  ASSUME TypeOK, Rows, NEW o \in Owner, Waits(o), Dispatches(o)
  PROVE  Rows'
<1> DEFINE new == Len(agents) + 1
<1>1. /\ Len(agents) \in Nat /\ new \in Nat /\ DOMAIN agents = 1..Len(agents)
      /\ DOMAIN agents' = DOMAIN agents \cup {new} /\ new \notin DOMAIN agents
      /\ \A a \in DOMAIN agents : agents[a].owner \in Owner
  BY AgentTable DEF Dispatches
<1>2. /\ \A a \in DOMAIN agents : agents'[a] = agents[a]
      /\ agents'[new].owner = o /\ agents'[new].status = "queued"
      /\ agents'[new].task = "queued" /\ agents'[new].outcome = "none"
      /\ run'[o].status = "running" /\ run'[o].agent = new
      /\ \A p \in Owner : p # o => run'[p] = run[p]
      /\ UNCHANGED proposal /\ Len(agents') = new
  BY DEF Dispatches
<1> HIDE DEF new
<1>3. AgentRows'
  BY <1>1, <1>2 DEF Rows, AgentRows, Live
<1>4. Pointers'
  BY <1>1, <1>2 DEF Rows, Pointers, new
<1>5. LiveAgentIsCurrent'
  <2>1. ASSUME NEW a \in DOMAIN agents, agents'[a].status \in {"queued", "running"}
        PROVE  /\ run'[agents'[a].owner].status \in {"queued", "running"}
               /\ run'[agents'[a].owner].agent = a
    <3>1. Live(a) /\ agents[a].owner \in Owner /\ agents'[a] = agents[a]
      BY <1>1, <1>2, <2>1 DEF Live
    <3>2. Active(agents[a].owner) /\ run[agents[a].owner].agent = a
      BY <3>1 DEF Rows, LiveAgentIsCurrent
    <3>3. agents[a].owner # o
      <4>1. a # 0
        BY <1>1
      <4> QED BY <3>2, <4>1 DEF Waits
    <3> QED BY <1>2, <3>1, <3>2, <3>3 DEF Active
  <2>2. /\ run'[agents'[new].owner].status \in {"queued", "running"}
        /\ run'[agents'[new].owner].agent = new
    BY <1>2
  <2> QED BY <1>1, <2>1, <2>2 DEF LiveAgentIsCurrent, Live, Active
<1>6. CompletionEarned'
  <2>1. proposal[o] = 0
    BY DEF Rows, CompletionEarned, Waits
  <2> QED BY <1>1, <1>2, <2>1 DEF Rows, CompletionEarned
<1> QED BY <1>3, <1>4, <1>5, <1>6 DEF Rows

LEMMA DispatchGoesOn ==
  ASSUME NEW o \in Owner, Waits(o), Dispatches(o)
  PROVE  \A p \in Owner : GoesOn(p)
BY DEF Dispatches, Waits, GoesOn, Active

\* Its task goes to the end of the queue.
LEMMA DispatchQueues ==
  ASSUME TypeOK, Queued, NEW o \in Owner, Dispatches(o), UNCHANGED pump,
         server' \in {"requeued", "scheduling", "up"} =>
           server \in {"requeued", "scheduling", "up"}
  PROVE  Queued'
<1> DEFINE new == Len(agents) + 1
           last == Len(queue) + 1
<1>1. /\ Len(agents) \in Nat /\ new \in Nat /\ DOMAIN agents = 1..Len(agents)
      /\ DOMAIN agents' = DOMAIN agents \cup {new} /\ new \notin DOMAIN agents
  BY AgentTable DEF Dispatches
<1>2. /\ pump.agent \in 0..Len(agents) /\ pump.agent # new
      /\ last \in Nat /\ DOMAIN queue = 1..Len(queue)
      /\ \A i \in DOMAIN queue : queue[i] \in DOMAIN agents /\ queue[i] # new
  BY <1>1 DEF TypeOK
<1>3. DOMAIN queue' = DOMAIN queue \cup {last} /\ last \notin DOMAIN queue
  BY <1>2 DEF Dispatches
<1>4. /\ \A a \in DOMAIN agents : agents'[a] = agents[a]
      /\ agents'[new].status = "queued"
      /\ queue'[last] = new /\ \A i \in DOMAIN queue : queue'[i] = queue[i]
  BY DEF Dispatches
<1> HIDE DEF new, last
<1>5. SUFFICES ASSUME server' \in {"requeued", "scheduling", "up"}
               PROVE  /\ \A i \in DOMAIN queue' :
                           /\ agents'[queue'[i]].status \in {"queued", "running"}
                           /\ queue'[i] # pump.agent
                      /\ \A i, j \in DOMAIN queue' : queue'[i] = queue'[j] => i = j
                      /\ \A a \in DOMAIN agents' :
                           agents'[a].status \in {"queued", "running"} =>
                             pump.agent = a \/ \E i \in DOMAIN queue' : queue'[i] = a
  BY DEF Queued, Live
<1>6. /\ \A i \in DOMAIN queue : Live(queue[i]) /\ queue[i] # pump.agent
      /\ \A i, j \in DOMAIN queue : queue[i] = queue[j] => i = j
      /\ \A a \in DOMAIN agents : Live(a) => pump.agent = a \/ \E i \in DOMAIN queue : queue[i] = a
  BY <1>5 DEF Queued
<1>7. \A i \in DOMAIN queue' :
        agents'[queue'[i]].status \in {"queued", "running"} /\ queue'[i] # pump.agent
  BY <1>1, <1>2, <1>3, <1>4, <1>6 DEF Live
<1>8. \A i, j \in DOMAIN queue' : queue'[i] = queue'[j] => i = j
  BY <1>2, <1>3, <1>4, <1>6
<1>9. \A a \in DOMAIN agents' : agents'[a].status \in {"queued", "running"} =>
        pump.agent = a \/ \E i \in DOMAIN queue' : queue'[i] = a
  BY <1>1, <1>3, <1>4, <1>6 DEF Live
<1> QED BY <1>7, <1>8, <1>9

\* What the rest of a handler's list and the other lists have to do with the
\* Run that is dispatched: nothing.
LEMMA RestOfJob ==
  ASSUME TypeOK, Waiting, NEW job \in jobs
  PROVE  /\ Head(job) \in Owner /\ Head(job) # Ghost /\ Waits(Head(job))
         /\ Tail(job) \in Seq(Owner \cup {Ghost})
         /\ Single(Tail(job)) /\ AllWait(Tail(job))
         /\ \A list \in (jobs \ {job}) \cup {tick.made} : Disjoint(Tail(job), list)
         /\ \A list \in (jobs \ {job}) \cup {tick.made, Tail(job)} :
              \A i \in DOMAIN list : list[i] # Head(job)
<1>1. job \in Seq(Owner \cup {Ghost}) /\ job # <<>> /\ Head(job) # Ghost
  BY DEF TypeOK, Waiting
<1>2. /\ Len(job) \in Nat /\ Len(job) >= 1 /\ DOMAIN job = 1..Len(job)
      /\ Head(job) = job[1] /\ job[1] \in Owner \cup {Ghost}
      /\ Tail(job) \in Seq(Owner \cup {Ghost}) /\ DOMAIN Tail(job) = 1..Len(job) - 1
  BY <1>1
<1>3. \A i \in DOMAIN Tail(job) :
        i + 1 \in DOMAIN job /\ Tail(job)[i] = job[i + 1] /\ i + 1 # 1 /\ i \in Nat
  BY <1>1, <1>2
<1>4. /\ Single(job) /\ AllWait(job)
      /\ \A list \in (jobs \ {job}) \cup {tick.made} : Disjoint(job, list)
  BY DEF Waiting
<1>5. Waits(Head(job))
  BY <1>1, <1>2, <1>4 DEF AllWait
<1>6. Single(Tail(job)) /\ AllWait(Tail(job))
  BY <1>3, <1>4 DEF Single, AllWait
<1>7. \A list \in (jobs \ {job}) \cup {tick.made} : Disjoint(Tail(job), list)
  BY <1>3, <1>4 DEF Disjoint
<1>8. \A list \in (jobs \ {job}) \cup {tick.made} : \A i \in DOMAIN list : list[i] # Head(job)
  BY <1>1, <1>2, <1>4 DEF Disjoint
<1>9. \A i \in DOMAIN Tail(job) : Tail(job)[i] # Head(job)
  BY <1>1, <1>2, <1>3, <1>4 DEF Single
<1> QED BY <1>1, <1>2, <1>5, <1>6, <1>7, <1>8, <1>9

\* A handler that goes on with the rest of its list.
LEMMA DispatchKeepsWaiting ==
  ASSUME TypeOK, Waiting, NEW job \in jobs, Dispatches(Head(job)), UNCHANGED tick,
         \/ jobs' = jobs \ {job}
         \/ /\ jobs' = (jobs \ {job}) \cup {Tail(job)}
            /\ Tail(job) # <<>> /\ Head(Tail(job)) # Ghost
  PROVE  Waiting'
<1> DEFINE o == Head(job)
           others == jobs \ {job}
           rest == Tail(job)
<1>1. /\ o \in Owner /\ rest \in Seq(Owner \cup {Ghost})
      /\ Single(rest) /\ AllWait(rest)
      /\ \A list \in others \cup {tick.made} : Disjoint(rest, list)
      /\ \A list \in others \cup {tick.made, rest} : \A i \in DOMAIN list : list[i] # o
  BY RestOfJob
<1>2. \A list \in others \cup {tick.made, rest} :
        list \in Seq(Owner \cup {Ghost}) /\ AllWait(list)
  BY <1>1 DEF TypeOK, Waiting
<1>3. \A p \in Owner : p # o => run'[p] = run[p]
  BY DEF Dispatches
<1>4. \A list \in others \cup {tick.made, rest} : \A i \in DOMAIN list : list[i] # Ghost =>
        run'[list[i]].status = "queued" /\ run'[list[i]].agent = 0
  <2> TAKE list \in others \cup {tick.made, rest}
  <2> TAKE i \in DOMAIN list
  <2> HAVE list[i] # Ghost
  <2>1. list[i] \in Owner /\ list[i] # o
    BY <1>1, <1>2
  <2>2. Waits(list[i])
    BY <1>2 DEF AllWait
  <2> QED BY <1>3, <2>1, <2>2 DEF Waits
<1>5. /\ \A list \in others : /\ list # <<>> /\ Head(list) # Ghost /\ Single(list)
                              /\ Disjoint(list, tick.made)
      /\ \A list, other \in others : list # other => Disjoint(list, other)
      /\ Single(tick.made)
  BY DEF Waiting
<1>6. \A list \in others : Disjoint(list, rest)
  BY <1>1, DisjointBoth
<1>7. /\ \A list \in jobs' : /\ list \in others \cup {tick.made, rest}
                             /\ list # <<>> /\ Head(list) # Ghost /\ Single(list)
                             /\ Disjoint(list, tick.made)
      /\ \A list, other \in jobs' : list # other => Disjoint(list, other)
  <2> HIDE DEF others, rest
  <2>1. \/ jobs' = others
        \/ jobs' = others \cup {rest} /\ rest # <<>> /\ Head(rest) # Ghost
    BY DEF others, rest
  <2> QED BY <1>1, <1>5, <1>6, <2>1
<1> HIDE DEF others, rest, o
<1>8. \A list \in jobs' : \A i \in DOMAIN list : list[i] # Ghost =>
        run'[list[i]].status = "queued" /\ run'[list[i]].agent = 0
  BY <1>4, <1>7
<1>9. \A i \in DOMAIN tick.made : tick.made[i] # Ghost =>
        run'[tick.made[i]].status = "queued" /\ run'[tick.made[i]].agent = 0
  BY <1>4
<1> QED BY <1>5, <1>7, <1>8, <1>9 DEF Waiting, AllWait, Waits, Single, Disjoint

LEMMA DispatchKeepsTypes ==
  ASSUME TypeOK, NEW o \in Owner, Dispatches(o),
         UNCHANGED <<evidence, config, now, pump, tick, count>>,
         jobs' \in SUBSET Seq(Owner \cup {Ghost}), dropped' \subseteq Owner,
         server' \in {"down", "booting", "recovered", "requeued", "scheduling", "up",
                      "stopping", "released"}
  PROVE  TypeOK'
<1> DEFINE new == Len(agents) + 1
<1>1. Len(agents) \in Nat /\ 0..Len(agents) \subseteq 0..new
  BY AgentTable
<1>2. proposal' \in [Owner -> 0..new]
  BY <1>1 DEF TypeOK, Dispatches
<1>3. pump' \in [at: {"idle", "executing", "settling", "dying"}, agent: 0..new]
  BY <1>1 DEF TypeOK
<1>4. /\ Len(agents') = new /\ agents' \in Seq(AgentRow) /\ run' \in [Owner -> RunRow]
      /\ queue' \in Seq(1..new) /\ schedule' = schedule
  BY DEF Dispatches
<1> QED BY <1>2, <1>3, <1>4 DEF TypeOK

LEMMA PreparedKeeps ==
  ASSUME Inv, NEW job \in jobs, Prepared(job)
  PROVE  Inv'
<1> DEFINE o == Head(job)
           others == jobs \ {job}
           rest == Tail(job)
<1>1. /\ ~tick.on /\ Free /\ Dispatch(o) /\ Proceed(rest, others)
      /\ UNCHANGED <<evidence, config, now, pump, tick, count>>
  BY DEF Prepared, Free
<1>2. o \in Owner /\ Waits(o) /\ rest \in Seq(Owner \cup {Ghost})
  BY RestOfJob DEF Inv
<1>3. Dispatches(o)
  BY <1>1, <1>2, DispatchRows DEF Inv
<1> HIDE DEF o
<1>4. /\ server # "scheduling" => server' = server
      /\ server = "scheduling" => server' \in {"scheduling", "up", "down"}
      /\ \/ jobs' = others /\ server' # "scheduling"
         \/ jobs' = others \cup {rest} /\ rest # <<>> /\ Head(rest) # Ghost /\ server' = server
  BY <1>1, ProceedWrites
<1>5. Rows'
  BY <1>2, <1>3, DispatchKeepsRows DEF Inv
<1>6. Occurrences'
  <2>1. \A p \in Owner : GoesOn(p)
    BY <1>2, <1>3, DispatchGoesOn
  <2>2. UNCHANGED schedule
    BY <1>3 DEF Dispatches
  <2> QED BY <1>1, <2>1, <2>2, RunsGoOn DEF Inv
<1>7. Queued'
  BY <1>1, <1>2, <1>3, <1>4, DispatchQueues DEF Inv
<1>8. Pumped'
  <2>1. server' = "up" => server = "up" \/ pump = IdlePump
    BY <1>4 DEF Inv, Stages
  <2>2. pump.at = "executing" => pump.agent \in DOMAIN agents
    BY AgentTable DEF Inv, Pumped, TypeOK
  <2>3. pump.at = "executing" /\ Live(pump.agent) => Live(pump.agent)'
    BY <1>1, <1>3, <2>2 DEF Dispatches, Live
  <2> QED BY <1>1, <2>1, <2>3, PumpRests, NotSettling DEF Inv
<1>9. Waiting'
  BY <1>1, <1>3, <1>4, DispatchKeepsWaiting DEF Inv, o
<1>10. Stages'
  <2>1. server = "scheduling" => others = {}
    BY <1>1 DEF Inv, Stages
  <2> HIDE DEF others, rest
  <2>2. server \in {"down", "booting", "recovered", "requeued"} => jobs = {}
    BY DEF Inv, Stages
  <2>3. server' = "scheduling" => \E list \in jobs' : jobs' = {list}
    BY <1>4, <2>1
  <2>4. pump' = IdlePump \/ server \in {"up", "stopping", "released"}
    BY <1>1 DEF Inv, Stages
  <2>5. server' \in {"down", "booting", "recovered", "requeued"} => jobs' = {}
    <3>1. server \notin {"down", "booting", "recovered", "requeued"}
      BY <2>2
    <3>2. server' = "down" => jobs' = {}
      BY <1>4, <2>1, <3>1
    <3> QED BY <1>4, <3>1, <3>2
  <2> QED BY <1>1, <1>4, <2>3, <2>4, <2>5 DEF Inv, Stages
<1>11. TypeOK'
  <2>1. jobs' \in SUBSET Seq(Owner \cup {Ghost})
    BY <1>2, <1>4 DEF Inv, TypeOK
  <2>2. server' \in {"down", "booting", "recovered", "requeued", "scheduling", "up",
                     "stopping", "released"}
    BY <1>4 DEF Inv, TypeOK
  <2>3. dropped' \subseteq Owner
    BY <1>1, ProceedWrites DEF Inv, TypeOK
  <2> QED BY <1>1, <1>2, <1>3, <2>1, <2>2, <2>3, DispatchKeepsTypes DEF Inv
<1> QED BY <1>5, <1>6, <1>7, <1>8, <1>9, <1>10, <1>11 DEF Inv

LEMMA DispatchAtBootKeeps ==
  ASSUME Inv, NEW o \in Owner, DispatchAtBoot(o)
  PROVE  Inv'
<1>1. /\ server = "requeued" /\ Waits(o) /\ Dispatch(o)
      /\ UNCHANGED <<evidence, config, now, server, pump, tick, jobs, dropped, count>>
  BY DEF DispatchAtBoot, Undispatched, Queueable, Waits
<1>2. Dispatches(o)
  BY <1>1, DispatchRows DEF Inv
<1>3. ~tick.on /\ tick = NoTick /\ jobs = {} /\ pump = IdlePump
  BY <1>1 DEF Inv, Stages
<1>4. Rows'
  BY <1>1, <1>2, DispatchKeepsRows DEF Inv
<1>5. Occurrences'
  <2>1. \A p \in Owner : GoesOn(p)
    BY <1>1, <1>2, DispatchGoesOn
  <2>2. UNCHANGED schedule
    BY <1>2 DEF Dispatches
  <2> QED BY <1>1, <2>1, <2>2, RunsGoOn DEF Inv
<1>6. Queued'
  BY <1>1, <1>2, DispatchQueues DEF Inv
<1>7. Pumped'
  BY <1>1, <1>3 DEF Pumped, IdlePump
<1>8. Waiting'
  BY <1>1, <1>3, TickRows DEF Waiting, Single, AllWait
<1>9. Stages'
  BY <1>1, <1>3 DEF Inv, Stages
<1>10. TypeOK'
  BY <1>1, <1>2, DispatchKeepsTypes DEF Inv, TypeOK
<1> QED BY <1>4, <1>5, <1>6, <1>7, <1>8, <1>9, <1>10 DEF Inv

-----------------------------------------------------------------------------
(* The pump *)

\* The head of the queue while the pump may take it.
LEMMA HeadOfQueue ==
  ASSUME Inv, server = "up", queue # <<>>
  PROVE  /\ Head(queue) \in DOMAIN agents /\ Head(queue) # 0 /\ Live(Head(queue))
         /\ Tail(queue) \in Seq(1..Len(agents))
         /\ \A i \in DOMAIN Tail(queue) :
              /\ Live(Tail(queue)[i]) /\ Tail(queue)[i] # Head(queue)
              /\ Tail(queue)[i] \in DOMAIN agents
         /\ \A i, j \in DOMAIN Tail(queue) : Tail(queue)[i] = Tail(queue)[j] => i = j
         /\ \A a \in DOMAIN agents :
              Live(a) => \/ pump.agent = a \/ Head(queue) = a
                         \/ \E i \in DOMAIN Tail(queue) : Tail(queue)[i] = a
<1>1. /\ queue \in Seq(1..Len(agents)) /\ Len(agents) \in Nat /\ DOMAIN agents = 1..Len(agents)
  BY AgentTable DEF Inv, TypeOK
<1>2. /\ Len(queue) \in Nat /\ Len(queue) >= 1 /\ DOMAIN queue = 1..Len(queue)
      /\ Head(queue) = queue[1] /\ \A i \in DOMAIN queue : queue[i] \in 1..Len(agents)
      /\ Tail(queue) \in Seq(1..Len(agents)) /\ DOMAIN Tail(queue) = 1..Len(queue) - 1
      /\ \A i \in DOMAIN Tail(queue) :
           i + 1 \in DOMAIN queue /\ Tail(queue)[i] = queue[i + 1] /\ i \in Nat /\ i + 1 # 1
  BY <1>1
<1>3. /\ \A i \in DOMAIN queue : Live(queue[i])
      /\ \A i, j \in DOMAIN queue : queue[i] = queue[j] => i = j
      /\ \A a \in DOMAIN agents : Live(a) => pump.agent = a \/ \E i \in DOMAIN queue : queue[i] = a
  BY DEF Inv, Queued
<1>4. Head(queue) \in DOMAIN agents /\ Head(queue) # 0 /\ Live(Head(queue))
  BY <1>1, <1>2, <1>3
<1> DEFINE first == Head(queue)
           rest == Tail(queue)
<1>5. \A i \in DOMAIN Tail(queue) :
        /\ Live(Tail(queue)[i]) /\ Tail(queue)[i] # Head(queue)
        /\ Tail(queue)[i] \in DOMAIN agents
  <2> TAKE i \in DOMAIN rest
  <2>1. /\ i + 1 \in DOMAIN queue /\ rest[i] = queue[i + 1] /\ i + 1 # 1
        /\ first = queue[1] /\ 1 \in DOMAIN queue
    BY <1>2
  <2> HIDE DEF first, rest
  <2>2. queue[i + 1] \in 1..Len(agents) /\ Live(queue[i + 1]) /\ queue[i + 1] # queue[1]
    BY <1>2, <1>3, <2>1
  <2>3. Live(rest[i]) /\ rest[i] # first /\ rest[i] \in DOMAIN agents
    BY <1>1, <2>1, <2>2
  <2> QED BY <2>3 DEF first, rest
<1>6. \A i, j \in DOMAIN Tail(queue) : Tail(queue)[i] = Tail(queue)[j] => i = j
  BY <1>2, <1>3
<1>7. ASSUME NEW a \in DOMAIN agents, Live(a), pump.agent # a, Head(queue) # a
      PROVE  \E i \in DOMAIN Tail(queue) : Tail(queue)[i] = a
  <2>1. PICK i \in DOMAIN queue : queue[i] = a
    BY <1>3, <1>7
  <2>2. i # 1 /\ i \in 1..Len(queue)
    BY <1>2, <1>7, <2>1
  <2>3. i - 1 \in DOMAIN Tail(queue) /\ (i - 1) + 1 = i
    BY <1>2, <2>2
  <2> QED BY <1>2, <2>1, <2>3
<1> QED BY <1>2, <1>4, <1>5, <1>6, <1>7

LEMMA PumpRecords ==
  ASSUME NEW at, NEW a, SetPump(at, a)
  PROVE  /\ pump'.at = at /\ pump'.agent = a /\ pump' = [at |-> at, agent |-> a]
         /\ pump' = IdlePump <=> at = "idle" /\ a = 0
BY DEF SetPump, IdlePump

\* The queue without its head, which the pump has.
LEMMA PumpTakes ==
  ASSUME Inv, server = "up", server' = "up", queue # <<>>, pump.at = "idle",
         queue' = Tail(queue), NEW at, SetPump(at, Head(queue)),
         DOMAIN agents' = DOMAIN agents,
         \A a \in DOMAIN agents : a # Head(queue) => agents'[a] = agents[a]
  PROVE  Queued'
<1>1. pump.agent = 0 /\ pump'.agent = Head(queue)
  BY PumpRecords DEF Inv, Pumped
<1>2. /\ Head(queue) \in DOMAIN agents
      /\ \A i \in DOMAIN Tail(queue) :
           /\ Live(Tail(queue)[i]) /\ Tail(queue)[i] # Head(queue)
           /\ Tail(queue)[i] \in DOMAIN agents
      /\ \A i, j \in DOMAIN Tail(queue) : Tail(queue)[i] = Tail(queue)[j] => i = j
      /\ \A a \in DOMAIN agents :
           Live(a) => \/ pump.agent = a \/ Head(queue) = a
                      \/ \E i \in DOMAIN Tail(queue) : Tail(queue)[i] = a
      /\ DOMAIN agents = 1..Len(agents)
  BY HeadOfQueue, AgentTable DEF Inv
<1>3. \A i \in DOMAIN queue' :
        agents'[queue'[i]].status \in {"queued", "running"} /\ queue'[i] # pump'.agent
  BY <1>1, <1>2 DEF Live
<1>4. \A i, j \in DOMAIN queue' : queue'[i] = queue'[j] => i = j
  BY <1>2
<1>5. \A a \in DOMAIN agents' : agents'[a].status \in {"queued", "running"} =>
        pump'.agent = a \/ \E i \in DOMAIN queue' : queue'[i] = a
  BY <1>1, <1>2 DEF Live
<1> QED BY <1>3, <1>4, <1>5 DEF Queued, Live

\* A step of the pump that writes one row, leaves the Runs and their handlers
\* alone, and keeps its row in order.
LEMMA RowStepKeepsRows ==
  ASSUME TypeOK, Rows, NEW a \in DOMAIN agents, Writes(a), UNCHANGED <<run, proposal>>,
         agents[a].status # "completed",
         agents'[a].status \in {"queued", "running"} => Live(a),
         agents'[a].task \in {"queued", "running"} =>
           agents'[a].status \in {"queued", "running"},
         agents'[a].task # "cancelled",
         agents'[a].task = "succeeded" => agents'[a].outcome \in Answers \ {"invalid"},
         agents'[a].task = "failed" <=> agents'[a].outcome = "invalid",
         agents'[a].status = "completed" => agents'[a].task = "succeeded",
         agents'[a].status = "failed" => agents'[a].task = "failed"
  PROVE  Rows'
<1>1. /\ DOMAIN agents' = DOMAIN agents /\ Len(agents') = Len(agents)
      /\ \A b \in DOMAIN agents : b # a => agents'[b] = agents[b]
      /\ agents'[a].owner = agents[a].owner
  BY DEF Writes
<1>2. AgentRows'
  BY <1>1 DEF Rows, AgentRows, Live
<1>3. Pointers'
  BY <1>1 DEF Rows, Pointers
<1>4. LiveAgentIsCurrent'
  BY <1>1 DEF Rows, LiveAgentIsCurrent, Live, Active
<1>5. CompletionEarned'
  BY <1>1 DEF Rows, CompletionEarned
<1> QED BY <1>2, <1>3, <1>4, <1>5 DEF Rows

LEMMA TakeAnsweredKeeps ==
  ASSUME Inv, TakeAnswered
  PROVE  Inv'
<1> DEFINE a == Head(queue)
<1>1. /\ ~tick.on /\ Free /\ server = "up" /\ pump.at = "idle" /\ queue # <<>>
      /\ agents[a].task \in {"succeeded", "failed"}
      /\ queue' = Tail(queue) /\ SetPump("settling", a)
      /\ UNCHANGED <<schedule, run, agents, proposal, evidence, config, now, server, tick,
                     jobs, dropped, count>>
  BY DEF TakeAnswered, Free, store
<1>2. a \in DOMAIN agents /\ a # 0 /\ Live(a) /\ Tail(queue) \in Seq(1..Len(agents))
  BY <1>1, HeadOfQueue
<1>3. a \in 0..Len(agents) /\ Active(agents[a].owner) /\ run[agents[a].owner].agent = a
  BY <1>2, AgentTable DEF Inv, Rows, LiveAgentIsCurrent
<1>4. Queued'
  BY <1>1, PumpTakes
<1> HIDE DEF a
<1>5. pump' = [at |-> "settling", agent |-> a]
  BY <1>1, PumpRecords
<1>6. Rows' /\ Occurrences' /\ Waiting'
  BY <1>1, SameRows, SameOccurrences, SameWaiting DEF Inv
<1>7. Stages'
  BY <1>1 DEF Inv, Stages
<1>8. Pumped'
  BY <1>1, <1>2, <1>3, <1>5 DEF Pumped, Current, Live, Active
<1>9. TypeOK'
  BY <1>1, <1>2, <1>3, <1>5 DEF Inv, TypeOK
<1> QED BY <1>4, <1>6, <1>7, <1>8, <1>9 DEF Inv

\* What a step that writes one Agent's row keeps of the types.
LEMMA RowStepKeepsTypes ==
  ASSUME TypeOK, NEW a \in DOMAIN agents, Writes(a),
         UNCHANGED <<schedule, run, proposal, evidence, config, now, server, tick, jobs, dropped>>,
         queue' \in Seq(1..Len(agents)), count' \in 0..MaxEvents,
         pump' \in [at: {"idle", "executing", "settling", "dying"}, agent: 0..Len(agents)]
  PROVE  TypeOK'
BY DEF TypeOK, Writes

LEMMA TakeRunnableKeeps ==
  ASSUME Inv, TakeRunnable
  PROVE  Inv'
<1> DEFINE a == Head(queue)
           status == IF agents[a].task = "queued" THEN "running" ELSE agents[a].status
<1>1. /\ ~tick.on /\ Free /\ server = "up" /\ pump.at = "idle" /\ queue # <<>>
      /\ agents[a].task \in {"queued", "running"}
      /\ queue' = Tail(queue) /\ SetPump("executing", a)
      /\ UNCHANGED <<schedule, run, proposal, evidence, config, now, server, tick, jobs, dropped, count>>
  BY DEF TakeRunnable, Free
<1>2. a \in DOMAIN agents /\ a # 0 /\ Live(a) /\ Tail(queue) \in Seq(1..Len(agents))
  BY <1>1, HeadOfQueue
<1>3. a \in 0..Len(agents) /\ status \in {"queued", "running"}
  BY <1>2, AgentTable DEF Inv, Live
<1>4. agents' = [agents EXCEPT ![a].task = "running", ![a].status = status]
  <2>1. agents' = [agents EXCEPT
          ![a].task = "running",
          ![a].status = IF agents[a].task = "queued" THEN "running" ELSE @]
    BY DEF TakeRunnable
  <2>2. a \in DOMAIN agents /\ agents[a] \in AgentRow
    BY <1>2, AgentTable DEF Inv
  <2> HIDE DEF a
  <2> QED BY <2>1, <2>2 DEF AgentRow
<1> HIDE DEF status
<1>5. /\ Writes(a)
      /\ agents'[a].task = "running" /\ agents'[a].status = status
      /\ agents'[a].outcome = agents[a].outcome
  <2>1. TypeOK /\ "running" \in {"running"}
        /\ status \in {"queued", "running", "completed", "failed", "interrupted"}
    BY <1>3 DEF Inv
  <2> HIDE DEF a
  <2> QED BY <1>2, <1>4, <2>1, ClaimRow
<1>6. Queued'
  BY <1>1, <1>5, PumpTakes DEF Writes
<1> HIDE DEF a
<1>7. pump' = [at |-> "executing", agent |-> a]
  BY <1>1, PumpRecords
<1>8. Rows'
  <2>1. agents[a].outcome # "invalid"
    BY <1>1, <1>2 DEF Inv, Rows, AgentRows
  <2> QED BY <1>1, <1>2, <1>3, <1>5, <2>1, RowStepKeepsRows DEF Inv, Live
<1>9. Occurrences' /\ Waiting'
  BY <1>1, SameOccurrences, SameWaiting DEF Inv
<1>10. Stages'
  BY <1>1 DEF Inv, Stages
<1>11. Pumped'
  BY <1>1, <1>2, <1>3, <1>5, <1>7 DEF Pumped, Live
<1>12. TypeOK'
  <2>1. count' \in 0..MaxEvents
    BY <1>1 DEF Inv, TypeOK
  <2> QED BY <1>1, <1>2, <1>3, <1>5, <1>7, <2>1, RowStepKeepsTypes DEF Inv
<1> QED BY <1>6, <1>8, <1>9, <1>10, <1>11, <1>12 DEF Inv

\* The Agent the pump holds.
LEMMA AgentInPump ==
  ASSUME Inv, pump.at \in {"executing", "settling"}
  PROVE  /\ pump.agent \in DOMAIN agents /\ pump.agent # 0 /\ pump.agent \in 0..Len(agents)
         /\ agents[pump.agent].owner \in Owner
BY AgentTable DEF Inv, Pumped, TypeOK

LEMMA AnswerKeeps ==
  ASSUME Inv, NEW outcome \in Answers, Answer(outcome)
  PROVE  Inv'
<1> DEFINE a == pump.agent
           task == IF outcome = "invalid" THEN "failed" ELSE "succeeded"
<1>1. /\ ~tick.on /\ Free /\ pump.at = "executing" /\ server = "up"
      /\ agents' = [agents EXCEPT ![a].task = task, ![a].outcome = outcome]
      /\ SetPump("settling", a)
      /\ UNCHANGED <<schedule, run, proposal, evidence, config, now, server, queue, tick, jobs, dropped>>
  BY DEF Answer, Free, AnswerCounts
<1>2. count' \in 0..MaxEvents
  <2>1. count' = count \/ Happens("fault")
    BY DEF Answer
  <2> QED BY <2>1, EventCount DEF Inv, TypeOK
<1>3. a \in DOMAIN agents /\ a # 0 /\ a \in 0..Len(agents) /\ Live(a)
  BY <1>1, AgentInPump DEF Inv, Pumped
<1>4. Active(agents[a].owner) /\ run[agents[a].owner].agent = a
  BY <1>3 DEF Inv, Rows, LiveAgentIsCurrent
<1>5. task \in {"failed", "succeeded"} /\ (task = "failed" <=> outcome = "invalid")
  OBVIOUS
<1> HIDE DEF task
<1>6. /\ Writes(a)
      /\ agents'[a].task = task /\ agents'[a].outcome = outcome
      /\ agents'[a].status = agents[a].status
  BY <1>1, <1>3, <1>5, AnswerRow DEF Inv
<1> HIDE DEF a
<1>7. pump' = [at |-> "settling", agent |-> a]
  BY <1>1, PumpRecords
<1>8. Rows'
  BY <1>1, <1>3, <1>5, <1>6, RowStepKeepsRows DEF Inv, Live
<1>9. Occurrences' /\ Waiting'
  BY <1>1, SameOccurrences, SameWaiting DEF Inv
<1>10. Stages'
  BY <1>1 DEF Inv, Stages
<1>11. Queued'
  <2>1. \A b \in DOMAIN agents : Live(b)' <=> Live(b)
    BY <1>3, <1>6 DEF Live, Writes
  <2>2. DOMAIN agents' = DOMAIN agents /\ pump'.agent = pump.agent
    BY <1>6, <1>7 DEF Writes, a
  <2> QED BY <1>1, <2>1, <2>2, QueueRests DEF Inv
<1>12. Pumped'
  <2>1. agents'[a].owner = agents[a].owner
    BY <1>6 DEF Writes
  <2> QED BY <1>1, <1>3, <1>4, <1>5, <1>6, <1>7, <2>1 DEF Pumped, Current, Live, Active
<1>13. TypeOK'
  <2>1. queue \in Seq(1..Len(agents))
    BY DEF Inv, TypeOK
  <2> QED BY <1>1, <1>2, <1>3, <1>6, <1>7, <2>1, RowStepKeepsTypes DEF Inv
<1> QED BY <1>8, <1>9, <1>10, <1>11, <1>12, <1>13 DEF Inv

LEMMA DropAnswerKeeps ==
  ASSUME Inv, DropAnswer
  PROVE  Inv'
<1>1. /\ ~tick.on /\ Free /\ pump.at = "executing" /\ server # "up" /\ SetPump("idle", 0)
      /\ UNCHANGED <<schedule, run, agents, proposal, evidence, config, now, server, queue,
                     tick, jobs, dropped, count>>
  BY DEF DropAnswer, Free, AnswerCounts, store
<1>2. pump' = [at |-> "idle", agent |-> 0]
  BY <1>1, PumpRecords
<1>3. server \in {"stopping", "released"}
  BY <1>1 DEF Inv, Stages, IdlePump
<1>4. Rows' /\ Occurrences' /\ Waiting'
  BY <1>1, SameRows, SameOccurrences, SameWaiting DEF Inv
<1>5. Stages' /\ Queued' /\ Pumped'
  BY <1>1, <1>2, <1>3 DEF Inv, Stages, Queued, Pumped
<1>6. TypeOK'
  BY <1>1, <1>2, AgentTable DEF Inv, TypeOK
<1> QED BY <1>4, <1>5, <1>6 DEF Inv

LEMMA SettleAgentKeeps ==
  ASSUME Inv, SettleAgent
  PROVE  Inv'
<1> DEFINE a == pump.agent
           status == IF agents[a].task = "failed" THEN "failed" ELSE "completed"
<1>1. /\ pump.at = "settling" /\ Live(a)
      /\ agents' = [agents EXCEPT ![a].status = status]
      /\ UNCHANGED <<schedule, run, proposal, evidence, config, now, server, queue, pump, tick,
                     jobs, dropped, count>>
  BY DEF SettleAgent, process
<1>2. a \in DOMAIN agents /\ a # 0
  BY <1>1, AgentInPump
<1>3. agents[a].task \in {"succeeded", "failed"}
  BY <1>1 DEF Inv, Pumped
<1>4. status \in {"failed", "completed"} /\ (status = "failed" <=> agents[a].task = "failed")
  OBVIOUS
<1> HIDE DEF status
<1>5. /\ Writes(a) /\ agents'[a].status = status
      /\ agents'[a].task = agents[a].task /\ agents'[a].outcome = agents[a].outcome
  BY <1>1, <1>2, <1>4, StatusRow DEF Inv
<1> HIDE DEF a
<1>6. Rows'
  <2>1. /\ agents[a].task = "succeeded" => agents[a].outcome \in Answers \ {"invalid"}
        /\ agents[a].task = "failed" <=> agents[a].outcome = "invalid"
    BY <1>2 DEF Inv, Rows, AgentRows
  <2> QED BY <1>1, <1>2, <1>3, <1>4, <1>5, <2>1, RowStepKeepsRows DEF Inv, Live
<1>7. Occurrences' /\ Waiting'
  BY <1>1, SameOccurrences, SameWaiting DEF Inv
<1>8. Stages'
  BY <1>1 DEF Inv, Stages
<1>9. Queued'
  <2>1. \A b \in DOMAIN agents : b # pump.agent => (Live(b)' <=> Live(b))
    BY <1>5 DEF Live, Writes, a
  <2>2. DOMAIN agents' = DOMAIN agents
    BY <1>5 DEF Writes
  <2> QED BY <1>1, <2>1, <2>2, QueueRests DEF Inv
<1>10. Pumped'
  <2>1. agents'[a].owner = agents[a].owner
    BY <1>5 DEF Writes
  <2> QED BY <1>1, <1>3, <1>4, <1>5, <2>1 DEF Inv, Pumped, Current, Active, a
<1>11. TypeOK'
  <2>1. queue \in Seq(1..Len(agents)) /\ count' \in 0..MaxEvents
        /\ pump' \in [at: {"idle", "executing", "settling", "dying"}, agent: 0..Len(agents)]
    BY <1>1 DEF Inv, TypeOK
  <2> QED BY <1>1, <1>2, <1>5, <2>1, RowStepKeepsTypes DEF Inv
<1> QED BY <1>6, <1>7, <1>8, <1>9, <1>10, <1>11 DEF Inv

\* Runs that no handler waits for may be written.
LEMMA WaitingRunsKeep ==
  ASSUME TypeOK, Waiting, UNCHANGED jobs, tick'.made = tick.made,
         \A p \in Owner : Waits(p) => run'[p] = run[p]
  PROVE  Waiting'
<1>1. \A list \in jobs \cup {tick.made} : list \in Seq(Owner \cup {Ghost}) /\ AllWait(list)
  BY DEF TypeOK, Waiting
<1>2. \A list \in jobs \cup {tick.made} : \A i \in DOMAIN list : list[i] # Ghost =>
        run'[list[i]].status = "queued" /\ run'[list[i]].agent = 0
  <2> TAKE list \in jobs \cup {tick.made}
  <2> TAKE i \in DOMAIN list
  <2> HAVE list[i] # Ghost
  <2>1. list[i] \in Owner /\ Waits(list[i])
    BY <1>1 DEF AllWait
  <2> QED BY <2>1 DEF Waits
<1> QED BY <1>2 DEF Waiting, AllWait, Waits, Single, Disjoint

\* The Run of the Agent in the pump ends as the answer says.
Ends(o, a) ==
  /\ run' \in [Owner -> RunRow]
  /\ run'[o].status \in {"completed", "failed"}
  /\ run'[o].agent = a /\ run'[o].created = run[o].created
  /\ \A p \in Owner : p # o => run'[p] = run[p]
  /\ proposal' \in [Owner -> 0..Len(agents)]
  /\ \A p \in Owner : p # o => proposal'[p] = proposal[p]
  /\ run'[o].status = "completed" =>
       /\ agents[a].status = "completed"
       /\ agents[a].outcome = IF proposal'[o] = 0 THEN "clean" ELSE "proposal"
  /\ proposal'[o] # 0 => run'[o].status = "completed" /\ proposal'[o] = a

LEMMA StatusWritten ==
  ASSUME TypeOK, NEW o \in Owner, NEW status \in {"completed", "failed"},
         run' = [run EXCEPT ![o].status = status]
  PROVE  /\ run' \in [Owner -> RunRow] /\ run'[o].status = status
         /\ run'[o].agent = run[o].agent /\ run'[o].created = run[o].created
         /\ \A p \in Owner : p # o => run'[p] = run[p]
<1>1. run \in [Owner -> RunRow]
  BY DEF TypeOK
<1>2. [run[o] EXCEPT !.status = status] \in RunRow
  <2>1. run[o] \in RunRow
    BY <1>1
  <2> QED BY <2>1 DEF RunRow
<1>3. run' = [run EXCEPT ![o] = [run[o] EXCEPT !.status = status]]
  BY <1>1
<1>4. run'[o] = [run[o] EXCEPT !.status = status] /\ run[o] \in RunRow
  BY <1>1, <1>3
<1>5. /\ run'[o].status = status
      /\ run'[o].agent = run[o].agent /\ run'[o].created = run[o].created
  BY <1>4 DEF RunRow
<1> QED BY <1>1, <1>2, <1>3, <1>5

LEMMA SettleEnds ==
  ASSUME Inv, SettleRun
  PROVE  LET a == pump.agent
             o == agents[a].owner
         IN  /\ Ends(o, a) \/ UNCHANGED <<run, proposal>>
             /\ SetPump("idle", 0) \/ SetPump("dying", 0)
<1> DEFINE a == pump.agent
           o == agents[a].owner
           outcome == agents[a].outcome
<1>1. /\ pump.at = "settling" /\ ~Live(a)
      /\ \/ /\ outcome = "clean"
            /\ run' = [run EXCEPT ![o].status = "completed"]
            /\ SetPump("idle", 0) /\ UNCHANGED proposal
         \/ /\ Storable(a)
            /\ proposal' = [proposal EXCEPT ![o] = a]
            /\ run' = [run EXCEPT ![o].status = IF Active(o) THEN "completed" ELSE @]
            /\ SetPump("idle", 0)
         \/ /\ outcome \in {"invalid", "forbidden"}
            /\ run' = [run EXCEPT ![o].status = "failed"]
            /\ SetPump("idle", 0) \/ SetPump("dying", 0)
            /\ UNCHANGED proposal
         \/ SetPump("dying", 0) /\ UNCHANGED <<run, proposal>>
  BY DEF SettleRun
<1>2. /\ a \in DOMAIN agents /\ a # 0 /\ a \in 0..Len(agents) /\ o \in Owner
      /\ agents[a] \in AgentRow
  BY <1>1, AgentInPump, AgentTable DEF Inv
<1>3. Active(o) /\ run[o].agent = a /\ agents[a].status # "interrupted"
  BY <1>1 DEF Inv, Pumped, Current
<1>4. agents[a].status \in {"completed", "failed"}
  BY <1>1, <1>2, <1>3 DEF Live, AgentRow
<1>5. outcome # "invalid" => agents[a].status = "completed"
  BY <1>2, <1>4 DEF Inv, Rows, AgentRows
<1>6. proposal[o] = 0 /\ proposal \in [Owner -> 0..Len(agents)]
  BY <1>2, <1>3 DEF Inv, Rows, CompletionEarned, Active, TypeOK
<1>7. TypeOK
  BY DEF Inv
<1> HIDE DEF a, o, outcome
<1>8. CASE outcome = "clean" /\ run' = [run EXCEPT ![o].status = "completed"] /\ UNCHANGED proposal
  <2>1. /\ run' \in [Owner -> RunRow] /\ run'[o].status = "completed"
        /\ run'[o].agent = run[o].agent /\ run'[o].created = run[o].created
        /\ \A p \in Owner : p # o => run'[p] = run[p]
    BY <1>2, <1>7, <1>8, StatusWritten
  <2>2. Ends(o, a)
    BY <1>3, <1>5, <1>6, <1>8, <2>1 DEF Ends, outcome
  <2> QED BY <1>1, <2>2 DEF a, o
<1>9. CASE /\ Storable(a) /\ proposal' = [proposal EXCEPT ![o] = a]
           /\ run' = [run EXCEPT ![o].status = IF Active(o) THEN "completed" ELSE @]
  <2>1. run' = [run EXCEPT ![o].status = "completed"]
    BY <1>3, <1>9
  <2>2. /\ run' \in [Owner -> RunRow] /\ run'[o].status = "completed"
        /\ run'[o].agent = run[o].agent /\ run'[o].created = run[o].created
        /\ \A p \in Owner : p # o => run'[p] = run[p]
    BY <1>2, <1>7, <2>1, StatusWritten
  <2>3. /\ proposal' \in [Owner -> 0..Len(agents)] /\ proposal'[o] = a
        /\ \A p \in Owner : p # o => proposal'[p] = proposal[p]
    BY <1>2, <1>6, <1>9
  <2>4. agents[a].outcome = "proposal" /\ agents[a].status = "completed"
    BY <1>5, <1>9 DEF Storable, outcome
  <2>5. Ends(o, a)
    BY <1>2, <1>3, <2>2, <2>3, <2>4 DEF Ends
  <2> QED BY <1>1, <2>5 DEF a, o
<1>10. CASE run' = [run EXCEPT ![o].status = "failed"] /\ UNCHANGED proposal
  <2>1. /\ run' \in [Owner -> RunRow] /\ run'[o].status = "failed"
        /\ run'[o].agent = run[o].agent /\ run'[o].created = run[o].created
        /\ \A p \in Owner : p # o => run'[p] = run[p]
    BY <1>2, <1>7, <1>10, StatusWritten
  <2>2. Ends(o, a)
    BY <1>3, <1>6, <1>10, <2>1 DEF Ends
  <2> QED BY <1>1, <2>2 DEF a, o
<1>11. CASE UNCHANGED <<run, proposal>>
  BY <1>1, <1>11
<1> QED BY <1>1, <1>8, <1>9, <1>10, <1>11 DEF o, outcome

LEMMA EndsKeepsRows ==
  ASSUME TypeOK, Rows, UNCHANGED agents, NEW a \in DOMAIN agents, ~Live(a), a # 0,
         Active(agents[a].owner), run[agents[a].owner].agent = a, Ends(agents[a].owner, a)
  PROVE  Rows'
<1> DEFINE o == agents[a].owner
<1>1. o \in Owner /\ a \in 0..Len(agents) /\ \A b \in DOMAIN agents : agents[b].owner \in Owner
  BY AgentTable
<1> HIDE DEF o
<1>2. AgentRows'
  BY DEF Rows, AgentRows, Live
<1>3. Pointers'
  BY <1>1 DEF Rows, Pointers, Ends, o
<1>4. LiveAgentIsCurrent'
  <2>1. ASSUME NEW b \in DOMAIN agents, Live(b)
        PROVE  run'[agents[b].owner] = run[agents[b].owner]
    <3>1. agents[b].owner # o
      BY <2>1 DEF Rows, LiveAgentIsCurrent, o
    <3> QED BY <1>1, <3>1 DEF Ends, o
  <2> QED BY <2>1 DEF Rows, LiveAgentIsCurrent, Live, Active
<1>5. CompletionEarned'
  BY <1>1 DEF Rows, CompletionEarned, Ends, o
<1> QED BY <1>2, <1>3, <1>4, <1>5 DEF Rows

LEMMA SettleRunKeeps ==
  ASSUME Inv, SettleRun
  PROVE  Inv'
<1> DEFINE a == pump.agent
           o == agents[a].owner
<1>1. /\ pump.at = "settling" /\ ~Live(a) /\ server = "up" /\ ~tick.on
      /\ Active(o) /\ run[o].agent = a
      /\ UNCHANGED <<schedule, agents, evidence, config, now, server, queue, tick, jobs, dropped, count>>
  BY DEF SettleRun, Inv, Pumped, Current
<1>2. a \in DOMAIN agents /\ a # 0 /\ o \in Owner
  BY <1>1, AgentInPump
<1>3. /\ Ends(o, a) \/ UNCHANGED <<run, proposal>>
      /\ SetPump("idle", 0) \/ SetPump("dying", 0)
  BY SettleEnds
<1>4. pump'.at \in {"idle", "dying"} /\ pump'.agent = 0
      /\ pump' \in {[at |-> "idle", agent |-> 0], [at |-> "dying", agent |-> 0]}
  BY <1>3, PumpRecords
<1>5. Rows'
  BY <1>1, <1>2, <1>3, SameRows, EndsKeepsRows DEF Inv
<1>6. \A p \in Owner : p # o => run'[p] = run[p]
  BY <1>3 DEF Ends
<1>7. Occurrences'
  <2>1. run' = run \/ /\ run'[o].status \in {"completed", "failed"}
                      /\ run'[o].created = run[o].created
    BY <1>3 DEF Ends
  <2>2. ASSUME NEW p \in Owner PROVE GoesOn(p)
    <3>1. CASE p = o
      BY <1>1, <2>1, <3>1 DEF GoesOn, Active
    <3>2. CASE p # o
      BY <1>6, <3>2 DEF GoesOn, Active
    <3> QED BY <3>1, <3>2
  <2> QED BY <1>1, <2>2, RunsGoOn DEF Inv
<1>8. Waiting'
  <2>1. ~Waits(o)
    BY <1>1, <1>2 DEF Waits
  <2> QED BY <1>1, <1>6, <2>1, WaitingRunsKeep DEF Inv
<1>9. Stages'
  BY <1>1 DEF Inv, Stages
<1>10. Queued'
  <2>1. \A i \in DOMAIN queue : queue[i] # 0
    <3>1. \A i \in DOMAIN queue : queue[i] \in 1..Len(agents)
      BY DEF Inv, TypeOK
    <3> QED BY <3>1
  <2> QED BY <1>1, <1>4, <2>1 DEF Inv, Queued, Live
<1>11. Pumped'
  BY <1>4 DEF Pumped
<1>12. TypeOK'
  <2>1. 0 \in 0..Len(agents)
    BY AgentTable DEF Inv
  <2>2. pump' \in [at: {"idle", "executing", "settling", "dying"}, agent: 0..Len(agents)]
    BY <1>4, <2>1
  <2>3. run' \in [Owner -> RunRow] /\ proposal' \in [Owner -> 0..Len(agents)]
    BY <1>3 DEF Ends, Inv, TypeOK
  <2> QED BY <1>1, <2>2, <2>3 DEF Inv, TypeOK
<1> QED BY <1>5, <1>7, <1>8, <1>9, <1>10, <1>11, <1>12 DEF Inv

-----------------------------------------------------------------------------
(* Boot, shutdown and what goes on around the server *)

LEMMA StartServerKeeps ==
  ASSUME Inv, StartServer
  PROVE  Inv'
<1>1. /\ server = "down" /\ server' = "booting" /\ dropped' = {}
      /\ UNCHANGED <<schedule, run, agents, proposal, evidence, config, now, queue, pump, tick,
                     jobs, count>>
  BY DEF StartServer, store
<1>2. Rows' /\ Occurrences' /\ Waiting'
  BY <1>1, SameRows, SameOccurrences, SameWaiting DEF Inv
<1>3. Stages' /\ Queued'
  BY <1>1 DEF Inv, Stages, Queued
<1>4. Pumped'
  BY <1>1, PumpRests, NotSettling DEF Inv, Live
<1>5. TypeOK'
  BY <1>1 DEF Inv, TypeOK
<1> QED BY <1>2, <1>3, <1>4, <1>5 DEF Inv

LEMMA RecoverTasksKeeps ==
  ASSUME Inv, RecoverTasks
  PROVE  Inv'
<1>1. /\ server = "booting" /\ server' = "recovered"
      /\ UNCHANGED <<schedule, run, proposal, evidence, config, now, queue, pump, tick, jobs, dropped,
                     count>>
  BY DEF RecoverTasks
<1>2. /\ agents' \in Seq(AgentRow) /\ Len(agents') = Len(agents) /\ DOMAIN agents' = DOMAIN agents
      /\ \A a \in DOMAIN agents :
           /\ agents'[a].owner = agents[a].owner /\ agents'[a].outcome = agents[a].outcome
           /\ \/ agents'[a] = agents[a]
              \/ /\ agents[a].task = "running" /\ agents'[a].task = "queued"
                 /\ \/ agents[a].status = "running" /\ agents'[a].status = "queued"
                    \/ agents[a].status # "running" /\ agents'[a].status = agents[a].status
  BY RecoverRows DEF Recovers, Inv
<1>3. \A a \in DOMAIN agents :
        /\ Live(a)' <=> Live(a)
        /\ agents'[a].status = "completed" <=> agents[a].status = "completed"
        /\ agents'[a].status = "failed" <=> agents[a].status = "failed"
  BY <1>2 DEF Live
<1>4. Rows'
  <2>1. AgentRows'
    BY <1>2, <1>3 DEF Inv, Rows, AgentRows, Live
  <2>2. Pointers'
    BY <1>1, <1>2 DEF Inv, Rows, Pointers
  <2>3. LiveAgentIsCurrent'
    BY <1>1, <1>2, <1>3 DEF Inv, Rows, LiveAgentIsCurrent, Live, Active
  <2>4. CompletionEarned'
    BY <1>1, <1>2, <1>3 DEF Inv, Rows, CompletionEarned
  <2> QED BY <2>1, <2>2, <2>3, <2>4 DEF Rows
<1>5. Occurrences' /\ Waiting'
  BY <1>1, SameOccurrences, SameWaiting DEF Inv
<1>6. Stages' /\ Queued'
  BY <1>1 DEF Inv, Stages, Queued
<1>7. Pumped'
  <2>1. pump = IdlePump
    BY <1>1 DEF Inv, Stages
  <2> QED BY <1>1, <2>1 DEF Pumped, IdlePump
<1>8. TypeOK'
  BY <1>1, <1>2 DEF Inv, TypeOK
<1> QED BY <1>4, <1>5, <1>6, <1>7, <1>8 DEF Inv

\* Statuses and Agents that a restart or a shutdown writes back.
LEMMA RowBack ==
  ASSUME NEW row \in RunRow
  PROVE  /\ LET next == [row EXCEPT !.status = "queued"]
            IN  /\ next \in RunRow /\ next.status = "queued"
                /\ next.agent = row.agent /\ next.created = row.created
         /\ LET next == [row EXCEPT !.status = "queued", !.agent = 0]
            IN  /\ next \in RunRow /\ next.status = "queued"
                /\ next.agent = 0 /\ next.created = row.created
BY DEF RunRow

LEMMA RequeueRunsKeeps ==
  ASSUME Inv, RequeueRuns
  PROVE  Inv'
<1> DEFINE S == {a \in DOMAIN agents : Recoverable(a)}
<1>1. /\ server = "recovered" /\ server' = "requeued" /\ queue' = InOrder(S)
      /\ UNCHANGED <<schedule, agents, proposal, evidence, config, now, pump, tick, jobs, dropped, count>>
  BY DEF RequeueRuns
<1>2. /\ DOMAIN agents = 1..Len(agents) /\ Len(agents) \in Nat
      /\ \A a \in DOMAIN agents : agents[a].owner \in Owner
  BY AgentTable DEF Inv
<1>3. \A a \in DOMAIN agents : Live(a) <=> Recoverable(a)
  BY DEF Inv, Rows, AgentRows, Recoverable
<1>4. /\ InOrder(S) \in Seq(S)
      /\ \A i, j \in DOMAIN InOrder(S) : InOrder(S)[i] = InOrder(S)[j] => i = j
      /\ \A a \in S : \E i \in DOMAIN InOrder(S) : InOrder(S)[i] = a
  BY <1>2, InOrderProperties
<1>5. /\ run' \in [Owner -> RunRow]
      /\ \A o \in Owner : run'[o].created = run[o].created
      /\ \A o \in Owner : Abandoned(o) => run'[o].status = "queued" /\ run'[o].agent = 0
      /\ \A o \in Owner : ~Abandoned(o) => run'[o] = run[o]
  <2>1. run \in [Owner -> RunRow]
    BY DEF Inv, TypeOK
  <2>2. run' = [o \in Owner |-> IF Abandoned(o)
                                THEN [run[o] EXCEPT !.status = "queued", !.agent = 0]
                                ELSE run[o]]
    BY DEF RequeueRuns
  <2>3. ASSUME NEW o \in Owner
        PROVE  /\ run'[o] \in RunRow /\ run'[o].created = run[o].created
               /\ Abandoned(o) => run'[o].status = "queued" /\ run'[o].agent = 0
               /\ ~Abandoned(o) => run'[o] = run[o]
    <3>1. run[o] \in RunRow
      BY <2>1
    <3>2. Abandoned(o) => run'[o] = [run[o] EXCEPT !.status = "queued", !.agent = 0]
      BY <2>2
    <3>3. ~Abandoned(o) => run'[o] = run[o]
      BY <2>2
    <3> QED BY <3>1, <3>2, <3>3, RowBack
  <2>4. run' \in [Owner -> RunRow]
    BY <2>2, <2>3
  <2> QED BY <2>3, <2>4
<1>6. \A o \in Owner : Abandoned(o) => run[o].status = "running"
  BY DEF Abandoned
<1> HIDE DEF S
<1>7. Rows'
  <2>1. AgentRows'
    BY <1>1 DEF Inv, Rows, AgentRows, Live
  <2>2. Pointers'
    <3>1. 0 \in 0..Len(agents)
      BY <1>2
    <3> QED BY <1>1, <1>5, <3>1 DEF Inv, Rows, Pointers
  <2>3. LiveAgentIsCurrent'
    <3>1. ASSUME NEW a \in DOMAIN agents, Live(a) PROVE ~Abandoned(agents[a].owner)
      BY <1>3, <3>1 DEF Abandoned
    <3> QED BY <1>1, <1>2, <1>5, <3>1 DEF Inv, Rows, LiveAgentIsCurrent, Live, Active
  <2>4. CompletionEarned'
    <3>1. ASSUME NEW o \in Owner, Abandoned(o)
          PROVE  proposal[o] = 0 /\ run'[o].status # "completed"
      BY <1>5, <1>6, <3>1 DEF Inv, Rows, CompletionEarned
    <3> QED BY <1>1, <1>5, <3>1 DEF Inv, Rows, CompletionEarned
  <2> QED BY <2>1, <2>2, <2>3, <2>4 DEF Rows
<1>8. Occurrences'
  <2>1. ASSUME NEW o \in Owner PROVE GoesOn(o)
    BY <1>5, <1>6 DEF GoesOn, Active
  <2> QED BY <1>1, <2>1, RunsGoOn DEF Inv
<1>9. tick = NoTick /\ ~tick.on /\ jobs = {} /\ pump = IdlePump
  BY <1>1 DEF Inv, Stages
<1>10. Waiting'
  BY <1>1, <1>9, TickRows DEF Waiting, Single, AllWait
<1>11. Stages'
  BY <1>1, <1>9 DEF Inv, Stages
<1>12. Pumped'
  BY <1>1, <1>9 DEF Pumped, IdlePump
<1>13. \A i \in DOMAIN queue' : queue'[i] \in S
  BY <1>1, <1>4
<1>14. S \subseteq DOMAIN agents /\ \A a \in DOMAIN agents : Live(a) <=> a \in S
  BY <1>3 DEF S
<1>15. Queued'
  <2>1. pump.agent = 0 /\ 0 \notin DOMAIN agents
    BY <1>2, <1>9 DEF IdlePump
  <2>2. \A i \in DOMAIN queue' :
          agents'[queue'[i]].status \in {"queued", "running"} /\ queue'[i] # pump'.agent
    BY <1>1, <1>13, <1>14, <2>1 DEF Live
  <2>3. \A i, j \in DOMAIN queue' : queue'[i] = queue'[j] => i = j
    BY <1>1, <1>4
  <2>4. \A a \in DOMAIN agents' : agents'[a].status \in {"queued", "running"} =>
          pump'.agent = a \/ \E i \in DOMAIN queue' : queue'[i] = a
    BY <1>1, <1>4, <1>14 DEF Live
  <2> QED BY <2>2, <2>3, <2>4 DEF Queued, Live
<1>16. TypeOK'
  <2>1. queue' \in Seq(1..Len(agents))
    BY <1>1, <1>2, <1>4, <1>14
  <2> QED BY <1>1, <1>5, <2>1 DEF Inv, TypeOK
<1> QED BY <1>7, <1>8, <1>10, <1>11, <1>12, <1>15, <1>16 DEF Inv

\* A shutdown, or the release of claims, puts some running Runs back.
PutsBack(S) ==
  /\ run' \in [Owner -> RunRow]
  /\ \A o \in Owner : run'[o].created = run[o].created /\ run'[o].agent = run[o].agent
  /\ \A o \in Owner : o \in S /\ run[o].status = "running" => run'[o].status = "queued"
  /\ \A o \in Owner : ~(o \in S /\ run[o].status = "running") => run'[o] = run[o]

LEMMA PutBack ==
  ASSUME TypeOK, NEW S,
         run' = [o \in Owner |-> IF o \in S /\ run[o].status = "running"
                                 THEN [run[o] EXCEPT !.status = "queued"] ELSE run[o]]
  PROVE  PutsBack(S)
<1>1. run \in [Owner -> RunRow]
  BY DEF TypeOK
<1>2. ASSUME NEW o \in Owner
      PROVE  /\ run'[o] \in RunRow
             /\ run'[o].created = run[o].created /\ run'[o].agent = run[o].agent
             /\ o \in S /\ run[o].status = "running" => run'[o].status = "queued"
             /\ ~(o \in S /\ run[o].status = "running") => run'[o] = run[o]
  <2>1. run[o] \in RunRow
    BY <1>1
  <2>2. o \in S /\ run[o].status = "running" => run'[o] = [run[o] EXCEPT !.status = "queued"]
    OBVIOUS
  <2>3. ~(o \in S /\ run[o].status = "running") => run'[o] = run[o]
    OBVIOUS
  <2> QED BY <2>1, <2>2, <2>3, RowBack
<1>3. run' \in [Owner -> RunRow]
  BY <1>2
<1> QED BY <1>2, <1>3 DEF PutsBack

LEMMA PutBackKeeps ==
  ASSUME TypeOK, Waiting, Occurrences, NEW S, PutsBack(S), UNCHANGED <<schedule, now, tick, jobs, dropped>>
  PROVE  Waiting' /\ Occurrences'
<1>1. \A p \in Owner : Waits(p) => run'[p] = run[p]
  BY DEF PutsBack, Waits
<1>2. \A p \in Owner : GoesOn(p)
  BY DEF PutsBack, GoesOn, Active
<1> QED BY <1>1, <1>2, WaitingRunsKeep, RunsGoOn

LEMMA ShutdownKeeps ==
  ASSUME Inv, Shutdown
  PROVE  Inv'
<1>1. /\ ~tick.on /\ Free /\ server = "up" /\ server' = "stopping" /\ count' \in 0..MaxEvents
      /\ UNCHANGED <<schedule, proposal, evidence, config, now, queue, pump, tick, jobs, dropped>>
  BY EventCount DEF Shutdown, Free, Inv
<1>2. PutsBack(Refinement)
  BY PutBack DEF Shutdown, Inv
<1>3. /\ agents' \in Seq(AgentRow) /\ Len(agents') = Len(agents) /\ DOMAIN agents' = DOMAIN agents
      /\ \A a \in DOMAIN agents :
           /\ agents'[a].owner = agents[a].owner /\ agents'[a].outcome = agents[a].outcome
           /\ agents'[a].task = IF agents[a].task \in {"queued", "running"} THEN "cancelled"
                                ELSE agents[a].task
           /\ agents'[a].status = IF Live(a) THEN "interrupted" ELSE agents[a].status
  BY ShutdownRows DEF Interrupts, Inv
<1>4. \A a \in DOMAIN agents :
        /\ ~Live(a)'
        /\ agents'[a].status \in {"completed", "failed"} => agents'[a].status = agents[a].status
        /\ agents[a].status = "completed" => agents'[a].status = "completed"
  BY <1>3 DEF Live
<1>5. Rows'
  <2>1. AgentRows'
    <3> SUFFICES ASSUME NEW a \in DOMAIN agents
                 PROVE  /\ agents'[a].task \notin {"queued", "running"}
                        /\ agents'[a].task = "succeeded" =>
                             agents'[a].outcome \in Answers \ {"invalid"}
                        /\ agents'[a].task = "failed" <=> agents'[a].outcome = "invalid"
                        /\ agents'[a].status = "completed" => agents'[a].task = "succeeded"
                        /\ agents'[a].status = "failed" => agents'[a].task = "failed"
      BY <1>3, <1>4 DEF AgentRows, Live
    <3>1. /\ agents[a].task \in {"queued", "running"} => Live(a)
          /\ agents[a].task = "succeeded" => agents[a].outcome \in Answers \ {"invalid"}
          /\ agents[a].task = "failed" <=> agents[a].outcome = "invalid"
          /\ agents[a].status = "completed" => agents[a].task = "succeeded"
          /\ agents[a].status = "failed" => agents[a].task = "failed"
      BY DEF Inv, Rows, AgentRows
    <3> QED BY <1>3, <1>4, <3>1
  <2>2. Pointers'
    BY <1>2, <1>3 DEF Inv, Rows, Pointers, PutsBack
  <2>3. LiveAgentIsCurrent'
    BY <1>3, <1>4 DEF LiveAgentIsCurrent
  <2>4. CompletionEarned'
    <3>1. \A o \in Owner : run'[o].status = "completed" <=> run[o].status = "completed"
      BY <1>2 DEF PutsBack
    <3> QED BY <1>1, <1>2, <1>3, <1>4, <3>1 DEF Inv, Rows, CompletionEarned, PutsBack
  <2> QED BY <2>1, <2>2, <2>3, <2>4 DEF Rows
<1>6. Waiting' /\ Occurrences'
  BY <1>1, <1>2, PutBackKeeps DEF Inv
<1>7. Stages' /\ Queued'
  BY <1>1 DEF Inv, Stages, Queued
<1>8. Pumped'
  BY <1>1, PumpRests, NotSettling DEF Inv
<1>9. TypeOK'
  BY <1>1, <1>2, <1>3 DEF Inv, TypeOK, PutsBack
<1> QED BY <1>5, <1>6, <1>7, <1>8, <1>9 DEF Inv

LEMMA ReleaseClaimsKeeps ==
  ASSUME Inv, ReleaseClaims
  PROVE  Inv'
<1>1. /\ ~tick.on /\ Free /\ server = "stopping" /\ server' = "released"
      /\ UNCHANGED <<schedule, agents, proposal, evidence, config, now, queue, pump, tick, jobs, dropped,
                     count>>
  BY DEF ReleaseClaims, Free
<1>2. PutsBack(CriticRun)
  BY PutBack DEF ReleaseClaims, Claimed, Inv
<1>3. \A o \in Owner :
        /\ run'[o].status = "completed" <=> run[o].status = "completed"
        /\ Active(o) => run'[o].status \in {"queued", "running"}
        /\ run'[o].agent = run[o].agent
  BY <1>2 DEF PutsBack, Active
<1>4. Rows'
  <2>1. AgentRows' /\ Pointers'
    BY <1>1, <1>3 DEF Inv, Rows, AgentRows, Pointers, Live
  <2>2. LiveAgentIsCurrent'
    <3>1. \A a \in DOMAIN agents : agents[a].owner \in Owner
      BY AgentTable DEF Inv
    <3> QED BY <1>1, <1>3, <3>1 DEF Inv, Rows, LiveAgentIsCurrent, Live, Active
  <2>3. CompletionEarned'
    BY <1>1, <1>3 DEF Inv, Rows, CompletionEarned
  <2> QED BY <2>1, <2>2, <2>3 DEF Rows
<1>5. Waiting' /\ Occurrences'
  BY <1>1, <1>2, PutBackKeeps DEF Inv
<1>6. Stages' /\ Queued'
  BY <1>1 DEF Inv, Stages, Queued
<1>7. Pumped'
  BY <1>1, PumpRests, NotSettling DEF Inv
<1>8. TypeOK'
  BY <1>1, <1>2 DEF Inv, TypeOK, PutsBack
<1> QED BY <1>4, <1>5, <1>6, <1>7, <1>8 DEF Inv

LEMMA ProcessEndsKeeps ==
  ASSUME Inv, BootFails \/ Exit \/ Crash \/ Die
  PROVE  Inv'
<1>1. Gone /\ UNCHANGED <<store, evidence, config, now>>
  BY DEF BootFails, Exit, Crash, Die
<1>2. count' \in 0..MaxEvents
  <2>1. count' = count \/ Happens("failure") \/ Happens("crash")
    BY DEF BootFails, Exit, Crash, Die
  <2> QED BY <2>1, EventCount DEF Inv, TypeOK
<1> QED BY <1>1, <1>2, GoneKeeps

LEMMA PassTimeKeeps ==
  ASSUME Inv, PassTime
  PROVE  Inv'
<1>1. /\ now < MaxTime /\ now' = now + 1 /\ Free
      /\ UNCHANGED <<schedule, run, agents, proposal, evidence, config, server, queue, pump, tick,
                     jobs, dropped, count>>
  BY DEF PassTime, store, process
<1>2. now \in Nat /\ now' \in Time /\ Time \subseteq Nat
  BY <1>1, GovernanceAssumption DEF Inv, TypeOK, Time
<1>3. Occurrences'
  <2>1. ASSUME NEW n \in Nat, n <= now PROVE n <= now'
    BY <1>1, <1>2, <2>1
  <2>2. \A s \in Schedule, d \in Time : run[<<s, d>>].created \in Nat
    <3>1. \A o \in Owner : run[o].created \in Time
      BY DEF Inv, TypeOK, RunRow
    <3> QED BY <1>2, <3>1, Owners
  <2>3. \A s \in tick.left : schedule[s].next \in Nat
    BY Owners DEF Inv, TypeOK, ScheduleRow
  <2>4. Dues'
    BY <1>1, <2>1, <2>2, <2>3 DEF Inv, Occurrences, Dues
  <2>5. OneActiveOccurrence' /\ NoCatchUpBurst'
    BY <1>1 DEF Inv, Occurrences, OneActiveOccurrence, NoCatchUpBurst, Active
  <2> QED BY <2>4, <2>5 DEF Occurrences
<1>4. Rows' /\ Waiting'
  BY <1>1, SameRows, SameWaiting DEF Inv
<1>5. Stages' /\ Queued'
  BY <1>1, SameQueue DEF Inv, Stages
<1>6. Pumped'
  BY <1>1, PumpRests, NotSettling DEF Inv, Live
<1>7. TypeOK'
  BY <1>1, <1>2 DEF Inv, TypeOK
<1> QED BY <1>3, <1>4, <1>5, <1>6, <1>7 DEF Inv

\* Steps that only concern the project, or nothing.
LEMMA OutsideKeeps ==
  ASSUME Inv, UNCHANGED <<schedule, run, agents, proposal, now, server, queue, pump, tick, jobs, dropped>>,
         TypeOK'
  PROVE  Inv'
<1>1. Rows' /\ Occurrences' /\ Waiting'
  BY SameRows, SameOccurrences, SameWaiting DEF Inv
<1>2. Stages' /\ Queued'
  BY SameQueue DEF Inv, Stages
<1>3. Pumped'
  BY DEF Inv, Pumped, Current, Live, Active
<1> QED BY <1>1, <1>2, <1>3 DEF Inv

LEMMA EditConfigKeeps ==
  ASSUME Inv, EditConfig
  PROVE  Inv'
<1> DEFINE Config == [readable: BOOLEAN, enabled: BOOLEAN,
                      version: [Schedule -> {"absent", "v1", "v2"}]]
<1>1. /\ UNCHANGED <<schedule, run, agents, proposal, evidence, now, server, queue, pump, tick,
                     jobs, dropped>>
      /\ count' \in 0..MaxEvents
  BY EventCount DEF EditConfig, store, process, Inv
<1>2. config \in Config
  BY DEF Inv, TypeOK
<1>3. ASSUME NEW b \in BOOLEAN
      PROVE  [config EXCEPT !.readable = b] \in Config /\ [config EXCEPT !.enabled = b] \in Config
  BY <1>2
<1>4. ASSUME NEW s \in Schedule, NEW v \in {"absent", "v1", "v2"}
      PROVE  [config EXCEPT !.version[s] = v] \in Config
  BY <1>2
<1>5. config' \in Config
  <2>1. \/ config' = [config EXCEPT !.readable = ~@]
        \/ config' = [config EXCEPT !.enabled = ~@]
        \/ \E s \in Schedule, v \in {"absent", "v1", "v2"} :
             config' = [config EXCEPT !.version[s] = v]
    BY DEF EditConfig
  <2>2. CASE config' = [config EXCEPT !.readable = ~@]
    BY <1>3, <2>2
  <2>3. CASE config' = [config EXCEPT !.enabled = ~@]
    BY <1>3, <2>3
  <2> QED BY <1>4, <2>1, <2>2, <2>3
<1>6. TypeOK'
  BY <1>1, <1>5 DEF Inv, TypeOK
<1> QED BY <1>1, <1>6, OutsideKeeps

-----------------------------------------------------------------------------
(* The theorems *)

LEMMA InvInit == Init => Inv
<1> SUFFICES ASSUME Init PROVE Inv
  OBVIOUS
<1>1. /\ 0 \in Time /\ 0 \in 0..MaxTime + 1 /\ 0 \in 0..MaxEvents /\ Time \subseteq Nat
  BY GovernanceAssumption DEF Time
<1>2. FALSE \in BOOLEAN /\ TRUE \in BOOLEAN
  OBVIOUS
<1>3. schedule \in [Criteria -> ScheduleRow]
  <2>1. ASSUME NEW b \in BOOLEAN
        PROVE  [config |-> "none", enabled |-> b, next |-> 0] \in ScheduleRow
    BY <1>1 DEF ScheduleRow
  <2> QED BY <1>2, <2>1 DEF Init
<1>4. /\ run \in [Owner -> RunRow]
      /\ \A o \in Owner : run[o].status = "none" /\ run[o].agent = 0
  BY <1>1 DEF Init, RunRow
<1>5. /\ agents = <<>> /\ Len(agents) = 0 /\ DOMAIN agents = {} /\ agents \in Seq(AgentRow)
      /\ queue = <<>> /\ DOMAIN queue = {} /\ queue \in Seq(1..Len(agents))
      /\ pump = IdlePump /\ IdlePump.at = "idle" /\ IdlePump.agent = 0
      /\ tick = NoTick /\ jobs = {} /\ server = "down" /\ now = 0 /\ count = 0
      /\ evidence \in BOOLEAN /\ dropped = {}
  BY DEF Init, IdlePump
<1>6. proposal \in [Owner -> 0..Len(agents)] /\ \A o \in Owner : proposal[o] = 0
  BY <1>5 DEF Init
<1>7. config \in [readable: BOOLEAN, enabled: BOOLEAN,
                  version: [Schedule -> {"absent", "v1", "v2"}]]
  <2>1. ASSUME NEW b \in BOOLEAN
        PROVE  [readable |-> b, enabled |-> b, version |-> [s \in Schedule |-> "v1"]]
                 \in [readable: BOOLEAN, enabled: BOOLEAN,
                      version: [Schedule -> {"absent", "v1", "v2"}]]
    OBVIOUS
  <2> QED BY <1>2, <2>1 DEF Init
<1>8. TypeOK
  BY <1>1, <1>3, <1>4, <1>5, <1>6, <1>7, TickRows DEF TypeOK, TickRow, IdlePump
<1>9. Rows
  BY <1>4, <1>5, <1>6 DEF Rows, AgentRows, Pointers, LiveAgentIsCurrent, CompletionEarned
<1>10. Occurrences
  BY <1>4, <1>5, Owners, TickRows
     DEF Occurrences, Dues, OneActiveOccurrence, NoCatchUpBurst, Active
<1>11. Waiting /\ Stages /\ Queued /\ Pumped
  BY <1>5, TickRows DEF Waiting, Stages, Queued, Pumped, Single, AllWait
<1> QED BY <1>8, <1>9, <1>10, <1>11 DEF Inv

LEMMA InvNext == Inv /\ [Next]_vars => Inv'
<1> SUFFICES ASSUME Inv, [Next]_vars PROVE Inv'
  OBVIOUS
<1>1. CASE \E job \in jobs : Prepared(job) \/ PrepareFails(job)
  BY <1>1, PreparedKeeps, PrepareFailsKeeps
<1>2. CASE TickNext
  BY <1>2, AdvanceWrites, AdvanceKeeps, CreateDueKeeps, TickEndsKeeps DEF TickNext
<1>3. CASE PumpNext
  BY <1>3, TakeAnsweredKeeps, TakeRunnableKeeps, AnswerKeeps, DropAnswerKeeps, SettleAgentKeeps,
     SettleRunKeeps, ProcessEndsKeeps DEF PumpNext
<1>4. CASE BootNext
  BY <1>4, StartServerKeeps, RecoverTasksKeeps, RequeueRunsKeeps, DispatchAtBootKeeps,
     ProcessEndsKeeps, ConfigureAtBootKeeps DEF BootNext
<1>5. CASE Commands
  BY <1>5, ConfigureKeeps, ManualKeeps, RefinementKeeps DEF Commands
<1>6. CASE Shutdown \/ ReleaseClaims \/ Exit \/ Crash
  BY <1>6, ShutdownKeeps, ReleaseClaimsKeeps, ProcessEndsKeeps
<1>7. CASE PassTime \/ EditConfig
  BY <1>7, PassTimeKeeps, EditConfigKeeps
<1>8. CASE CompleteEnvironment
  <2>1. /\ evidence' = TRUE
        /\ UNCHANGED <<schedule, run, agents, proposal, config, now, server, queue, pump, tick,
                       jobs, dropped, count>>
    BY <1>8 DEF CompleteEnvironment, store, process
  <2>2. evidence' \in BOOLEAN
    BY <2>1
  <2>3. TypeOK'
    BY <2>1, <2>2 DEF Inv, TypeOK
  <2> QED BY <2>1, <2>3, OutsideKeeps
<1>9. CASE UNCHANGED vars
  <2>1. UNCHANGED <<schedule, run, agents, proposal, evidence, config, now, server, queue, pump,
                    tick, jobs, dropped, count>>
    BY <1>9 DEF vars, store, process
  <2>2. TypeOK'
    BY <2>1 DEF Inv, TypeOK
  <2> QED BY <2>1, <2>2, OutsideKeeps
<1> QED BY <1>1, <1>2, <1>3, <1>4, <1>5, <1>6, <1>7, <1>8, <1>9 DEF Next

\* However ticks, dispatches, answers, shutdowns, deaths and restarts follow
\* each other, a Run waits in one handler or has its one Agent, which is in the
\* queue or in the pump once.
THEOREM InvCorrect == Spec => []Inv
<1>1. Init => Inv
  BY InvInit
<1>2. Inv /\ [Next]_vars => Inv'
  BY InvNext
<1> QED BY <1>1, <1>2, PTL DEF Spec

\* Every Agent without a terminal is the current one of an open Run, and a
\* server that is up has it in its queue or its pump: no answer is taken for a
\* Run that has gone on, and none waits for the next restart.
THEOREM AgentsAccountedCorrect == Spec => []AgentsAccounted
<1>1. Inv => AgentsAccounted
  BY DEF Inv, Rows, Queued, AgentsAccounted, LiveAgentsQueued
<1> QED BY <1>1, InvCorrect, PTL

\* A completed Run was completed by the recorded answer of the Agent it points
\* at, and has that Agent's proposal or none.
THEOREM CompletionEarnedCorrect == Spec => []CompletionEarned
<1>1. Inv => CompletionEarned
  BY DEF Inv, Rows
<1> QED BY <1>1, InvCorrect, PTL

\* A configured schedule never has two Critic Runs under way.
THEOREM OneActiveOccurrenceCorrect == Spec => []OneActiveOccurrence
<1>1. Inv => OneActiveOccurrence
  BY DEF Inv, Occurrences
<1> QED BY <1>1, InvCorrect, PTL

\* What a schedule has missed is made up for by one Critic Run.
THEOREM NoCatchUpBurstCorrect == Spec => []NoCatchUpBurst
<1>1. Inv => NoCatchUpBurst
  BY DEF Inv, Occurrences
<1> QED BY <1>1, InvCorrect, PTL

-----------------------------------------------------------------------------
(* The contract *)

\* What the contract sees of a Run.
LEMMA PhaseCases ==
  ASSUME TypeOK, NEW o \in Owner
  PROVE  /\ Phase[o] = PhaseOf(o)
         /\ PhaseOf(o) = "open" <=> Active(o)
         /\ PhaseOf(o) = "none" <=> run[o].status = "none"
         /\ DOMAIN Phase = Owner
<1>1. run[o] \in RunRow
  BY DEF TypeOK
<1>2. run[o].status \in {"none", "queued", "running", "completed", "failed", "skipped"}
  BY <1>1 DEF RunRow
<1> QED BY <1>2 DEF Phase, PhaseOf, Active

\* It does not see what becomes of a Run that stays open.
LEMMA SamePhases ==
  ASSUME UNCHANGED proposal,
         \A o \in Owner : \/ run'[o].status = run[o].status
                          \/ /\ run[o].status \in {"queued", "running"}
                             /\ run'[o].status \in {"queued", "running"}
  PROVE  UNCHANGED Phase
BY DEF Phase, PhaseOf, Active

LEMMA BeginsPhase ==
  ASSUME TypeOK, NEW o \in Owner, Begins(o), UNCHANGED proposal,
         \A p \in Owner : Contract!Sibling(o, p) => ~Active(p)
  PROVE  Contract!Begin(o)
<1>1. /\ run[o].status = "none" /\ run'[o].status \in {"queued", "skipped"}
      /\ \A p \in Owner : p # o => run'[p] = run[p]
  BY DEF Begins
<1>2. Phase[o] = "none"
  BY <1>1, PhaseCases
<1>3. \A p \in Owner : Contract!Sibling(o, p) => Phase[p] # "open"
  BY PhaseCases
<1>4. PICK start \in {"open", "skipped"} :
        start = IF run'[o].status = "queued" THEN "open" ELSE "skipped"
  OBVIOUS
<1>5. Phase' = [Phase EXCEPT ![o] = start]
  BY <1>1, <1>4 DEF Phase, PhaseOf, Active
<1> QED BY <1>2, <1>3, <1>5 DEF Contract!Begin

\* Runs outside the configured schedules have no sibling.
LEMMA NoSibling ==
  ASSUME NEW o, \A s \in Schedule, d \in Time : <<s, d>> # o, NEW p
  PROVE  ~Contract!Sibling(o, p)
BY DEF Contract!Sibling

LEMMA DuePhase ==
  ASSUME Inv, NEW s \in Schedule, CreateCriticDue(s)
  PROVE  Contract!Next \/ UNCHANGED Phase
<1> DEFINE o == <<s, schedule[s].next>>
           status == IF evidence THEN "queued" ELSE "skipped"
<1>1. /\ s \in tick.left \ tick.created /\ ~HasActiveCriticRun(s) /\ UNCHANGED proposal
      /\ IF run[o].status = "none"
         THEN run' = [run EXCEPT ![o] = [status |-> status, agent |-> 0, created |-> now]]
         ELSE run' = run
  BY DEF CreateCriticDue
<1>2. schedule[s].next \in Time
  <2>1. schedule[s].next <= now /\ schedule[s].next \in Nat /\ now \in Time
    BY <1>1, Owners DEF Inv, Occurrences, Dues, TypeOK, ScheduleRow
  <2> QED BY <2>1, GovernanceAssumption DEF Time
<1>3. o \in Owner
  BY <1>2, Owners
<1>4. CASE run[o].status = "none"
  <2>1. status \in {"queued", "skipped"}
    OBVIOUS
  <2> HIDE DEF status
  <2>2. Begins(o)
    <3>1. run' = [run EXCEPT ![o] = [status |-> status, agent |-> 0, created |-> now]]
      BY <1>1, <1>4
    <3> HIDE DEF o
    <3> QED BY <1>3, <1>4, <2>1, <3>1, BeginRow DEF Inv
  <2>3. ASSUME NEW p \in Owner, Contract!Sibling(o, p) PROVE ~Active(p)
    <3>1. PICK t \in Schedule, d \in Time, e \in Time : o = <<t, d>> /\ p = <<t, e>>
      BY <2>3 DEF Contract!Sibling
    <3> QED BY <1>1, <3>1 DEF HasActiveCriticRun
  <2> HIDE DEF o
  <2> QED BY <1>1, <1>3, <2>2, <2>3, BeginsPhase DEF Inv, Contract!Next
<1>5. CASE run[o].status # "none"
  <2>1. run' = run
    BY <1>1, <1>5
  <2> QED BY <1>1, <2>1, SamePhases
<1> QED BY <1>4, <1>5

LEMMA ManualPhase ==
  ASSUME Inv, ManualCritic
  PROVE  Contract!Next \/ UNCHANGED Phase
<1> DEFINE o == <<Manual, now>>
<1>1. /\ UNCHANGED proposal
      /\ IF run[o].status = "none"
         THEN run' = [run EXCEPT ![o] = [status |-> "queued", agent |-> 0, created |-> now]]
         ELSE run' = run
  BY DEF ManualCritic
<1>2. o \in Owner /\ \A s \in Schedule, d \in Time : <<s, d>> # o
  BY Owners, GovernanceAssumption DEF Inv, TypeOK
<1> HIDE DEF o
<1>3. CASE run[o].status = "none"
  <2>1. Begins(o)
    BY <1>1, <1>2, <1>3, BeginRow DEF Inv
  <2>2. \A p \in Owner : ~Contract!Sibling(o, p)
    BY <1>2, NoSibling
  <2> QED BY <1>1, <1>2, <2>1, <2>2, BeginsPhase DEF Inv, Contract!Next
<1>4. CASE run[o].status # "none"
  BY <1>1, <1>4, SamePhases
<1> QED BY <1>3, <1>4

LEMMA RefinementPhase ==
  ASSUME Inv, NEW r \in Refinement, CreateRefinement(r)
  PROVE  Contract!Next
<1>1. /\ UNCHANGED proposal /\ run[r].status = "none"
      /\ run' = [run EXCEPT ![r] = [status |-> "queued", agent |-> 0, created |-> now]]
  BY DEF CreateRefinement
<1>2. r \in Owner /\ \A s \in Schedule, d \in Time : <<s, d>> # r
  BY Owners, GovernanceAssumption
<1>3. Begins(r)
  BY <1>1, <1>2, BeginRow DEF Inv
<1>4. \A p \in Owner : ~Contract!Sibling(r, p)
  BY <1>2, NoSibling
<1> QED BY <1>1, <1>2, <1>3, <1>4, BeginsPhase DEF Inv, Contract!Next

LEMMA SettlePhase ==
  ASSUME Inv, SettleRun
  PROVE  Contract!Next \/ UNCHANGED Phase
<1> DEFINE a == pump.agent
<1>1. PICK o \in Owner : o = agents[a].owner /\ Active(o)
  <2>1. agents[pump.agent].owner \in Owner /\ Active(agents[pump.agent].owner)
    BY AgentInPump DEF SettleRun, Inv, Pumped, Current
  <2> QED BY <2>1
<1>2. CASE Ends(o, a)
  <2>1. /\ run'[o].status \in {"completed", "failed"}
        /\ \A p \in Owner : p # o => run'[p] = run[p] /\ proposal'[p] = proposal[p]
    BY <1>2 DEF Ends
  <2>2. PICK end \in {"clean", "proposed", "failed"} :
          end = IF run'[o].status # "completed" THEN "failed"
                ELSE IF proposal'[o] = 0 THEN "clean" ELSE "proposed"
    OBVIOUS
  <2>3. Phase' = [Phase EXCEPT ![o] = end]
    BY <2>1, <2>2 DEF Phase, PhaseOf, Active
  <2>4. Phase[o] = "open"
    BY <1>1, PhaseCases DEF Inv
  <2> QED BY <2>3, <2>4 DEF Contract!End, Contract!Next
<1>3. CASE UNCHANGED <<run, proposal>>
  BY <1>3, SamePhases
<1> QED BY <1>1, <1>2, <1>3, SettleEnds

\* Every other step of the service keeps the Runs, or keeps them open.
LEMMA OtherPhases ==
  ASSUME Inv, Next, UNCHANGED proposal,
         \/ UNCHANGED run
         \/ \E o \in Owner : Waits(o) /\ Dispatch(o)
         \/ RequeueRuns \/ Shutdown \/ ReleaseClaims
  PROVE  UNCHANGED Phase
<1>1. CASE UNCHANGED run
  BY <1>1, SamePhases
<1>2. ASSUME NEW o \in Owner, Waits(o), Dispatch(o) PROVE UNCHANGED Phase
  <2>1. Dispatches(o)
    BY <1>2, DispatchRows DEF Inv
  <2> QED BY <1>2, <2>1, SamePhases DEF Dispatches, Waits
<1>3. CASE RequeueRuns
  <2>1. ASSUME NEW o \in Owner
        PROVE  \/ run'[o].status = run[o].status
               \/ run[o].status = "running" /\ run'[o].status = "queued"
    <3>1. CASE Abandoned(o)
      <4>1. run[o].status = "running" /\ run[o] \in RunRow
        BY <3>1 DEF Abandoned, Inv, TypeOK
      <4>2. run'[o] = [run[o] EXCEPT !.status = "queued", !.agent = 0]
        BY <1>3, <3>1 DEF RequeueRuns
      <4> QED BY <4>1, <4>2, RowBack
    <3>2. CASE ~Abandoned(o)
      BY <1>3, <3>2 DEF RequeueRuns
    <3> QED BY <3>1, <3>2
  <2> QED BY <2>1, SamePhases
<1>4. CASE Shutdown
  <2>1. PutsBack(Refinement)
    BY <1>4, PutBack DEF Shutdown, Inv
  <2> QED BY <2>1, SamePhases DEF PutsBack
<1>5. CASE ReleaseClaims
  <2>1. PutsBack(CriticRun)
    BY <1>5, PutBack DEF ReleaseClaims, Claimed, Inv
  <2> QED BY <2>1, SamePhases DEF PutsBack
<1> QED BY <1>1, <1>2, <1>3, <1>4, <1>5

LEMMA ContractInit == Init => Contract!Init
  BY DEF Init, Contract!Init, Phase, PhaseOf, Active

LEMMA ContractStep == Inv /\ [Next]_vars => [Contract!Next]_Phase
<1> SUFFICES ASSUME Inv, [Next]_vars PROVE Contract!Next \/ UNCHANGED Phase
  OBVIOUS
<1>1. CASE \E job \in jobs : Prepared(job) \/ PrepareFails(job)
  <2>1. ASSUME NEW job \in jobs, Prepared(job) PROVE UNCHANGED Phase
    <3>1. Head(job) \in Owner /\ Waits(Head(job)) /\ Dispatch(Head(job)) /\ UNCHANGED proposal
      BY <2>1, RestOfJob DEF Inv, Prepared, Dispatch
    <3> QED BY <1>1, <3>1, OtherPhases DEF Next
  <2>2. ASSUME NEW job \in jobs, PrepareFails(job) PROVE UNCHANGED Phase
    BY <2>2, SamePhases DEF PrepareFails, store
  <2> QED BY <1>1, <2>1, <2>2
<1>2. CASE TickNext
  BY <1>2, DuePhase, SamePhases DEF TickNext, TickOverlaps, AdvanceDue, TickEnds, store
<1>3. CASE PumpNext
  BY <1>3, SettlePhase, SamePhases
     DEF PumpNext, TakeAnswered, TakeRunnable, Answer, DropAnswer, SettleAgent, Die, store
<1>4. CASE BootNext
  <2>1. ASSUME NEW o \in Owner, DispatchAtBoot(o) PROVE UNCHANGED Phase
    <3>1. Waits(o) /\ Dispatch(o) /\ UNCHANGED proposal
      BY <2>1 DEF DispatchAtBoot, Undispatched, Queueable, Waits, Dispatch
    <3> QED BY <1>4, <3>1, OtherPhases DEF Next
  <2>2. CASE RequeueRuns
    <3>1. UNCHANGED proposal
      BY <2>2 DEF RequeueRuns
    <3> QED BY <1>4, <2>2, <3>1, OtherPhases DEF Next
  <2>3. CASE StartServer \/ RecoverTasks \/ BootFails \/ ConfigureAtBoot
    BY <2>3, SamePhases DEF StartServer, RecoverTasks, BootFails, ConfigureAtBoot, store
  <2> QED BY <1>4, <2>1, <2>2, <2>3 DEF BootNext
<1>5. CASE Commands
  BY <1>5, ManualPhase, RefinementPhase, SamePhases
     DEF Commands, ConfigureScheduler, ReconcileCritic
<1>6. CASE Shutdown \/ ReleaseClaims
  <2>1. UNCHANGED proposal
    BY <1>6 DEF Shutdown, ReleaseClaims
  <2> QED BY <1>6, <2>1, OtherPhases DEF Next
<1>7. CASE Exit \/ Crash \/ PassTime \/ CompleteEnvironment \/ EditConfig \/ UNCHANGED vars
  BY <1>7, SamePhases DEF Exit, Crash, PassTime, CompleteEnvironment, EditConfig, vars, store
<1> QED BY <1>1, <1>2, <1>3, <1>4, <1>5, <1>6, <1>7 DEF Next

\* Over all crashes and restarts a Run is opened or skipped once, ends once, and
\* is opened by a schedule only while it has no other open.
THEOREM KeepsGovernanceContractCorrect == Spec => KeepsGovernanceContract
BY ContractInit, ContractStep, InvCorrect, PTL DEF Spec, KeepsGovernanceContract, Contract!Spec
=============================================================================
