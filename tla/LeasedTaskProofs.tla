-------------------------- MODULE LeasedTaskProofs --------------------------
(***************************************************************************)
(* Proofs about LeasedTask for every set of tasks, every length of lease,  *)
(* renewal interval and budget, and any number of crashes.                 *)
(***************************************************************************)
EXTENDS LeasedTask, TLAPS

-----------------------------------------------------------------------------
(* The inductive invariant *)

\* Where the pump, the claim loop and the lease loop can be together: a call
\* is only under way where the code awaits one, a granted claim names its
\* task, and a Run is only being stopped while its task is running.
Shape ==
  /\ job.at \in {"idle", "claiming"} <=> job.task = NoTask
  /\ main.leg # "none" => job.at \notin {"idle", "working"}
  /\ renew.leg # "none" => job.at \notin {"idle", "claiming"}
  /\ main.leg = "reply" /\ job.at = "claiming" /\ main.verdict = "accepted" =>
       main.task \in Task
  /\ server = "down" => executing = NoTask /\ halting = NoTask
  /\ executing # NoTask => status[executing] \in {"running", "cancelled"}
  /\ halting # NoTask => status[halting] = "running"

\* Claims and jobs: the claim comes first and is used once.
Claims ==
  /\ \A t \in Task :
       /\ begun[t] \in {0, 1}
       /\ begun[t] = 1 => claimed[t]
       /\ Working(t) => begun[t] = 1
       /\ terminal[t] # "none" => begun[t] = 1
  /\ main.leg = "reply" /\ job.at = "claiming" /\ main.verdict = "accepted" =>
       claimed[main.task] /\ begun[main.task] = 0
  /\ \A call \in orphans : call.kind \in TerminalKind =>
       call.task \in Task /\ begun[call.task] = 1

\* A time the daemon counts on is covered by the server's lease.
Covers(t, left) == left = 0 \/ left <= lease[t]

LeaseView ==
  /\ \A t \in Task : Working(t) =>
       /\ Covers(t, job.deadline)
       /\ renew.leg = "reply" => Covers(t, renew.left)
  /\ main.leg = "reply" /\ job.at = "claiming" /\ main.verdict = "accepted" =>
       Covers(main.task, main.left)

\* An unclaimed running task is the one the pump waits for.
Awaited ==
  server = "up" => \A t \in Task : status[t] = "running" /\ ~claimed[t] => executing = t

Inv == TypeOK /\ Shape /\ Claims /\ LeaseView /\ Awaited

-----------------------------------------------------------------------------
(* Types *)

\* The exchanges the actions write are exchanges (the answers of LocalDaemonTransport).
LEMMA WireTypes ==
  /\ NoWire \in Wire /\ Request \in Wire /\ Broken \in Wire
  /\ \A v \in Verdict, t \in Task \cup {NoTask}, n \in 0..Lease : Reply(v, t, n) \in Wire
  /\ \A w \in Wire : Refused(w) \in Wire /\ [w EXCEPT !.left = Less(@)] \in Wire
<1> USE LeaseAssumption DEF Wire, Verdict
<1>1. NoWire \in Wire
  BY DEF NoWire
<1>2. Request \in Wire
  BY DEF Request, NoWire
<1>3. \A v \in Verdict, t \in Task \cup {NoTask}, n \in 0..Lease : Reply(v, t, n) \in Wire
  BY DEF Reply
<1>4. Broken \in Wire
  BY <1>3 DEF Broken
<1>5. \A w \in Wire : Refused(w) \in Wire
  BY <1>4 DEF Refused
<1>6. \A w \in Wire : [w EXCEPT !.left = Less(@)] \in Wire
  BY DEF Less
<1> QED BY ONLY <1>1, <1>2, <1>3, <1>4, <1>5, <1>6

\* So are the jobs: every change LeaseAwareJobRunner makes to one keeps its type.
LEMMA JobTypes ==
  ASSUME NEW row \in Job
  PROVE  /\ IdleJob \in Job
         /\ \A at \in {"idle", "claiming", "working", "reporting", "completing", "failing"} :
              [row EXCEPT !.at = at] \in Job
         /\ \A cause \in {"lost", "cancelled"} : [row EXCEPT !.cause = cause] \in Job
         /\ \A n \in 0..Lease :
              /\ SleepFor(n) \in 0..Lease
              /\ [row EXCEPT !.sleep = SleepFor(n)] \in Job
              /\ [row EXCEPT !.deadline = n, !.sleep = SleepFor(n)] \in Job
              /\ \A t \in Task : [at |-> "working", task |-> t, cause |-> "none",
                                  deadline |-> n, sleep |-> SleepFor(n)] \in Job
         /\ [row EXCEPT !.deadline = Less(row.deadline), !.sleep = Less(row.sleep)] \in Job
<1> USE LeaseAssumption
<1>1. IdleJob \in Job
  BY DEF IdleJob, Job
<1>2. \A at \in {"idle", "claiming", "working", "reporting", "completing", "failing"} :
        [row EXCEPT !.at = at] \in Job
  BY DEF Job
<1>3. \A cause \in {"lost", "cancelled"} : [row EXCEPT !.cause = cause] \in Job
  BY DEF Job
<1>4. \A n \in 0..Lease : SleepFor(n) \in 0..Lease
  BY DEF SleepFor
<1>5. \A n \in 0..Lease : [row EXCEPT !.sleep = SleepFor(n)] \in Job
  BY <1>4 DEF Job
<1>6. \A n \in 0..Lease : [row EXCEPT !.deadline = n, !.sleep = SleepFor(n)] \in Job
  BY <1>4 DEF Job
<1>7. \A n \in 0..Lease, t \in Task :
        [at |-> "working", task |-> t, cause |-> "none",
         deadline |-> n, sleep |-> SleepFor(n)] \in Job
  BY <1>4 DEF Job
<1>8. [row EXCEPT !.deadline = Less(row.deadline), !.sleep = Less(row.sleep)] \in Job
  <2> DEFINE n == Less(row.deadline)
             k == Less(row.sleep)
  <2>1. n \in 0..Lease /\ k \in 0..Lease
    BY DEF Less, Job
  <2> HIDE DEF n, k
  <2>2. [row EXCEPT !.deadline = n, !.sleep = k] \in Job
    BY <2>1 DEF Job
  <2> QED BY <2>2 DEF n, k
<1> QED BY ONLY <1>1, <1>2, <1>3, <1>4, <1>5, <1>6, <1>7, <1>8

\* What an abandoned call leaves behind is a call.
LEMMA OrphanTypes ==
  ASSUME NEW wire, NEW kind \in CallKind, NEW t \in Task \cup {NoTask}
  PROVE  Orphaned(wire, kind, t) \subseteq [kind: CallKind, task: Task \cup {NoTask}]
  BY DEF Orphaned

\* A server and a daemon that have just started, with the queued tasks of createTask.
LEMMA InitType == Init => TypeOK
<1> SUFFICES ASSUME Init PROVE TypeOK
  OBVIOUS
<1> USE LeaseAssumption DEF Init
<1>1. main \in Wire /\ renew \in Wire
  BY WireTypes
<1>2. job \in Job
  BY DEF IdleJob, Job
<1> QED BY <1>1, <1>2 DEF TypeOK

\* No step of the server's pump or of its recovery leaves the types.
LEMMA PumpType ==
  ASSUME TypeOK, NEW t \in Task,
         Execute(t) \/ RequestCancellation(t) \/ StopAgent(t) \/ CancelWaiting(t) \/ Poll
           \/ Recover
  PROVE  TypeOK'
<1> USE LeaseAssumption DEF TypeOK, store, serverVars, daemonVars
<1>1. CASE Execute(t)
  BY <1>1 DEF Execute
<1>2. CASE RequestCancellation(t)
  BY <1>2 DEF RequestCancellation
<1>3. CASE StopAgent(t)
  BY <1>3 DEF StopAgent
<1>4. CASE CancelWaiting(t)
  BY <1>4 DEF CancelWaiting
<1>5. CASE Poll
  BY <1>5 DEF Poll, Outcome, TerminalKind
<1>6. CASE Recover
  BY <1>6 DEF Recover
<1> QED BY <1>1, <1>2, <1>3, <1>4, <1>5, <1>6

\* The operations of LocalDaemonStore keep the rows of their types.
LEMMA StoreType ==
  ASSUME TypeOK, NEW t,
         \/ t \in Task /\ Grant(t)
         \/ Extend(t)
         \/ \E kind \in TerminalKind : Record(t, kind)
  PROVE  /\ status' \in [Task -> {"queued", "running", "finished", "cancelled"}]
         /\ claimed' \in [Task -> BOOLEAN]
         /\ cancel' \in [Task -> BOOLEAN]
         /\ terminal' \in [Task -> {"none"} \cup TerminalKind]
         /\ result' \in [Task -> {"none", "lost"} \cup TerminalKind]
         /\ lease' \in [Task -> -1..Lease]
<1> USE LeaseAssumption DEF TypeOK
<1>1. CASE t \in Task /\ Grant(t)
  BY <1>1 DEF Grant
<1>2. CASE Extend(t)
  <2>1. Lease \in -1..Lease
    OBVIOUS
  <2>2. [lease EXCEPT ![t] = Lease] \in [Task -> -1..Lease]
    BY <2>1
  <2>3. lease' \in [Task -> -1..Lease]
    BY <1>2, <2>2 DEF Extend
  <2> QED BY <1>2, <2>3 DEF Extend
<1>3. ASSUME NEW kind \in TerminalKind, Record(t, kind)
      PROVE  terminal' \in [Task -> {"none"} \cup TerminalKind] /\ UNCHANGED <<status, claimed, cancel, result, lease>>
  BY <1>3 DEF Record
<1> QED BY <1>1, <1>2, <1>3

\* Neither does serving a call of the daemon.
LEMMA HandlerType ==
  ASSUME TypeOK,
         HandleClaim \/ HandleEvents \/ HandleComplete \/ HandleFail \/ HandleRenew
           \/ \E call \in orphans : HandleOrphan(call)
  PROVE  TypeOK'
<1> USE LeaseAssumption DEF TypeOK, store, serverVars, daemonVars
<1>1. CASE HandleClaim
  <2>1. main' \in Wire
    BY <1>1, WireTypes DEF HandleClaim, AnswerMain, Verdict
  <2>2. CASE \E t \in Task : Grant(t)
    BY <1>1, <2>1, <2>2, StoreType DEF HandleClaim, AnswerMain
  <2>3. CASE UNCHANGED store
    BY <1>1, <2>1, <2>3 DEF HandleClaim, AnswerMain
  <2> QED BY <1>1, <2>2, <2>3 DEF HandleClaim
<1>2. CASE HandleEvents
  <2>1. main' \in Wire
    BY <1>2, WireTypes DEF HandleEvents, AnswerMain, Verdict
  <2> QED BY <1>2, <2>1 DEF HandleEvents, AnswerMain
<1>3. ASSUME NEW at, NEW kind \in TerminalKind, HandleTerminal(at, kind) PROVE TypeOK'
  <2>1. main' \in Wire
    BY <1>3, WireTypes DEF HandleTerminal, AnswerMain, RecordVerdict, Verdict
  <2>2. Record(job.task, kind)
    BY <1>3 DEF HandleTerminal
  <2> QED BY <1>3, <2>1, <2>2, StoreType DEF HandleTerminal, AnswerMain
<1>4. CASE HandleRenew
  <2>1. renew' \in Wire
    BY <1>4, WireTypes DEF HandleRenew, RenewVerdict, Verdict
  <2>2. Extend(job.task)
    BY <1>4 DEF HandleRenew
  <2> QED BY <1>4, <2>1, <2>2, StoreType DEF HandleRenew
<1>5. ASSUME NEW call \in orphans, HandleOrphan(call) PROVE TypeOK'
  <2>1. CASE \E t : (t \in Task /\ Grant(t)) \/ Extend(t) \/ \E kind \in TerminalKind : Record(t, kind)
    BY <1>5, <2>1, StoreType DEF HandleOrphan
  <2>2. CASE UNCHANGED store
    BY <1>5, <2>2 DEF HandleOrphan
  <2> QED BY <1>5, <2>1, <2>2 DEF HandleOrphan
<1> QED BY <1>1, <1>2, <1>3, <1>4, <1>5 DEF HandleComplete, HandleFail, TerminalKind

\* The claim loop stays in its types.
LEMMA ClaimLoopType ==
  ASSUME TypeOK,
         \/ SendClaim \/ ReceiveClaim
         \/ \E at \in {"reporting", "completing", "failing"} : SendMain("working", at)
         \/ ReceiveEvents \/ ReceiveComplete \/ ReceiveFail \/ Abort,
         Shape
  PROVE  TypeOK'
<1> USE DEF TypeOK, store, serverVars
<1>1. CASE SendClaim
  BY <1>1, WireTypes, JobTypes DEF SendClaim
<1>2. CASE ReceiveClaim
  <2>1. CASE main.verdict = "accepted"
    <3>1. main.task \in Task /\ main.left \in 0..Lease
      BY <1>2, <2>1 DEF ReceiveClaim, Shape, Wire
    <3>2. job' \in Job
      <4> DEFINE n == main.left
                 t == main.task
                 new == [at |-> "working", task |-> t, cause |-> "none",
                         deadline |-> n, sleep |-> SleepFor(n)]
      <4>1. job' = new
        BY <1>2, <2>1 DEF ReceiveClaim
      <4>2. n \in 0..Lease /\ t \in Task /\ job \in Job
        BY <3>1
      <4> HIDE DEF n, t
      <4>3. new \in Job
        BY <4>2, JobTypes
      <4> QED BY ONLY <4>1, <4>3
    <3>3. begun' \in [Task -> Nat]
      BY <1>2, <2>1 DEF ReceiveClaim
    <3> QED BY <1>2, <3>2, <3>3, WireTypes DEF ReceiveClaim
  <2>2. CASE main.verdict # "accepted"
    BY <1>2, <2>2, WireTypes, JobTypes DEF ReceiveClaim
  <2> QED BY <2>1, <2>2
<1>3. ASSUME NEW at \in {"reporting", "completing", "failing"}, SendMain("working", at)
      PROVE  TypeOK'
  BY <1>3, WireTypes, JobTypes DEF SendMain
<1>4. CASE ReceiveEvents
  BY <1>4, WireTypes, JobTypes DEF ReceiveEvents
<1>5. job.task \in Task \cup {NoTask}
  BY DEF Job
<1>6. CASE EndJob /\ UNCHANGED <<store, serverVars, daemon, begun, crashes>>
  <2>1. orphans' \subseteq [kind: CallKind, task: Task \cup {NoTask}]
    BY <1>5, <1>6, OrphanTypes DEF EndJob, CallKind
  <2> QED BY <1>6, <2>1, WireTypes, JobTypes DEF EndJob
<1>7. CASE ReceiveComplete
  <2>1. CASE EndJob
    BY <1>6, <1>7, <2>1 DEF ReceiveComplete
  <2>2. CASE ~EndJob
    BY <1>7, <2>2, WireTypes, JobTypes DEF ReceiveComplete
  <2> QED BY <2>1, <2>2
<1>8. CASE ReceiveFail
  BY <1>6, <1>8 DEF ReceiveFail
<1>9. CASE Abort
  <2>1. orphans' \subseteq [kind: CallKind, task: Task \cup {NoTask}]
    BY <1>5, <1>9, OrphanTypes DEF Abort, CallKind, TerminalKind
  <2> QED BY <1>9, <2>1, WireTypes, JobTypes DEF Abort
<1> QED BY <1>1, <1>2, <1>3, <1>4, <1>7, <1>8, <1>9

\* So does the lease loop.
LEMMA LeaseLoopType ==
  ASSUME TypeOK, Wake \/ ReceiveRenew \/ RenewTimeout
  PROVE  TypeOK'
<1> USE DEF TypeOK, store, serverVars
<1>1. CASE Wake
  BY <1>1, WireTypes, JobTypes DEF Wake
<1>2. CASE ReceiveRenew
  <2>1. renew.left \in 0..Lease /\ job.deadline \in 0..Lease
    BY DEF Wire, Job
  <2>2. Renewed \in Job
    BY <2>1, JobTypes DEF Renewed
  <2> QED BY <1>2, <2>2, WireTypes DEF ReceiveRenew
<1>3. CASE RenewTimeout
  <2>1. job.task \in Task \cup {NoTask}
    BY DEF Job
  <2>2. orphans' \subseteq [kind: CallKind, task: Task \cup {NoTask}]
    BY <1>3, <2>1, OrphanTypes DEF RenewTimeout, CallKind
  <2> QED BY <1>3, <2>2, WireTypes, JobTypes DEF RenewTimeout
<1> QED BY <1>1, <1>2, <1>3

\* Connections, crashes, restarts and time do as well.
LEMMA FaultType ==
  ASSUME TypeOK,
         \/ Crash \/ DaemonStop \/ DaemonExit \/ DaemonCrash \/ DaemonStart
         \/ LoseMain \/ LoseRenew \/ Refuse \/ Tick
  PROVE  TypeOK'
<1> USE DEF TypeOK, store, serverVars, daemonVars
<1>1. CASE Crash
  <2>1. crashes' \in 0..MaxCrashes /\ budget' \in 0..Budget
    BY <1>1, LeaseAssumption DEF Crash
  <2>2. main' \in Wire /\ renew' \in Wire
    BY <1>1, WireTypes DEF Crash
  <2> QED BY <1>1, <2>1, <2>2 DEF Crash
<1>2. job.task \in Task \cup {NoTask} /\ MainKind \in CallKind
  BY DEF Job, MainKind, CallKind, TerminalKind
<1>3. "claim" \in CallKind /\ "renew" \in CallKind
  BY DEF CallKind
<1>4. CASE DaemonStop
  <2>1. orphans' \subseteq [kind: CallKind, task: Task \cup {NoTask}]
    BY <1>3, <1>4, OrphanTypes DEF DaemonStop
  <2> QED BY <1>4, <2>1, WireTypes, JobTypes DEF DaemonStop
<1>5. CASE DaemonExit \/ DaemonStart
  BY <1>5 DEF DaemonExit, DaemonStart
<1>6. CASE DaemonCrash
  <2>1. orphans' \subseteq [kind: CallKind, task: Task \cup {NoTask}]
    BY <1>2, <1>3, <1>6, OrphanTypes DEF DaemonCrash
  <2>2. crashes' \in 0..MaxCrashes
    BY <1>6, LeaseAssumption DEF DaemonCrash
  <2>3. job' \in Job /\ main' \in Wire /\ renew' \in Wire
    BY <1>6, WireTypes, JobTypes DEF DaemonCrash
  <2> QED BY <1>6, <2>1, <2>2, <2>3 DEF DaemonCrash
<1>7. CASE LoseMain
  <2>1. orphans' \subseteq [kind: CallKind, task: Task \cup {NoTask}]
    BY <1>2, <1>7, OrphanTypes DEF LoseMain
  <2> QED BY <1>7, <2>1, WireTypes DEF LoseMain
<1>8. CASE LoseRenew
  <2>1. orphans' \subseteq [kind: CallKind, task: Task \cup {NoTask}]
    BY <1>2, <1>3, <1>8, OrphanTypes DEF LoseRenew
  <2> QED BY <1>8, <2>1, WireTypes DEF LoseRenew
<1>9. CASE Refuse
  BY <1>9, WireTypes DEF Refuse
<1>10. CASE Tick
  <2>1. lease' \in [Task -> -1..Lease] /\ budget' \in 0..Budget
    BY <1>10, LeaseAssumption DEF Tick, Less
  <2>2. job' \in Job /\ main' \in Wire /\ renew' \in Wire
    BY <1>10, WireTypes, JobTypes DEF Tick
  <2> QED BY <1>10, <2>1, <2>2 DEF Tick
<1> QED BY <1>1, <1>4, <1>5, <1>6, <1>7, <1>8, <1>9, <1>10

-----------------------------------------------------------------------------
(* Frames and shape *)

\* The server never reaches into the daemon's memory.
LEMMA ServerFrame == ServerNext => UNCHANGED <<daemon, job, begun>>
  BY DEF ServerNext, Execute, RequestCancellation, StopAgent, CancelWaiting, Poll,
         HandleClaim, HandleEvents, HandleComplete, HandleFail, HandleTerminal,
         HandleRenew, HandleOrphan, AnswerMain, Crash, Recover, daemonVars

\* The daemon changes SQLite and the pump only through calls that are served.
LEMMA DaemonFrame ==
  DaemonNext \/ LoseMain \/ LoseRenew \/ Refuse => UNCHANGED <<store, serverVars>>
  BY DEF DaemonNext, SendClaim, ReceiveClaim, Report, Complete, ProviderError, SendMain,
         ReceiveEvents, ReceiveComplete, ReceiveFail, Abort, Wake, ReceiveRenew,
         RenewTimeout, DaemonStop, DaemonExit, DaemonCrash, DaemonStart, LoseMain,
         LoseRenew, Refuse

\* The answers that are not an accepted claim.
LEMMA WireFacts ==
  /\ NoWire.leg = "none" /\ Request.leg = "request"
  /\ Broken.leg = "reply" /\ Broken.verdict = "failed" /\ Broken.left = 0
  /\ \A v, t, n : /\ Reply(v, t, n).leg = "reply" /\ Reply(v, t, n).verdict = v
                  /\ Reply(v, t, n).task = t /\ Reply(v, t, n).left = n
  BY DEF NoWire, Request, Broken, Reply

\* Refusing a call never makes one, nor an accepted answer.
LEMMA RefusedFacts ==
  ASSUME NEW w \in Wire
  PROVE  /\ Refused(w).leg # "none" => w.leg # "none"
         /\ Refused(w).leg # "request"
         /\ Refused(w).leg = "reply" => Refused(w) = Broken \/ Refused(w) = w
  BY WireFacts DEF Refused, Wire

\* The conjuncts of Shape about the pump.
PumpShape ==
  /\ server = "down" => executing = NoTask /\ halting = NoTask
  /\ executing # NoTask => status[executing] \in {"running", "cancelled"}
  /\ halting # NoTask => status[halting] = "running"

\* The conjuncts of Shape about the daemon's calls.
CallShape ==
  /\ job.at \in {"idle", "claiming"} <=> job.task = NoTask
  /\ main.leg # "none" => job.at \notin {"idle", "working"}
  /\ renew.leg # "none" => job.at \notin {"idle", "claiming"}
  /\ main.leg = "reply" /\ job.at = "claiming" /\ main.verdict = "accepted" =>
       main.task \in Task

\* The two halves of Shape, which are proved apart.
LEMMA ShapeParts == Shape <=> PumpShape /\ CallShape
  BY DEF Shape, PumpShape, CallShape

\* The pump half survives every step: only a running task is executed or halted, and a
\* restart (recoverAfterRestart) happens with an empty pump.
LEMMA PumpShapeStep ==
  ASSUME TypeOK, PumpShape, [Next]_vars
  PROVE  PumpShape'
<1> USE LeaseAssumption DEF TypeOK, PumpShape
<1>1. ASSUME NEW t \in Task, Execute(t) PROVE PumpShape'
  BY <1>1 DEF Execute, Up
<1>2. ASSUME NEW t \in Task, RequestCancellation(t) PROVE PumpShape'
  BY <1>2 DEF RequestCancellation, Up
<1>3. ASSUME NEW t \in Task, StopAgent(t) PROVE PumpShape'
  BY <1>3 DEF StopAgent
<1>4. ASSUME NEW t \in Task, CancelWaiting(t) PROVE PumpShape'
  BY <1>4 DEF CancelWaiting, Up, serverVars
<1>5. CASE Poll
  BY <1>5 DEF Poll, Up
<1>6. CASE UNCHANGED <<status, server, executing, halting>>
  BY <1>6
<1>7. CASE HandleClaim \/ HandleEvents \/ HandleComplete \/ HandleFail \/ HandleRenew
             \/ \E call \in orphans : HandleOrphan(call)
  BY <1>6, <1>7 DEF HandleClaim, HandleEvents, HandleComplete, HandleFail, HandleTerminal,
       HandleRenew, HandleOrphan, AnswerMain, Grant, Extend, Record, store, serverVars
<1>8. CASE Crash
  BY <1>8 DEF Crash, store
<1>9. CASE Recover
  BY <1>9 DEF Recover
<1>10. CASE DaemonNext \/ LoseMain \/ LoseRenew \/ Refuse
  BY <1>6, <1>10, DaemonFrame DEF store, serverVars
<1>11. CASE Tick
  BY <1>6, <1>11 DEF Tick
<1>12. CASE UNCHANGED vars
  BY <1>6, <1>12 DEF vars, store, serverVars
<1> QED BY <1>1, <1>2, <1>3, <1>4, <1>5, <1>7, <1>8, <1>9, <1>10, <1>11, <1>12
          DEF Next, ServerNext

\* The daemon half survives every step: a call is begun and given up with its job.
LEMMA CallShapeStep ==
  ASSUME TypeOK, CallShape, [Next]_vars
  PROVE  CallShape'
<1> USE LeaseAssumption, WireFacts DEF CallShape
<1>1. job \in Job /\ main \in Wire /\ renew \in Wire
  BY DEF TypeOK
<1>2. CASE UNCHANGED <<job, main, renew>>
  BY <1>2
<1>3. CASE ServerNext
  <2>1. UNCHANGED job
    BY <1>3, ServerFrame
  <2>2. CASE UNCHANGED <<main, renew>>
    BY <2>1, <2>2
  <2>3. CASE HandleClaim
    BY <2>1, <2>3 DEF HandleClaim, AnswerMain
  <2>4. CASE HandleEvents
    BY <2>1, <2>4 DEF HandleEvents, AnswerMain
  <2>5. CASE HandleComplete \/ HandleFail
    BY <2>1, <2>5 DEF HandleComplete, HandleFail, HandleTerminal, AnswerMain
  <2>6. CASE HandleRenew
    BY <2>1, <2>6 DEF HandleRenew
  <2>7. CASE Crash
    BY <1>1, <2>1, <2>7, RefusedFacts DEF Crash
  <2> QED BY <1>3, <2>2, <2>3, <2>4, <2>5, <2>6, <2>7
            DEF ServerNext, Execute, RequestCancellation, StopAgent, CancelWaiting, Poll,
                HandleOrphan, Recover, daemonVars
<1>4. CASE SendClaim
  BY <1>1, <1>4 DEF SendClaim, Job
<1>5. CASE ReceiveClaim
  BY <1>1, <1>5 DEF ReceiveClaim, IdleJob
<1>6. ASSUME NEW at \in {"reporting", "completing", "failing"}, SendMain("working", at)
      PROVE  CallShape'
  BY <1>1, <1>6 DEF SendMain, Job
<1>7. CASE Report \/ Complete \/ ProviderError
  BY <1>6, <1>7 DEF Report, Complete, ProviderError
<1>8. CASE ReceiveEvents
  BY <1>1, <1>8 DEF ReceiveEvents, Job
<1>9. CASE EndJob
  BY <1>9 DEF EndJob, IdleJob
<1>10. CASE ReceiveComplete
  BY <1>1, <1>9, <1>10 DEF ReceiveComplete, Job
<1>11. CASE ReceiveFail
  BY <1>9, <1>11 DEF ReceiveFail
<1>12. CASE Abort
  BY <1>1, <1>12 DEF Abort, Job
<1>13. CASE Wake
  BY <1>1, <1>13 DEF Wake, Renewing, Job
<1>14. CASE ReceiveRenew
  <2>1. job'.at = job.at /\ job'.task = job.task
    BY <1>1, <1>14 DEF ReceiveRenew, Renewed, Job
  <2> QED BY <1>14, <2>1 DEF ReceiveRenew
<1>15. CASE RenewTimeout
  BY <1>1, <1>15 DEF RenewTimeout, Job
<1>16. CASE DaemonStop
  BY <1>1, <1>16 DEF DaemonStop, IdleJob
<1>17. CASE DaemonExit \/ DaemonStart
  BY <1>2, <1>17 DEF DaemonExit, DaemonStart
<1>18. CASE DaemonCrash
  BY <1>18 DEF DaemonCrash, IdleJob
<1>19. CASE LoseMain
  BY <1>19 DEF LoseMain
<1>20. CASE LoseRenew
  BY <1>20 DEF LoseRenew
<1>21. CASE Refuse
  BY <1>1, <1>21, RefusedFacts DEF Refuse
<1>22. CASE Tick
  BY <1>1, <1>22 DEF Tick, Job, Wire
<1>23. CASE UNCHANGED vars
  BY <1>2, <1>23 DEF vars, daemonVars
<1> QED BY <1>3, <1>4, <1>5, <1>7, <1>8, <1>10, <1>11, <1>12, <1>13, <1>14, <1>15, <1>16,
            <1>17, <1>18, <1>19, <1>20, <1>21, <1>22, <1>23 DEF Next, DaemonNext

-----------------------------------------------------------------------------
(* Claims are used once *)

\* Only execute makes a task running, and only while the pump is free; handlers raise the
\* fencing and a restart requeues what is not claimed.
LEMMA AwaitedStep ==
  ASSUME TypeOK, Shape, Awaited, [Next]_vars
  PROVE  Awaited'
<1> USE LeaseAssumption DEF TypeOK, Awaited
<1>1. ASSUME NEW t \in Task, Execute(t) PROVE Awaited'
  BY <1>1 DEF Execute, Up
<1>2. ASSUME NEW t \in Task, RequestCancellation(t) PROVE Awaited'
  BY <1>2 DEF RequestCancellation
<1>3. ASSUME NEW t \in Task, StopAgent(t) \/ CancelWaiting(t) PROVE Awaited'
  BY <1>3 DEF StopAgent, CancelWaiting, serverVars
<1>4. CASE Poll
  BY <1>4 DEF Poll, Up
<1>5. CASE UNCHANGED <<status, server, executing>> /\ \A t \in Task : claimed[t] => claimed'[t]
  BY <1>5
<1>6. ASSUME NEW t \in Task, Grant(t), UNCHANGED serverVars PROVE Awaited'
  BY <1>5, <1>6 DEF Grant, serverVars
<1>7. CASE HandleClaim \/ HandleEvents \/ HandleComplete \/ HandleFail \/ HandleRenew
             \/ \E call \in orphans : HandleOrphan(call)
  BY <1>5, <1>6, <1>7 DEF HandleClaim, HandleEvents, HandleComplete, HandleFail,
       HandleTerminal, HandleRenew, HandleOrphan, AnswerMain, Extend, Record, store, serverVars
<1>8. CASE Crash
  BY <1>8 DEF Crash
<1>9. CASE Recover
  BY <1>9 DEF Recover
<1>10. CASE DaemonNext \/ LoseMain \/ LoseRenew \/ Refuse
  BY <1>5, <1>10, DaemonFrame DEF store, serverVars
<1>11. CASE Tick
  BY <1>5, <1>11 DEF Tick
<1>12. CASE UNCHANGED vars
  BY <1>5, <1>12 DEF vars, store, serverVars
<1> QED BY <1>1, <1>2, <1>3, <1>4, <1>7, <1>8, <1>9, <1>10, <1>11, <1>12
          DEF Next, ServerNext

\* A job's task is a task, and a call given up belongs to it.
LEMMA JobTask ==
  ASSUME TypeOK, Shape, job.at \notin {"idle", "claiming"}
  PROVE  job.task \in Task /\ Working(job.task)
  BY DEF TypeOK, Shape, Job, Working

\* A terminal that is given up had a job, and so a claim.
LEMMA OrphanClaims ==
  ASSUME TypeOK, Shape, Claims, NEW call \in Orphaned(main, MainKind, job.task),
         call.kind \in TerminalKind
  PROVE  call.task \in Task /\ begun[call.task] = 1
<1>1. main.leg = "request" /\ call.kind = MainKind /\ call.task = job.task
  BY DEF Orphaned
<1>2. job.at \notin {"idle", "claiming"}
  BY <1>1 DEF Shape, MainKind, TerminalKind
<1> QED BY <1>1, <1>2, JobTask DEF Claims

\* The claims in the rows and in the daemon.
RowClaims ==
  \A t \in Task :
    /\ begun[t] \in {0, 1}
    /\ begun[t] = 1 => claimed[t]
    /\ Working(t) => begun[t] = 1
    /\ terminal[t] # "none" => begun[t] = 1

\* The claim in an answer under way.
ReplyClaims ==
  main.leg = "reply" /\ job.at = "claiming" /\ main.verdict = "accepted" =>
    claimed[main.task] /\ begun[main.task] = 0

\* The claims behind the terminals still under way.
OrphansClaim ==
  \A call \in orphans : call.kind \in TerminalKind =>
    call.task \in Task /\ begun[call.task] = 1

\* The three parts of Claims, which are proved apart.
LEMMA ClaimsParts == Claims <=> RowClaims /\ ReplyClaims /\ OrphansClaim
  BY DEF Claims, RowClaims, ReplyClaims, OrphansClaim

\* The rows: a job begins with the answer to its claim, which is used up by it, and
\* complete and fail only come from a job or from what a job gave up.
LEMMA RowClaimsStep ==
  ASSUME TypeOK, Shape, Claims, [Next]_vars
  PROVE  RowClaims'
<1> USE DEF TypeOK
<1>0. RowClaims /\ job \in Job
  BY ClaimsParts
<1>1. ASSUME UNCHANGED <<begun, claimed, terminal>>,
             \A t \in Task : Working(t)' => Working(t)
      PROVE  RowClaims'
  BY <1>0, <1>1 DEF RowClaims
<1>2. ASSUME NEW t \in Task, Grant(t), UNCHANGED <<job, begun>> PROVE RowClaims'
  BY <1>0, <1>2 DEF RowClaims, Grant, Working
<1>3. ASSUME NEW t \in Task, NEW kind \in TerminalKind, begun[t] = 1, Record(t, kind),
             UNCHANGED <<job, begun>>
      PROVE  RowClaims'
  BY <1>0, <1>3 DEF RowClaims, Record, Working
<1>4. CASE ServerNext
  <2>1. UNCHANGED <<job, begun>>
    BY <1>4, ServerFrame
  <2>2. \A t \in Task : Working(t)' => Working(t)
    BY <2>1 DEF Working
  <2>3. CASE HandleClaim
    BY <1>1, <1>2, <2>1, <2>2, <2>3 DEF HandleClaim, store
  <2>4. CASE HandleComplete \/ HandleFail
    <3>1. job.task \in Task /\ begun[job.task] = 1
      BY <1>0, <2>4, JobTask DEF HandleComplete, HandleFail, HandleTerminal, RowClaims
    <3> QED BY <1>3, <2>1, <2>4, <3>1 DEF HandleComplete, HandleFail, HandleTerminal, TerminalKind
  <2>5. ASSUME NEW call \in orphans, HandleOrphan(call) PROVE RowClaims'
    <3>1. CASE call.kind \in TerminalKind /\ Record(call.task, call.kind)
      BY <1>3, <2>1, <3>1, ClaimsParts DEF OrphansClaim
    <3>2. CASE \E t \in Task : Grant(t)
      BY <1>2, <2>1, <3>2
    <3>3. CASE UNCHANGED store \/ Extend(call.task)
      BY <1>1, <2>1, <2>2, <3>3 DEF store, Extend
    <3> QED BY <2>5, <3>1, <3>2, <3>3 DEF HandleOrphan
  <2>6. CASE HandleEvents \/ HandleRenew
    BY <1>1, <2>1, <2>2, <2>6 DEF HandleEvents, HandleRenew, Extend, store
  <2> QED BY <1>1, <1>4, <2>1, <2>2, <2>3, <2>4, <2>5, <2>6
            DEF ServerNext, Execute, RequestCancellation, StopAgent, CancelWaiting, Poll,
                Crash, Recover, store
<1>5. CASE ReceiveClaim
  <2>1. UNCHANGED <<claimed, terminal>>
    BY <1>5 DEF ReceiveClaim, store
  <2>2. CASE main.verdict = "accepted"
    <3>1. main.task \in Task /\ claimed[main.task] /\ begun[main.task] = 0
      BY <1>5, <2>2, ClaimsParts DEF ReceiveClaim, Shape, ReplyClaims
    <3>2. begun' = [begun EXCEPT ![main.task] = 1]
      BY <1>5, <2>2, <3>1 DEF ReceiveClaim
    <3>3. job'.task = main.task
      BY <1>5, <2>2 DEF ReceiveClaim
    <3> QED BY <1>0, <2>1, <3>1, <3>2, <3>3 DEF RowClaims, Working
  <2>3. CASE main.verdict # "accepted"
    BY <1>1, <1>5, <2>1, <2>3 DEF ReceiveClaim, IdleJob, Working
  <2> QED BY <2>2, <2>3
<1>6. ASSUME DaemonNext \/ LoseMain \/ LoseRenew \/ Refuse, ~ReceiveClaim PROVE RowClaims'
  <2>1. UNCHANGED <<begun, claimed, terminal>>
    BY <1>6, DaemonFrame DEF DaemonNext, SendClaim, Report, Complete, ProviderError, SendMain,
         ReceiveEvents, ReceiveComplete, ReceiveFail, Abort, Wake, ReceiveRenew, RenewTimeout,
         DaemonStop, DaemonExit, DaemonCrash, DaemonStart, LoseMain, LoseRenew, Refuse, store
  <2>2. CASE UNCHANGED job
    BY <1>1, <2>1, <2>2 DEF Working
  <2>3. CASE job' = IdleJob
    BY <1>1, <2>1, <2>3 DEF Working, IdleJob
  <2>4. CASE SendClaim
    BY <1>0, <1>1, <2>1, <2>4 DEF SendClaim, Working, Job
  <2>5. CASE Report \/ Complete \/ ProviderError
    BY <1>0, <1>1, <2>1, <2>5 DEF Report, Complete, ProviderError, SendMain, Working, Job
  <2>6. CASE ReceiveEvents \/ Abort \/ (ReceiveComplete /\ job' = [job EXCEPT !.at = "failing"])
    BY <1>0, <1>1, <2>1, <2>6 DEF ReceiveEvents, Abort, ReceiveComplete, Working, Job
  <2>7. CASE Wake \/ ReceiveRenew \/ RenewTimeout
    <3>1. job'.at = job.at /\ job'.task = job.task
      BY <1>0, <2>7 DEF Wake, ReceiveRenew, RenewTimeout, Renewed, Job
    <3> QED BY <1>1, <2>1, <3>1 DEF Working
  <2> QED BY <1>6, <2>2, <2>3, <2>4, <2>5, <2>6, <2>7
            DEF DaemonNext, ReceiveComplete, ReceiveFail, EndJob, DaemonStop, DaemonExit,
                DaemonCrash, DaemonStart, LoseMain, LoseRenew, Refuse
<1>7. CASE Tick
  <2>1. job'.at = job.at /\ job'.task = job.task
    BY <1>0, <1>7 DEF Tick, Job
  <2> QED BY <1>1, <1>7, <2>1 DEF Tick, Working
<1>8. CASE UNCHANGED vars
  BY <1>1, <1>8 DEF vars, store, daemonVars, Working
<1> QED BY <1>4, <1>5, <1>6, <1>7, <1>8 DEF Next

\* The answer under way: the claim it grants is new (claim_fencing = 0), and the only
\* lane of the daemon begins nothing while it waits.
LEMMA ReplyClaimsStep ==
  ASSUME TypeOK, Shape, Claims, [Next]_vars
  PROVE  ReplyClaims'
<1> USE WireFacts DEF TypeOK
<1>0. RowClaims /\ ReplyClaims /\ job \in Job /\ main \in Wire
  BY ClaimsParts
<1>1. ASSUME UNCHANGED <<begun, job, main>>, \A t \in Task : claimed[t] => claimed'[t]
      PROVE  ReplyClaims'
  BY <1>0, <1>1 DEF ReplyClaims, Shape
<1>2. CASE main'.leg # "reply" \/ main'.verdict # "accepted" \/ job'.at # "claiming"
  BY <1>2 DEF ReplyClaims
<1>3. CASE ServerNext
  <2>1. UNCHANGED <<job, begun>>
    BY <1>3, ServerFrame
  <2>2. CASE HandleClaim
    <3>1. ASSUME NEW t \in Task, Claimable(t), Grant(t), AnswerMain("accepted", t, Lease)
          PROVE  ReplyClaims'
      BY <1>0, <2>1, <3>1 DEF Claimable, Grant, AnswerMain, RowClaims, ReplyClaims
    <3>2. CASE AnswerMain("rejected", NoTask, 0)
      BY <1>2, <3>2 DEF AnswerMain
    <3> QED BY <2>2, <3>1, <3>2 DEF HandleClaim
  <2>3. CASE HandleEvents \/ HandleComplete \/ HandleFail
    BY <1>2, <2>1, <2>3 DEF HandleEvents, HandleComplete, HandleFail, HandleTerminal
  <2>4. CASE Crash
    <3>1. UNCHANGED claimed
      BY <2>4 DEF Crash, store
    <3>2. CASE main' = main
      BY <1>1, <2>1, <3>1, <3>2
    <3>3. CASE main' # main
      BY <1>0, <1>2, <2>4, <3>3, RefusedFacts DEF Crash
    <3> QED BY <3>2, <3>3
  <2>5. CASE UNCHANGED main /\ (UNCHANGED claimed \/ \E t \in Task : Grant(t))
    BY <1>1, <2>1, <2>5 DEF Grant
  <2>6. CASE HandleRenew
    BY <2>5, <2>6 DEF HandleRenew, Extend
  <2>7. ASSUME NEW call \in orphans, HandleOrphan(call) PROVE ReplyClaims'
    BY <2>5, <2>7 DEF HandleOrphan, daemonVars, store, Extend, Record
  <2> QED BY <1>3, <2>2, <2>3, <2>4, <2>5, <2>6, <2>7
            DEF ServerNext, Execute, RequestCancellation, StopAgent, CancelWaiting, Poll,
                Recover, daemonVars
<1>4. CASE DaemonNext \/ LoseMain \/ LoseRenew \/ Refuse
  <2>1. UNCHANGED claimed
    BY <1>4, DaemonFrame DEF store
  <2>2. CASE UNCHANGED <<begun, main>> /\ job'.at = job.at
    BY <1>0, <2>1, <2>2 DEF ReplyClaims
  <2>3. CASE SendClaim \/ ReceiveClaim \/ Report \/ Complete \/ ProviderError
               \/ ReceiveEvents \/ ReceiveComplete \/ ReceiveFail \/ Abort \/ DaemonCrash
               \/ LoseMain
    BY <1>0, <1>2, <2>3 DEF SendClaim, ReceiveClaim, Report, Complete, ProviderError, SendMain,
         ReceiveEvents, ReceiveComplete, ReceiveFail, EndJob, Abort, DaemonCrash, LoseMain
  <2>4. CASE Refuse
    <3>1. CASE main' = main
      BY <2>2, <2>4, <3>1 DEF Refuse
    <3>2. CASE main' # main
      BY <1>0, <1>2, <2>4, <3>2, RefusedFacts DEF Refuse
    <3> QED BY <3>1, <3>2
  <2>5. CASE DaemonStop
    <3>1. CASE job.at = "claiming"
      BY <1>2, <2>5, <3>1 DEF DaemonStop
    <3>2. CASE job.at # "claiming"
      BY <1>2, <2>5, <3>2 DEF DaemonStop
    <3> QED BY <3>1, <3>2
  <2>6. CASE Wake \/ ReceiveRenew \/ RenewTimeout
    BY <1>0, <2>2, <2>6 DEF Wake, ReceiveRenew, RenewTimeout, Renewed, Job
  <2> QED BY <1>4, <2>2, <2>3, <2>4, <2>5, <2>6 DEF DaemonNext, DaemonExit, DaemonStart, LoseRenew
<1>5. CASE Tick
  <2>1. job'.at = job.at /\ main'.leg = main.leg /\ main'.verdict = main.verdict
        /\ main'.task = main.task
    BY <1>0, <1>5 DEF Tick, Job, Wire
  <2> QED BY <1>0, <1>5, <2>1 DEF Tick, ReplyClaims
<1>6. CASE UNCHANGED vars
  BY <1>1, <1>6 DEF vars, store, daemonVars
<1> QED BY <1>3, <1>4, <1>5, <1>6 DEF Next

\* Calls given up: a terminal stays one of a task that has been begun.
LEMMA OrphansClaimStep ==
  ASSUME TypeOK, Shape, Claims, [Next]_vars
  PROVE  OrphansClaim'
<1> USE DEF TypeOK
<1>0. RowClaims /\ ReplyClaims /\ OrphansClaim /\ job \in Job
  BY ClaimsParts
<1>1. CASE orphans' \subseteq orphans /\ UNCHANGED begun
  BY <1>0, <1>1 DEF OrphansClaim
<1>2. ASSUME NEW more, orphans' = orphans \cup more, UNCHANGED begun,
             \A call \in more : call.kind \in TerminalKind =>
               call.task \in Task /\ begun[call.task] = 1
      PROVE  OrphansClaim'
  BY <1>0, <1>2 DEF OrphansClaim
<1>3. \A call \in Orphaned(renew, "renew", job.task) \cup Orphaned(main, "claim", NoTask) :
        call.kind \notin TerminalKind
  BY DEF Orphaned, TerminalKind
<1>4. CASE ServerNext
  BY <1>1, <1>4, ServerFrame
     DEF ServerNext, Execute, RequestCancellation, StopAgent, CancelWaiting, Poll, HandleClaim,
         HandleEvents, HandleComplete, HandleFail, HandleTerminal, HandleRenew, HandleOrphan,
         AnswerMain, Crash, Recover
<1>5. CASE ReceiveClaim
  <2>1. CASE main.verdict = "accepted"
    <3>1. main.task \in Task /\ begun[main.task] = 0
      BY <1>0, <1>5, <2>1 DEF ReceiveClaim, Shape, ReplyClaims
    <3> QED BY <1>0, <1>5, <2>1, <3>1 DEF ReceiveClaim, OrphansClaim
  <2>2. CASE main.verdict # "accepted"
    BY <1>1, <1>5, <2>2 DEF ReceiveClaim
  <2> QED BY <2>1, <2>2
<1>6. CASE EndJob /\ UNCHANGED begun
  BY <1>2, <1>3, <1>6 DEF EndJob
<1>7. CASE ReceiveComplete \/ ReceiveFail
  BY <1>1, <1>6, <1>7 DEF ReceiveComplete, ReceiveFail
<1>8. CASE Abort
  <2>1. \A call \in Orphaned(main, "output", job.task) :
          call.task \in Task /\ begun[call.task] = 1
    BY <1>0, <1>8, JobTask DEF Abort, Orphaned, RowClaims
  <2> QED BY <1>1, <1>2, <1>8, <2>1 DEF Abort
<1>9. CASE RenewTimeout \/ LoseRenew
  BY <1>2, <1>3, <1>9 DEF RenewTimeout, LoseRenew
<1>10. CASE DaemonStop
  BY <1>1, <1>2, <1>3, <1>10 DEF DaemonStop
<1>11. \A call \in Orphaned(main, MainKind, job.task) : call.kind \in TerminalKind =>
         call.task \in Task /\ begun[call.task] = 1
  BY OrphanClaims
<1>12. CASE DaemonCrash
  <2> DEFINE more == Orphaned(renew, "renew", job.task)
               \cup (IF job.at = "reporting" THEN {} ELSE Orphaned(main, MainKind, job.task))
  <2>1. orphans' = orphans \cup more /\ UNCHANGED begun
    BY <1>12 DEF DaemonCrash
  <2>2. \A call \in more : call.kind \in TerminalKind =>
          call.task \in Task /\ begun[call.task] = 1
    BY <1>3, <1>11
  <2> QED BY <1>2, <2>1, <2>2
<1>13. CASE LoseMain
  BY <1>1, <1>2, <1>11, <1>13 DEF LoseMain
<1>14. CASE Tick \/ UNCHANGED vars
  BY <1>1, <1>14 DEF Tick, vars
<1>15. CASE UNCHANGED <<orphans, begun>>
  BY <1>1, <1>15
<1> QED BY <1>4, <1>5, <1>7, <1>8, <1>9, <1>10, <1>12, <1>13, <1>14, <1>15
          DEF Next, DaemonNext, SendClaim, Report, Complete, ProviderError, SendMain,
              ReceiveEvents, Wake, ReceiveRenew, DaemonExit, DaemonStart, Refuse

-----------------------------------------------------------------------------
(* The two views of a lease *)

\* What the daemon's job counts on.
JobCovered ==
  \A t \in Task : Working(t) =>
    /\ Covers(t, job.deadline)
    /\ renew.leg = "reply" => Covers(t, renew.left)

\* What the answer to a claim will make it count on.
ClaimCovered ==
  main.leg = "reply" /\ job.at = "claiming" /\ main.verdict = "accepted" =>
    Covers(main.task, main.left)

\* The two parts of LeaseView, which are proved apart.
LEMMA LeaseViewParts == LeaseView <=> JobCovered /\ ClaimCovered
  BY DEF LeaseView, JobCovered, ClaimCovered

\* No operation of LocalDaemonStore ever shortens a lease.
LEMMA LeaseGrows ==
  ASSUME TypeOK, NEW t,
         \/ t \in Task /\ Grant(t)
         \/ Extend(t)
         \/ \E kind : Record(t, kind)
         \/ UNCHANGED store
  PROVE  \A u \in Task : lease'[u] >= lease[u]
<1> USE LeaseAssumption
<1>1. lease \in [Task -> -1..Lease]
  BY DEF TypeOK
<1>2. lease' = lease \/ lease' = [lease EXCEPT ![t] = Lease]
  BY DEF Grant, Extend, Record, store
<1> QED BY <1>1, <1>2

\* Nor does any step of the server.
LEMMA ServerLeaseGrows ==
  ASSUME TypeOK, ServerNext
  PROVE  \A u \in Task : lease'[u] >= lease[u]
<1>1. CASE UNCHANGED lease
  BY <1>1, LeaseAssumption DEF TypeOK
<1>2. CASE HandleClaim
  BY <1>2, LeaseGrows DEF HandleClaim
<1>3. CASE HandleRenew
  BY <1>3, LeaseGrows DEF HandleRenew
<1>4. CASE HandleComplete \/ HandleFail
  BY <1>4, LeaseGrows DEF HandleComplete, HandleFail, HandleTerminal
<1>5. ASSUME NEW call \in orphans, HandleOrphan(call) PROVE \A u \in Task : lease'[u] >= lease[u]
  BY <1>5, LeaseGrows DEF HandleOrphan
<1> QED BY <1>1, <1>2, <1>3, <1>4, <1>5
          DEF ServerNext, Execute, RequestCancellation, StopAgent, CancelWaiting, Poll,
              HandleEvents, Crash, Recover, store

\* The job's view survives every step: a deadline is only taken from an answer whose
\* remaining time the server's lease still covers, and both are counted down together.
LEMMA JobCoveredStep ==
  ASSUME TypeOK, Shape, LeaseView, [Next]_vars
  PROVE  JobCovered'
<1> USE LeaseAssumption, WireFacts
<1>0. /\ JobCovered /\ ClaimCovered /\ job \in Job /\ main \in Wire /\ renew \in Wire
      /\ lease \in [Task -> -1..Lease]
  BY LeaseViewParts DEF TypeOK
<1>1. ASSUME \A t \in Task : Working(t)' => Working(t) /\ job'.deadline = job.deadline,
             renew' = renew \/ renew'.leg # "reply" \/ renew'.left = 0,
             \A t \in Task : lease'[t] >= lease[t] /\ lease'[t] \in Int
      PROVE  JobCovered'
  <2> SUFFICES ASSUME NEW t \in Task, Working(t)'
               PROVE  /\ Covers(t, job.deadline)'
                      /\ renew'.leg = "reply" => Covers(t, renew.left)'
    BY DEF JobCovered
  <2>1. Working(t) /\ job'.deadline = job.deadline /\ job.deadline \in Int /\ renew.left \in Int
    BY <1>0, <1>1 DEF Job, Wire
  <2>2. lease[t] \in Int /\ lease'[t] \in Int /\ lease'[t] >= lease[t]
    BY <1>0, <1>1
  <2> QED BY <1>0, <1>1, <2>1, <2>2 DEF JobCovered, Covers
<1>2. CASE ServerNext
  <2>1. UNCHANGED job
    BY <1>2, ServerFrame
  <2>2. \A t \in Task : Working(t)' => Working(t) /\ job'.deadline = job.deadline
    BY <2>1 DEF Working
  <2>3. \A t \in Task : lease'[t] >= lease[t] /\ lease'[t] \in Int
    <3>1. lease' = lease \/ lease' \in [Task -> -1..Lease]
      BY <1>0, <1>2 DEF ServerNext, Execute, RequestCancellation, StopAgent, CancelWaiting, Poll,
           HandleClaim, HandleEvents, HandleComplete, HandleFail, HandleTerminal, HandleRenew,
           HandleOrphan, Grant, Extend, Record, Crash, Recover, store
    <3> QED BY <1>0, <1>2, <3>1, ServerLeaseGrows
  <2>4. CASE HandleRenew
    <3>1. job.task \in Task
      BY <2>4, JobTask DEF HandleRenew, Shape
    <3>2. CASE RenewVerdict(job.task) = "accepted"
      <4>1. renew'.left = Lease /\ lease'[job.task] = Lease
        BY <1>0, <2>4, <3>1, <3>2 DEF HandleRenew, RenewVerdict, Extend
      <4> QED BY <1>0, <2>1, <2>2, <2>3, <4>1 DEF JobCovered, Covers, Working, Job
    <3>3. CASE RenewVerdict(job.task) # "accepted"
      <4>1. renew'.left = 0
        BY <2>4, <3>3 DEF HandleRenew
      <4> QED BY <1>1, <2>2, <2>3, <4>1
    <3> QED BY <3>2, <3>3
  <2>5. CASE Crash
    BY <1>0, <1>1, <2>2, <2>3, <2>5, RefusedFacts DEF Crash
  <2>6. CASE UNCHANGED renew
    BY <1>1, <2>2, <2>3, <2>6
  <2> QED BY <1>2, <2>4, <2>5, <2>6
            DEF ServerNext, Execute, RequestCancellation, StopAgent, CancelWaiting, Poll,
                HandleClaim, HandleEvents, HandleComplete, HandleFail, HandleTerminal,
                HandleOrphan, AnswerMain, Recover, daemonVars
<1>3. ASSUME DaemonNext \/ LoseMain \/ LoseRenew \/ Refuse PROVE JobCovered'
  <2>1. UNCHANGED lease /\ \A t \in Task : lease'[t] >= lease[t] /\ lease'[t] \in Int
    BY <1>0, <1>3, DaemonFrame DEF store
  <2>2. CASE job' = IdleJob
    BY <2>2 DEF JobCovered, Working, IdleJob
  <2>3. CASE UNCHANGED job /\ (renew' = renew \/ renew'.leg # "reply" \/ renew'.left = 0)
    BY <1>1, <2>1, <2>3 DEF Working
  <2>4. CASE UNCHANGED renew /\ (Report \/ Complete \/ ProviderError \/ ReceiveEvents \/ Abort
               \/ (job' = [job EXCEPT !.at = "failing"] /\ job.at = "completing"))
    <3>1. \A t \in Task : Working(t)' => Working(t) /\ job'.deadline = job.deadline
      BY <1>0, <2>4 DEF Report, Complete, ProviderError, SendMain, ReceiveEvents, Abort,
                        Working, Job
    <3> QED BY <1>1, <2>1, <2>4, <3>1
  <2>5. CASE SendClaim
    BY <1>0, <2>5 DEF SendClaim, JobCovered, Working, Job
  <2>6. CASE ReceiveClaim
    <3>1. renew'.leg = "none"
      BY <1>0, <2>6 DEF ReceiveClaim, Shape, Wire
    <3>2. CASE main.verdict = "accepted"
      <4>1. Covers(main.task, main.left)
        BY <1>0, <2>6, <3>2 DEF ClaimCovered, ReceiveClaim
      <4>2. job'.task = main.task /\ job'.deadline = main.left
        BY <2>6, <3>2 DEF ReceiveClaim
      <4> QED BY <2>1, <3>1, <4>1, <4>2 DEF JobCovered, Working, Covers
    <3>3. CASE main.verdict # "accepted"
      BY <2>2, <2>6, <3>3 DEF ReceiveClaim
    <3> QED BY <3>2, <3>3
  <2>7. CASE Wake \/ RenewTimeout
    <3>1. \A t \in Task : Working(t)' => Working(t) /\ job'.deadline = job.deadline
      BY <1>0, <2>7 DEF Wake, RenewTimeout, Working, Job
    <3>2. renew' = renew \/ renew'.leg # "reply"
      BY <2>7 DEF Wake, RenewTimeout
    <3> QED BY <1>1, <2>1, <3>1, <3>2
  <2>8. CASE ReceiveRenew
    <3>1. renew'.leg = "none" /\ renew.leg = "reply"
      BY <2>8 DEF ReceiveRenew
    <3>2. job'.at = job.at /\ job'.task = job.task
          /\ (job'.deadline = job.deadline \/ job'.deadline = renew.left)
      BY <1>0, <2>8 DEF ReceiveRenew, Renewed, Job
    <3> QED BY <1>0, <2>1, <3>1, <3>2 DEF JobCovered, Working, Covers
  <2>9. CASE Refuse
    BY <1>0, <2>3, <2>9, RefusedFacts DEF Refuse
  <2>10. CASE Report \/ Complete \/ ProviderError \/ ReceiveEvents \/ Abort
    <3>1. UNCHANGED renew
      BY <2>10 DEF Report, Complete, ProviderError, SendMain, ReceiveEvents, Abort
    <3> QED BY <2>4, <2>10, <3>1
  <2>11. CASE ReceiveComplete \/ ReceiveFail
    BY <2>2, <2>4, <2>11 DEF ReceiveComplete, ReceiveFail, EndJob
  <2>12. CASE DaemonStop \/ DaemonExit \/ DaemonCrash \/ DaemonStart
    BY <2>2, <2>3, <2>12 DEF DaemonStop, DaemonExit, DaemonCrash, DaemonStart
  <2>13. CASE LoseMain \/ LoseRenew
    BY <2>3, <2>13 DEF LoseMain, LoseRenew
  <2> QED BY <1>3, <2>5, <2>6, <2>7, <2>8, <2>9, <2>10, <2>11, <2>12, <2>13 DEF DaemonNext
<1>4. CASE Tick
  <2> SUFFICES ASSUME NEW t \in Task, Working(t)'
               PROVE  /\ Covers(t, job.deadline)'
                      /\ renew'.leg = "reply" => Covers(t, renew.left)'
    BY DEF JobCovered
  <2>1. /\ job'.at = job.at /\ job'.task = job.task
        /\ job'.deadline = Less(job.deadline)
        /\ renew'.leg = renew.leg /\ renew'.left = Less(renew.left)
    BY <1>0, <1>4 DEF Tick, Job, Wire
  <2>2. lease'[t] = lease[t] - 1 \/ (lease'[t] = lease[t] /\ (lease[t] < 0 \/ ~claimed[t]))
    BY <1>0, <1>4 DEF Tick
  <2>3. job.deadline \in Nat /\ renew.left \in Nat /\ lease[t] \in Int
    BY <1>0 DEF Job, Wire
  <2>4. ASSUME NEW n \in Nat, Covers(t, n) PROVE Less(n) = 0 \/ Less(n) <= lease'[t]
    BY <2>2, <2>3, <2>4 DEF Covers, Less
  <2>5. Working(t)
    BY <2>1 DEF Working
  <2> QED BY <1>0, <2>1, <2>3, <2>4, <2>5 DEF JobCovered, Covers
<1>5. CASE UNCHANGED vars
  BY <1>0, <1>5 DEF vars, store, daemonVars, JobCovered, Working, Covers
<1> QED BY <1>2, <1>3, <1>4, <1>5 DEF Next

\* The view in an answer to a claim survives every step: it starts as the lease the
\* server has just written and is counted down with it.
LEMMA ClaimCoveredStep ==
  ASSUME TypeOK, Shape, LeaseView, [Next]_vars
  PROVE  ClaimCovered'
<1> USE LeaseAssumption, WireFacts
<1>0. /\ ClaimCovered /\ job \in Job /\ main \in Wire /\ lease \in [Task -> -1..Lease]
  BY LeaseViewParts DEF TypeOK
<1>1. CASE main'.leg # "reply" \/ main'.verdict # "accepted" \/ job'.at # "claiming"
  BY <1>1 DEF ClaimCovered
<1>2. ASSUME main' = main, job'.at = job.at,
             \A t \in Task : lease'[t] >= lease[t] /\ lease'[t] \in Int
      PROVE  ClaimCovered'
  <2> SUFFICES ASSUME ClaimCovered, main.leg = "reply", job.at = "claiming",
                      main.verdict = "accepted"
               PROVE  Covers(main.task, main.left)'
    BY <1>0, <1>2 DEF ClaimCovered
  <2>1. main.task \in Task /\ main.left \in Int /\ Covers(main.task, main.left)
    BY <1>0 DEF Shape, ClaimCovered, Wire
  <2>2. lease[main.task] \in Int /\ lease'[main.task] >= lease[main.task]
    BY <1>0, <1>2, <2>1
  <2> QED BY <1>2, <2>1, <2>2 DEF Covers
<1>3. CASE ServerNext
  <2>1. UNCHANGED job
    BY <1>3, ServerFrame
  <2>2. \A t \in Task : lease'[t] >= lease[t] /\ lease'[t] \in Int
    <3>1. lease' = lease \/ lease' \in [Task -> -1..Lease]
      BY <1>0, <1>3 DEF ServerNext, Execute, RequestCancellation, StopAgent, CancelWaiting, Poll,
           HandleClaim, HandleEvents, HandleComplete, HandleFail, HandleTerminal, HandleRenew,
           HandleOrphan, Grant, Extend, Record, Crash, Recover, store
    <3> QED BY <1>0, <1>3, <3>1, ServerLeaseGrows
  <2>3. CASE HandleClaim
    <3>1. ASSUME NEW t \in Task, Grant(t), AnswerMain("accepted", t, Lease)
          PROVE  ClaimCovered'
      BY <1>0, <3>1 DEF Grant, AnswerMain, ClaimCovered, Covers
    <3>2. CASE AnswerMain("rejected", NoTask, 0)
      BY <1>1, <3>2 DEF AnswerMain
    <3> QED BY <2>3, <3>1, <3>2 DEF HandleClaim
  <2>4. CASE HandleEvents \/ HandleComplete \/ HandleFail
    BY <1>1, <2>1, <2>4 DEF HandleEvents, HandleComplete, HandleFail, HandleTerminal
  <2>5. CASE Crash
    <3>1. main' = main \/ main' = Broken
      BY <2>5 DEF Crash, Refused
    <3> QED BY <1>1, <1>2, <2>1, <2>2, <3>1
  <2>6. CASE UNCHANGED main
    BY <1>2, <2>1, <2>2, <2>6
  <2> QED BY <1>3, <2>3, <2>4, <2>5, <2>6
            DEF ServerNext, Execute, RequestCancellation, StopAgent, CancelWaiting, Poll,
                HandleRenew, HandleOrphan, Recover, daemonVars
<1>4. CASE DaemonNext \/ LoseMain \/ LoseRenew \/ Refuse
  <2>1. \A t \in Task : lease'[t] >= lease[t] /\ lease'[t] \in Int
    <3>1. UNCHANGED lease
      BY <1>4, DaemonFrame DEF store
    <3> QED BY <1>0, <3>1
  <2>2. CASE UNCHANGED main /\ job'.at = job.at
    BY <1>2, <2>1, <2>2
  <2>3. CASE SendClaim \/ ReceiveClaim \/ Report \/ Complete \/ ProviderError
               \/ ReceiveEvents \/ ReceiveComplete \/ ReceiveFail \/ Abort \/ DaemonCrash
               \/ LoseMain
    BY <1>0, <1>1, <2>3 DEF SendClaim, ReceiveClaim, Report, Complete, ProviderError, SendMain,
         ReceiveEvents, ReceiveComplete, ReceiveFail, EndJob, Abort, DaemonCrash, LoseMain
  <2>4. CASE Refuse
    <3>1. UNCHANGED job /\ (main' = main \/ main' = Broken)
      BY <2>4 DEF Refuse, Refused
    <3> QED BY <1>1, <2>2, <3>1
  <2>5. CASE DaemonStop
    BY <1>1, <2>2, <2>5 DEF DaemonStop
  <2>6. CASE Wake \/ ReceiveRenew \/ RenewTimeout
    <3>1. UNCHANGED main
      BY <2>6 DEF Wake, ReceiveRenew, RenewTimeout
    <3>2. job'.at = job.at
      <4>1. CASE Wake \/ RenewTimeout
        BY <1>0, <4>1 DEF Wake, RenewTimeout, Job
      <4>2. CASE ReceiveRenew
        BY <1>0, <4>2 DEF ReceiveRenew, Renewed, Job
      <4> QED BY <2>6, <4>1, <4>2
    <3> QED BY <2>2, <3>1, <3>2
  <2>7. CASE DaemonExit \/ DaemonStart \/ LoseRenew
    BY <2>2, <2>7 DEF DaemonExit, DaemonStart, LoseRenew
  <2> QED BY <1>4, <2>3, <2>4, <2>5, <2>6, <2>7 DEF DaemonNext
<1>5. CASE Tick
  <2> SUFFICES ASSUME main'.leg = "reply", job'.at = "claiming", main'.verdict = "accepted"
               PROVE  Covers(main.task, main.left)'
    BY DEF ClaimCovered
  <2>1. /\ job'.at = job.at /\ main'.leg = main.leg /\ main'.verdict = main.verdict
        /\ main'.task = main.task /\ main'.left = Less(main.left)
    BY <1>0, <1>5 DEF Tick, Job, Wire
  <2>2. main.task \in Task /\ main.left \in Nat /\ Covers(main.task, main.left)
    BY <1>0, <2>1 DEF Shape, ClaimCovered, Wire
  <2>3. lease[main.task] \in Int
    BY <1>0, <2>2
  <2>4. \/ lease'[main.task] = lease[main.task] - 1
        \/ lease'[main.task] = lease[main.task] /\ (lease[main.task] < 0 \/ ~claimed[main.task])
    BY <1>0, <1>5, <2>2 DEF Tick
  <2>5. Less(main.left) = 0 \/ Less(main.left) <= lease'[main.task]
    BY <2>2, <2>3, <2>4 DEF Covers, Less
  <2> QED BY <2>1, <2>5 DEF Covers
<1>6. CASE UNCHANGED vars
  BY <1>0, <1>6 DEF vars, store, daemonVars, ClaimCovered, Covers
<1> QED BY <1>3, <1>4, <1>5, <1>6 DEF Next

-----------------------------------------------------------------------------
(* The theorems *)

\* Every step keeps the types.
LEMMA TypeStep ==
  ASSUME TypeOK, Shape, [Next]_vars
  PROVE  TypeOK'
<1>1. CASE ServerNext
  <2>1. ASSUME NEW t \in Task,
               Execute(t) \/ RequestCancellation(t) \/ StopAgent(t) \/ CancelWaiting(t)
        PROVE  TypeOK'
    BY <2>1, PumpType
  <2>2. CASE Poll \/ Recover
    <3>1. CASE Task = {}
      BY <2>2, <3>1 DEF TypeOK, Poll, Recover, store, serverVars, daemonVars
    <3>2. CASE Task # {}
      <4>1. PICK t \in Task : TRUE
        BY <3>2
      <4> QED BY <2>2, <4>1, PumpType
    <3> QED BY <3>1, <3>2
  <2>3. CASE Crash
    BY <2>3, FaultType
  <2> QED BY <1>1, <2>1, <2>2, <2>3, HandlerType DEF ServerNext
<1>2. CASE DaemonNext
  <2>1. CASE Report \/ Complete \/ ProviderError
    BY <2>1, ClaimLoopType DEF Report, Complete, ProviderError
  <2>2. CASE Wake \/ ReceiveRenew \/ RenewTimeout
    BY <2>2, LeaseLoopType
  <2>3. CASE DaemonStop \/ DaemonExit \/ DaemonCrash \/ DaemonStart
    BY <2>3, FaultType
  <2> QED BY <1>2, <2>1, <2>2, <2>3, ClaimLoopType DEF DaemonNext
<1>3. CASE LoseMain \/ LoseRenew \/ Refuse \/ Tick
  BY <1>3, FaultType
<1>4. CASE UNCHANGED vars
  BY <1>4 DEF vars, store, serverVars, daemonVars, TypeOK
<1> QED BY <1>1, <1>2, <1>3, <1>4 DEF Next

\* The inductive invariant holds at first ...
LEMMA InvInit == Init => Inv
<1> SUFFICES ASSUME Init PROVE Inv
  OBVIOUS
<1>1. TypeOK
  BY InitType
<1>2. Shape /\ LeaseView
  BY WireFacts DEF Init, Shape, LeaseView, IdleJob, Working
<1>3. Claims
  BY WireFacts DEF Init, Claims, IdleJob, Working
<1>4. Awaited
  BY DEF Init, Awaited
<1> QED BY <1>1, <1>2, <1>3, <1>4 DEF Inv

\* ... and every step of server, daemon, network and clock keeps it.
LEMMA InvStep == Inv /\ [Next]_vars => Inv'
<1> SUFFICES ASSUME Inv, [Next]_vars PROVE Inv'
  OBVIOUS
<1>1. TypeOK /\ Shape /\ Claims /\ LeaseView /\ Awaited /\ PumpShape /\ CallShape
  BY ShapeParts DEF Inv
<1>2. TypeOK'
  BY <1>1, TypeStep
<1>3. Shape'
  <2>1. PumpShape' /\ CallShape'
    BY <1>1, PumpShapeStep, CallShapeStep
  <2> QED BY <2>1 DEF Shape, PumpShape, CallShape
<1>4. Claims'
  <2>1. RowClaims' /\ ReplyClaims' /\ OrphansClaim'
    BY <1>1, RowClaimsStep, ReplyClaimsStep, OrphansClaimStep
  <2> QED BY <2>1 DEF Claims, RowClaims, ReplyClaims, OrphansClaim
<1>5. LeaseView'
  <2>1. JobCovered' /\ ClaimCovered'
    BY <1>1, JobCoveredStep, ClaimCoveredStep
  <2> QED BY <2>1 DEF LeaseView, JobCovered, ClaimCovered
<1>6. Awaited'
  BY <1>1, AwaitedStep
<1> QED BY <1>2, <1>3, <1>4, <1>5, <1>6 DEF Inv

\* The inductive invariant, for every instance.
THEOREM InvCorrect == Spec => []Inv
  BY InvInit, InvStep, PTL DEF Spec

\* Rows, jobs, calls and countdowns keep their types.
THEOREM LeaseTypeCorrect == Spec => []TypeOK
<1>1. Inv => TypeOK
  BY DEF Inv
<1> QED BY <1>1, InvCorrect, PTL

\* However calls are lost, late, replayed or orphaned and processes restarted, a task is
\* handed to a provider at most once, and only under its recorded claim.
THEOREM StartedOnceCorrect == Spec => []StartedOnce
<1>1. Inv => StartedOnce
  <2> SUFFICES ASSUME Inv, NEW t \in Task
               PROVE  /\ begun[t] <= 1
                      /\ Working(t) => claimed[t] /\ begun[t] = 1
                      /\ terminal[t] # "none" => begun[t] = 1
    BY DEF StartedOnce
  <2>1. /\ begun[t] \in {0, 1}
        /\ begun[t] = 1 => claimed[t]
        /\ Working(t) => begun[t] = 1
        /\ terminal[t] # "none" => begun[t] = 1
    BY DEF Inv, Claims
  <2>2. begun[t] <= 1
    BY <2>1
  <2> QED BY <2>1, <2>2, Zenon
<1> QED BY <1>1, InvCorrect, PTL

\* The server never gives a lease up that the daemon still believes in.
THEOREM NoEarlyExpiryCorrect == Spec => []NoEarlyExpiry
<1>1. Inv => NoEarlyExpiry
  <2> SUFFICES ASSUME Inv, NEW t \in Task, Working(t), lease[t] <= 0
               PROVE  job.deadline = 0 /\ (renew.leg = "reply" => renew.left = 0)
    BY DEF NoEarlyExpiry
  <2>1. Covers(t, job.deadline) /\ (renew.leg = "reply" => Covers(t, renew.left))
    BY DEF Inv, LeaseView
  <2>2. job.deadline \in Nat /\ renew.left \in Nat /\ lease[t] \in Int
    BY LeaseAssumption DEF Inv, TypeOK, Job, Wire
  <2> QED BY <2>1, <2>2 DEF Covers
<1> QED BY <1>1, InvCorrect, PTL

\* What the daemon could claim is what the pump waits for.
THEOREM ClaimsAwaitedCorrect == Spec => []ClaimsAreAwaited
<1>1. Inv => ClaimsAreAwaited
  BY DEF Inv, Awaited, ClaimsAreAwaited, Claimable
<1> QED BY <1>1, InvCorrect, PTL

\* A claimed task runs once, and a task nobody claimed never lacks a pump that waits for it:
\* what ClaimsHeld says of the run holds for every set of tasks and all durations.
THEOREM ClaimsHeldCorrect == Spec => []ClaimsHeld
  BY StartedOnceCorrect, ClaimsAwaitedCorrect, PTL DEF ClaimsHeld

-----------------------------------------------------------------------------
(* The lease protocol implements TaskContract: a claim served is Claim, a   *)
(* terminal recorded is Answer, a poll that returns and a stop of the Run   *)
(* are Pronounce; calls, leases, crashes, restarts and time are stutters.   *)

\* The mapping of KeepsTaskContract, by name.
Stage == [t \in Task |-> IF terminal[t] # "none" THEN terminal[t]
                         ELSE IF claimed[t] THEN "claimed" ELSE "open"]

Pronounced == [t \in Task |-> IF status[t] = "finished" THEN result[t]
                              ELSE IF status[t] = "cancelled" THEN "cancelled"
                              ELSE "none"]

\* A step of the contract, or none.
ContractStep ==
  Contract!Next \/ UNCHANGED <<Stage, Pronounced>>

\* The queued tasks of createTask are open and without a verdict.
LEMMA ContractInit == Init => Contract!Init
  BY DEF Init, Contract!Init

\* The rows decide both views, so steps that leave them alone stutter.
LEMMA QuietRows ==
  ASSUME UNCHANGED <<terminal, claimed>>, UNCHANGED <<status, result>>
  PROVE  ContractStep
  BY DEF ContractStep, Stage, Pronounced

\* Only status changes, and no task enters or leaves a final one (dispatch, recovery).
LEMMA QuietStatus ==
  ASSUME UNCHANGED <<terminal, claimed, result>>,
         \A t \in Task : status'[t] = status[t]
           \/ {status[t], status'[t]} \cap {"finished", "cancelled"} = {}
  PROVE  ContractStep
<1>1. Stage' = Stage
  BY DEF Stage
<1>2. Pronounced' = Pronounced
  <2>1. \A t \in Task : Pronounced'[t] = Pronounced[t]
    BY DEF Pronounced
  <2> QED BY <2>1 DEF Pronounced
<1> QED BY <1>1, <1>2 DEF ContractStep

\* A poll that returns, and a stop, pronounce a verdict on one task.
LEMMA VerdictStep ==
  ASSUME NEW t \in Task, TypeOK,
         UNCHANGED <<terminal, claimed>>,
         status[t] \in {"queued", "running"},
         \/ /\ status' = [status EXCEPT ![t] = "cancelled"]
            /\ UNCHANGED result
         \/ /\ status' = [status EXCEPT ![t] = "finished"]
            /\ result' = [result EXCEPT ![t] = Outcome(t)]
            /\ Outcome(t) # "pending"
  PROVE  ContractStep
<1> USE DEF TypeOK
<1>1. Stage' = Stage
  BY DEF Stage
<1>2. Pronounced[t] = "none"
  BY DEF Pronounced
<1>3. PICK v : /\ v \in {"lost", "cancelled"} \cup ({"output", "error"} \cap {Stage[t]})
               /\ Pronounced' = [Pronounced EXCEPT ![t] = v]
  <2>1. CASE status' = [status EXCEPT ![t] = "cancelled"] /\ UNCHANGED result
    <3>1. Pronounced' = [Pronounced EXCEPT ![t] = "cancelled"]
      BY <2>1 DEF Pronounced
    <3> QED BY <3>1
  <2>2. CASE /\ status' = [status EXCEPT ![t] = "finished"]
             /\ result' = [result EXCEPT ![t] = Outcome(t)]
             /\ Outcome(t) # "pending"
    <3>1. Pronounced' = [Pronounced EXCEPT ![t] = Outcome(t)]
      BY <2>2 DEF Pronounced
    <3>2. Outcome(t) = "lost" \/ (Outcome(t) = terminal[t] /\ terminal[t] # "none")
      BY <2>2 DEF Outcome
    <3>3. Outcome(t) = "lost" \/ Outcome(t) \in {"output", "error"} \cap {Stage[t]}
      BY <3>2 DEF Stage, TerminalKind
    <3> QED BY <3>1, <3>3
  <2> QED BY <2>1, <2>2
<1> QED BY <1>1, <1>2, <1>3
      DEF ContractStep, Contract!Next, Contract!Pronounce, Stage, Pronounced

\* A claim served is the contract's claim.
LEMMA GrantStep ==
  ASSUME NEW t \in Task, TypeOK, Claimable(t), Grant(t)
  PROVE  ContractStep
<1> USE DEF TypeOK
<1>1. Stage[t] = "open" /\ Pronounced[t] = "none"
  BY DEF Stage, Pronounced, Claimable
<1>2. Stage' = [Stage EXCEPT ![t] = "claimed"]
  BY DEF Stage, Claimable, Grant
<1>3. Pronounced' = Pronounced
  BY DEF Pronounced, Grant
<1> QED BY <1>1, <1>2, <1>3
      DEF ContractStep, Contract!Next, Contract!Claim, Stage, Pronounced

\* A terminal recorded is the contract's answer; one that is refused changes nothing.
LEMMA RecordStep ==
  ASSUME NEW t \in Task, NEW kind \in TerminalKind, TypeOK, Record(t, kind)
  PROVE  ContractStep
<1> USE DEF TypeOK
<1>1. CASE ~Recordable(t)
  BY <1>1, QuietRows DEF Record
<1>2. CASE Recordable(t)
  <2>1. Stage[t] = "claimed" /\ Pronounced[t] = "none"
    <3>1. status[t] = "running" /\ claimed[t] /\ terminal[t] = "none"
      BY <1>2 DEF Recordable, ActiveClaim, Held
    <3>2. Stage[t] = "claimed"
      BY <3>1, Zenon DEF Stage
    <3> QED BY <3>1, <3>2 DEF Pronounced
  <2>2. Stage' = [Stage EXCEPT ![t] = kind]
    BY <1>2 DEF Stage, Record, TerminalKind
  <2>3. Pronounced' = Pronounced
    BY DEF Pronounced, Record
  <2>4. \E k \in {"output", "error"} : Stage' = [Stage EXCEPT ![t] = k]
    BY <2>2 DEF TerminalKind
  <2> QED BY <2>1, <2>3, <2>4, Zenon
        DEF ContractStep, Contract!Next, Contract!Answer, Stage, Pronounced
<1> QED BY <1>1, <1>2

\* Every step of the protocol is one of the contract or a stutter.
LEMMA ProtocolStep ==
  ASSUME Inv, [Next]_vars
  PROVE  ContractStep
<1>0. TypeOK /\ Shape /\ Claims
  BY DEF Inv
<1>1. ASSUME NEW t \in Task, Execute(t) PROVE ContractStep
  BY <1>0, <1>1, QuietStatus DEF Execute, TypeOK
<1>2. ASSUME NEW t \in Task, RequestCancellation(t) PROVE ContractStep
  BY <1>2, QuietRows DEF RequestCancellation
<1>3. ASSUME NEW t \in Task, StopAgent(t) PROVE ContractStep
  <2>1. status[t] = "running"
    BY <1>0, <1>3, LeaseAssumption DEF StopAgent, Shape
  <2> QED BY <1>0, <1>3, <2>1, VerdictStep DEF StopAgent
<1>4. ASSUME NEW t \in Task, CancelWaiting(t) PROVE ContractStep
  BY <1>0, <1>4, VerdictStep DEF CancelWaiting
<1>5. CASE Poll
  <2>1. executing \in Task
    BY <1>0, <1>5 DEF Poll, TypeOK
  <2>2. CASE status[executing] = "cancelled"
    BY <1>5, <2>2, QuietRows DEF Poll
  <2>3. CASE status[executing] # "cancelled"
    <3>1. status[executing] = "running"
      BY <1>0, <1>5, <2>3 DEF Poll, Shape
    <3> QED BY <1>0, <1>5, <2>1, <2>3, <3>1, VerdictStep DEF Poll
  <2> QED BY <2>2, <2>3
<1>6. CASE HandleClaim
  BY <1>0, <1>6, GrantStep, QuietRows DEF HandleClaim, store
<1>7. ASSUME NEW at, NEW kind \in TerminalKind, HandleTerminal(at, kind),
             at \in {"completing", "failing"}
      PROVE  ContractStep
  BY <1>0, <1>7, JobTask, RecordStep DEF HandleTerminal
<1>8. CASE HandleComplete \/ HandleFail
  BY <1>7, <1>8 DEF HandleComplete, HandleFail, TerminalKind
<1>9. CASE HandleEvents \/ HandleRenew
  BY <1>9, QuietRows DEF HandleEvents, HandleRenew, Extend, store
<1>10. ASSUME NEW call \in orphans, HandleOrphan(call) PROVE ContractStep
  <2>1. CASE \E t \in Task : Claimable(t) /\ Grant(t)
    BY <1>0, <2>1, GrantStep
  <2>2. CASE UNCHANGED store \/ Extend(call.task)
    BY <2>2, QuietRows DEF store, Extend
  <2>3. CASE call.kind \in TerminalKind /\ Record(call.task, call.kind)
    <3>1. call.task \in Task
      BY <1>0, <2>3 DEF Claims
    <3> QED BY <1>0, <2>3, <3>1, RecordStep
  <2> QED BY <1>10, <2>1, <2>2, <2>3 DEF HandleOrphan
<1>11. CASE Crash \/ Tick
  BY <1>11, QuietRows DEF Crash, Tick, store
<1>12. CASE Recover
  BY <1>0, <1>12, QuietStatus DEF Recover, TypeOK
<1>13. CASE DaemonNext \/ LoseMain \/ LoseRenew \/ Refuse
  BY <1>13, DaemonFrame, QuietRows DEF store
<1>14. CASE UNCHANGED vars
  BY <1>14, QuietRows DEF vars, store
<1> QED BY <1>1, <1>2, <1>3, <1>4, <1>5, <1>6, <1>8, <1>9, <1>10, <1>11, <1>12, <1>13, <1>14
          DEF Next, ServerNext

\* Whatever the daemon, the network, the operator and the clock do, a task has one claim,
\* one terminal and one verdict, in this order, and the verdict stands
\* (LocalDaemonStore, LocalDaemonOrchestrationProvider).
THEOREM KeepsContract == Spec => KeepsTaskContract
<1>1. Inv /\ [Next]_vars => [Contract!Next]_<<Stage, Pronounced>>
  BY ProtocolStep DEF ContractStep
<1> QED BY <1>1, ContractInit, InvCorrect, PTL
      DEF Spec, KeepsTaskContract, Contract!Spec, Stage, Pronounced
===============================================================================
