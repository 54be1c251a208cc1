------------------------- MODULE EnvironmentRunProofs -------------------------
(***************************************************************************)
(* Proofs about EnvironmentRun for every set of Runs and every shape of the *)
(* Environment: its types, that the three pointers of a Run always agree    *)
(* with the rows they point at, that Actions are executed in order, that    *)
(* the history of every Run accounts for where it is, that the pump forgets *)
(* no dispatched Agent, and that a Run keeps RunContract.                   *)
(***************************************************************************)
EXTENDS EnvironmentGates, FiniteSetTheorems, TLAPS

(* Sequences and the tables of rows.                                       *)

\* Replacing an element keeps a sequence over the same set.
LEMMA ReplaceElement ==
  ASSUME NEW S, NEW s \in Seq(S), NEW i \in Nat, NEW e, i \in DOMAIN s => e \in S
  PROVE  [s EXCEPT ![i] = e] \in Seq(S)
<1>1. CASE i \in DOMAIN s
  BY <1>1
<1>2. CASE i \notin DOMAIN s
  <2>1. [s EXCEPT ![i] = e] = s
    BY <1>2
  <2> QED BY <2>1
<1> QED BY <1>1, <1>2

\* Every row of a well-typed table has its type.
LEMMA RowTypes ==
  ASSUME TypeOK
  PROVE  /\ \A r \in Run : run[r] \in RunRow
         /\ \A r \in Run : \A a \in Action : action[r][a] \in ActionRow
         /\ \A i \in AgentId : agent[i] \in AgentRow /\ i \in Nat \ {0}
         /\ AgentId = 1..Len(agent) /\ Len(agent) \in Nat
  BY DEF TypeOK, AgentId

\* Writing a well-typed row keeps environment_runs well-typed.
LEMMA SetRun ==
  ASSUME TypeOK, NEW r \in Run, NEW row \in RunRow
  PROVE  [run EXCEPT ![r] = row] \in [Run -> RunRow]
  BY DEF TypeOK

\* The same for the status of one State.
LEMMA SetState ==
  ASSUME TypeOK, NEW r \in Run, NEW s \in State, NEW status \in StateStatus
  PROVE  [state EXCEPT ![r][s] = status] \in [Run -> [State -> StateStatus]]
  BY DEF TypeOK

\* The same for the status, or the status and attempt, of one Action.
LEMMA SetAction ==
  ASSUME TypeOK, NEW r \in Run, NEW a \in Action, NEW status \in ActionStatus, NEW n \in Nat
  PROVE  /\ [action EXCEPT ![r][a] = [@ EXCEPT !.status = status]]
              \in [Run -> [Action -> ActionRow]]
         /\ [action EXCEPT ![r][a] = [@ EXCEPT !.status = status, !.attempt = n]]
              \in [Run -> [Action -> ActionRow]]
<1>1. [action[r][a] EXCEPT !.status = status] \in ActionRow
  BY RowTypes DEF ActionRow
<1>2. [action[r][a] EXCEPT !.status = status, !.attempt = n] \in ActionRow
  BY RowTypes DEF ActionRow
<1> QED BY <1>1, <1>2 DEF TypeOK

\* The same for one row of agent_runs.
LEMMA SetAgent ==
  ASSUME TypeOK, NEW i \in Nat, NEW row, i \in AgentId => row \in AgentRow
  PROVE  [agent EXCEPT ![i] = row] \in Seq(AgentRow)
  BY ReplaceElement DEF TypeOK, AgentId

\* The event count of a Run stays a number.
LEMMA CountType ==
  ASSUME TypeOK, NEW r \in Run, NEW n \in Nat
  PROVE  CountAfter(r, n) \in Nat
  BY RowTypes DEF CountAfter, RunRow

\* Every update of an environment_runs row in the model is well-typed.
LEMMA RunRowTypes ==
  ASSUME NEW row \in RunRow, NEW n \in Nat
  PROVE  /\ [row EXCEPT !.count = n] \in RunRow
         /\ \A i \in Nat : [row EXCEPT !.agent = i, !.count = n] \in RunRow
         /\ [row EXCEPT !.state = 0, !.action = 0, !.agent = 0, !.count = n] \in RunRow
         /\ [row EXCEPT !.action = 0, !.agent = 0, !.count = n] \in RunRow
         /\ \A status \in RunStatus :
              /\ [row EXCEPT !.status = status, !.count = n] \in RunRow
              /\ [row EXCEPT !.status = status, !.final = "completed", !.count = n] \in RunRow
              /\ [row EXCEPT !.status = status, !.action = 0, !.agent = 0, !.count = n] \in RunRow
              /\ [row EXCEPT !.status = status, !.state = 0, !.action = 0, !.agent = 0,
                             !.count = n] \in RunRow
              /\ \A s \in State, a \in Action :
                   [row EXCEPT !.status = status, !.state = s, !.action = a, !.count = n] \in RunRow
  BY DEF RunRow

\* The verdict of the finalizer keeps the row well-typed.
LEMMA FinalRowTypes ==
  ASSUME NEW row \in RunRow
  PROVE  [row EXCEPT !.final = "running"] \in RunRow /\ [row EXCEPT !.final = "failed"] \in RunRow
  BY DEF RunRow

-----------------------------------------------------------------------------
(* Every state of the specification is well-typed.                         *)

\* The database is empty and well-typed when the server first starts.
LEMMA InitType == Init => TypeOK
<1> SUFFICES ASSUME Init PROVE TypeOK
  OBVIOUS
<1> USE DEF Init
<1>1. run \in [Run -> RunRow]
  BY DEF RunRow, RunStatus
<1>2. state \in [Run -> [State -> StateStatus]]
  BY DEF StateStatus
<1>3. action \in [Run -> [Action -> ActionRow]]
  BY DEF ActionRow, ActionStatus
<1>4. agent \in Seq(AgentRow) /\ queue \in Seq(Nat) /\ feedback \subseteq FeedbackRow
  OBVIOUS
<1>5. pc \in PumpPoint /\ held \in HeldRow
  BY DEF PumpPoint, AwaitPoint, Nothing, HeldRow
<1>6. call \in CallRow
  BY DEF NoCall, CallPoint, CallRow
<1> QED BY <1>1, <1>2, <1>3, <1>4, <1>5, <1>6 DEF TypeOK

\* A created Agent Run has its type.
LEMMA NewAgentType ==
  ASSUME TypeOK, NEW r \in Run, NEW a \in Action, NEW phase \in Phase, NEW parent \in Nat
  PROVE  NewAgent(r, a, phase, parent) \in AgentRow
<1>1. action[r][a].attempt \in Nat
  BY RowTypes DEF ActionRow
<1> QED BY <1>1 DEF NewAgent, AgentRow, AgentStatus, LiveStatus, TaskStatus, Outcome, Prompt

\* What the pump calls, and what it holds, has its type.
LEMMA CallTypes ==
  ASSUME TypeOK
  PROVE  /\ NoCall \in CallRow /\ Nothing \in HeldRow
         /\ \A i \in AgentId : ApplyCall(i) \in CallRow /\ ProgressCall(i) \in CallRow
         /\ \A r \in Run \cup {NoRun} : \A i \in Nat : [run |-> r, task |-> i] \in HeldRow
  BY RowTypes
  DEF NoCall, Nothing, ApplyCall, ProgressCall, AgentRow, CallPoint, CallRow, HeldRow

\* The process ends in a well-typed state.
LEMMA EndType ==
  ASSUME NEW point \in {"off", "exited"}, End(point)
  PROVE  /\ queue' \in Seq(Nat) /\ pc' \in PumpPoint /\ held' \in HeldRow
         /\ call' \in CallRow /\ stopping' \in BOOLEAN
<1>1. queue' \in Seq(Nat)
  BY DEF End
<1>5. stopping' \in BOOLEAN
  BY DEF End
<1>2. pc' \in PumpPoint
  BY DEF End, PumpPoint
<1>3. held' \in HeldRow
  BY DEF End, Nothing, HeldRow
<1>4. call' \in CallRow
  BY DEF End, NoCall, CallRow, CallPoint
<1> QED BY <1>1, <1>2, <1>3, <1>4, <1>5

\* progress keeps the types.
LEMMA ProgressType ==
  ASSUME TypeOK, NEW r \in Run, ProgressStep(r)
  PROVE  TypeOK'
<1> USE DEF durable, volatile
<1>a. run[r] \in RunRow
  BY RowTypes
<1>1. CASE ProgressReturns(r)
  BY <1>1, CallTypes DEF ProgressReturns, TypeOK
<1>2. ASSUME NEW s \in State, CompleteState(r, s) PROVE TypeOK'
  <2>1. run' \in [Run -> RunRow]
    <3>1. CountAfter(r, 1) \in Nat
      BY CountType
    <3> QED BY <1>2, <1>a, <3>1, RunRowTypes, SetRun DEF CompleteState
  <2>2. state' \in [Run -> [State -> StateStatus]]
    BY <1>2, SetState DEF CompleteState, StateStatus
  <2> QED BY <1>2, <2>1, <2>2 DEF CompleteState, TypeOK
<1>3. CASE ClaimFinalization(r)
  <2>2. run' \in [Run -> RunRow]
    BY <1>3, <1>a, FinalRowTypes, SetRun DEF ClaimFinalization
  <2>3. call' \in CallRow /\ held' \in HeldRow
    BY <1>3, CallTypes DEF ClaimFinalization
  <2>4. pc' \in PumpPoint
    BY <1>3 DEF ClaimFinalization, PumpPoint, AwaitPoint
  <2> QED BY <1>3, <2>2, <2>3, <2>4 DEF ClaimFinalization, TypeOK
<1>4. ASSUME NEW s \in State, NEW a \in Action, Advance(r, s, a) PROVE TypeOK'
  <2>1. "running" \in RunStatus /\ "prechecking" \in ActionStatus
    BY DEF RunStatus, ActionStatus, ActiveStatus
  <2>2. SelectionEvents(r, s) \in Nat
    BY DEF SelectionEvents
  <2>3. CountAfter(r, SelectionEvents(r, s)) \in Nat
    BY <2>2, CountType
  <2>4. run' \in [Run -> RunRow]
    BY <1>4, <1>a, <2>1, <2>3, RunRowTypes, SetRun DEF Advance
  <2>5. state' \in [Run -> [State -> StateStatus]]
    BY <1>4, SetState DEF Advance, StateStatus
  <2>6. action' \in [Run -> [Action -> ActionRow]]
    BY <1>4, <2>1, SetAction DEF Advance
  <2>7. call' \in CallRow
    BY <1>4 DEF Advance, TypeOK, CallRow, CallPoint
  <2> QED BY <1>4, <2>4, <2>5, <2>6, <2>7 DEF Advance, TypeOK
<1>5. ASSUME NEW a \in Action, DispatchPrecheck(r, a) PROVE TypeOK'
  <2>1. Len(agent) + 1 \in Nat
    BY RowTypes
  <2>2. run' \in [Run -> RunRow]
    <3>1. CountAfter(r, 1) \in Nat
      BY CountType
    <3> QED BY <1>5, <1>a, <2>1, <3>1, RunRowTypes, SetRun DEF DispatchPrecheck
  <2>3. NewAgent(r, a, "precheck", 0) \in AgentRow
    BY NewAgentType DEF Phase
  <2>4. agent' \in Seq(AgentRow)
    BY <1>5, <2>3 DEF DispatchPrecheck, TypeOK
  <2>5. queue' \in Seq(Nat)
    BY <1>5, <2>1 DEF DispatchPrecheck, TypeOK
  <2>6. call' \in CallRow
    BY <1>5, CallTypes DEF DispatchPrecheck
  <2> QED BY <1>5, <2>2, <2>4, <2>5, <2>6 DEF DispatchPrecheck, TypeOK
<1>6. CASE ProgressRefused(r)
  BY <1>6, EndType DEF ProgressRefused, Die, TypeOK
<1>7. CASE PrecheckTooLong(r)
  <2>1. CASE Die
    BY <1>7, <2>1, EndType DEF PrecheckTooLong, Die, TypeOK
  <2>2. CASE call' = NoCall /\ UNCHANGED <<queue, pc, held, stopping>>
    BY <1>7, <2>2, CallTypes DEF PrecheckTooLong, TypeOK
  <2> QED BY <1>7, <2>1, <2>2 DEF PrecheckTooLong
<1> QED BY <1>1, <1>2, <1>3, <1>4, <1>5, <1>6, <1>7 DEF ProgressStep

\* An iteration of the pump keeps the types.
LEMMA PumpType ==
  ASSUME TypeOK, PumpStep
  PROVE  TypeOK'
<1> USE DEF durable, volatile
<1>a. queue # <<>> => Tail(queue) \in Seq(Nat)
  BY DEF TypeOK
<1>1. ASSUME NEW i \in AgentId, TakeAnswered(i) PROVE TypeOK'
  <2>1. call' \in CallRow
    BY <1>1, CallTypes DEF TakeAnswered
  <2> QED BY <1>a, <1>1, <2>1 DEF TakeAnswered, TypeOK, PumpPoint
<1>2. ASSUME NEW i \in AgentId, TakeRunnable(i) PROVE TypeOK'
  <2>1. agent[i] \in AgentRow /\ i \in Nat
    BY RowTypes
  <2>2. [agent[i] EXCEPT !.task = "running", !.status = "running"] \in AgentRow
    BY <2>1 DEF AgentRow, AgentStatus, LiveStatus, TaskStatus
  <2>3. agent' \in Seq(AgentRow)
    BY <1>2, <2>1, <2>2, SetAgent DEF TakeRunnable
  <2>4. agent[i].run \in Run
    BY <2>1 DEF AgentRow
  <2>5. held' \in HeldRow
    BY <1>2, <2>1, <2>4, CallTypes DEF TakeRunnable
  <2>6. pc' \in PumpPoint
    BY <1>2 DEF TakeRunnable, PumpPoint, AwaitPoint
  <2> QED BY <1>a, <1>2, <2>3, <2>5, <2>6 DEF TakeRunnable, TypeOK
<1>3. ASSUME NEW i \in AgentId, TakeCancelled(i) PROVE TypeOK'
  BY <1>a, <1>3 DEF TakeCancelled, TypeOK, PumpPoint
<1>4. CASE PumpRests
  BY <1>4 DEF PumpRests, TypeOK, PumpPoint, AwaitPoint
<1> QED BY <1>1, <1>2, <1>3, <1>4 DEF PumpStep

\* The persisted answer, and whether the prompt it asks for fits.
LEMMA AnswerRow ==
  ASSUME NEW i \in AgentId, NEW o \in Outcome, ProviderAnswers(i, o)
  PROVE  \E p \in Prompt :
           agent' = [agent EXCEPT ![i] = [@ EXCEPT !.outcome = o, !.prompt = p,
                       !.task = IF o \in Failure THEN "failed" ELSE "succeeded"]]
<1>1. PromptsFor(o) \subseteq Prompt
  BY DEF PromptsFor, Prompt
<1> QED BY <1>1 DEF ProviderAnswers

\* The return of a provider execution keeps the types.
LEMMA ProviderType ==
  ASSUME TypeOK, ProviderStep
  PROVE  TypeOK'
<1> USE DEF durable, volatile
<1>a. Returned => pc' \in PumpPoint /\ held' \in HeldRow
  BY CallTypes DEF Returned, PumpPoint
<1>1. ASSUME NEW i \in AgentId, ProviderIgnored(i) PROVE TypeOK'
  BY <1>a, <1>1 DEF ProviderIgnored, TypeOK
<1>2. ASSUME NEW i \in AgentId, NEW o \in Outcome, ProviderAnswers(i, o) PROVE TypeOK'
  <2>1. agent[i] \in AgentRow /\ i \in Nat
    BY RowTypes
  <2>2. PICK p \in Prompt :
          agent' = [agent EXCEPT ![i] = [@ EXCEPT !.outcome = o, !.prompt = p,
                      !.task = IF o \in Failure THEN "failed" ELSE "succeeded"]]
    BY <1>2, AnswerRow
  <2>3. \A t \in TaskStatus : [agent[i] EXCEPT !.outcome = o, !.prompt = p, !.task = t] \in AgentRow
    BY <2>1 DEF AgentRow
  <2>6. (IF o \in Failure THEN "failed" ELSE "succeeded") \in TaskStatus
    BY DEF TaskStatus
  <2>4. agent' \in Seq(AgentRow)
    BY <2>1, <2>2, <2>3, <2>6, SetAgent
  <2>5. call' \in CallRow
    BY <1>2, CallTypes DEF ProviderAnswers
  <2> QED BY <1>a, <1>2, <2>4, <2>5 DEF ProviderAnswers, TypeOK
<1>3. ASSUME NEW i \in AgentId, WorkAsks(i) PROVE TypeOK'
  <2>1. agent[i] \in AgentRow /\ i \in Nat
    BY RowTypes
  <2>2. [agent[i] EXCEPT !.outcome = "needs_input", !.status = "waiting_for_input",
                         !.task = "waiting_for_input"] \in AgentRow
    BY <2>1 DEF AgentRow, Outcome, AgentStatus, TaskStatus
  <2>3. agent' \in Seq(AgentRow)
    BY <1>3, <2>1, <2>2, SetAgent DEF WorkAsks
  <2>4. agent[i].run \in Run
    BY <2>1 DEF AgentRow
  <2>5. CountAfter(agent[i].run, 1) \in Nat
    BY <2>4, CountType
  <2>6. run[agent[i].run] \in RunRow
    BY <2>4, RowTypes
  <2>7. run' \in [Run -> RunRow]
    BY <1>3, <2>4, <2>5, <2>6, RunRowTypes, SetRun DEF WorkAsks
  <2> QED BY <1>a, <1>3, <2>3, <2>7 DEF WorkAsks, TypeOK
<1>4. ASSUME NEW i \in AgentId, WorkAskRefused(i) PROVE TypeOK'
  BY <1>4, EndType DEF WorkAskRefused, Die, TypeOK
<1> QED BY <1>1, <1>2, <1>3, <1>4 DEF ProviderStep

\* The number of events an outcome appends is a number.
LEMMA ApplyEventsType == \A i : ApplyEvents(i) \in Nat
  BY DEF ApplyEvents

\* Applying an outcome keeps the types.
LEMMA ApplyType ==
  ASSUME TypeOK, ApplyStep
  PROVE  TypeOK'
<1> USE DEF durable, volatile
<1> SUFFICES ASSUME NEW i \in AgentId,
                    FinishAction(i) \/ DispatchNext(i) \/ BlockAction(i) \/ ApplyRefused(i)
             PROVE  TypeOK'
  BY DEF ApplyStep
<1> DEFINE r == agent[i].run
           a == agent[i].action
<1>a. /\ agent[i] \in AgentRow /\ i \in Nat /\ Len(agent) + 1 \in Nat
      /\ r \in Run /\ a \in Action /\ run[r] \in RunRow /\ action[r][a] \in ActionRow
  <2>1. agent[i] \in AgentRow /\ i \in Nat /\ Len(agent) + 1 \in Nat
    BY RowTypes
  <2>2. r \in Run /\ a \in Action
    BY <2>1 DEF AgentRow
  <2> QED BY <2>1, <2>2, RowTypes
<1>b. CountAfter(r, ApplyEvents(i)) \in Nat
  BY <1>a, ApplyEventsType, CountType
<1>c. /\ [agent[i] EXCEPT !.status = "completed"] \in AgentRow
      /\ [agent[i] EXCEPT !.status = "failed"] \in AgentRow
  BY <1>a DEF AgentRow, AgentStatus
<1>d. /\ [agent EXCEPT ![i] = [agent[i] EXCEPT !.status = "completed"]] \in Seq(AgentRow)
      /\ [agent EXCEPT ![i] = [agent[i] EXCEPT !.status = "failed"]] \in Seq(AgentRow)
  BY <1>a, <1>c, SetAgent
<1>e. NoCall \in CallRow /\ ProgressCall(i) \in CallRow
  BY CallTypes
<1>1. CASE FinishAction(i)
  <2>1. agent' \in Seq(AgentRow)
    BY <1>1, <1>d DEF FinishAction
  <2>2. "done" \in ActionStatus /\ 0 \in Nat
    BY DEF ActionStatus
  <2>3. action' \in [Run -> [Action -> ActionRow]]
    BY <1>1, <1>a, <2>2, SetAction DEF FinishAction
  <2>4. run' \in [Run -> RunRow]
    BY <1>1, <1>a, <1>b, RunRowTypes, SetRun DEF FinishAction
  <2>5. call' \in CallRow
    BY <1>1, <1>e DEF FinishAction
  <2> QED BY <1>1, <2>1, <2>3, <2>4, <2>5 DEF FinishAction, TypeOK
<1>2. CASE DispatchNext(i)
  <2>1. NextPhase(i) \in Phase /\ StatusDuring(NextPhase(i)) \in ActionStatus
    BY DEF NextPhase, Phase, StatusDuring, ActionStatus, ActiveStatus
  <2>2. NewAgent(r, a, NextPhase(i), i) \in AgentRow
    BY <1>a, <2>1, NewAgentType
  <2>3. agent' = Append([agent EXCEPT ![i] = [agent[i] EXCEPT !.status = "completed"]],
                        NewAgent(r, a, NextPhase(i), i))
    BY <1>2 DEF DispatchNext
  <2>4. agent' \in Seq(AgentRow)
    BY <1>d, <2>2, <2>3
  <2>5. AttemptAfter(i) \in Nat
    BY <1>a DEF AttemptAfter, AttemptOf, ActionRow
  <2>6. action' \in [Run -> [Action -> ActionRow]]
    BY <1>2, <1>a, <2>1, <2>5, SetAction DEF DispatchNext
  <2>7. run' \in [Run -> RunRow]
    BY <1>2, <1>a, <1>b, RunRowTypes, SetRun DEF DispatchNext
  <2>8. queue' \in Seq(Nat)
    BY <1>2, <1>a DEF DispatchNext, TypeOK
  <2>9. call' \in CallRow
    BY <1>2, <1>e DEF DispatchNext
  <2> QED BY <1>2, <2>4, <2>6, <2>7, <2>8, <2>9 DEF DispatchNext, TypeOK
<1>3. CASE BlockAction(i)
  <2>1. agent' \in Seq(AgentRow)
    BY <1>3, <1>d DEF BlockAction
  <2>2. "blocked" \in ActionStatus /\ "blocked" \in StateStatus /\ "blocked" \in RunStatus
        /\ 0 \in Nat
    BY DEF ActionStatus, StateStatus, RunStatus
  <2>3. action' \in [Run -> [Action -> ActionRow]]
    BY <1>3, <1>a, <2>2, SetAction DEF BlockAction
  <2>4. StateOf[a] \in State
    BY <1>a, StateOfAssumption
  <2>5. state' \in [Run -> [State -> StateStatus]]
    BY <1>3, <1>a, <2>2, <2>4, SetState DEF BlockAction
  <2>6. run' \in [Run -> RunRow]
    BY <1>3, <1>a, <1>b, <2>2, RunRowTypes, SetRun DEF BlockAction
  <2>7. [agent |-> i, source |-> BlockSource(i)] \in FeedbackRow
    BY <1>a DEF FeedbackRow, FeedbackSource, BlockSource
  <2>8. feedback' \subseteq FeedbackRow
    BY <1>3, <2>7 DEF BlockAction, TypeOK
  <2>9. call' \in CallRow
    BY <1>3, <1>e DEF BlockAction
  <2> QED BY <1>3, <2>1, <2>3, <2>5, <2>6, <2>8, <2>9 DEF BlockAction, TypeOK
<1>4. CASE ApplyRefused(i)
  BY <1>4, EndType DEF ApplyRefused, Die, TypeOK
<1> QED BY <1>1, <1>2, <1>3, <1>4

\* The finalizer's return keeps the types.
LEMMA FinalizeType ==
  ASSUME TypeOK, NEW r \in Run, FinalizeStep(r)
  PROVE  TypeOK'
<1> USE DEF durable, volatile
<1>a. run[r] \in RunRow
  BY RowTypes
<1>1. CASE FinalizeSucceeds(r)
  <2>1. "completed" \in RunStatus /\ CountAfter(r, 1) \in Nat
    BY CountType DEF RunStatus
  <2>2. run' \in [Run -> RunRow]
    BY <1>1, <1>a, <2>1, RunRowTypes, SetRun DEF FinalizeSucceeds
  <2>3. pc' \in PumpPoint /\ held' \in HeldRow
    BY <1>1, CallTypes DEF FinalizeSucceeds, PumpPoint, AwaitPoint
  <2> QED BY <1>1, <2>2, <2>3 DEF FinalizeSucceeds, TypeOK
<1>2. CASE FinalizeFails(r)
  <2>1. run' \in [Run -> RunRow]
    BY <1>2, <1>a, FinalRowTypes, SetRun DEF FinalizeFails
  <2> QED BY <1>2, <2>1, EndType DEF FinalizeFails, Die, TypeOK
<1>3. CASE FinalizeStale(r)
  BY <1>3, EndType DEF FinalizeStale, Die, TypeOK
<1> QED BY <1>1, <1>2, <1>3 DEF FinalizeStep

\* FlowCoordinator.stop writes well-typed rows.
LEMMA StopType ==
  ASSUME TypeOK, NEW r \in Run, NEW kind \in {"cancelled", "interrupted"}, Stop(r, kind)
  PROVE  /\ run' \in [Run -> RunRow] /\ state' \in [Run -> [State -> StateStatus]]
         /\ action' \in [Run -> [Action -> ActionRow]] /\ agent' \in Seq(AgentRow)
<1>a. run[r] \in RunRow
  BY RowTypes
<1>b. /\ run[r].agent \in Nat /\ run[r].state \in State \cup {0}
      /\ run[r].action \in Action \cup {0}
  BY <1>a DEF RunRow
<1>c. kind \in RunStatus /\ kind \in StateStatus /\ kind \in ActionStatus /\ kind \in AgentStatus
  BY DEF RunStatus, StateStatus, ActionStatus, AgentStatus
<1>1. run' \in [Run -> RunRow]
  <2>1. CountAfter(r, 1) \in Nat
    BY CountType
  <2> QED BY <1>a, <1>c, <2>1, RunRowTypes, SetRun DEF Stop
<1>2. state' \in [Run -> [State -> StateStatus]]
  <2>1. CASE run[r].state = 0
    BY <2>1 DEF Stop, TypeOK
  <2>2. CASE run[r].state # 0
    <3>1. run[r].state \in State
      BY <1>b, <2>2
    <3> QED BY <1>c, <2>2, <3>1, SetState DEF Stop
  <2> QED BY <2>1, <2>2
<1>3. action' \in [Run -> [Action -> ActionRow]]
  <2>1. CASE run[r].action = 0
    BY <2>1 DEF Stop, TypeOK
  <2>2. CASE run[r].action # 0
    <3>1. run[r].action \in Action /\ 0 \in Nat
      BY <1>b, <2>2
    <3>2. action' = [action EXCEPT ![r][run[r].action] = [@ EXCEPT !.status = kind]]
      BY <2>2 DEF Stop
    <3> QED BY <1>c, <3>1, <3>2, SetAction
  <2> QED BY <2>1, <2>2
<1>4. agent' \in Seq(AgentRow)
  <2>1. CASE run[r].agent = 0
    BY <2>1 DEF Stop, TypeOK
  <2>2. CASE run[r].agent # 0
    <3> DEFINE i == run[r].agent
    <3>1. ASSUME i \in AgentId PROVE StopAgent(i, kind) \in AgentRow
      <4>1. agent[i] \in AgentRow
        BY <3>1, RowTypes
      <4>2. \A x \in AgentStatus, t \in TaskStatus :
              [agent[i] EXCEPT !.status = x, !.task = t] \in AgentRow
        BY <4>1 DEF AgentRow
      <4>3. /\ agent[i].status \in AgentStatus /\ agent[i].task \in TaskStatus
            /\ "cancelled" \in TaskStatus
        BY <4>1 DEF AgentRow, TaskStatus
      <4> QED BY <1>c, <4>2, <4>3 DEF StopAgent
    <3>2. agent' = [agent EXCEPT ![i] = StopAgent(i, kind)]
      BY <2>2 DEF Stop
    <3> QED BY <1>b, <3>1, <3>2, SetAgent
  <2> QED BY <2>1, <2>2
<1> QED BY <1>1, <1>2, <1>3, <1>4

\* The HTTP handlers keep the types.
LEMMA HttpType ==
  ASSUME TypeOK, HttpStep
  PROVE  TypeOK'
<1> USE DEF durable, volatile
<1>1. ASSUME NEW r \in Run, Cancel(r) PROVE TypeOK'
  BY <1>1, StopType DEF Cancel, TypeOK
<1>2. ASSUME NEW r \in Run, NEW imported \in Importable, Start(r, imported) PROVE TypeOK'
  <2>1. imported \subseteq Action
    BY DEF Importable, DoneIn
  <2>2. IsFiniteSet(imported)
    <3>1. 1 \in Int /\ NumActions \in Int
      BY ConstantsAssumption
    <3>2. IsFiniteSet(Action)
      BY <3>1, FS_Interval DEF Action
    <3>3. imported \in SUBSET Action
      BY <2>1
    <3> QED BY <3>2, <3>3, FS_Subset
  <2>3. 1 + Cardinality(imported) \in Nat
    BY <2>2, FS_CardinalityType
  <2>4. run[r] \in RunRow /\ "pending" \in RunStatus
    BY RowTypes DEF RunStatus
  <2>5. run' \in [Run -> RunRow]
    BY <1>2, <2>3, <2>4, RunRowTypes, SetRun DEF Start
  <2>6. state' \in [Run -> [State -> StateStatus]]
    BY <1>2 DEF Start, TypeOK, StateStatus
  <2>7. [a \in Action |->
           [status |-> IF a \in imported THEN "done" ELSE "pending", attempt |-> 0,
            imported |-> a \in imported]] \in [Action -> ActionRow]
    BY DEF ActionRow, ActionStatus
  <2>8. action' \in [Run -> [Action -> ActionRow]]
    BY <1>2, <2>7 DEF Start, TypeOK
  <2>9. call' \in CallRow
    BY <1>2 DEF Start, CallRow, CallPoint
  <2> QED BY <1>2, <2>5, <2>6, <2>8, <2>9 DEF Start, TypeOK
<1>3. ASSUME NEW i \in AgentId, Answer(i) PROVE TypeOK'
  <2> DEFINE r == agent[i].run
             a == agent[i].action
  <2>1. agent[i] \in AgentRow /\ i \in Nat /\ Len(agent) + 1 \in Nat
    BY RowTypes
  <2>2. r \in Run /\ a \in Action
    BY <2>1 DEF AgentRow
  <2>3. run[r] \in RunRow /\ CountAfter(r, 2) \in Nat
    BY <2>2, RowTypes, CountType
  <2>4. NewAgent(r, a, "work", i) \in AgentRow
    BY <2>1, <2>2, NewAgentType DEF Phase
  <2>5. [agent[i] EXCEPT !.status = "completed", !.task = "succeeded"] \in AgentRow
    BY <2>1 DEF AgentRow, AgentStatus, TaskStatus
  <2>6. [agent EXCEPT ![i] = [agent[i] EXCEPT !.status = "completed", !.task = "succeeded"]]
          \in Seq(AgentRow)
    BY <2>1, <2>5, SetAgent
  <2>7. agent' = Append([agent EXCEPT ![i] = [agent[i] EXCEPT !.status = "completed",
                                                              !.task = "succeeded"]],
                        NewAgent(r, a, "work", i))
    BY <1>3 DEF Answer, ResumeWorkInput
  <2>8. agent' \in Seq(AgentRow)
    BY <2>4, <2>6, <2>7
  <2>9. run' \in [Run -> RunRow]
    BY <1>3, <2>1, <2>2, <2>3, RunRowTypes, SetRun DEF Answer, ResumeWorkInput
  <2>10. queue' \in Seq(Nat)
    BY <1>3, <2>1 DEF Answer, ResumeWorkInput, TypeOK
  <2> QED BY <1>3, <2>8, <2>9, <2>10 DEF Answer, ResumeWorkInput, TypeOK
<1> QED BY <1>1, <1>2, <1>3 DEF HttpStep

\* Graceful shutdown keeps the types.
LEMMA ShutdownType ==
  ASSUME TypeOK, Shutdown \/ ShutdownFails \/ ShutdownStep
  PROVE  TypeOK'
<1> USE DEF durable, volatile
<1>1. CASE Shutdown
  <2>1. call' \in CallRow
    BY <1>1 DEF Shutdown, NoCall, CallRow, CallPoint
  <2> QED BY <1>1, <2>1 DEF Shutdown, TypeOK
<1>2. CASE ShutdownFails
  BY <1>2, EndType DEF ShutdownFails, Die, TypeOK
<1>3. ASSUME NEW r \in Run, InterruptRun(r) PROVE TypeOK'
  BY <1>3, StopType DEF InterruptRun, TypeOK
<1>4. ASSUME NEW r \in Run, InterruptRefused(r) PROVE TypeOK'
  BY <1>4, EndType DEF InterruptRefused, Die, TypeOK
<1>5. CASE InterruptsDone
  BY <1>5, CallTypes DEF InterruptsDone, TypeOK
<1>6. CASE ShutdownExits
  BY <1>6, EndType DEF ShutdownExits, TypeOK
<1> QED BY <1>1, <1>2, <1>3, <1>4, <1>5, <1>6 DEF ShutdownStep

\* Restart reconciliation keeps the types.
LEMMA BootType ==
  ASSUME TypeOK, BootStep \/ StartServer
  PROVE  TypeOK'
<1> USE DEF durable, volatile, PumpPoint
<1>1. CASE Restart \/ StartServer
  BY <1>1 DEF Restart, StartServer, TypeOK
<1>2. CASE RecoverTasks
  <2>1. ASSUME NEW i \in AgentId
        PROVE  [agent[i] EXCEPT !.task = "queued",
                                !.status = IF @ = "running" THEN "queued" ELSE @] \in AgentRow
    <3>1. agent[i] \in AgentRow
      BY RowTypes
    <3>2. \A x \in AgentStatus : [agent[i] EXCEPT !.task = "queued", !.status = x] \in AgentRow
      BY <3>1 DEF AgentRow, TaskStatus
    <3>3. (IF agent[i].status = "running" THEN "queued" ELSE agent[i].status) \in AgentStatus
      BY <3>1 DEF AgentRow, AgentStatus, LiveStatus
    <3> QED BY <3>2, <3>3
  <2> DEFINE recovered(i) ==
        IF Unclaimed(i)
        THEN [agent[i] EXCEPT !.task = "queued", !.status = IF @ = "running" THEN "queued" ELSE @]
        ELSE agent[i]
  <2>2. \A i \in AgentId : recovered(i) \in AgentRow
    BY <2>1, RowTypes
  <2>3. agent' = [i \in 1..Len(agent) |-> recovered(i)]
    BY <1>2, RowTypes DEF RecoverTasks, AgentId
  <2> HIDE DEF recovered
  <2>4. agent' \in Seq(AgentRow)
    BY <2>2, <2>3, RowTypes
  <2> QED BY <1>2, <2>4 DEF RecoverTasks, TypeOK
<1>3. CASE RecoverFinalizations
  <2>1. \A r \in Run : run[r] \in RunRow /\ [run[r] EXCEPT !.final = "failed"] \in RunRow
    BY RowTypes, FinalRowTypes
  <2>2. run' \in [Run -> RunRow]
    BY <1>3, <2>1 DEF RecoverFinalizations
  <2> QED BY <1>3, <2>2 DEF RecoverFinalizations, TypeOK
<1>4. ASSUME NEW i \in AgentId, RequeueTask(i) PROVE TypeOK'
  <2>1. queue' \in Seq(Nat)
    BY <1>4, RowTypes DEF RequeueTask, TypeOK
  <2> QED BY <1>4, <2>1 DEF RequeueTask, TypeOK
<1>5. CASE RequeueEnds \/ Boot
  BY <1>5 DEF RequeueEnds, Boot, TypeOK
<1>6. ASSUME NEW r \in Run, ResumeFinalization(r) PROVE TypeOK'
  <2>1. call' \in CallRow
    BY <1>6 DEF ResumeFinalization, CallRow, CallPoint
  <2> QED BY <1>6, <2>1 DEF ResumeFinalization, TypeOK
<1> QED BY <1>1, <1>2, <1>3, <1>4, <1>5, <1>6 DEF BootStep

\* A daemon's claim and a crash keep the types.
LEMMA EnvironmentType ==
  ASSUME TypeOK, Crash \/ \E i \in AgentId : DaemonClaim(i)
  PROVE  TypeOK'
<1> USE DEF durable, volatile
<1>1. CASE Crash
  <2>1. crashes' \in Nat
    BY <1>1 DEF Crash, TypeOK
  <2> QED BY <1>1, <2>1, EndType DEF Crash, Die, TypeOK
<1>2. ASSUME NEW i \in AgentId, DaemonClaim(i) PROVE TypeOK'
  <2>1. agent[i] \in AgentRow /\ i \in Nat
    BY RowTypes
  <2>2. [agent[i] EXCEPT !.claimed = TRUE] \in AgentRow
    BY <2>1 DEF AgentRow
  <2>3. agent' \in Seq(AgentRow)
    BY <1>2, <2>1, <2>2, SetAgent DEF DaemonClaim
  <2> QED BY <1>2, <2>3 DEF DaemonClaim, TypeOK
<1> QED BY <1>1, <1>2

\* Every step keeps the types.
LEMMA NextType == TypeOK /\ [Next]_vars => TypeOK'
<1> SUFFICES ASSUME TypeOK, [Next]_vars PROVE TypeOK'
  OBVIOUS
<1>1. CASE UNCHANGED vars
  BY <1>1 DEF vars, durable, volatile, TypeOK
<1>2. CASE Next /\ ~CleanupStep
  BY <1>2, ProgressType, FinalizeType, PumpType, ProviderType, ApplyType, HttpType,
     ShutdownType, BootType, EnvironmentType DEF Next
<1>3. CASE CleanupStep
  <2>1. CASE CleanupEnds
    BY <2>1 DEF CleanupEnds, durable, PumpPoint, TypeOK
  <2>2. CASE CleanupFails
    BY <2>2, EndType DEF CleanupFails, Die, durable, TypeOK
  <2> QED BY <1>3, <2>1, <2>2 DEF CleanupStep
<1> QED BY <1>1, <1>2, <1>3

\* Rows, queue and the pump's place have their types in every state of every
\* Environment: what EnvironmentRunStore and AgentExecutionStore write, and
\* what the in-memory queue holds, is always a row the other handlers read.
THEOREM TypeCorrect == Spec => []TypeOK
<1>1. Init => TypeOK
  BY InitType
<1>2. TypeOK /\ [Next]_vars => TypeOK'
  BY NextType
<1> QED BY <1>1, <1>2, PTL DEF Spec

-----------------------------------------------------------------------------
(* The inductive invariant: what the handlers of the store rely on when    *)
(* they read rows that earlier transactions wrote.                         *)

PointersClear(r) == run[r].action = 0 /\ run[r].agent = 0

\* A State is done only when its Actions are.
StatesSound == \A r \in Run, s \in State : state[r][s] = "done" => AllDone(r, s)

\* Only a running Run points at an Action or an Agent.
IdlePointers == \A r \in Run : run[r].status # "running" => PointersClear(r)

\* A claimed finalization belongs to a Run with nothing left to do.
FinalClaim ==
  \A r \in Run : run[r].final = "running" =>
    run[r].status # "absent" /\ PointersClear(r) /\ run[r].state = 0 /\ StatesDone(r)

\* Agents belong to started Runs, an open task has a live Agent, and only
\* Work waits for a human.
AgentSound ==
  \A i \in AgentId :
    /\ run[agent[i].run].status # "absent"
    /\ agent[i].task \in {"queued", "running"} => Live(i)
    /\ agent[i].status = "waiting_for_input" => agent[i].phase = "work"

\* What the synchronous call may assume of the rows it is about.
CallSound ==
  /\ call.at = "progress" => call.run \in Run /\ PointersClear(call.run)
  /\ call.at = "dispatch" =>
       call.run \in Run /\ run[call.run].status = "running" /\ run[call.run].agent = 0
  /\ call.at = "apply" => call.task \in AgentId /\ agent[call.task].task \in {"succeeded", "failed"}

\* While the provider is awaited its task runs, unless its Run is over.
HeldSound ==
  pc = "execute" =>
    /\ held.task \in AgentId
    /\ Open(agent[held.task].run) => agent[held.task].task = "running"

RowsFit ==
  ActiveLineage /\ OrderedExecution /\ StatesSound /\ IdlePointers /\ FinalClaim /\ AgentSound

LineageInv == TypeOK /\ RowsFit /\ CallSound /\ HeldSound

-----------------------------------------------------------------------------
(* Facts about updates of one row.                                         *)

\* An Agent's row names a Run and an Action, and ids are positive.
LEMMA AgentFields ==
  ASSUME TypeOK, NEW i \in AgentId
  PROVE  /\ agent[i].run \in Run /\ agent[i].action \in Action /\ agent[i].phase \in Phase
         /\ i \in Nat \ {0} /\ agent[i].action \in Nat \ {0}
  BY RowTypes DEF AgentRow, Action

\* Writing one Run leaves the others.
LEMMA RunUpdate ==
  ASSUME TypeOK, NEW r \in Run, NEW row, run' = [run EXCEPT ![r] = row]
  PROVE  run'[r] = row /\ \A q \in Run \ {r} : run'[q] = run[q]
  BY DEF TypeOK

\* Writing one Agent leaves the others.
LEMMA AgentUpdate ==
  ASSUME TypeOK, NEW i \in AgentId, NEW row, agent' = [agent EXCEPT ![i] = row]
  PROVE  AgentId' = AgentId /\ agent'[i] = row /\ \A j \in AgentId \ {i} : agent'[j] = agent[j]
  BY DEF TypeOK, AgentId

\* A created Agent gets the next id.
LEMMA AgentAppend ==
  ASSUME TypeOK, NEW new \in AgentRow, NEW agents \in Seq(AgentRow), DOMAIN agents = AgentId,
         agent' = Append(agents, new)
  PROVE  /\ AgentId' = AgentId \cup {Len(agent) + 1}
         /\ agent'[Len(agent) + 1] = new
         /\ Len(agent) + 1 \notin AgentId
         /\ \A j \in AgentId : agent'[j] = agents[j]
<1>1. Len(agents) = Len(agent) /\ AgentId = 1..Len(agent) /\ Len(agent) \in Nat
  BY RowTypes DEF AgentId
<1> QED BY <1>1 DEF AgentId

\* While the Agent of a phase is live its Action has an active status.
LEMMA DuringActive ==
  \A phase \in Phase : StatusDuring(phase) \in ActiveStatus
  BY DEF Phase, StatusDuring, ActiveStatus

\* What an Agent that is queued, running or waiting says of its Run.
LEMMA PendingLineage ==
  ASSUME TypeOK, RowsFit, NEW i \in AgentId, Pending(i)
  PROVE  /\ run[agent[i].run].status = "running"
         /\ run[agent[i].run].action = agent[i].action
         /\ run[agent[i].run].agent = i
         /\ action[agent[i].run][agent[i].action].status = StatusDuring(agent[i].phase)
         /\ action[agent[i].run][agent[i].action].status \in ActiveStatus
         /\ run[agent[i].run].final # "running"
<1>1. /\ run[agent[i].run].status = "running"
      /\ run[agent[i].run].action = agent[i].action
      /\ run[agent[i].run].agent = i
      /\ action[agent[i].run][agent[i].action].status = StatusDuring(agent[i].phase)
  BY DEF RowsFit, ActiveLineage
<1>2. run[agent[i].run].final # "running"
  BY <1>1, AgentFields DEF RowsFit, FinalClaim, PointersClear
<1> QED BY <1>1, <1>2, AgentFields, DuringActive

-----------------------------------------------------------------------------
(* Steps that leave the pointers and the Actions as they are.              *)

\* Such a step keeps lineage, order and idle pointers.
LEMMA QuietStep ==
  ASSUME TypeOK, RowsFit, action' = action, AgentId' = AgentId,
         \A r \in Run : /\ run'[r].status = run[r].status /\ run'[r].action = run[r].action
                        /\ run'[r].agent = run[r].agent,
         \A i \in AgentId :
           /\ agent'[i].run = agent[i].run /\ agent'[i].action = agent[i].action
           /\ agent'[i].phase = agent[i].phase /\ (Pending(i)' <=> Pending(i))
  PROVE  ActiveLineage' /\ OrderedExecution' /\ IdlePointers'
<1>1. ActiveLineage'
  <2>1. ASSUME NEW i \in AgentId', Pending(i)'
        PROVE  /\ run'[agent'[i].run].status = "running"
               /\ run'[agent'[i].run].action = agent'[i].action
               /\ run'[agent'[i].run].agent = i
               /\ action'[agent'[i].run][agent'[i].action].status = StatusDuring(agent'[i].phase)
    BY <2>1, PendingLineage, AgentFields
  <2>2. ASSUME NEW r \in Run, run'[r].agent # 0
        PROVE  /\ run'[r].agent \in AgentId' /\ agent'[run'[r].agent].run = r
               /\ Pending(run[r].agent)'
    <3> DEFINE i == run[r].agent
    <3>1. i \in AgentId /\ agent[i].run = r /\ Pending(i)
      BY <2>2 DEF RowsFit, ActiveLineage
    <3>2. run'[r].agent = i
      OBVIOUS
    <3>3. agent'[i].status \in LiveStatus \cup {"waiting_for_input"}
      BY <3>1 DEF Pending, Live
    <3> QED BY <3>1, <3>2, <3>3 DEF Pending, Live
  <2>3. ASSUME NEW r \in Run, NEW a \in Action
        PROVE  action'[r][a].status \in ActiveStatus <=> run'[r].action = a
    BY DEF RowsFit, ActiveLineage
  <2> QED BY <2>1, <2>2, <2>3 DEF ActiveLineage
<1>2. OrderedExecution'
  BY DEF RowsFit, OrderedExecution
<1>3. IdlePointers'
  BY DEF RowsFit, IdlePointers, PointersClear
<1> QED BY <1>1, <1>2, <1>3

\* What the pump holds stays sound when no Run is opened and a running task
\* goes on running, unless its Run is closed.
LEMMA HeldKept ==
  ASSUME HeldSound, UNCHANGED <<pc, held>>, AgentId \subseteq AgentId',
         \A j \in AgentId :
           /\ agent'[j].run = agent[j].run
           /\ \/ run'[agent[j].run].status \notin {"pending", "running"}
              \/ /\ agent[j].task = "running" => agent'[j].task = "running"
                 /\ run'[agent[j].run].status = run[agent[j].run].status
  PROVE  HeldSound'
<1>1. SUFFICES ASSUME pc = "execute"
               PROVE  /\ held.task \in AgentId'
                      /\ run'[agent'[held.task].run].status \in {"pending", "running"}
                           => agent'[held.task].task = "running"
  BY DEF HeldSound, Open
<1>2. /\ held.task \in AgentId
      /\ run[agent[held.task].run].status \in {"pending", "running"}
           => agent[held.task].task = "running"
  BY <1>1 DEF HeldSound, Open
<1> QED BY <1>2

\* A step that changes the rows of one Run only.
LEMMA LineageOfOneRun ==
  ASSUME TypeOK, RowsFit, NEW r \in Run,
         \A q \in Run \ {r} : run'[q] = run[q] /\ action'[q] = action[q],
         AgentId \subseteq AgentId',
         \A j \in AgentId' : j \in AgentId \/ agent'[j].run = r,
         \A j \in AgentId : /\ agent'[j].run = agent[j].run
                            /\ agent[j].run # r => agent'[j] = agent[j],
         \A j \in AgentId' :
           agent'[j].run = r /\ agent'[j].status \in LiveStatus \cup {"waiting_for_input"} =>
             /\ run'[r].status = "running" /\ run'[r].action = agent'[j].action
             /\ run'[r].agent = j
             /\ action'[r][agent'[j].action].status = StatusDuring(agent'[j].phase),
         run'[r].agent # 0 =>
           /\ run'[r].agent \in AgentId' /\ agent'[run'[r].agent].run = r
           /\ agent'[run'[r].agent].status \in LiveStatus \cup {"waiting_for_input"},
         \A b \in Action : action'[r][b].status \in ActiveStatus <=> run'[r].action = b
  PROVE  ActiveLineage'
<1>1. ASSUME NEW j \in AgentId', agent'[j].status \in LiveStatus \cup {"waiting_for_input"}
      PROVE  /\ run'[agent'[j].run].status = "running"
             /\ run'[agent'[j].run].action = agent'[j].action
             /\ run'[agent'[j].run].agent = j
             /\ action'[agent'[j].run][agent'[j].action].status = StatusDuring(agent'[j].phase)
  <2>1. CASE agent'[j].run = r
    BY <1>1, <2>1
  <2>2. CASE agent'[j].run # r
    <3>1. j \in AgentId /\ agent'[j] = agent[j] /\ Pending(j)
      BY <1>1, <2>2 DEF Pending, Live
    <3> QED BY <2>2, <3>1, PendingLineage, AgentFields
  <2> QED BY <2>1, <2>2
<1>2. ASSUME NEW q \in Run, run'[q].agent # 0
      PROVE  /\ run'[q].agent \in AgentId' /\ agent'[run'[q].agent].run = q
             /\ agent'[run'[q].agent].status \in LiveStatus \cup {"waiting_for_input"}
  <2>1. CASE q = r
    BY <1>2, <2>1
  <2>2. CASE q # r
    BY <1>2, <2>2 DEF RowsFit, ActiveLineage, Pending, Live
  <2> QED BY <2>1, <2>2
<1>3. ASSUME NEW q \in Run, NEW b \in Action
      PROVE  action'[q][b].status \in ActiveStatus <=> run'[q].action = b
  BY DEF RowsFit, ActiveLineage
<1> QED BY <1>1, <1>2, <1>3 DEF ActiveLineage, Pending, Live

\* A step that writes no row of these tables keeps what relates them.
LEMMA SameRows ==
  ASSUME RowsFit, UNCHANGED <<run, state, action, agent>>
  PROVE  RowsFit'
<1>1. ActiveLineage'
  BY DEF RowsFit, ActiveLineage, AgentId, Pending, Live
<1>2. OrderedExecution' /\ IdlePointers'
  BY DEF RowsFit, OrderedExecution, IdlePointers, PointersClear
<1>3. StatesSound'
  BY DEF RowsFit, StatesSound, AllDone
<1>4. FinalClaim'
  BY DEF RowsFit, FinalClaim, PointersClear, StatesDone
<1>5. AgentSound'
  BY DEF RowsFit, AgentSound, AgentId, Live
<1> QED BY <1>1, <1>2, <1>3, <1>4, <1>5 DEF RowsFit

\* The end of the process leaves nothing in memory to be sound about.
LEMMA EndSound ==
  ASSUME NEW point \in {"off", "exited"}, End(point)
  PROVE  CallSound' /\ HeldSound'
  BY DEF End, CallSound, HeldSound, NoCall

-----------------------------------------------------------------------------
(* One lemma per handler.                                                  *)

\* A Run is opened: it had no Agent, and what it imports is done.
LEMMA StartLineage ==
  ASSUME LineageInv, NEW r \in Run, NEW imported \in Importable, Start(r, imported)
  PROVE  RowsFit' /\ CallSound' /\ HeldSound'
<1> USE DEF LineageInv
<1>1. /\ run'[r].status = "pending" /\ run'[r].final = run[r].final
      /\ run'[r].action = run[r].action /\ run'[r].agent = run[r].agent
      /\ \A q \in Run \ {r} : run'[q] = run[q]
  <2> DEFINE row == [run[r] EXCEPT !.status = "pending", !.count = 1 + Cardinality(imported)]
  <2>1. run' = [run EXCEPT ![r] = row]
    BY DEF Start
  <2>2. run'[r] = row /\ \A q \in Run \ {r} : run'[q] = run[q]
    BY <2>1, RunUpdate
  <2> QED BY <2>2, RowTypes DEF RunRow
<1>2. PointersClear(r) /\ run[r].final # "running" /\ run[r].status = "absent"
  BY DEF Start, RowsFit, IdlePointers, FinalClaim
<1>3. /\ \A b \in Action : action'[r][b].status \in {"done", "pending"}
      /\ \A b \in Action : action'[r][b].status = "done" <=> b \in imported
      /\ \A b \in Action : action'[r][b].imported <=> b \in imported
      /\ \A q \in Run \ {r} : action'[q] = action[q]
  BY DEF Start, TypeOK
<1>4. /\ \A s \in State : state'[r][s] = "done" => ActionsIn(s) \subseteq imported
      /\ \A q \in Run \ {r} : state'[q] = state[q]
  BY DEF Start, TypeOK
<1>5. AgentId' = AgentId /\ agent' = agent /\ \A i \in AgentId : agent[i].run \in Run \ {r}
  BY <1>2, AgentFields DEF Start, RowsFit, AgentSound, AgentId
<1>6. ActiveLineage'
  <2>1. ASSUME NEW i \in AgentId', Pending(i)'
        PROVE  /\ run'[agent'[i].run].status = "running"
               /\ run'[agent'[i].run].action = agent'[i].action
               /\ run'[agent'[i].run].agent = i
               /\ action'[agent'[i].run][agent'[i].action].status = StatusDuring(agent'[i].phase)
    <3>1. Pending(i) /\ i \in AgentId
      BY <1>5, <2>1 DEF Pending, Live
    <3> QED BY <1>1, <1>3, <1>5, <3>1, PendingLineage, AgentFields
  <2>2. ASSUME NEW q \in Run, run'[q].agent # 0
        PROVE  /\ run'[q].agent \in AgentId' /\ agent'[run'[q].agent].run = q
               /\ agent'[run'[q].agent].status \in LiveStatus \cup {"waiting_for_input"}
    <3>1. q # r /\ run'[q] = run[q]
      BY <1>1, <1>2, <2>2 DEF PointersClear
    <3> QED BY <1>5, <2>2, <3>1 DEF RowsFit, ActiveLineage, Pending, Live
  <2>3. ASSUME NEW q \in Run, NEW b \in Action
        PROVE  action'[q][b].status \in ActiveStatus <=> run'[q].action = b
    <3>1. CASE q = r
      BY <1>1, <1>2, <1>3, <3>1 DEF PointersClear, ActiveStatus, Action
    <3>2. CASE q # r
      BY <1>1, <1>3, <3>2 DEF RowsFit, ActiveLineage
    <3> QED BY <3>1, <3>2
  <2> QED BY <2>1, <2>2, <2>3 DEF ActiveLineage, Pending, Live
<1>7. OrderedExecution'
  BY <1>3 DEF RowsFit, OrderedExecution
<1>8. StatesSound'
  BY <1>3, <1>4 DEF RowsFit, StatesSound, AllDone, ActionsIn
<1>9. IdlePointers'
  BY <1>1, <1>2 DEF RowsFit, IdlePointers, PointersClear
<1>10. FinalClaim'
  BY <1>1, <1>2, <1>4 DEF RowsFit, FinalClaim, PointersClear, StatesDone
<1>11. AgentSound'
  BY <1>1, <1>5 DEF RowsFit, AgentSound, Live
<1>12. CallSound'
  BY <1>1, <1>2 DEF Start, CallSound, PointersClear
<1>13. HeldSound'
  BY <1>1, <1>5 DEF Start, HeldSound, Open
<1> QED BY <1>6, <1>7, <1>8, <1>9, <1>10, <1>11, <1>12, <1>13 DEF RowsFit

\* A State whose Actions are done is completed between two Actions.
LEMMA CompleteStateLineage ==
  ASSUME LineageInv, NEW r \in Run, NEW s \in State, CompleteState(r, s)
  PROVE  RowsFit' /\ CallSound' /\ HeldSound'
<1> USE DEF LineageInv
<1>1. PointersClear(r)
  BY DEF CompleteState, Progressing, CallSound
<1>2. /\ run'[r].status = run[r].status /\ run'[r].final = run[r].final
      /\ run'[r].action = 0 /\ run'[r].agent = 0 /\ run'[r].state = 0
      /\ \A q \in Run \ {r} : run'[q] = run[q]
  <2> DEFINE row == [run[r] EXCEPT !.state = 0, !.action = 0, !.agent = 0,
                                   !.count = CountAfter(r, 1)]
  <2>1. run' = [run EXCEPT ![r] = row]
    BY DEF CompleteState
  <2>2. run'[r] = row /\ \A q \in Run \ {r} : run'[q] = run[q]
    BY <2>1, RunUpdate
  <2> QED BY <2>2, RowTypes DEF RunRow
<1>3. /\ state'[r][s] = "done" /\ \A t \in State \ {s} : state'[r][t] = state[r][t]
      /\ \A q \in Run \ {r} : state'[q] = state[q]
  <2>1. state' = [state EXCEPT ![r][s] = "done"] /\ TypeOK /\ r \in Run /\ s \in State
    BY DEF CompleteState
  <2> QED BY ONLY <2>1 DEF TypeOK
<1>4. UNCHANGED <<action, agent, pc, held, call>> /\ AgentId' = AgentId
  BY DEF CompleteState, volatile, AgentId
<1>5. \A q \in Run : /\ run'[q].status = run[q].status /\ run'[q].action = run[q].action
                     /\ run'[q].agent = run[q].agent /\ run'[q].final = run[q].final
  BY <1>1, <1>2 DEF PointersClear
<1>6. ActiveLineage' /\ OrderedExecution' /\ IdlePointers'
  BY <1>4, <1>5, QuietStep DEF Pending, Live
<1>7. StatesSound'
  BY <1>3, <1>4 DEF CompleteState, FinishedState, RowsFit, StatesSound, AllDone
<1>8. FinalClaim'
  BY <1>2, <1>3, <1>5 DEF RowsFit, FinalClaim, PointersClear, StatesDone
<1>9. AgentSound'
  BY <1>4, <1>5, AgentFields DEF RowsFit, AgentSound, Live
<1>10. CallSound'
  BY <1>2, <1>4 DEF CompleteState, Progressing, CallSound, PointersClear
<1>11. HeldSound'
  BY <1>4, <1>5, AgentFields DEF HeldSound, Open
<1> QED BY <1>6, <1>7, <1>8, <1>9, <1>10, <1>11 DEF RowsFit

\* The finalization is claimed when nothing is left to do.
LEMMA ClaimFinalizationLineage ==
  ASSUME LineageInv, NEW r \in Run, ClaimFinalization(r)
  PROVE  RowsFit' /\ CallSound' /\ HeldSound'
<1> USE DEF LineageInv
<1>1. /\ run'[r].status = run[r].status /\ run'[r].state = run[r].state
      /\ run'[r].action = run[r].action /\ run'[r].agent = run[r].agent
      /\ \A q \in Run \ {r} : run'[q] = run[q]
  BY RowTypes, RunUpdate DEF ClaimFinalization, RunRow
<1>2. UNCHANGED <<state, action, agent>> /\ AgentId' = AgentId /\ pc' # "execute"
  BY DEF ClaimFinalization, AgentId
<1>3. \A q \in Run : /\ run'[q].status = run[q].status /\ run'[q].action = run[q].action
                     /\ run'[q].agent = run[q].agent
  BY <1>1
<1>4. ActiveLineage' /\ OrderedExecution' /\ IdlePointers'
  BY <1>2, <1>3, QuietStep DEF Pending, Live
<1>5. StatesSound'
  BY <1>2 DEF RowsFit, StatesSound, AllDone
<1>6. FinalClaim'
  BY <1>1, <1>2 DEF ClaimFinalization, RowsFit, FinalClaim, PointersClear, StatesDone
<1>7. AgentSound'
  BY <1>2, <1>3, AgentFields DEF RowsFit, AgentSound, Live
<1>8. CallSound' /\ HeldSound'
  BY <1>2 DEF ClaimFinalization, CallSound, HeldSound, NoCall
<1> QED BY <1>4, <1>5, <1>6, <1>7, <1>8 DEF RowsFit

\* The first open Action is selected: everything in front of it is done.
LEMMA AdvanceLineage ==
  ASSUME LineageInv, NEW r \in Run, NEW s \in State, NEW a \in Action, Advance(r, s, a)
  PROVE  RowsFit' /\ CallSound' /\ HeldSound'
<1> USE DEF LineageInv
<1>1. /\ PointersClear(r) /\ Open(r) /\ FirstOpenState(r, s) /\ FirstOpenAction(r, s, a)
      /\ action[r][a].status = "pending" /\ call.run = r /\ call.at = "progress"
  BY DEF Advance, Selectable, PointersClear, Progressing
<1>2. /\ run'[r].status = "running" /\ run'[r].final = run[r].final
      /\ run'[r].action = a /\ run'[r].agent = 0
      /\ \A q \in Run \ {r} : run'[q] = run[q]
  <2> DEFINE row == [run[r] EXCEPT !.status = "running", !.state = s, !.action = a,
                                   !.count = CountAfter(r, SelectionEvents(r, s))]
  <2>1. run' = [run EXCEPT ![r] = row]
    BY DEF Advance
  <2>2. run'[r] = row /\ \A q \in Run \ {r} : run'[q] = run[q]
    BY <2>1, RunUpdate
  <2> QED BY <1>1, <2>2, RowTypes DEF RunRow, PointersClear
<1>3. /\ state'[r][s] = "running" /\ \A t \in State \ {s} : state'[r][t] = state[r][t]
      /\ \A q \in Run \ {r} : state'[q] = state[q]
  <2>1. state' = [state EXCEPT ![r][s] = "running"]
    BY DEF Advance
  <2>2. TypeOK
    OBVIOUS
  <2> QED BY ONLY <2>1, <2>2 DEF TypeOK
<1>4. /\ action'[r][a].status = "prechecking" /\ action'[r][a].imported = action[r][a].imported
      /\ \A b \in Action \ {a} : action'[r][b] = action[r][b]
      /\ \A q \in Run \ {r} : action'[q] = action[q]
  <2> DEFINE row == [action[r][a] EXCEPT !.status = "prechecking"]
  <2>1. action' = [action EXCEPT ![r][a] = row]
    BY DEF Advance
  <2>2. /\ action'[r][a] = row /\ \A b \in Action \ {a} : action'[r][b] = action[r][b]
        /\ \A q \in Run \ {r} : action'[q] = action[q]
    <3>1. TypeOK
      OBVIOUS
    <3> HIDE DEF row
    <3> QED BY ONLY <2>1, <3>1 DEF TypeOK
  <2> QED BY <2>2, RowTypes DEF ActionRow
<1>5. AgentId' = AgentId /\ agent' = agent
  BY DEF Advance, AgentId
<1>6. \A b \in Action : b < a => action[r][b].status = "done"
  <2>1. SUFFICES ASSUME NEW b \in Action, b < a PROVE action[r][b].status = "done"
    OBVIOUS
  <2>2. StateOf[b] <= StateOf[a] /\ StateOf[a] = s /\ StateOf[b] \in State
    BY <1>1, <2>1, StateOfAssumption DEF FirstOpenAction
  <2>3. CASE StateOf[b] = s
    BY <1>1, <2>1, <2>3 DEF FirstOpenAction, ActionsIn
  <2>4. CASE StateOf[b] # s
    <3>1. StateOf[b] < s
      BY <2>2, <2>4 DEF State
    <3> QED BY <1>1, <2>2, <3>1 DEF FirstOpenState, RowsFit, StatesSound, AllDone, ActionsIn
  <2> QED BY <2>3, <2>4
<1>7. ActiveLineage'
  <2>1. ASSUME NEW i \in AgentId', Pending(i)'
        PROVE  /\ run'[agent'[i].run].status = "running"
               /\ run'[agent'[i].run].action = agent'[i].action
               /\ run'[agent'[i].run].agent = i
               /\ action'[agent'[i].run][agent'[i].action].status = StatusDuring(agent'[i].phase)
    <3>1. Pending(i) /\ i \in AgentId
      BY <1>5, <2>1 DEF Pending, Live
    <3>2. agent[i].run # r
      BY <1>1, <3>1, PendingLineage, AgentFields DEF PointersClear
    <3> QED BY <1>2, <1>4, <1>5, <3>1, <3>2, PendingLineage, AgentFields
  <2>2. ASSUME NEW q \in Run, run'[q].agent # 0
        PROVE  /\ run'[q].agent \in AgentId' /\ agent'[run'[q].agent].run = q
               /\ agent'[run'[q].agent].status \in LiveStatus \cup {"waiting_for_input"}
    <3>1. q # r /\ run'[q] = run[q]
      BY <1>2, <2>2
    <3> QED BY <1>5, <2>2, <3>1 DEF RowsFit, ActiveLineage, Pending, Live
  <2>3. ASSUME NEW q \in Run, NEW b \in Action
        PROVE  action'[q][b].status \in ActiveStatus <=> run'[q].action = b
    <3>1. CASE q = r /\ b = a
      BY <1>2, <1>4, <3>1 DEF ActiveStatus
    <3>2. CASE q = r /\ b # a
      BY <1>1, <1>2, <1>4, <3>2 DEF RowsFit, ActiveLineage, PointersClear, Action
    <3>3. CASE q # r
      BY <1>2, <1>4, <3>3 DEF RowsFit, ActiveLineage
    <3> QED BY <3>1, <3>2, <3>3
  <2> QED BY <2>1, <2>2, <2>3 DEF ActiveLineage, Pending, Live
<1>8. OrderedExecution'
  <2>1. SUFFICES ASSUME NEW q \in Run, NEW b \in Action, NEW c \in Action, b < c,
                        action'[q][c].status # "pending", ~action'[q][c].imported
                 PROVE  action'[q][b].status = "done"
    BY DEF OrderedExecution
  <2>2. CASE q # r
    BY <1>4, <2>1, <2>2 DEF RowsFit, OrderedExecution
  <2>3. CASE q = r /\ c = a
    BY <1>4, <1>6, <2>1, <2>3 DEF Action
  <2>4. CASE q = r /\ c # a
    BY <1>1, <1>4, <2>1, <2>4 DEF RowsFit, OrderedExecution
  <2> QED BY <2>2, <2>3, <2>4
<1>9. StatesSound'
  <2>1. SUFFICES ASSUME NEW q \in Run, NEW t \in State, state'[q][t] = "done",
                        NEW b \in ActionsIn(t)
                 PROVE  action'[q][b].status = "done"
    BY DEF StatesSound, AllDone
  <2>2. state[q][t] = "done"
    BY <1>3, <2>1
  <2>3. action[q][b].status = "done" /\ b \in Action
    BY <2>1, <2>2 DEF RowsFit, StatesSound, AllDone, ActionsIn
  <2> QED BY <1>1, <1>4, <2>3
<1>10. IdlePointers'
  BY <1>2 DEF RowsFit, IdlePointers, PointersClear
<1>11. FinalClaim'
  <2>1. run[r].final # "running"
    BY <1>1 DEF RowsFit, FinalClaim, StatesDone, FirstOpenState
  <2> QED BY <1>2, <1>3, <2>1 DEF RowsFit, FinalClaim, PointersClear, StatesDone
<1>12. AgentSound'
  BY <1>2, <1>5, AgentFields DEF RowsFit, AgentSound, Live
<1>13. CallSound'
  BY <1>1, <1>2 DEF Advance, CallSound, TypeOK, CallRow
<1>14. HeldSound'
  BY <1>1, <1>2, <1>5, AgentFields DEF Advance, HeldSound, Open
<1> QED BY <1>7, <1>8, <1>9, <1>10, <1>11, <1>12, <1>13, <1>14 DEF RowsFit

\* The precheck Validation is created for the selected Action.
LEMMA DispatchPrecheckLineage ==
  ASSUME LineageInv, NEW r \in Run, NEW a \in Action, DispatchPrecheck(r, a)
  PROVE  RowsFit' /\ CallSound' /\ HeldSound'
<1> USE DEF LineageInv
<1> DEFINE n == Len(agent) + 1
           new == NewAgent(r, a, "precheck", 0)
<1>1. /\ run[r].status = "running" /\ run[r].action = a /\ run[r].agent = 0
      /\ action[r][a].status = "prechecking" /\ run[r].final # "running"
  BY DEF DispatchPrecheck, CallSound, RowsFit, FinalClaim, PointersClear, Action
<1>2. /\ run'[r].status = "running" /\ run'[r].final = run[r].final
      /\ run'[r].action = a /\ run'[r].agent = n
      /\ \A q \in Run \ {r} : run'[q] = run[q]
  <2> DEFINE row == [run[r] EXCEPT !.agent = n, !.count = CountAfter(r, 1)]
  <2>1. run' = [run EXCEPT ![r] = row]
    BY DEF DispatchPrecheck
  <2>2. run'[r] = row /\ \A q \in Run \ {r} : run'[q] = run[q]
    BY <2>1, RunUpdate
  <2> QED BY <1>1, <2>2, RowTypes DEF RunRow
<1>3. /\ new.run = r /\ new.action = a /\ new.phase = "precheck" /\ new.status = "queued"
      /\ new.task = "queued" /\ new \in AgentRow
  BY NewAgentType DEF NewAgent, Phase
<1>4. /\ AgentId' = AgentId \cup {n} /\ agent'[n] = new /\ n \notin AgentId /\ n # 0
      /\ \A j \in AgentId : agent'[j] = agent[j]
  <2>1. agent' = Append(agent, new) /\ agent \in Seq(AgentRow) /\ DOMAIN agent = AgentId
    BY DEF DispatchPrecheck, TypeOK, AgentId
  <2> HIDE DEF new
  <2> QED BY <1>3, <2>1, AgentAppend, RowTypes
<1> HIDE DEF n, new
<1>5. UNCHANGED <<state, action, pc, held>> /\ call' = NoCall
  BY DEF DispatchPrecheck
<1>6. ActiveLineage'
  <2>1. ASSUME NEW i \in AgentId', Pending(i)'
        PROVE  /\ run'[agent'[i].run].status = "running"
               /\ run'[agent'[i].run].action = agent'[i].action
               /\ run'[agent'[i].run].agent = i
               /\ action'[agent'[i].run][agent'[i].action].status = StatusDuring(agent'[i].phase)
    <3>1. CASE i = n
      BY <1>1, <1>2, <1>3, <1>4, <1>5, <3>1 DEF StatusDuring
    <3>2. CASE i # n
      <4>1. Pending(i) /\ i \in AgentId /\ agent'[i] = agent[i]
        BY <1>4, <2>1, <3>2 DEF Pending, Live
      <4>2. agent[i].run # r
        BY <1>1, <4>1, PendingLineage, AgentFields
      <4> QED BY <1>2, <1>5, <4>1, <4>2, PendingLineage, AgentFields
    <3> QED BY <3>1, <3>2
  <2>2. ASSUME NEW q \in Run, run'[q].agent # 0
        PROVE  /\ run'[q].agent \in AgentId' /\ agent'[run'[q].agent].run = q
               /\ agent'[run'[q].agent].status \in LiveStatus \cup {"waiting_for_input"}
    <3>1. CASE q = r
      BY <1>2, <1>3, <1>4, <3>1 DEF LiveStatus
    <3>2. CASE q # r
      BY <1>2, <1>4, <2>2, <3>2 DEF RowsFit, ActiveLineage, Pending, Live
    <3> QED BY <3>1, <3>2
  <2>3. ASSUME NEW q \in Run, NEW b \in Action
        PROVE  action'[q][b].status \in ActiveStatus <=> run'[q].action = b
    BY <1>1, <1>2, <1>5 DEF RowsFit, ActiveLineage
  <2> QED BY <2>1, <2>2, <2>3 DEF ActiveLineage, Pending, Live
<1>7. OrderedExecution' /\ StatesSound'
  BY <1>5 DEF RowsFit, OrderedExecution, StatesSound, AllDone
<1>8. IdlePointers'
  BY <1>2 DEF RowsFit, IdlePointers, PointersClear
<1>9. FinalClaim'
  BY <1>1, <1>2, <1>5 DEF RowsFit, FinalClaim, PointersClear, StatesDone
<1>10. AgentSound'
  BY <1>1, <1>2, <1>3, <1>4, AgentFields DEF RowsFit, AgentSound, Live, LiveStatus
<1>11. CallSound'
  BY <1>5 DEF CallSound, NoCall
<1>12. HeldSound'
  <2>1. ASSUME pc = "execute"
        PROVE  /\ held.task \in AgentId /\ agent'[held.task] = agent[held.task]
               /\ run'[agent[held.task].run].status = run[agent[held.task].run].status
    BY <1>1, <1>2, <1>4, <2>1, AgentFields DEF HeldSound
  <2> QED BY <1>4, <1>5, <2>1 DEF HeldSound, Open
<1> QED BY <1>6, <1>7, <1>8, <1>9, <1>10, <1>11, <1>12 DEF RowsFit

\* A step that writes one Agent and leaves it pending as it was.
LEMMA QuietAgent ==
  ASSUME TypeOK, RowsFit, NEW i \in AgentId, NEW row,
         agent' = [agent EXCEPT ![i] = row], UNCHANGED <<state, action>>,
         row.run = agent[i].run, row.action = agent[i].action, row.phase = agent[i].phase,
         row.status \in LiveStatus \cup {"waiting_for_input"} <=> Pending(i),
         row.task \in {"queued", "running"} => row.status \in LiveStatus,
         row.status = "waiting_for_input" => row.phase = "work",
         \A r \in Run : /\ run'[r].status = run[r].status /\ run'[r].action = run[r].action
                        /\ run'[r].agent = run[r].agent /\ run'[r].final = run[r].final
                        /\ run'[r].state = run[r].state
  PROVE  RowsFit'
<1>1. AgentId' = AgentId /\ agent'[i] = row /\ \A j \in AgentId \ {i} : agent'[j] = agent[j]
  BY AgentUpdate
<1>2. ASSUME NEW j \in AgentId
      PROVE  /\ agent'[j].run = agent[j].run /\ agent'[j].action = agent[j].action
             /\ agent'[j].phase = agent[j].phase /\ (Pending(j)' <=> Pending(j))
  BY <1>1 DEF Pending, Live
<1>3. ActiveLineage' /\ OrderedExecution' /\ IdlePointers'
  BY <1>1, <1>2, QuietStep
<1>4. StatesSound'
  BY DEF RowsFit, StatesSound, AllDone
<1>5. FinalClaim'
  BY DEF RowsFit, FinalClaim, PointersClear, StatesDone
<1>6. AgentSound'
  <2>1. ASSUME NEW j \in AgentId
        PROVE  /\ run'[agent'[j].run].status # "absent"
               /\ agent'[j].task \in {"queued", "running"} => agent'[j].status \in LiveStatus
               /\ agent'[j].status = "waiting_for_input" => agent'[j].phase = "work"
    BY <1>1, <1>2, AgentFields DEF RowsFit, AgentSound, Live
  <2> QED BY <1>1, <2>1 DEF AgentSound, Live
<1> QED BY <1>3, <1>4, <1>5, <1>6 DEF RowsFit

\* The pump takes a task that may run and awaits its provider.
LEMMA TakeRunnableLineage ==
  ASSUME LineageInv, NEW i \in AgentId, TakeRunnable(i)
  PROVE  RowsFit' /\ CallSound' /\ HeldSound'
<1> USE DEF LineageInv
<1> DEFINE row == [agent[i] EXCEPT !.task = "running", !.status = "running"]
<1>1. agent' = [agent EXCEPT ![i] = row] /\ UNCHANGED <<run, state, action, call>>
  BY DEF TakeRunnable
<1>2. /\ row.run = agent[i].run /\ row.action = agent[i].action /\ row.phase = agent[i].phase
      /\ row.status = "running" /\ row.task = "running"
  BY RowTypes DEF AgentRow
<1>3. Pending(i)
  BY DEF TakeRunnable, RowsFit, AgentSound, Pending
<1>4. AgentId' = AgentId /\ agent'[i] = row
  BY <1>1, AgentUpdate
<1> HIDE DEF row
<1>5. RowsFit'
  BY <1>1, <1>2, <1>3, QuietAgent DEF LiveStatus
<1>6. CallSound'
  BY <1>1 DEF TakeRunnable, PumpReady, EventLoopFree, CallSound, NoCall
<1>7. HeldSound'
  BY <1>2, <1>4 DEF TakeRunnable, HeldSound
<1> QED BY <1>5, <1>6, <1>7

\* A daemon claims the task it will execute.
LEMMA DaemonClaimLineage ==
  ASSUME LineageInv, NEW i \in AgentId, DaemonClaim(i)
  PROVE  RowsFit' /\ CallSound' /\ HeldSound'
<1> USE DEF LineageInv
<1> DEFINE row == [agent[i] EXCEPT !.claimed = TRUE]
<1>1. /\ agent' = [agent EXCEPT ![i] = row]
      /\ UNCHANGED <<run, state, action, call, pc, held>>
  BY DEF DaemonClaim, volatile
<1>2. /\ row.run = agent[i].run /\ row.action = agent[i].action /\ row.phase = agent[i].phase
      /\ row.status = agent[i].status /\ row.task = agent[i].task
  BY RowTypes DEF AgentRow
<1>3. /\ agent[i].task \in {"queued", "running"} => agent[i].status \in LiveStatus
      /\ agent[i].status = "waiting_for_input" => agent[i].phase = "work"
      /\ Pending(i) <=> agent[i].status \in LiveStatus \cup {"waiting_for_input"}
  BY DEF RowsFit, AgentSound, Live, Pending
<1>4. AgentId' = AgentId /\ agent'[i] = row /\ \A j \in AgentId \ {i} : agent'[j] = agent[j]
  BY <1>1, AgentUpdate
<1> HIDE DEF row
<1>5. RowsFit'
  BY <1>1, <1>2, <1>3, QuietAgent
<1>6. CallSound'
  BY <1>1 DEF DaemonClaim, Listening, EventLoopFree, CallSound, NoCall
<1>7. HeldSound'
  <2>1. \A j \in AgentId : agent'[j].task = agent[j].task /\ agent'[j].run = agent[j].run
    BY <1>2, <1>4
  <2> QED BY <1>1, <1>4, <2>1 DEF HeldSound, Open
<1> QED BY <1>5, <1>6, <1>7

\* The provider's answer is persisted; its application is called next.
LEMMA ProviderAnswersLineage ==
  ASSUME LineageInv, NEW i \in AgentId, NEW o \in Outcome, ProviderAnswers(i, o)
  PROVE  RowsFit' /\ CallSound' /\ HeldSound'
<1> USE DEF LineageInv
<1>p. PICK p \in Prompt :
        agent' = [agent EXCEPT ![i] = [@ EXCEPT !.outcome = o, !.prompt = p,
                    !.task = IF o \in Failure THEN "failed" ELSE "succeeded"]]
  BY AnswerRow
<1> DEFINE task == IF o \in Failure THEN "failed" ELSE "succeeded"
           row == [agent[i] EXCEPT !.outcome = o, !.prompt = p, !.task = task]
<1>1. /\ agent' = [agent EXCEPT ![i] = row]
      /\ UNCHANGED <<run, state, action>> /\ call' = ApplyCall(i) /\ pc' = "loop"
  BY <1>p DEF ProviderAnswers, Returned
<1>2. task \in {"failed", "succeeded"}
  OBVIOUS
<1> HIDE DEF task
<1>3. /\ row.run = agent[i].run /\ row.action = agent[i].action /\ row.phase = agent[i].phase
      /\ row.status = agent[i].status /\ row.task = task
  BY RowTypes DEF AgentRow
<1>4. /\ agent[i].status = "waiting_for_input" => agent[i].phase = "work"
      /\ Pending(i) <=> agent[i].status \in LiveStatus \cup {"waiting_for_input"}
  BY DEF RowsFit, AgentSound, Live, Pending
<1>5. AgentId' = AgentId /\ agent'[i] = row
  BY <1>1, AgentUpdate
<1> HIDE DEF row
<1>6. RowsFit'
  BY <1>1, <1>2, <1>3, <1>4, QuietAgent
<1>7. CallSound'
  BY <1>1, <1>2, <1>3, <1>5 DEF CallSound, ApplyCall
<1>8. HeldSound'
  BY <1>1 DEF HeldSound
<1> QED BY <1>6, <1>7, <1>8

\* Work asks its human.
LEMMA WorkAsksLineage ==
  ASSUME LineageInv, NEW i \in AgentId, WorkAsks(i)
  PROVE  RowsFit' /\ CallSound' /\ HeldSound'
<1> USE DEF LineageInv
<1> DEFINE row == [agent[i] EXCEPT !.outcome = "needs_input", !.status = "waiting_for_input",
                                   !.task = "waiting_for_input"]
           r == agent[i].run
<1>1. /\ agent' = [agent EXCEPT ![i] = row]
      /\ UNCHANGED <<state, action, call>> /\ call = NoCall /\ pc' = "loop"
  BY DEF WorkAsks, Returned, Executing, EventLoopFree
<1>2. /\ row.run = r /\ row.action = agent[i].action /\ row.phase = agent[i].phase
      /\ row.status = "waiting_for_input" /\ row.task = "waiting_for_input"
  BY RowTypes DEF AgentRow
<1>3. agent[i].phase = "work"
  BY AgentFields DEF WorkAsks, Terminal, Answers, Failure, Phase
<1>4. Pending(i)
  <2>1. agent[i].task = "running"
    BY DEF WorkAsks, Executing, HeldSound
  <2> QED BY <2>1 DEF RowsFit, AgentSound, Pending
<1>5. \A q \in Run : /\ run'[q].status = run[q].status /\ run'[q].action = run[q].action
                     /\ run'[q].agent = run[q].agent /\ run'[q].final = run[q].final
                     /\ run'[q].state = run[q].state
  <2> DEFINE rrow == [run[r] EXCEPT !.count = CountAfter(r, 1)]
  <2>1. run' = [run EXCEPT ![r] = rrow] /\ r \in Run
    BY AgentFields DEF WorkAsks
  <2>2. run'[r] = rrow /\ \A q \in Run \ {r} : run'[q] = run[q]
    BY <2>1, RunUpdate
  <2> QED BY <2>1, <2>2, RowTypes DEF RunRow
<1> HIDE DEF row
<1>6. RowsFit'
  BY <1>1, <1>2, <1>3, <1>4, <1>5, QuietAgent
<1>7. CallSound' /\ HeldSound'
  BY <1>1 DEF CallSound, NoCall, HeldSound
<1> QED BY <1>6, <1>7

\* What is known when a persisted outcome is applied.
LEMMA ApplicableFacts ==
  ASSUME LineageInv, NEW i \in AgentId, Applicable(i)
  PROVE  LET r == agent[i].run
             a == agent[i].action
         IN /\ r \in Run /\ a \in Action /\ a # 0 /\ i # 0 /\ i \in Nat
            /\ run[r] \in RunRow /\ action[r][a] \in ActionRow /\ agent[i] \in AgentRow
            /\ run[r].status = "running" /\ run[r].action = a /\ run[r].agent = i
            /\ action[r][a].status \in ActiveStatus /\ run[r].final # "running"
            /\ agent[i].task \in {"succeeded", "failed"} /\ Pending(i)
            /\ \A j \in AgentId \ {i} : Pending(j) => agent[j].run # r
<1>1. Pending(i)
  BY DEF Applicable, Pending
<1>2. agent[i].task \in {"succeeded", "failed"}
  BY DEF Applicable, Applying, LineageInv, CallSound
<1>3. \A j \in AgentId \ {i} : Pending(j) => agent[j].run # agent[i].run
  BY <1>1, PendingLineage DEF LineageInv
<1> QED BY <1>1, <1>2, <1>3, PendingLineage, AgentFields, RowTypes DEF LineageInv

\* Order is kept when an Action that was selected and is not done changes its
\* status, and nothing else does.
LEMMA OrderKept ==
  ASSUME TypeOK, RowsFit, NEW r \in Run, NEW a \in Action,
         action[r][a].status \notin {"pending", "done"},
         action'[r][a].imported = action[r][a].imported,
         \A b \in Action \ {a} : action'[r][b] = action[r][b],
         \A q \in Run \ {r} : action'[q] = action[q]
  PROVE  OrderedExecution'
<1>1. SUFFICES ASSUME NEW q \in Run, NEW b \in Action, NEW c \in Action, b < c,
                      action'[q][c].status # "pending", ~action'[q][c].imported
               PROVE  action'[q][b].status = "done"
  BY DEF OrderedExecution
<1>2. action[q][c].status # "pending" /\ ~action[q][c].imported
  BY <1>1
<1>3. action[q][b].status = "done"
  BY <1>1, <1>2 DEF RowsFit, OrderedExecution
<1> QED BY <1>3

\* Validation accepts: the Action is done and its Agent over.
LEMMA FinishActionLineage ==
  ASSUME LineageInv, NEW i \in AgentId, FinishAction(i)
  PROVE  RowsFit' /\ CallSound' /\ HeldSound'
<1> USE DEF LineageInv
<1> DEFINE r == agent[i].run
           a == agent[i].action
           row == [agent[i] EXCEPT !.status = "completed"]
<1>1. /\ r \in Run /\ a \in Action /\ a # 0 /\ i # 0 /\ i \in Nat
      /\ run[r] \in RunRow /\ action[r][a] \in ActionRow /\ agent[i] \in AgentRow
      /\ run[r].status = "running" /\ run[r].action = a /\ run[r].agent = i
      /\ action[r][a].status \in ActiveStatus /\ run[r].final # "running"
      /\ agent[i].task \in {"succeeded", "failed"}
      /\ \A j \in AgentId \ {i} : Pending(j) => agent[j].run # r
  BY ApplicableFacts DEF FinishAction
<1>2. /\ row.run = r /\ row.action = a /\ row.phase = agent[i].phase
      /\ row.status = "completed" /\ row.task = agent[i].task
  BY <1>1 DEF AgentRow
<1>3. AgentId' = AgentId /\ agent'[i] = row /\ \A j \in AgentId \ {i} : agent'[j] = agent[j]
  BY AgentUpdate DEF FinishAction
<1> HIDE DEF row
<1>4. /\ run'[r].status = "running" /\ run'[r].action = 0 /\ run'[r].agent = 0
      /\ run'[r].final # "running" /\ \A q \in Run \ {r} : run'[q] = run[q]
  <2> DEFINE rrow == [run[r] EXCEPT !.action = 0, !.agent = 0,
                                    !.count = CountAfter(r, ApplyEvents(i))]
  <2>1. run' = [run EXCEPT ![r] = rrow]
    BY DEF FinishAction
  <2>2. run'[r] = rrow /\ \A q \in Run \ {r} : run'[q] = run[q]
    BY <1>1, <2>1, RunUpdate
  <2> QED BY <1>1, <2>2 DEF RunRow
<1>5. /\ action'[r][a].status = "done" /\ action'[r][a].imported = action[r][a].imported
      /\ \A b \in Action \ {a} : action'[r][b] = action[r][b]
      /\ \A q \in Run \ {r} : action'[q] = action[q]
  <2> DEFINE arow == [action[r][a] EXCEPT !.status = "done"]
  <2>1. action' = [action EXCEPT ![r][a] = arow] /\ TypeOK /\ r \in Run /\ a \in Action
    BY <1>1 DEF FinishAction
  <2>2. /\ action'[r][a] = arow /\ \A b \in Action \ {a} : action'[r][b] = action[r][b]
        /\ \A q \in Run \ {r} : action'[q] = action[q]
    <3> HIDE DEF arow, r, a
    <3> QED BY ONLY <2>1 DEF TypeOK
  <2> QED BY <1>1, <2>2 DEF ActionRow
<1>6. UNCHANGED <<state, pc, held>> /\ call' = ProgressCall(i)
  BY DEF FinishAction
<1> HIDE DEF r, a
<1>7. ActiveLineage'
  <2>1. ASSUME NEW j \in AgentId', agent'[j].run = r
        PROVE  agent'[j].status \notin LiveStatus \cup {"waiting_for_input"}
    BY <1>1, <1>2, <1>3, <2>1 DEF Pending, Live, LiveStatus
  <2>2. ASSUME NEW b \in Action
        PROVE  action'[r][b].status \in ActiveStatus <=> run'[r].action = b
    <3>1. CASE b = a
      BY <1>1, <1>4, <1>5, <3>1 DEF ActiveStatus
    <3>2. CASE b # a
      BY <1>1, <1>4, <1>5, <3>2 DEF RowsFit, ActiveLineage, Action
    <3> QED BY <3>1, <3>2
  <2>3. \A j \in AgentId : /\ agent'[j].run = agent[j].run
                           /\ agent[j].run # r => agent'[j] = agent[j]
    BY <1>2, <1>3 DEF r
  <2> QED BY <1>1, <1>3, <1>4, <1>5, <2>1, <2>2, <2>3, LineageOfOneRun
<1>8. OrderedExecution'
  BY <1>1, <1>5, OrderKept DEF ActiveStatus
<1>9. StatesSound'
  BY <1>1, <1>5, <1>6 DEF RowsFit, StatesSound, AllDone, ActionsIn
<1>10. IdlePointers'
  BY <1>4 DEF RowsFit, IdlePointers, PointersClear
<1>11. FinalClaim'
  BY <1>4, <1>6 DEF RowsFit, FinalClaim, PointersClear, StatesDone
<1>12. \A j \in AgentId : agent'[j].run = agent[j].run /\ agent'[j].task = agent[j].task
  BY <1>2, <1>3 DEF r
<1>13. AgentSound'
  <2>1. ASSUME NEW j \in AgentId
        PROVE  /\ run'[agent'[j].run].status # "absent"
               /\ agent'[j].task \in {"queued", "running"} => agent'[j].status \in LiveStatus
               /\ agent'[j].status = "waiting_for_input" => agent'[j].phase = "work"
    BY <1>1, <1>2, <1>3, <1>4, <1>12, AgentFields DEF RowsFit, AgentSound, Live
  <2> QED BY <1>3, <2>1 DEF AgentSound, Live
<1>14. CallSound'
  BY <1>1, <1>4, <1>6 DEF CallSound, ProgressCall, PointersClear, r
<1>15. HeldSound'
  <2>1. \A j \in AgentId : run'[agent[j].run].status = run[agent[j].run].status
    BY <1>1, <1>4, AgentFields
  <2> QED BY <1>3, <1>6, <1>12, <2>1, HeldKept
<1> QED BY <1>7, <1>8, <1>9, <1>10, <1>11, <1>13, <1>14, <1>15 DEF RowsFit

\* The next Agent of the Action takes over from the one that completed.
LEMMA DispatchNextLineage ==
  ASSUME LineageInv, NEW i \in AgentId, DispatchNext(i)
  PROVE  RowsFit' /\ CallSound' /\ HeldSound'
<1> USE DEF LineageInv
<1> DEFINE r == agent[i].run
           a == agent[i].action
           n == Len(agent) + 1
           row == [agent[i] EXCEPT !.status = "completed"]
           new == NewAgent(r, a, NextPhase(i), i)
<1>1. /\ r \in Run /\ a \in Action /\ a # 0 /\ i # 0 /\ i \in Nat
      /\ run[r] \in RunRow /\ action[r][a] \in ActionRow /\ agent[i] \in AgentRow
      /\ run[r].status = "running" /\ run[r].action = a /\ run[r].agent = i
      /\ action[r][a].status \in ActiveStatus /\ run[r].final # "running"
      /\ agent[i].task \in {"succeeded", "failed"}
      /\ \A j \in AgentId \ {i} : Pending(j) => agent[j].run # r
  BY ApplicableFacts DEF DispatchNext
<1>2. /\ row.run = r /\ row.status = "completed" /\ row.task = agent[i].task /\ row \in AgentRow
  BY <1>1 DEF AgentRow, AgentStatus
<1>3. /\ new.run = r /\ new.action = a /\ new.phase = NextPhase(i) /\ new.status = "queued"
      /\ new.task = "queued" /\ new \in AgentRow
      /\ NextPhase(i) \in Phase /\ StatusDuring(NextPhase(i)) \in ActiveStatus
  <2>1. NextPhase(i) \in Phase
    BY DEF NextPhase, Phase
  <2> QED BY <1>1, <2>1, DuringActive, NewAgentType DEF NewAgent
<1>4. /\ AgentId' = AgentId \cup {n} /\ agent'[n] = new /\ n \notin AgentId /\ n # 0
      /\ agent'[i] = row /\ \A j \in AgentId \ {i} : agent'[j] = agent[j]
  <2> DEFINE agents == [agent EXCEPT ![i] = row]
  <2>1. agent' = Append(agents, new)
    BY DEF DispatchNext
  <2>2. agents \in Seq(AgentRow) /\ DOMAIN agents = AgentId
    BY <1>1, <1>2, SetAgent DEF AgentId
  <2>3. agents[i] = row /\ \A j \in AgentId \ {i} : agents[j] = agent[j]
    BY DEF TypeOK, AgentId
  <2> HIDE DEF new, row, agents
  <2>4. /\ AgentId' = AgentId \cup {n} /\ agent'[n] = new /\ n \notin AgentId
        /\ \A j \in AgentId : agent'[j] = agents[j]
    BY <1>3, <2>1, <2>2, AgentAppend
  <2> QED BY <2>3, <2>4, RowTypes
<1>5. /\ run'[r].status = "running" /\ run'[r].action = a /\ run'[r].agent = n
      /\ run'[r].final # "running" /\ \A q \in Run \ {r} : run'[q] = run[q]
  <2> DEFINE rrow == [run[r] EXCEPT !.agent = n, !.count = CountAfter(r, ApplyEvents(i))]
  <2>1. run' = [run EXCEPT ![r] = rrow]
    BY DEF DispatchNext
  <2>2. run'[r] = rrow /\ \A q \in Run \ {r} : run'[q] = run[q]
    BY <1>1, <2>1, RunUpdate
  <2> QED BY <1>1, <2>2 DEF RunRow
<1>6. /\ action'[r][a].status = StatusDuring(NextPhase(i))
      /\ action'[r][a].imported = action[r][a].imported
      /\ \A b \in Action \ {a} : action'[r][b] = action[r][b]
      /\ \A q \in Run \ {r} : action'[q] = action[q]
  <2> DEFINE arow == [action[r][a] EXCEPT !.status = StatusDuring(NextPhase(i)),
                                          !.attempt = AttemptAfter(i)]
  <2>1. action' = [action EXCEPT ![r][a] = arow] /\ TypeOK /\ r \in Run /\ a \in Action
    BY <1>1 DEF DispatchNext
  <2>2. /\ action'[r][a] = arow /\ \A b \in Action \ {a} : action'[r][b] = action[r][b]
        /\ \A q \in Run \ {r} : action'[q] = action[q]
    <3> HIDE DEF arow, r, a
    <3> QED BY ONLY <2>1 DEF TypeOK
  <2> QED BY <1>1, <2>2 DEF ActionRow
<1>7. UNCHANGED <<state, pc, held>> /\ call' = NoCall
  BY DEF DispatchNext
<1> HIDE DEF r, a, n, row, new
<1>8. \A j \in AgentId : /\ agent'[j].run = agent[j].run /\ agent'[j].task = agent[j].task
                         /\ agent[j].run # r => agent'[j] = agent[j]
  BY <1>2, <1>4 DEF r
<1>9. ActiveLineage'
  <2>1. ASSUME NEW j \in AgentId', agent'[j].run = r,
               agent'[j].status \in LiveStatus \cup {"waiting_for_input"}
        PROVE  j = n
    <3>1. j # i
      BY <1>2, <1>4, <2>1 DEF LiveStatus
    <3> QED BY <1>1, <1>4, <2>1, <3>1 DEF Pending, Live
  <2>2. ASSUME NEW b \in Action
        PROVE  action'[r][b].status \in ActiveStatus <=> run'[r].action = b
    BY <1>1, <1>3, <1>5, <1>6 DEF RowsFit, ActiveLineage
  <2>3. /\ AgentId \subseteq AgentId' /\ \A j \in AgentId' : j \in AgentId \/ agent'[j].run = r
        /\ run'[r].agent \in AgentId' /\ agent'[run'[r].agent].run = r
        /\ agent'[run'[r].agent].status \in LiveStatus
    BY <1>3, <1>4, <1>5 DEF LiveStatus
  <2> QED BY <1>1, <1>3, <1>4, <1>5, <1>6, <1>8, <2>1, <2>2, <2>3, LineageOfOneRun
<1>10. OrderedExecution'
  BY <1>1, <1>6, OrderKept DEF ActiveStatus
<1>11. StatesSound'
  BY <1>1, <1>6, <1>7 DEF RowsFit, StatesSound, AllDone, ActionsIn, ActiveStatus
<1>12. IdlePointers'
  BY <1>5 DEF RowsFit, IdlePointers, PointersClear
<1>13. FinalClaim'
  BY <1>5, <1>7 DEF RowsFit, FinalClaim, PointersClear, StatesDone
<1>14. AgentSound'
  <2>1. ASSUME NEW j \in AgentId'
        PROVE  /\ run'[agent'[j].run].status # "absent"
               /\ agent'[j].task \in {"queued", "running"} => agent'[j].status \in LiveStatus
               /\ agent'[j].status = "waiting_for_input" => agent'[j].phase = "work"
    <3>1. CASE j = n
      BY <1>3, <1>4, <1>5, <3>1 DEF LiveStatus
    <3>2. CASE j = i
      BY <1>1, <1>2, <1>4, <1>5, <3>2
    <3>3. CASE j \notin {i, n}
      BY <1>4, <1>5, <3>3, AgentFields DEF RowsFit, AgentSound, Live
    <3> QED BY <3>1, <3>2, <3>3
  <2> QED BY <2>1 DEF AgentSound, Live
<1>15. CallSound'
  BY <1>7 DEF CallSound, NoCall
<1>16. HeldSound'
  <2>1. \A j \in AgentId : run'[agent[j].run].status = run[agent[j].run].status
    BY <1>1, <1>5, AgentFields
  <2> QED BY <1>4, <1>7, <1>8, <2>1, HeldKept
<1> QED BY <1>9, <1>10, <1>11, <1>12, <1>13, <1>14, <1>15, <1>16 DEF RowsFit

\* The human's answer: a new Agent continues the waiting Work.
LEMMA AnswerLineage ==
  ASSUME LineageInv, NEW i \in AgentId, Answer(i)
  PROVE  RowsFit' /\ CallSound' /\ HeldSound'
<1> USE DEF LineageInv
<1> DEFINE r == agent[i].run
           a == agent[i].action
           n == Len(agent) + 1
           row == [agent[i] EXCEPT !.status = "completed", !.task = "succeeded"]
           new == NewAgent(r, a, "work", i)
<1>1. Pending(i) /\ agent[i].phase = "work"
  BY DEF Answer, ResumeWorkInput, Pending, RowsFit, AgentSound
<1>2. /\ r \in Run /\ a \in Action /\ a # 0 /\ i # 0 /\ i \in Nat
      /\ run[r] \in RunRow /\ agent[i] \in AgentRow
      /\ run[r].status = "running" /\ run[r].action = a /\ run[r].agent = i
      /\ action[r][a].status = StatusDuring("work") /\ run[r].final # "running"
      /\ agent[i].task # "running"
      /\ \A j \in AgentId \ {i} : Pending(j) => agent[j].run # r
  <2>1. agent[i].task # "running"
    BY DEF Answer, ResumeWorkInput, RowsFit, AgentSound, Live, LiveStatus
  <2> QED BY <1>1, <2>1, PendingLineage, AgentFields, RowTypes
<1>3. row.run = r /\ row.status = "completed" /\ row.task = "succeeded" /\ row \in AgentRow
  BY <1>2 DEF AgentRow, AgentStatus, TaskStatus
<1>4. /\ new.run = r /\ new.action = a /\ new.phase = "work" /\ new.status = "queued"
      /\ new.task = "queued" /\ new \in AgentRow
  BY <1>2, NewAgentType DEF NewAgent, Phase
<1>5. /\ AgentId' = AgentId \cup {n} /\ agent'[n] = new /\ n \notin AgentId /\ n # 0
      /\ agent'[i] = row /\ \A j \in AgentId \ {i} : agent'[j] = agent[j]
  <2> DEFINE agents == [agent EXCEPT ![i] = row]
  <2>1. agent' = Append(agents, new)
    BY DEF Answer, ResumeWorkInput
  <2>2. agents \in Seq(AgentRow) /\ DOMAIN agents = AgentId
    BY <1>2, <1>3, SetAgent DEF AgentId
  <2>3. agents[i] = row /\ \A j \in AgentId \ {i} : agents[j] = agent[j]
    BY DEF TypeOK, AgentId
  <2> HIDE DEF new, row, agents
  <2>4. /\ AgentId' = AgentId \cup {n} /\ agent'[n] = new /\ n \notin AgentId
        /\ \A j \in AgentId : agent'[j] = agents[j]
    BY <1>4, <2>1, <2>2, AgentAppend
  <2> QED BY <2>3, <2>4, RowTypes
<1>6. /\ run'[r].status = "running" /\ run'[r].action = a /\ run'[r].agent = n
      /\ run'[r].final # "running" /\ \A q \in Run \ {r} : run'[q] = run[q]
  <2> DEFINE rrow == [run[r] EXCEPT !.agent = n, !.count = CountAfter(r, 2)]
  <2>1. run' = [run EXCEPT ![r] = rrow]
    BY DEF Answer, ResumeWorkInput
  <2>2. run'[r] = rrow /\ \A q \in Run \ {r} : run'[q] = run[q]
    BY <1>2, <2>1, RunUpdate
  <2> QED BY <1>2, <2>2 DEF RunRow
<1>7. UNCHANGED <<state, action, pc, held, call>> /\ call = NoCall
  BY DEF Answer, ResumeWorkInput, Listening, EventLoopFree
<1> HIDE DEF r, a, n, row, new
<1>8. \A j \in AgentId : /\ agent'[j].run = agent[j].run
                         /\ agent[j].task = "running" => agent'[j].task = "running"
                         /\ agent[j].run # r => agent'[j] = agent[j]
  BY <1>2, <1>3, <1>5 DEF r
<1>9. ActiveLineage'
  <2>1. ASSUME NEW j \in AgentId', agent'[j].run = r,
               agent'[j].status \in LiveStatus \cup {"waiting_for_input"}
        PROVE  j = n
    <3>1. j # i
      BY <1>3, <1>5, <2>1 DEF LiveStatus
    <3> QED BY <1>2, <1>5, <2>1, <3>1 DEF Pending, Live
  <2>2. ASSUME NEW b \in Action
        PROVE  action'[r][b].status \in ActiveStatus <=> run'[r].action = b
    BY <1>2, <1>6, <1>7 DEF RowsFit, ActiveLineage
  <2>3. /\ AgentId \subseteq AgentId' /\ \A j \in AgentId' : j \in AgentId \/ agent'[j].run = r
        /\ run'[r].agent \in AgentId' /\ agent'[run'[r].agent].run = r
        /\ agent'[run'[r].agent].status \in LiveStatus
    BY <1>4, <1>5, <1>6 DEF LiveStatus
  <2> QED BY <1>2, <1>4, <1>5, <1>6, <1>7, <1>8, <2>1, <2>2, <2>3, LineageOfOneRun
<1>10. OrderedExecution' /\ StatesSound'
  BY <1>7 DEF RowsFit, OrderedExecution, StatesSound, AllDone
<1>11. IdlePointers'
  BY <1>6 DEF RowsFit, IdlePointers, PointersClear
<1>12. FinalClaim'
  BY <1>6, <1>7 DEF RowsFit, FinalClaim, PointersClear, StatesDone
<1>13. AgentSound'
  <2>1. ASSUME NEW j \in AgentId'
        PROVE  /\ run'[agent'[j].run].status # "absent"
               /\ agent'[j].task \in {"queued", "running"} => agent'[j].status \in LiveStatus
               /\ agent'[j].status = "waiting_for_input" => agent'[j].phase = "work"
    <3>1. CASE j = n
      BY <1>4, <1>5, <1>6, <3>1 DEF LiveStatus
    <3>2. CASE j = i
      BY <1>2, <1>3, <1>5, <1>6, <3>2
    <3>3. CASE j \notin {i, n}
      BY <1>5, <1>6, <3>3, AgentFields DEF RowsFit, AgentSound, Live
    <3> QED BY <3>1, <3>2, <3>3
  <2> QED BY <2>1 DEF AgentSound, Live
<1>14. CallSound'
  BY <1>7 DEF CallSound, NoCall
<1>15. HeldSound'
  <2>1. \A j \in AgentId : run'[agent[j].run].status = run[agent[j].run].status
    BY <1>2, <1>6, AgentFields
  <2> QED BY <1>5, <1>7, <1>8, <2>1, HeldKept
<1> QED BY <1>9, <1>10, <1>11, <1>12, <1>13, <1>14, <1>15 DEF RowsFit

\* An Action is blocked with its State and its Run.
LEMMA BlockActionLineage ==
  ASSUME LineageInv, NEW i \in AgentId, BlockAction(i)
  PROVE  RowsFit' /\ CallSound' /\ HeldSound'
<1> USE DEF LineageInv
<1> DEFINE r == agent[i].run
           a == agent[i].action
           status == IF agent[i].outcome \in Failure THEN "failed" ELSE "completed"
           row == [agent[i] EXCEPT !.status = status]
<1>1. /\ r \in Run /\ a \in Action /\ a # 0 /\ i # 0 /\ i \in Nat
      /\ run[r] \in RunRow /\ action[r][a] \in ActionRow /\ agent[i] \in AgentRow
      /\ run[r].status = "running" /\ run[r].action = a /\ run[r].agent = i
      /\ action[r][a].status \in ActiveStatus /\ run[r].final # "running"
      /\ agent[i].task \in {"succeeded", "failed"}
      /\ \A j \in AgentId \ {i} : Pending(j) => agent[j].run # r
  BY ApplicableFacts DEF BlockAction
<1>2. status \in {"failed", "completed"}
  OBVIOUS
<1>3. row.run = r /\ row.status = status /\ row.task = agent[i].task
  <2> HIDE DEF status
  <2> QED BY <1>1 DEF AgentRow
<1>4. AgentId' = AgentId /\ agent'[i] = row /\ \A j \in AgentId \ {i} : agent'[j] = agent[j]
  <2>1. agent' = [agent EXCEPT ![i] = row]
    BY DEF BlockAction
  <2> HIDE DEF row
  <2> QED BY <2>1, AgentUpdate
<1>5. /\ run'[r].status = "blocked" /\ run'[r].action = 0 /\ run'[r].agent = 0
      /\ run'[r].final # "running" /\ \A q \in Run \ {r} : run'[q] = run[q]
  <2> DEFINE rrow == [run[r] EXCEPT !.status = "blocked", !.action = 0, !.agent = 0,
                                    !.count = CountAfter(r, ApplyEvents(i))]
  <2>1. run' = [run EXCEPT ![r] = rrow]
    BY DEF BlockAction
  <2>2. run'[r] = rrow /\ \A q \in Run \ {r} : run'[q] = run[q]
    BY <1>1, <2>1, RunUpdate
  <2> QED BY <1>1, <2>2 DEF RunRow
<1>6. /\ action'[r][a].status = "blocked" /\ action'[r][a].imported = action[r][a].imported
      /\ \A b \in Action \ {a} : action'[r][b] = action[r][b]
      /\ \A q \in Run \ {r} : action'[q] = action[q]
  <2> DEFINE arow == [action[r][a] EXCEPT !.status = "blocked"]
  <2>1. action' = [action EXCEPT ![r][a] = arow] /\ TypeOK /\ r \in Run /\ a \in Action
    BY <1>1 DEF BlockAction
  <2>2. /\ action'[r][a] = arow /\ \A b \in Action \ {a} : action'[r][b] = action[r][b]
        /\ \A q \in Run \ {r} : action'[q] = action[q]
    <3> HIDE DEF arow, r, a
    <3> QED BY ONLY <2>1 DEF TypeOK
  <2> QED BY <1>1, <2>2 DEF ActionRow
<1>7. \A q \in Run, s \in State : state'[q][s] = "done" => state[q][s] = "done"
  <2>1. state' = [state EXCEPT ![r][StateOf[a]] = "blocked"] /\ TypeOK
    BY DEF BlockAction
  <2> HIDE DEF r, a
  <2> QED BY ONLY <2>1 DEF TypeOK
<1>8. /\ UNCHANGED <<pc, held>> /\ call' \in {NoCall, ProgressCall(i)}
      /\ \A q \in Run \ {r} : state'[q] = state[q]
  <2>1. state' = [state EXCEPT ![r][StateOf[a]] = "blocked"] /\ TypeOK
    BY DEF BlockAction
  <2>2. \A q \in Run \ {r} : state'[q] = state[q]
    <3> HIDE DEF r, a
    <3> QED BY ONLY <2>1 DEF TypeOK
  <2> QED BY <2>2 DEF BlockAction
<1> HIDE DEF r, a, row, status
<1>9. \A j \in AgentId : /\ agent'[j].run = agent[j].run /\ agent'[j].task = agent[j].task
                         /\ agent[j].run # r => agent'[j] = agent[j]
  BY <1>3, <1>4 DEF r
<1>10. ActiveLineage'
  <2>1. ASSUME NEW j \in AgentId', agent'[j].run = r
        PROVE  agent'[j].status \notin LiveStatus \cup {"waiting_for_input"}
    BY <1>1, <1>2, <1>3, <1>4, <2>1 DEF Pending, Live, LiveStatus
  <2>2. ASSUME NEW b \in Action
        PROVE  action'[r][b].status \in ActiveStatus <=> run'[r].action = b
    <3>1. CASE b = a
      BY <1>1, <1>5, <1>6, <3>1 DEF ActiveStatus
    <3>2. CASE b # a
      BY <1>1, <1>5, <1>6, <3>2 DEF RowsFit, ActiveLineage, Action
    <3> QED BY <3>1, <3>2
  <2> QED BY <1>1, <1>4, <1>5, <1>6, <1>9, <2>1, <2>2, LineageOfOneRun
<1>11. OrderedExecution'
  BY <1>1, <1>6, OrderKept DEF ActiveStatus
<1>12. StatesSound'
  BY <1>1, <1>6, <1>7 DEF RowsFit, StatesSound, AllDone, ActionsIn, ActiveStatus
<1>13. IdlePointers'
  BY <1>5 DEF RowsFit, IdlePointers, PointersClear
<1>14. FinalClaim'
  BY <1>5, <1>8 DEF RowsFit, FinalClaim, PointersClear, StatesDone
<1>15. AgentSound'
  <2>1. ASSUME NEW j \in AgentId
        PROVE  /\ run'[agent'[j].run].status # "absent"
               /\ agent'[j].task \in {"queued", "running"} => agent'[j].status \in LiveStatus
               /\ agent'[j].status = "waiting_for_input" => agent'[j].phase = "work"
    <3>1. CASE j = i
      BY <1>1, <1>2, <1>3, <1>4, <1>5, <3>1
    <3>2. CASE j # i
      BY <1>4, <1>5, <3>2, AgentFields DEF RowsFit, AgentSound, Live
    <3> QED BY <3>1, <3>2
  <2> QED BY <1>4, <2>1 DEF AgentSound, Live
<1>16. CallSound'
  BY <1>1, <1>5, <1>8 DEF CallSound, ProgressCall, NoCall, PointersClear, r
<1>17. HeldSound'
  <2>1. \A j \in AgentId : \/ run'[agent[j].run].status = run[agent[j].run].status
                           \/ run'[agent[j].run].status \notin {"pending", "running"}
    BY <1>1, <1>5, AgentFields
  <2> QED BY <1>4, <1>8, <1>9, <2>1, HeldKept
<1> QED BY <1>10, <1>11, <1>12, <1>13, <1>14, <1>15, <1>16, <1>17 DEF RowsFit

\* The finalizer's verdict completes a Run with nothing left to do.
LEMMA FinalizeSucceedsLineage ==
  ASSUME LineageInv, NEW r \in Run, FinalizeSucceeds(r)
  PROVE  RowsFit' /\ CallSound' /\ HeldSound'
<1> USE DEF LineageInv
<1>1. PointersClear(r)
  BY DEF FinalizeSucceeds, ClaimHolds, RowsFit, FinalClaim
<1>2. /\ run'[r].status = "completed" /\ run'[r].final = "completed"
      /\ run'[r].action = 0 /\ run'[r].agent = 0
      /\ \A q \in Run \ {r} : run'[q] = run[q]
  <2> DEFINE row == [run[r] EXCEPT !.status = "completed", !.final = "completed",
                                   !.count = CountAfter(r, 1)]
  <2>1. run' = [run EXCEPT ![r] = row]
    BY DEF FinalizeSucceeds
  <2>2. run'[r] = row /\ \A q \in Run \ {r} : run'[q] = run[q]
    BY <2>1, RunUpdate
  <2> QED BY <1>1, <2>2, RowTypes DEF RunRow, PointersClear
<1>3. /\ UNCHANGED <<state, action, agent>> /\ AgentId' = AgentId
      /\ pc' # "execute" /\ call' = NoCall
  BY DEF FinalizeSucceeds, Finalizing, EventLoopFree, AgentId
<1>4. \A j \in AgentId : Pending(j) => agent[j].run # r
  BY <1>1, PendingLineage, AgentFields DEF PointersClear
<1>5. ActiveLineage'
  <2>1. \A j \in AgentId' : /\ agent'[j] = agent[j]
                            /\ Pending(j) <=> agent'[j].status \in LiveStatus \cup {"waiting_for_input"}
    BY <1>3 DEF Pending, Live
  <2>2. \A b \in Action : action'[r][b].status \in ActiveStatus <=> run'[r].action = b
    BY <1>1, <1>2, <1>3 DEF RowsFit, ActiveLineage, PointersClear
  <2> QED BY <1>2, <1>3, <1>4, <2>1, <2>2, LineageOfOneRun
<1>6. OrderedExecution' /\ StatesSound'
  BY <1>3 DEF RowsFit, OrderedExecution, StatesSound, AllDone
<1>7. IdlePointers'
  BY <1>2 DEF RowsFit, IdlePointers, PointersClear
<1>8. FinalClaim'
  BY <1>2, <1>3 DEF RowsFit, FinalClaim, PointersClear, StatesDone
<1>9. AgentSound'
  BY <1>2, <1>3, AgentFields DEF RowsFit, AgentSound, Live
<1>10. CallSound' /\ HeldSound'
  BY <1>3 DEF CallSound, NoCall, HeldSound
<1> QED BY <1>5, <1>6, <1>7, <1>8, <1>9, <1>10 DEF RowsFit

\* A step that only gives up finalizations.
LEMMA GiveUpFinalizations ==
  ASSUME LineageInv, UNCHANGED <<state, action, agent>>,
         \A r \in Run : /\ run'[r].status = run[r].status /\ run'[r].action = run[r].action
                        /\ run'[r].agent = run[r].agent
                        /\ run'[r].final = "running" =>
                             run[r].final = "running" /\ run'[r].state = run[r].state
  PROVE  RowsFit'
<1> USE DEF LineageInv
<1>1. AgentId' = AgentId /\ \A j \in AgentId : Pending(j)' <=> Pending(j)
  BY DEF AgentId, Pending, Live
<1>2. ActiveLineage' /\ OrderedExecution' /\ IdlePointers'
  BY <1>1, QuietStep
<1>3. StatesSound'
  BY DEF RowsFit, StatesSound, AllDone
<1>4. FinalClaim'
  BY DEF RowsFit, FinalClaim, PointersClear, StatesDone
<1>5. AgentSound'
  BY <1>1, AgentFields DEF RowsFit, AgentSound, Live
<1> QED BY <1>2, <1>3, <1>4, <1>5 DEF RowsFit

\* The finalizer fails: the claim is given up and the process ends.
LEMMA FinalizeFailsLineage ==
  ASSUME LineageInv, NEW r \in Run, FinalizeFails(r)
  PROVE  RowsFit' /\ CallSound' /\ HeldSound'
<1> DEFINE row == [run[r] EXCEPT !.final = "failed"]
<1>1. run' = [run EXCEPT ![r] = row] /\ UNCHANGED <<state, action, agent>> /\ End("off")
  BY DEF FinalizeFails, Die
<1>2. run'[r] = row /\ \A q \in Run \ {r} : run'[q] = run[q]
  BY <1>1, RunUpdate DEF LineageInv
<1>3. /\ row.status = run[r].status /\ row.action = run[r].action /\ row.agent = run[r].agent
      /\ row.final = "failed"
  BY RowTypes DEF RunRow, LineageInv
<1> HIDE DEF row
<1> QED BY <1>1, <1>2, <1>3, GiveUpFinalizations, EndSound

\* A restart gives up the finalizations the crash interrupted.
LEMMA RecoverFinalizationsLineage ==
  ASSUME LineageInv, RecoverFinalizations
  PROVE  RowsFit' /\ CallSound' /\ HeldSound'
<1> USE DEF LineageInv
<1>1. ASSUME NEW r \in Run
      PROVE  /\ run'[r].status = run[r].status /\ run'[r].action = run[r].action
             /\ run'[r].agent = run[r].agent
             /\ run'[r].final = "running" => run[r].final = "running" /\ run'[r].state = run[r].state
  <2> DEFINE row == [run[r] EXCEPT !.final = "failed"]
  <2>1. run'[r] = IF ClaimHolds(r) THEN row ELSE run[r]
    BY DEF RecoverFinalizations
  <2>2. /\ row.status = run[r].status /\ row.action = run[r].action
        /\ row.agent = run[r].agent /\ row.final = "failed"
    BY RowTypes DEF RunRow
  <2> HIDE DEF row
  <2> QED BY <2>1, <2>2
<1>2. UNCHANGED <<state, action, agent, call>> /\ pc' = "requeue"
  BY DEF RecoverFinalizations
<1>3. RowsFit'
  BY <1>1, <1>2, GiveUpFinalizations
<1>4. CallSound'
  BY <1>1, <1>2 DEF CallSound, PointersClear, AgentId
<1>5. HeldSound'
  BY <1>2 DEF HeldSound
<1> QED BY <1>3, <1>4, <1>5

\* A restart queues what no daemon claimed again.
LEMMA RecoverTasksLineage ==
  ASSUME LineageInv, RecoverTasks
  PROVE  RowsFit' /\ CallSound' /\ HeldSound'
<1> USE DEF LineageInv
<1>1. UNCHANGED <<run, state, action, call>> /\ pc' = "restore" /\ AgentId' = AgentId
  BY DEF RecoverTasks, AgentId
<1>2. ASSUME NEW i \in AgentId
      PROVE  /\ agent'[i].run = agent[i].run /\ agent'[i].action = agent[i].action
             /\ agent'[i].phase = agent[i].phase
             /\ agent'[i].status \in LiveStatus <=> agent[i].status \in LiveStatus
             /\ agent'[i].status = "waiting_for_input" <=> agent[i].status = "waiting_for_input"
             /\ agent'[i].task \in {"queued", "running"} => agent[i].task \in {"queued", "running"}
             /\ agent[i].task \in {"succeeded", "failed"} => agent'[i].task = agent[i].task
  <2> DEFINE status == IF agent[i].status = "running" THEN "queued" ELSE agent[i].status
             row == [agent[i] EXCEPT !.task = "queued", !.status = status]
  <2>1. agent'[i] = IF Unclaimed(i) THEN row ELSE agent[i]
    BY DEF RecoverTasks, AgentId
  <2>2. /\ status \in LiveStatus <=> agent[i].status \in LiveStatus
        /\ status = "waiting_for_input" <=> agent[i].status = "waiting_for_input"
    BY DEF LiveStatus
  <2> HIDE DEF status
  <2>3. /\ row.run = agent[i].run /\ row.action = agent[i].action /\ row.phase = agent[i].phase
        /\ row.status = status /\ row.task = "queued"
    BY RowTypes DEF AgentRow
  <2> HIDE DEF row
  <2> QED BY <2>1, <2>2, <2>3 DEF Unclaimed
<1>3. ActiveLineage' /\ OrderedExecution' /\ IdlePointers'
  BY <1>1, <1>2, QuietStep DEF Pending, Live
<1>4. StatesSound' /\ FinalClaim'
  BY <1>1 DEF RowsFit, StatesSound, AllDone, FinalClaim, PointersClear, StatesDone
<1>5. AgentSound'
  BY <1>1, <1>2 DEF RowsFit, AgentSound, Live
<1>6. CallSound'
  BY <1>1, <1>2 DEF CallSound, PointersClear
<1>7. HeldSound'
  BY <1>1 DEF HeldSound
<1> QED BY <1>3, <1>4, <1>5, <1>6, <1>7 DEF RowsFit

\* A stop closes the Run together with its State, its Action and its Agent.
LEMMA StopLineage ==
  ASSUME LineageInv, NEW r \in Run, NEW kind \in {"cancelled", "interrupted"}, Stop(r, kind),
         UNCHANGED <<pc, held, call>>, call.at \in {"none", "shutdown"}
  PROVE  RowsFit' /\ CallSound' /\ HeldSound'
<1> USE DEF LineageInv
<1> DEFINE g == run[r].agent
           a == run[r].action
           row == StopAgent(g, kind)
<1>1. run[r] \in RunRow /\ Open(r) /\ a \in Action \cup {0}
  BY RowTypes DEF Stop, RunRow
<1>2. /\ g # 0 => g \in AgentId /\ agent[g].run = r /\ Pending(g) /\ agent[g] \in AgentRow
      /\ a # 0 => action[r][a].status \in ActiveStatus /\ action[r][a] \in ActionRow
      /\ \A j \in AgentId : Pending(j) /\ agent[j].run = r => j = g
  <2>1. g # 0 => g \in AgentId /\ agent[g].run = r /\ Pending(g)
    BY DEF RowsFit, ActiveLineage
  <2>2. a # 0 => action[r][a].status \in ActiveStatus
    BY <1>1 DEF RowsFit, ActiveLineage
  <2> QED BY <1>1, <2>1, <2>2, RowTypes, PendingLineage
<1>3. /\ run'[r].status = kind /\ run'[r].action = 0 /\ run'[r].agent = 0
      /\ run'[r].final = run[r].final /\ run'[r].state = 0
      /\ \A q \in Run \ {r} : run'[q] = run[q]
  <2> DEFINE rrow == [run[r] EXCEPT !.status = kind, !.state = 0, !.action = 0,
                                    !.agent = 0, !.count = CountAfter(r, 1)]
  <2>1. run' = [run EXCEPT ![r] = rrow]
    BY DEF Stop
  <2>2. run'[r] = rrow /\ \A q \in Run \ {r} : run'[q] = run[q]
    BY <2>1, RunUpdate
  <2> QED BY <1>1, <2>2 DEF RunRow
<1>4. /\ \A b \in Action : IF b = a THEN action'[r][b].status = kind
                                    ELSE action'[r][b].status = action[r][b].status
      /\ \A b \in Action : action'[r][b].imported = action[r][b].imported
      /\ \A b \in Action \ {a} : action'[r][b] = action[r][b]
      /\ \A q \in Run \ {r} : action'[q] = action[q]
  <2>1. CASE a = 0
    BY <2>1 DEF Stop, Action
  <2>2. CASE a # 0
    <3> DEFINE arow == [action[r][a] EXCEPT !.status = kind]
    <3>1. action' = [action EXCEPT ![r][a] = arow] /\ TypeOK /\ a \in Action
      BY <1>1, <2>2 DEF Stop
    <3>2. /\ action'[r][a] = arow /\ \A b \in Action \ {a} : action'[r][b] = action[r][b]
          /\ \A q \in Run \ {r} : action'[q] = action[q]
      <4> HIDE DEF arow, a
      <4> QED BY ONLY <3>1 DEF TypeOK
    <3> QED BY <1>2, <2>2, <3>1, <3>2 DEF ActionRow
  <2> QED BY <2>1, <2>2
<1>5. /\ \A q \in Run, s \in State : state'[q][s] = "done" => state[q][s] = "done"
      /\ \A q \in Run \ {r} : state'[q] = state[q]
      /\ run[r].state = 0 => state' = state
  <2>1. CASE run[r].state = 0
    BY <2>1 DEF Stop
  <2>2. CASE run[r].state # 0
    <3> DEFINE s == run[r].state
    <3>1. state' = [state EXCEPT ![r][s] = kind] /\ TypeOK /\ s \in State
      BY <1>1, <2>2 DEF Stop, RunRow
    <3> HIDE DEF s
    <3>2. /\ \A q \in Run, t \in State : state'[q][t] = "done" => state[q][t] = "done"
          /\ \A q \in Run \ {r} : state'[q] = state[q]
      BY ONLY <3>1 DEF TypeOK
    <3> QED BY <2>2, <3>2
  <2> QED BY <2>1, <2>2
<1>6. /\ AgentId' = AgentId
      /\ \A j \in AgentId \ {g} : agent'[j] = agent[j]
      /\ g # 0 => /\ agent'[g].run = r /\ agent'[g].action = agent[g].action
                  /\ agent'[g].status = kind /\ agent'[g].task \notin {"queued", "running"}
  <2>1. CASE g = 0
    BY <2>1 DEF Stop, AgentId
  <2>2. CASE g # 0
    <3> DEFINE task == IF agent[g].task \in {"queued", "running", "waiting_for_input"}
                       THEN "cancelled" ELSE agent[g].task
               stopped == [agent[g] EXCEPT !.status = kind, !.task = task]
    <3>1. agent' = [agent EXCEPT ![g] = stopped]
      <4>1. agent' = [agent EXCEPT ![g] = row]
        BY <2>2 DEF Stop
      <4>2. row = stopped
        BY <1>2, <2>2 DEF StopAgent, Pending, Live
      <4> QED BY <4>1, <4>2
    <3>2. AgentId' = AgentId /\ agent'[g] = stopped /\ \A j \in AgentId \ {g} : agent'[j] = agent[j]
      <4> HIDE DEF stopped
      <4> QED BY <1>2, <2>2, <3>1, AgentUpdate
    <3>3. task \notin {"queued", "running"}
      OBVIOUS
    <3> HIDE DEF task
    <3> QED BY <1>2, <2>2, <3>2, <3>3 DEF AgentRow
  <2> QED BY <2>1, <2>2
<1> HIDE DEF row
<1>7. \A j \in AgentId : /\ agent'[j].run = agent[j].run
                         /\ agent[j].run # r => agent'[j] = agent[j]
  BY <1>2, <1>6, AgentFields
<1>8. \A j \in AgentId : agent'[j].run = r =>
        agent'[j].status \notin LiveStatus \cup {"waiting_for_input"}
  BY <1>2, <1>6, AgentFields DEF Pending, Live, LiveStatus
<1>9. ActiveLineage'
  <2>1. ASSUME NEW b \in Action
        PROVE  action'[r][b].status \in ActiveStatus <=> run'[r].action = b
    <3>1. CASE b = a
      BY <1>3, <1>4, <3>1 DEF ActiveStatus, Action
    <3>2. CASE b # a
      BY <1>3, <1>4, <3>2 DEF RowsFit, ActiveLineage, Action
    <3> QED BY <3>1, <3>2
  <2> QED BY <1>3, <1>4, <1>6, <1>7, <1>8, <2>1, LineageOfOneRun
<1>10. OrderedExecution'
  <2>1. CASE a = 0
    <3>1. action' = action
      BY <2>1 DEF Stop
    <3> QED BY <3>1 DEF RowsFit, OrderedExecution
  <2>2. CASE a # 0
    <3>1. a \in Action /\ action[r][a].status \notin {"pending", "done"}
      BY <1>1, <1>2, <2>2 DEF ActiveStatus
    <3> HIDE DEF a
    <3> QED BY <1>4, <3>1, OrderKept
  <2> QED BY <2>1, <2>2
<1>11. StatesSound'
  <2>1. SUFFICES ASSUME NEW q \in Run, NEW t \in State, state'[q][t] = "done",
                        NEW b \in ActionsIn(t)
                 PROVE  action'[q][b].status = "done"
    BY DEF StatesSound, AllDone
  <2>2. b \in Action /\ action[q][b].status = "done"
    BY <1>5, <2>1 DEF RowsFit, StatesSound, AllDone, ActionsIn
  <2>3. q = r => b # a
    BY <1>2, <2>2 DEF ActiveStatus, Action
  <2> QED BY <1>4, <2>2, <2>3
<1>12. IdlePointers'
  BY <1>3 DEF RowsFit, IdlePointers, PointersClear
<1>13. FinalClaim'
  BY <1>3, <1>5 DEF RowsFit, FinalClaim, PointersClear, StatesDone
<1>14. AgentSound'
  <2>1. ASSUME NEW j \in AgentId
        PROVE  /\ run'[agent'[j].run].status # "absent"
               /\ agent'[j].task \in {"queued", "running"} => agent'[j].status \in LiveStatus
               /\ agent'[j].status = "waiting_for_input" => agent'[j].phase = "work"
    <3>1. CASE j = g
      BY <1>2, <1>3, <1>6, <3>1, AgentFields
    <3>2. CASE j # g
      BY <1>3, <1>6, <3>2, AgentFields DEF RowsFit, AgentSound, Live
    <3> QED BY <3>1, <3>2
  <2> QED BY <1>6, <2>1 DEF AgentSound, Live
<1>15. CallSound'
  BY DEF CallSound
<1>16. HeldSound'
  <2>1. ASSUME NEW j \in AgentId
        PROVE  \/ run'[agent[j].run].status \notin {"pending", "running"}
               \/ /\ agent[j].task = "running" => agent'[j].task = "running"
                  /\ run'[agent[j].run].status = run[agent[j].run].status
    BY <1>3, <1>7, AgentFields
  <2> QED BY <1>6, <1>7, <2>1, HeldKept
<1> QED BY <1>9, <1>10, <1>11, <1>12, <1>13, <1>14, <1>15, <1>16 DEF RowsFit

-----------------------------------------------------------------------------
(* The steps that write no row: they only move the process.                *)

\* A returned, refused, skipped or interrupted step, and everything the boot
\* sequence does in memory.
MemoryStep ==
  \/ \E r \in Run : \/ ProgressReturns(r) \/ ProgressRefused(r) \/ FinalizeStale(r)
                    \/ PrecheckTooLong(r)
                    \/ InterruptRefused(r) \/ ResumeFinalization(r)
  \/ \E i \in AgentId : \/ TakeAnswered(i) \/ TakeCancelled(i) \/ ProviderIgnored(i)
                        \/ WorkAskRefused(i) \/ ApplyRefused(i) \/ RequeueTask(i)
  \/ PumpRests \/ Shutdown \/ ShutdownFails \/ InterruptsDone \/ ShutdownExits
  \/ Crash \/ Restart \/ StartServer \/ RequeueEnds \/ Boot \/ CleanupStep

\* Such a step calls only what its rows allow, and awaits nothing new.
LEMMA MemoryStepLineage ==
  ASSUME LineageInv, MemoryStep
  PROVE  RowsFit' /\ CallSound' /\ HeldSound'
<1> USE DEF LineageInv
<1>1. UNCHANGED <<run, state, action, agent>>
  BY DEF MemoryStep, ProgressReturns, ProgressRefused, FinalizeStale, InterruptRefused,
         ResumeFinalization, TakeAnswered, TakeCancelled, ProviderIgnored, WorkAskRefused,
         ApplyRefused, RequeueTask, PumpRests, Shutdown, ShutdownFails, InterruptsDone,
         ShutdownExits, Crash, Restart, StartServer, RequeueEnds, Boot, PrecheckTooLong,
         CleanupStep, CleanupEnds, CleanupFails, durable
<1>2. RowsFit'
  BY <1>1, SameRows
<1>3. CASE \E point \in {"off", "exited"} : End(point)
  BY <1>2, <1>3, EndSound
<1>4. \/ \E point \in {"off", "exited"} : End(point)
      \/ UNCHANGED <<pc, held>> \/ pc' # "execute"
  BY DEF MemoryStep, ProgressReturns, ProgressRefused, FinalizeStale, InterruptRefused,
         ResumeFinalization, TakeAnswered, TakeCancelled, ProviderIgnored, WorkAskRefused,
         ApplyRefused, RequeueTask, PumpRests, Shutdown, ShutdownFails, InterruptsDone,
         ShutdownExits, Crash, Restart, StartServer, RequeueEnds, Boot, PrecheckTooLong,
         CleanupStep, CleanupEnds, CleanupFails, Die, Returned
<1>5. \/ \E point \in {"off", "exited"} : End(point)
      \/ UNCHANGED call
      \/ call'.at \in {"none", "shutdown"}
      \/ \E i \in AgentId : call' = ApplyCall(i) /\ agent[i].task \in {"succeeded", "failed"}
      \/ \E r \in Run : call' = [at |-> "progress", run |-> r, task |-> 0] /\ PointersClear(r)
  BY DEF MemoryStep, ProgressReturns, ProgressRefused, FinalizeStale, InterruptRefused,
         ResumeFinalization, TakeAnswered, TakeCancelled, ProviderIgnored, WorkAskRefused,
         ApplyRefused, RequeueTask, PumpRests, Shutdown, ShutdownFails, InterruptsDone,
         ShutdownExits, Crash, Restart, StartServer, RequeueEnds, Boot, PrecheckTooLong,
         CleanupStep, CleanupEnds, CleanupFails, Die, Finalizable,
         PointersClear, NoCall
<1>6. CASE ~\E point \in {"off", "exited"} : End(point)
  <2>1. AgentId' = AgentId /\ run' = run /\ agent' = agent
    BY <1>1 DEF AgentId
  <2>2. HeldSound'
    BY <1>4, <1>6, <2>1 DEF HeldSound, Open
  <2>3. CallSound'
    <3>1. CASE UNCHANGED call
      BY <2>1, <3>1 DEF CallSound, PointersClear
    <3>2. CASE call'.at \in {"none", "shutdown"}
      BY <3>2 DEF CallSound
    <3>3. CASE \E i \in AgentId : call' = ApplyCall(i) /\ agent[i].task \in {"succeeded", "failed"}
      BY <2>1, <3>3 DEF CallSound, ApplyCall
    <3>4. CASE \E r \in Run : call' = [at |-> "progress", run |-> r, task |-> 0] /\ PointersClear(r)
      BY <2>1, <3>4 DEF CallSound, PointersClear
    <3> QED BY <1>5, <1>6, <3>1, <3>2, <3>3, <3>4
  <2> QED BY <1>2, <2>2, <2>3
<1> QED BY <1>3, <1>6

-----------------------------------------------------------------------------
(* The invariant holds initially and is kept by every step.                *)

\* Before anything is started nothing points anywhere.
LEMMA InitLineage == Init => LineageInv
<1> SUFFICES ASSUME Init PROVE LineageInv
  OBVIOUS
<1>1. TypeOK
  BY InitType
<1>2. AgentId = {}
  BY DEF Init, AgentId
<1>3. /\ \A r \in Run : /\ run[r].status = "absent" /\ run[r].final = "none"
                        /\ run[r].action = 0 /\ run[r].agent = 0
      /\ \A r \in Run, s \in State : state[r][s] = "pending"
      /\ \A r \in Run, a \in Action : action[r][a].status = "pending"
  BY DEF Init
<1>4. ActiveLineage
  BY <1>2, <1>3 DEF ActiveLineage, ActiveStatus, Action
<1>5. OrderedExecution /\ StatesSound /\ IdlePointers /\ FinalClaim /\ AgentSound
  BY <1>2, <1>3 DEF OrderedExecution, StatesSound, IdlePointers, FinalClaim, AgentSound,
                    PointersClear
<1>6. CallSound /\ HeldSound
  BY DEF Init, CallSound, HeldSound, NoCall
<1> QED BY <1>1, <1>4, <1>5, <1>6 DEF LineageInv, RowsFit

\* Every step of the server, a crash included, keeps the invariant.
LEMMA NextLineage == LineageInv /\ [Next]_vars => LineageInv'
<1> SUFFICES ASSUME LineageInv, [Next]_vars PROVE LineageInv'
  OBVIOUS
<1>1. TypeOK'
  BY NextType DEF LineageInv
<1>2. CASE UNCHANGED vars
  <2>1. UNCHANGED <<run, state, action, agent, pc, held, call>> /\ AgentId' = AgentId
    BY <1>2 DEF vars, durable, volatile, AgentId
  <2>2. RowsFit'
    BY <2>1, SameRows DEF LineageInv
  <2>3. CallSound' /\ HeldSound'
    BY <2>1 DEF LineageInv, CallSound, HeldSound, PointersClear, Open
  <2> QED BY <1>1, <2>2, <2>3 DEF LineageInv
<1>3. CASE MemoryStep
  BY <1>1, <1>3, MemoryStepLineage DEF LineageInv
<1>4. CASE Next /\ ~MemoryStep
  <2>1. CASE \E r \in Run : ProgressStep(r)
    BY <1>1, <1>4, <2>1, CompleteStateLineage, ClaimFinalizationLineage, AdvanceLineage,
       DispatchPrecheckLineage DEF ProgressStep, MemoryStep, LineageInv
  <2>2. CASE \E r \in Run : FinalizeStep(r)
    BY <1>1, <1>4, <2>2, FinalizeSucceedsLineage, FinalizeFailsLineage
       DEF FinalizeStep, MemoryStep, LineageInv
  <2>3. CASE PumpStep \/ ProviderStep \/ ApplyStep \/ \E i \in AgentId : DaemonClaim(i)
    BY <1>1, <1>4, <2>3, TakeRunnableLineage, ProviderAnswersLineage, WorkAsksLineage,
       FinishActionLineage, DispatchNextLineage, BlockActionLineage, DaemonClaimLineage
       DEF PumpStep, ProviderStep, ApplyStep, MemoryStep, LineageInv
  <2>4. CASE HttpStep
    <3>1. ASSUME NEW r \in Run, Cancel(r) PROVE RowsFit' /\ CallSound' /\ HeldSound'
      BY <3>1, StopLineage DEF Cancel, Listening, EventLoopFree, NoCall, volatile
    <3> QED BY <1>1, <2>4, <3>1, StartLineage, AnswerLineage DEF HttpStep, LineageInv
  <2>5. CASE ShutdownStep
    <3>1. ASSUME NEW r \in Run, InterruptRun(r) PROVE RowsFit' /\ CallSound' /\ HeldSound'
      BY <3>1, StopLineage DEF InterruptRun, volatile
    <3> QED BY <1>1, <1>4, <2>5, <3>1 DEF ShutdownStep, MemoryStep, LineageInv
  <2>6. CASE BootStep
    BY <1>1, <1>4, <2>6, RecoverTasksLineage, RecoverFinalizationsLineage
       DEF BootStep, MemoryStep, LineageInv
  <2> QED BY <1>4, <2>1, <2>2, <2>3, <2>4, <2>5, <2>6 DEF Next, MemoryStep
<1> QED BY <1>2, <1>3, <1>4

\* The pointers of every Run agree with its rows in every reachable state:
\* what FlowCoordinator, DispatchCoordinator and ActionOutcomeCoordinator read
\* of one table after an await, a crash or a restart fits the other tables.
THEOREM LineageCorrect == Spec => []ActiveLineage
<1>1. Init => LineageInv
  BY InitLineage
<1>2. LineageInv /\ [Next]_vars => LineageInv'
  BY NextLineage
<1>3. LineageInv => ActiveLineage
  BY DEF LineageInv, RowsFit
<1> QED BY <1>1, <1>2, <1>3, PTL DEF Spec

\* No Action is selected before everything in front of it is done, across
\* States, retries, cancellations and restarts.
THEOREM OrderCorrect == Spec => []OrderedExecution
<1>1. Init => LineageInv
  BY InitLineage
<1>2. LineageInv /\ [Next]_vars => LineageInv'
  BY NextLineage
<1>3. LineageInv => OrderedExecution
  BY DEF LineageInv, RowsFit
<1> QED BY <1>1, <1>2, <1>3, PTL DEF Spec

-----------------------------------------------------------------------------
(* The rows a handler leaves behind.                                       *)

\* The only Run a step touches.
OnlyRun(r) ==
  /\ \A q \in Run \ {r} : run'[q] = run[q] /\ action'[q] = action[q] /\ state'[q] = state[q]
  /\ AgentId \subseteq AgentId'
  /\ \A j \in AgentId : /\ agent'[j].run = agent[j].run
                        /\ agent[j].run # r => agent'[j] = agent[j]
  /\ \A j \in AgentId' \ AgentId : agent'[j].run = r

\* What identifies an Agent is written once, and an Agent that is over is
\* not written again.
SameAgent(j) ==
  /\ agent'[j].run = agent[j].run /\ agent'[j].action = agent[j].action
  /\ agent'[j].phase = agent[j].phase /\ agent'[j].attempt = agent[j].attempt
  /\ agent'[j].parent = agent[j].parent
  /\ ~Pending(j) => agent'[j] = agent[j]

\* A Run is opened: it had no Agent, and what it imports is done.
LEMMA StartRows ==
  ASSUME LineageInv, NEW r \in Run, NEW imported \in Importable, Start(r, imported)
  PROVE  /\ run[r].status = "absent" /\ run[r].agent = 0
         /\ run'[r].status = "pending" /\ run'[r].agent = 0 /\ run'[r].action = 0
         /\ \A b \in Action : /\ action'[r][b].status = IF b \in imported THEN "done" ELSE "pending"
                              /\ action'[r][b].imported = (b \in imported)
                              /\ action'[r][b].attempt = 0
         /\ UNCHANGED <<agent, feedback>> /\ AgentId' = AgentId
         /\ \A j \in AgentId : agent[j].run # r
         /\ OnlyRun(r) /\ \A j \in AgentId : SameAgent(j)
<1> USE DEF LineageInv
<1>1. run[r].status = "absent" /\ PointersClear(r)
  BY DEF Start, RowsFit, IdlePointers
<1>2. /\ run'[r].status = "pending" /\ run'[r].agent = 0 /\ run'[r].action = 0
      /\ \A q \in Run \ {r} : run'[q] = run[q]
  <2> DEFINE row == [run[r] EXCEPT !.status = "pending", !.count = 1 + Cardinality(imported)]
  <2>1. run' = [run EXCEPT ![r] = row]
    BY DEF Start
  <2>2. run'[r] = row /\ \A q \in Run \ {r} : run'[q] = run[q]
    BY <2>1, RunUpdate
  <2> QED BY <1>1, <2>2, RowTypes DEF RunRow, PointersClear
<1>3. /\ \A b \in Action : /\ action'[r][b].status = IF b \in imported THEN "done" ELSE "pending"
                           /\ action'[r][b].imported = (b \in imported)
                           /\ action'[r][b].attempt = 0
      /\ \A q \in Run \ {r} : action'[q] = action[q] /\ state'[q] = state[q]
  BY DEF Start, TypeOK
<1>4. UNCHANGED <<agent, feedback>> /\ AgentId' = AgentId
  BY DEF Start, AgentId
<1>5. \A j \in AgentId : agent[j].run # r
  BY <1>1 DEF RowsFit, AgentSound
<1> QED BY <1>1, <1>2, <1>3, <1>4, <1>5 DEF OnlyRun, SameAgent, PointersClear

\* The first open Action is selected; it has no Agent yet.
LEMMA AdvanceRows ==
  ASSUME LineageInv, NEW r \in Run, NEW s \in State, NEW a \in Action, Advance(r, s, a)
  PROVE  /\ Open(r) /\ run[r].action = 0 /\ run[r].agent = 0 /\ action[r][a].status = "pending"
         /\ run'[r].status = "running" /\ run'[r].action = a /\ run'[r].agent = 0
         /\ action'[r][a].status = "prechecking"
         /\ action'[r][a].attempt = action[r][a].attempt
         /\ action'[r][a].imported = action[r][a].imported
         /\ \A b \in Action \ {a} : action'[r][b] = action[r][b]
         /\ UNCHANGED <<agent, feedback>> /\ AgentId' = AgentId
         /\ OnlyRun(r) /\ \A j \in AgentId : SameAgent(j)
<1> USE DEF LineageInv
<1>1. Open(r) /\ run[r].action = 0 /\ run[r].agent = 0 /\ action[r][a].status = "pending"
  BY DEF Advance, Selectable
<1>2. /\ run'[r].status = "running" /\ run'[r].action = a /\ run'[r].agent = 0
      /\ \A q \in Run \ {r} : run'[q] = run[q]
  <2> DEFINE row == [run[r] EXCEPT !.status = "running", !.state = s, !.action = a,
                                   !.count = CountAfter(r, SelectionEvents(r, s))]
  <2>1. run' = [run EXCEPT ![r] = row]
    BY DEF Advance
  <2>2. run'[r] = row /\ \A q \in Run \ {r} : run'[q] = run[q]
    BY <2>1, RunUpdate
  <2> QED BY <1>1, <2>2, RowTypes DEF RunRow
<1>3. \A q \in Run \ {r} : state'[q] = state[q]
  BY DEF Advance, TypeOK
<1>4. /\ action'[r][a].status = "prechecking" /\ action'[r][a].imported = action[r][a].imported
      /\ action'[r][a].attempt = action[r][a].attempt
      /\ \A b \in Action \ {a} : action'[r][b] = action[r][b]
      /\ \A q \in Run \ {r} : action'[q] = action[q]
  <2> DEFINE row == [action[r][a] EXCEPT !.status = "prechecking"]
  <2>1. action' = [action EXCEPT ![r][a] = row]
    BY DEF Advance
  <2>2. /\ action'[r][a] = row /\ \A b \in Action \ {a} : action'[r][b] = action[r][b]
        /\ \A q \in Run \ {r} : action'[q] = action[q]
    <3>1. TypeOK
      OBVIOUS
    <3> HIDE DEF row
    <3> QED BY ONLY <2>1, <3>1 DEF TypeOK
  <2> QED BY <2>2, RowTypes DEF ActionRow
<1>5. UNCHANGED <<agent, feedback>> /\ AgentId' = AgentId
  BY DEF Advance, AgentId
<1> QED BY <1>1, <1>2, <1>3, <1>4, <1>5 DEF OnlyRun, SameAgent

\* The precheck Validation is created for the selected Action.
LEMMA DispatchPrecheckRows ==
  ASSUME LineageInv, NEW r \in Run, NEW a \in Action, DispatchPrecheck(r, a),
         NEW n, n = Len(agent) + 1
  PROVE  /\ run[r].status = "running" /\ run[r].action = a /\ run[r].agent = 0
         /\ action[r][a].status = "prechecking"
         /\ run'[r].status = "running" /\ run'[r].action = a /\ run'[r].agent = n
         /\ agent'[n] = NewAgent(r, a, "precheck", 0)
         /\ AgentId' = AgentId \cup {n} /\ n \notin AgentId /\ n # 0 /\ \A j \in AgentId : j < n
         /\ UNCHANGED <<action, state, feedback>>
         /\ \A j \in AgentId : agent'[j] = agent[j]
         /\ OnlyRun(r) /\ \A j \in AgentId : SameAgent(j)
<1> USE DEF LineageInv
<1> DEFINE new == NewAgent(r, a, "precheck", 0)
<1>1. /\ run[r].status = "running" /\ run[r].action = a /\ run[r].agent = 0
      /\ action[r][a].status = "prechecking"
  BY DEF DispatchPrecheck, CallSound
<1>2. /\ run'[r].status = "running" /\ run'[r].action = a /\ run'[r].agent = n
      /\ \A q \in Run \ {r} : run'[q] = run[q]
  <2> DEFINE row == [run[r] EXCEPT !.agent = n, !.count = CountAfter(r, 1)]
  <2>1. run' = [run EXCEPT ![r] = row]
    BY DEF DispatchPrecheck
  <2>2. run'[r] = row /\ \A q \in Run \ {r} : run'[q] = run[q]
    BY <2>1, RunUpdate
  <2> QED BY <1>1, <2>2, RowTypes DEF RunRow
<1>3. new \in AgentRow /\ new.run = r
  BY NewAgentType DEF NewAgent, Phase
<1>4. /\ AgentId' = AgentId \cup {n} /\ agent'[n] = new /\ n \notin AgentId /\ n # 0
      /\ \A j \in AgentId : agent'[j] = agent[j] /\ j < n
  <2>1. agent' = Append(agent, new) /\ agent \in Seq(AgentRow) /\ DOMAIN agent = AgentId
    BY DEF DispatchPrecheck, TypeOK, AgentId
  <2> HIDE DEF new
  <2> QED BY <1>3, <2>1, AgentAppend, RowTypes
<1>5. UNCHANGED <<action, state, feedback>>
  BY DEF DispatchPrecheck
<1> HIDE DEF new
<1>6. OnlyRun(r) /\ \A j \in AgentId : SameAgent(j)
  BY <1>2, <1>3, <1>4, <1>5 DEF OnlyRun, SameAgent
<1> QED BY <1>1, <1>2, <1>4, <1>5, <1>6 DEF new

\* Validation accepts: the Action is done and its Agent over.
LEMMA FinishActionRows ==
  ASSUME LineageInv, NEW i \in AgentId, FinishAction(i),
         NEW r, r = agent[i].run, NEW a, a = agent[i].action
  PROVE  /\ r \in Run /\ a \in Action /\ run[r].status = "running" /\ run[r].agent = i
         /\ run[r].action = a /\ action[r][a].status \in ActiveStatus /\ Pending(i)
         /\ run'[r].status = "running" /\ run'[r].action = 0 /\ run'[r].agent = 0
         /\ action'[r][a].status = "done" /\ action'[r][a].attempt = action[r][a].attempt
         /\ action'[r][a].imported = action[r][a].imported
         /\ \A b \in Action \ {a} : action'[r][b] = action[r][b]
         /\ agent'[i].status = "completed" /\ agent'[i].outcome = agent[i].outcome
         /\ agent'[i].task = agent[i].task
         /\ AgentId' = AgentId /\ \A j \in AgentId \ {i} : agent'[j] = agent[j]
         /\ UNCHANGED <<state, feedback>>
         /\ OnlyRun(r) /\ \A j \in AgentId : SameAgent(j)
<1> USE DEF LineageInv
<1> DEFINE row == [agent[i] EXCEPT !.status = "completed"]
<1>1. /\ r \in Run /\ a \in Action /\ run[r] \in RunRow /\ action[r][a] \in ActionRow
      /\ agent[i] \in AgentRow /\ run[r].status = "running" /\ run[r].action = a
      /\ run[r].agent = i /\ action[r][a].status \in ActiveStatus /\ Pending(i)
  BY ApplicableFacts DEF FinishAction
<1>2. /\ row.run = r /\ row.action = a /\ row.phase = agent[i].phase
      /\ row.attempt = agent[i].attempt /\ row.parent = agent[i].parent
      /\ row.status = "completed" /\ row.outcome = agent[i].outcome /\ row.task = agent[i].task
  BY <1>1 DEF AgentRow
<1>3. AgentId' = AgentId /\ agent'[i] = row /\ \A j \in AgentId \ {i} : agent'[j] = agent[j]
  BY AgentUpdate DEF FinishAction
<1> HIDE DEF row
<1>4. /\ run'[r].status = "running" /\ run'[r].action = 0 /\ run'[r].agent = 0
      /\ \A q \in Run \ {r} : run'[q] = run[q]
  <2> DEFINE rrow == [run[r] EXCEPT !.action = 0, !.agent = 0,
                                    !.count = CountAfter(r, ApplyEvents(i))]
  <2>1. run' = [run EXCEPT ![r] = rrow]
    BY DEF FinishAction
  <2>2. run'[r] = rrow /\ \A q \in Run \ {r} : run'[q] = run[q]
    BY <1>1, <2>1, RunUpdate
  <2> QED BY <1>1, <2>2 DEF RunRow
<1>5. /\ action'[r][a].status = "done" /\ action'[r][a].imported = action[r][a].imported
      /\ action'[r][a].attempt = action[r][a].attempt
      /\ \A b \in Action \ {a} : action'[r][b] = action[r][b]
      /\ \A q \in Run \ {r} : action'[q] = action[q]
  <2> DEFINE arow == [action[r][a] EXCEPT !.status = "done"]
  <2>1. action' = [action EXCEPT ![r][a] = arow] /\ TypeOK /\ r \in Run /\ a \in Action
    BY <1>1 DEF FinishAction
  <2>2. /\ action'[r][a] = arow /\ \A b \in Action \ {a} : action'[r][b] = action[r][b]
        /\ \A q \in Run \ {r} : action'[q] = action[q]
    <3> HIDE DEF arow
    <3> QED BY ONLY <2>1 DEF TypeOK
  <2> QED BY <1>1, <2>2 DEF ActionRow
<1>6. UNCHANGED <<state, feedback>>
  BY DEF FinishAction
<1>7. OnlyRun(r) /\ \A j \in AgentId : SameAgent(j)
  BY <1>1, <1>2, <1>3, <1>4, <1>5, <1>6 DEF OnlyRun, SameAgent
<1> QED BY <1>1, <1>2, <1>3, <1>4, <1>5, <1>6, <1>7

\* The next Agent of the Action takes over from the one that completed.
LEMMA DispatchNextRows ==
  ASSUME LineageInv, NEW i \in AgentId, DispatchNext(i),
         NEW r, r = agent[i].run, NEW a, a = agent[i].action,
         NEW n, n = Len(agent) + 1
  PROVE  /\ r \in Run /\ a \in Action /\ run[r].status = "running" /\ run[r].agent = i
         /\ run[r].action = a /\ action[r][a].status \in ActiveStatus /\ Pending(i)
         /\ run'[r].status = "running" /\ run'[r].action = a /\ run'[r].agent = n
         /\ action'[r][a].status = StatusDuring(NextPhase(i))
         /\ action'[r][a].attempt = AttemptAfter(i)
         /\ action'[r][a].imported = action[r][a].imported
         /\ \A b \in Action \ {a} : action'[r][b] = action[r][b]
         /\ agent'[i].status = "completed" /\ agent'[i].outcome = agent[i].outcome
         /\ agent'[i].task = agent[i].task
         /\ agent'[n] = NewAgent(r, a, NextPhase(i), i)
         /\ AgentId' = AgentId \cup {n} /\ n \notin AgentId /\ n # 0 /\ \A j \in AgentId : j < n
         /\ \A j \in AgentId \ {i} : agent'[j] = agent[j]
         /\ UNCHANGED <<state, feedback>>
         /\ OnlyRun(r) /\ \A j \in AgentId : SameAgent(j)
<1> USE DEF LineageInv
<1> DEFINE row == [agent[i] EXCEPT !.status = "completed"]
           new == NewAgent(r, a, NextPhase(i), i)
<1>1. /\ r \in Run /\ a \in Action /\ run[r] \in RunRow /\ action[r][a] \in ActionRow
      /\ agent[i] \in AgentRow /\ run[r].status = "running" /\ run[r].action = a
      /\ run[r].agent = i /\ action[r][a].status \in ActiveStatus /\ Pending(i) /\ i \in Nat
  BY ApplicableFacts DEF DispatchNext
<1>2. /\ row.run = r /\ row.action = a /\ row.phase = agent[i].phase
      /\ row.attempt = agent[i].attempt /\ row.parent = agent[i].parent
      /\ row.status = "completed" /\ row.outcome = agent[i].outcome /\ row.task = agent[i].task
      /\ row \in AgentRow
  BY <1>1 DEF AgentRow, AgentStatus
<1>3. new \in AgentRow /\ new.run = r
  <2>1. NextPhase(i) \in Phase
    BY DEF NextPhase, Phase
  <2> QED BY <1>1, <2>1, NewAgentType DEF NewAgent
<1>4. /\ AgentId' = AgentId \cup {n} /\ agent'[n] = new /\ n \notin AgentId /\ n # 0
      /\ agent'[i] = row /\ (\A j \in AgentId \ {i} : agent'[j] = agent[j])
      /\ \A j \in AgentId : j < n
  <2> DEFINE agents == [agent EXCEPT ![i] = row]
  <2>1. agent' = Append(agents, new)
    BY DEF DispatchNext
  <2>2. agents \in Seq(AgentRow) /\ DOMAIN agents = AgentId
    BY <1>1, <1>2, SetAgent DEF AgentId
  <2>3. agents[i] = row /\ \A j \in AgentId \ {i} : agents[j] = agent[j]
    BY DEF TypeOK, AgentId
  <2> HIDE DEF new, row, agents
  <2>4. /\ AgentId' = AgentId \cup {n} /\ agent'[n] = new /\ n \notin AgentId
        /\ \A j \in AgentId : agent'[j] = agents[j]
    BY <1>3, <2>1, <2>2, AgentAppend
  <2> QED BY <2>3, <2>4, RowTypes
<1>5. /\ run'[r].status = "running" /\ run'[r].action = a /\ run'[r].agent = n
      /\ \A q \in Run \ {r} : run'[q] = run[q]
  <2> DEFINE rrow == [run[r] EXCEPT !.agent = n, !.count = CountAfter(r, ApplyEvents(i))]
  <2>1. run' = [run EXCEPT ![r] = rrow]
    BY DEF DispatchNext
  <2>2. run'[r] = rrow /\ \A q \in Run \ {r} : run'[q] = run[q]
    BY <1>1, <2>1, RunUpdate
  <2> QED BY <1>1, <2>2 DEF RunRow
<1>6. /\ action'[r][a].status = StatusDuring(NextPhase(i))
      /\ action'[r][a].attempt = AttemptAfter(i)
      /\ action'[r][a].imported = action[r][a].imported
      /\ \A b \in Action \ {a} : action'[r][b] = action[r][b]
      /\ \A q \in Run \ {r} : action'[q] = action[q]
  <2> DEFINE arow == [action[r][a] EXCEPT !.status = StatusDuring(NextPhase(i)),
                                          !.attempt = AttemptAfter(i)]
  <2>1. action' = [action EXCEPT ![r][a] = arow] /\ TypeOK /\ r \in Run /\ a \in Action
    BY <1>1 DEF DispatchNext
  <2>2. /\ action'[r][a] = arow /\ \A b \in Action \ {a} : action'[r][b] = action[r][b]
        /\ \A q \in Run \ {r} : action'[q] = action[q]
    <3> HIDE DEF arow
    <3> QED BY ONLY <2>1 DEF TypeOK
  <2> QED BY <1>1, <2>2 DEF ActionRow
<1>7. UNCHANGED <<state, feedback>>
  BY DEF DispatchNext
<1> HIDE DEF row, new
<1>8. OnlyRun(r)
  BY <1>1, <1>2, <1>3, <1>4, <1>5, <1>6, <1>7 DEF OnlyRun
<1>9. \A j \in AgentId : SameAgent(j)
  BY <1>1, <1>2, <1>4 DEF SameAgent
<1> QED BY <1>1, <1>2, <1>4, <1>5, <1>6, <1>7, <1>8, <1>9 DEF new

\* The human's answer: a new Agent continues the waiting Work.
LEMMA AnswerRows ==
  ASSUME LineageInv, NEW i \in AgentId, Answer(i),
         NEW r, r = agent[i].run, NEW a, a = agent[i].action,
         NEW n, n = Len(agent) + 1
  PROVE  /\ r \in Run /\ a \in Action /\ run[r].status = "running" /\ run[r].agent = i
         /\ run[r].action = a /\ action[r][a].status = "working"
         /\ agent[i].status = "waiting_for_input" /\ agent[i].phase = "work" /\ Pending(i)
         /\ run'[r].status = "running" /\ run'[r].action = a /\ run'[r].agent = n
         /\ agent'[i].status = "completed" /\ agent'[i].outcome = agent[i].outcome
         /\ agent'[n] = NewAgent(r, a, "work", i)
         /\ AgentId' = AgentId \cup {n} /\ n \notin AgentId /\ n # 0 /\ \A j \in AgentId : j < n
         /\ \A j \in AgentId \ {i} : agent'[j] = agent[j]
         /\ UNCHANGED <<action, state, feedback>>
         /\ OnlyRun(r) /\ \A j \in AgentId : SameAgent(j)
<1> USE DEF LineageInv
<1> DEFINE row == [agent[i] EXCEPT !.status = "completed", !.task = "succeeded"]
           new == NewAgent(r, a, "work", i)
<1>1. Pending(i) /\ agent[i].phase = "work" /\ agent[i].status = "waiting_for_input"
  BY DEF Answer, Pending, RowsFit, AgentSound
<1>2. /\ r \in Run /\ a \in Action /\ i \in Nat
      /\ run[r] \in RunRow /\ agent[i] \in AgentRow
      /\ run[r].status = "running" /\ run[r].action = a /\ run[r].agent = i
      /\ action[r][a].status = "working"
  BY <1>1, PendingLineage, AgentFields, RowTypes DEF StatusDuring
<1>3. /\ row.run = r /\ row.action = a /\ row.phase = agent[i].phase
      /\ row.attempt = agent[i].attempt /\ row.parent = agent[i].parent
      /\ row.status = "completed" /\ row.outcome = agent[i].outcome /\ row \in AgentRow
  BY <1>2 DEF AgentRow, AgentStatus, TaskStatus
<1>4. new \in AgentRow /\ new.run = r
  BY <1>2, NewAgentType DEF NewAgent, Phase
<1>5. /\ AgentId' = AgentId \cup {n} /\ agent'[n] = new /\ n \notin AgentId /\ n # 0
      /\ agent'[i] = row /\ (\A j \in AgentId \ {i} : agent'[j] = agent[j])
      /\ \A j \in AgentId : j < n
  <2> DEFINE agents == [agent EXCEPT ![i] = row]
  <2>1. agent' = Append(agents, new)
    BY DEF Answer, ResumeWorkInput
  <2>2. agents \in Seq(AgentRow) /\ DOMAIN agents = AgentId
    BY <1>2, <1>3, SetAgent DEF AgentId
  <2>3. agents[i] = row /\ \A j \in AgentId \ {i} : agents[j] = agent[j]
    BY DEF TypeOK, AgentId
  <2> HIDE DEF new, row, agents
  <2>4. /\ AgentId' = AgentId \cup {n} /\ agent'[n] = new /\ n \notin AgentId
        /\ \A j \in AgentId : agent'[j] = agents[j]
    BY <1>4, <2>1, <2>2, AgentAppend
  <2> QED BY <2>3, <2>4, RowTypes
<1>6. /\ run'[r].status = "running" /\ run'[r].action = a /\ run'[r].agent = n
      /\ \A q \in Run \ {r} : run'[q] = run[q]
  <2> DEFINE rrow == [run[r] EXCEPT !.agent = n, !.count = CountAfter(r, 2)]
  <2>1. run' = [run EXCEPT ![r] = rrow]
    BY DEF Answer, ResumeWorkInput
  <2>2. run'[r] = rrow /\ \A q \in Run \ {r} : run'[q] = run[q]
    BY <1>2, <2>1, RunUpdate
  <2> QED BY <1>2, <2>2 DEF RunRow
<1>7. UNCHANGED <<action, state, feedback>>
  BY DEF Answer, ResumeWorkInput
<1> HIDE DEF row, new
<1>8. OnlyRun(r)
  BY <1>2, <1>3, <1>4, <1>5, <1>6, <1>7 DEF OnlyRun
<1>9. \A j \in AgentId : SameAgent(j)
  BY <1>1, <1>3, <1>5 DEF SameAgent
<1> QED BY <1>1, <1>2, <1>3, <1>5, <1>6, <1>7, <1>8, <1>9 DEF new

\* An Action is blocked with its State and its Run, and reports why.
LEMMA BlockActionRows ==
  ASSUME LineageInv, NEW i \in AgentId, BlockAction(i),
         NEW r, r = agent[i].run, NEW a, a = agent[i].action
  PROVE  /\ r \in Run /\ a \in Action /\ run[r].status = "running" /\ run[r].agent = i
         /\ run[r].action = a /\ action[r][a].status \in ActiveStatus /\ Pending(i)
         /\ run'[r].status = "blocked" /\ run'[r].action = 0 /\ run'[r].agent = 0
         /\ action'[r][a].status = "blocked" /\ action'[r][a].attempt = action[r][a].attempt
         /\ action'[r][a].imported = action[r][a].imported
         /\ \A b \in Action \ {a} : action'[r][b] = action[r][b]
         /\ agent'[i].status \in {"failed", "completed"} /\ agent'[i].outcome = agent[i].outcome
         /\ agent'[i].task = agent[i].task
         /\ AgentId' = AgentId /\ \A j \in AgentId \ {i} : agent'[j] = agent[j]
         /\ feedback' = feedback \cup {[agent |-> i, source |-> BlockSource(i)]}
         /\ OnlyRun(r) /\ \A j \in AgentId : SameAgent(j)
<1> USE DEF LineageInv
<1> DEFINE status == IF agent[i].outcome \in Failure THEN "failed" ELSE "completed"
           row == [agent[i] EXCEPT !.status = status]
<1>1. /\ r \in Run /\ a \in Action /\ run[r] \in RunRow /\ action[r][a] \in ActionRow
      /\ agent[i] \in AgentRow /\ run[r].status = "running" /\ run[r].action = a
      /\ run[r].agent = i /\ action[r][a].status \in ActiveStatus /\ Pending(i)
  BY ApplicableFacts DEF BlockAction
<1>2. status \in {"failed", "completed"}
  OBVIOUS
<1>3. /\ row.run = r /\ row.action = a /\ row.phase = agent[i].phase
      /\ row.attempt = agent[i].attempt /\ row.parent = agent[i].parent
      /\ row.status = status /\ row.outcome = agent[i].outcome /\ row.task = agent[i].task
  <2> HIDE DEF status
  <2> QED BY <1>1 DEF AgentRow
<1>4. AgentId' = AgentId /\ agent'[i] = row /\ \A j \in AgentId \ {i} : agent'[j] = agent[j]
  <2>1. agent' = [agent EXCEPT ![i] = row]
    BY DEF BlockAction
  <2> HIDE DEF row
  <2> QED BY <2>1, AgentUpdate
<1> HIDE DEF row, status
<1>5. /\ run'[r].status = "blocked" /\ run'[r].action = 0 /\ run'[r].agent = 0
      /\ \A q \in Run \ {r} : run'[q] = run[q]
  <2> DEFINE rrow == [run[r] EXCEPT !.status = "blocked", !.action = 0, !.agent = 0,
                                    !.count = CountAfter(r, ApplyEvents(i))]
  <2>1. run' = [run EXCEPT ![r] = rrow]
    BY DEF BlockAction
  <2>2. run'[r] = rrow /\ \A q \in Run \ {r} : run'[q] = run[q]
    BY <1>1, <2>1, RunUpdate
  <2> QED BY <1>1, <2>2 DEF RunRow
<1>6. /\ action'[r][a].status = "blocked" /\ action'[r][a].imported = action[r][a].imported
      /\ action'[r][a].attempt = action[r][a].attempt
      /\ \A b \in Action \ {a} : action'[r][b] = action[r][b]
      /\ \A q \in Run \ {r} : action'[q] = action[q]
  <2> DEFINE arow == [action[r][a] EXCEPT !.status = "blocked"]
  <2>1. action' = [action EXCEPT ![r][a] = arow] /\ TypeOK /\ r \in Run /\ a \in Action
    BY <1>1 DEF BlockAction
  <2>2. /\ action'[r][a] = arow /\ \A b \in Action \ {a} : action'[r][b] = action[r][b]
        /\ \A q \in Run \ {r} : action'[q] = action[q]
    <3> HIDE DEF arow
    <3> QED BY ONLY <2>1 DEF TypeOK
  <2> QED BY <1>1, <2>2 DEF ActionRow
<1>7. \A q \in Run \ {r} : state'[q] = state[q]
  <2>1. state' = [state EXCEPT ![r][StateOf[a]] = "blocked"] /\ TypeOK
    BY DEF BlockAction
  <2> QED BY ONLY <2>1 DEF TypeOK
<1>8. feedback' = feedback \cup {[agent |-> i, source |-> BlockSource(i)]}
  BY DEF BlockAction
<1>9. OnlyRun(r) /\ \A j \in AgentId : SameAgent(j)
  BY <1>1, <1>3, <1>4, <1>5, <1>6, <1>7 DEF OnlyRun, SameAgent
<1> QED BY <1>1, <1>2, <1>3, <1>4, <1>5, <1>6, <1>8, <1>9

\* The finalizer's verdict completes a Run with nothing left to do.
LEMMA FinalizeSucceedsRows ==
  ASSUME LineageInv, NEW r \in Run, FinalizeSucceeds(r)
  PROVE  /\ run[r].status = "running" /\ run[r].final = "running" /\ StatesDone(r)
         /\ run[r].action = 0 /\ run[r].agent = 0
         /\ run'[r].status = "completed" /\ run'[r].final = "completed"
         /\ run'[r].action = 0 /\ run'[r].agent = 0
         /\ UNCHANGED <<state, action, agent, feedback>> /\ AgentId' = AgentId
         /\ OnlyRun(r) /\ \A j \in AgentId : SameAgent(j)
<1> USE DEF LineageInv
<1>1. /\ run[r].status = "running" /\ run[r].final = "running" /\ StatesDone(r)
      /\ run[r].action = 0 /\ run[r].agent = 0
  BY DEF FinalizeSucceeds, ClaimHolds, RowsFit, FinalClaim, PointersClear
<1>2. /\ run'[r].status = "completed" /\ run'[r].final = "completed"
      /\ run'[r].action = 0 /\ run'[r].agent = 0
      /\ \A q \in Run \ {r} : run'[q] = run[q]
  <2> DEFINE row == [run[r] EXCEPT !.status = "completed", !.final = "completed",
                                   !.count = CountAfter(r, 1)]
  <2>1. run' = [run EXCEPT ![r] = row]
    BY DEF FinalizeSucceeds
  <2>2. run'[r] = row /\ \A q \in Run \ {r} : run'[q] = run[q]
    BY <2>1, RunUpdate
  <2> QED BY <1>1, <2>2, RowTypes DEF RunRow
<1>3. UNCHANGED <<state, action, agent, feedback>> /\ AgentId' = AgentId
  BY DEF FinalizeSucceeds, AgentId
<1> QED BY <1>1, <1>2, <1>3 DEF OnlyRun, SameAgent

\* A stop closes the Run together with its Action and its Agent.
LEMMA StopRows ==
  ASSUME LineageInv, NEW r \in Run, NEW kind \in {"cancelled", "interrupted"}, Stop(r, kind),
         NEW g, g = run[r].agent, NEW a, a = run[r].action
  PROVE  /\ Open(r) /\ a \in Action \cup {0}
         /\ g # 0 => g \in AgentId /\ agent[g].run = r /\ Pending(g)
         /\ \A j \in AgentId : Pending(j) /\ agent[j].run = r => j = g
         /\ run'[r].status = kind /\ run'[r].action = 0 /\ run'[r].agent = 0
         /\ \A b \in Action : /\ action[r][b].status \in ActiveStatus <=> b = a
                              /\ action'[r][b].status = IF b = a THEN kind
                                                        ELSE action[r][b].status
                              /\ action'[r][b].imported = action[r][b].imported
                              /\ action'[r][b].attempt = action[r][b].attempt
         /\ AgentId' = AgentId /\ \A j \in AgentId \ {g} : agent'[j] = agent[j]
         /\ g # 0 => agent'[g].status = kind /\ agent'[g].outcome = agent[g].outcome
                     /\ agent'[g].task \notin {"queued", "running"}
         /\ OnlyRun(r) /\ \A j \in AgentId : SameAgent(j)
<1> USE DEF LineageInv
<1>1. run[r] \in RunRow /\ Open(r) /\ a \in Action \cup {0} /\ g \in Nat
  BY RowTypes DEF Stop, RunRow
<1>2. /\ g # 0 => g \in AgentId /\ agent[g].run = r /\ Pending(g) /\ agent[g] \in AgentRow
      /\ \A b \in Action : action[r][b].status \in ActiveStatus <=> b = a
      /\ \A j \in AgentId : Pending(j) /\ agent[j].run = r => j = g
  <2>1. g # 0 => g \in AgentId /\ agent[g].run = r /\ Pending(g)
    BY DEF RowsFit, ActiveLineage
  <2>2. \A b \in Action : action[r][b].status \in ActiveStatus <=> b = a
    BY <1>1 DEF RowsFit, ActiveLineage
  <2> QED BY <1>1, <2>1, <2>2, RowTypes, PendingLineage
<1>3. /\ run'[r].status = kind /\ run'[r].action = 0 /\ run'[r].agent = 0
      /\ \A q \in Run \ {r} : run'[q] = run[q]
  <2> DEFINE rrow == [run[r] EXCEPT !.status = kind, !.state = 0, !.action = 0,
                                    !.agent = 0, !.count = CountAfter(r, 1)]
  <2>1. run' = [run EXCEPT ![r] = rrow]
    BY DEF Stop
  <2>2. run'[r] = rrow /\ \A q \in Run \ {r} : run'[q] = run[q]
    BY <2>1, RunUpdate
  <2> QED BY <1>1, <2>2 DEF RunRow
<1>4. /\ \A b \in Action : /\ action'[r][b].status = IF b = a THEN kind ELSE action[r][b].status
                           /\ action'[r][b].imported = action[r][b].imported
                           /\ action'[r][b].attempt = action[r][b].attempt
      /\ \A q \in Run \ {r} : action'[q] = action[q]
  <2>1. CASE a = 0
    BY <2>1 DEF Stop, Action
  <2>2. CASE a # 0
    <3> DEFINE arow == [action[r][a] EXCEPT !.status = kind]
    <3>1. action' = [action EXCEPT ![r][a] = arow] /\ TypeOK /\ a \in Action
      BY <1>1, <2>2 DEF Stop
    <3>2. /\ action'[r][a] = arow /\ \A b \in Action \ {a} : action'[r][b] = action[r][b]
          /\ \A q \in Run \ {r} : action'[q] = action[q]
      <4> HIDE DEF arow
      <4> QED BY ONLY <3>1 DEF TypeOK
    <3>3. action[r][a] \in ActionRow
      BY <3>1, RowTypes
    <3>4. arow.status = kind /\ arow.imported = action[r][a].imported
          /\ arow.attempt = action[r][a].attempt
      BY <3>3 DEF ActionRow
    <3> HIDE DEF arow
    <3> QED BY <3>2, <3>4
  <2> QED BY <2>1, <2>2
<1>5. \A q \in Run \ {r} : state'[q] = state[q]
  <2>1. CASE run[r].state = 0
    BY <2>1 DEF Stop
  <2>2. CASE run[r].state # 0
    <3> DEFINE s == run[r].state
    <3>1. state' = [state EXCEPT ![r][s] = kind] /\ TypeOK
      BY <2>2 DEF Stop
    <3> HIDE DEF s
    <3> QED BY ONLY <3>1 DEF TypeOK
  <2> QED BY <2>1, <2>2
<1>6. /\ AgentId' = AgentId
      /\ \A j \in AgentId \ {g} : agent'[j] = agent[j]
      /\ g # 0 => /\ agent'[g].run = r /\ agent'[g].action = agent[g].action
                  /\ agent'[g].phase = agent[g].phase /\ agent'[g].attempt = agent[g].attempt
                  /\ agent'[g].parent = agent[g].parent /\ agent'[g].outcome = agent[g].outcome
                  /\ agent'[g].status = kind /\ agent'[g].task \notin {"queued", "running"}
  <2>1. CASE g = 0
    BY <2>1 DEF Stop, AgentId
  <2>2. CASE g # 0
    <3> DEFINE task == IF agent[g].task \in {"queued", "running", "waiting_for_input"}
                       THEN "cancelled" ELSE agent[g].task
               stopped == [agent[g] EXCEPT !.status = kind, !.task = task]
    <3>1. agent' = [agent EXCEPT ![g] = stopped]
      <4>1. agent' = [agent EXCEPT ![g] = StopAgent(g, kind)]
        BY <2>2 DEF Stop
      <4>2. StopAgent(g, kind) = stopped
        BY <1>2, <2>2 DEF StopAgent, Pending, Live
      <4> QED BY <4>1, <4>2
    <3>2. AgentId' = AgentId /\ agent'[g] = stopped /\ \A j \in AgentId \ {g} : agent'[j] = agent[j]
      <4>1. g \in AgentId /\ TypeOK
        BY <1>2, <2>2
      <4> HIDE DEF stopped
      <4> QED BY <3>1, <4>1, AgentUpdate
    <3>3. task \notin {"queued", "running"}
      OBVIOUS
    <3> HIDE DEF task
    <3> QED BY <1>2, <2>2, <3>2, <3>3 DEF AgentRow
  <2> QED BY <2>1, <2>2
<1>7. OnlyRun(r) /\ \A j \in AgentId : SameAgent(j)
  <2>1. ASSUME NEW j \in AgentId PROVE SameAgent(j)
    <3>1. CASE j = g
      <4>1. g # 0 /\ Pending(g) /\ agent[g].run = r
        BY <1>2, <3>1, AgentFields
      <4> QED BY <1>6, <3>1, <4>1 DEF SameAgent
    <3>2. CASE j # g
      BY <1>6, <3>2 DEF SameAgent
    <3> QED BY <3>1, <3>2
  <2>2. \A j \in AgentId : /\ agent'[j].run = agent[j].run
                           /\ agent[j].run # r => agent'[j] = agent[j]
    BY <1>2, <1>6, AgentFields
  <2> QED BY <1>3, <1>4, <1>5, <1>6, <2>1, <2>2 DEF OnlyRun
<1> QED BY <1>1, <1>2, <1>3, <1>4, <1>6, <1>7

-----------------------------------------------------------------------------
(* Where the tasks are in memory.                                          *)

\* A live Agent has a task the boot sequence would recover.
LiveTask == \A i \in AgentId : Live(i) => agent[i].task \in {"queued", "running", "succeeded", "failed"}

\* The queue holds tasks of Agents, each once.
QueueSound ==
  /\ \A n \in DOMAIN queue : queue[n] \in AgentId
  /\ \A m, n \in DOMAIN queue : queue[m] = queue[n] => m = n

\* A task is in one place: awaited, being applied or queued.
PlacesApart ==
  /\ held.task # 0 => pc = "execute" /\ ~InQueue(held.task)
  /\ call.at = "apply" => pc = "loop" /\ ~InQueue(call.task)

\* Calls are made by the pump or a handler, and a handler that runs while the
\* pump awaits only progresses the Run it opened.
PumpUp == AwaitPoint \cup {"loop", "boot", "bootFinalize", "bootCleanup"}
AwaitCall ==
  /\ call.at # "none" => pc \in PumpUp
  /\ pc \in AwaitPoint /\ call.at = "progress" => run[call.run].status = "pending"

\* When a shutdown has interrupted the Runs, the awaited task is of a closed one.
HeldStopped ==
  stopping /\ call.at # "shutdown" /\ held.task # 0 => ~Open(agent[held.task].run)

\* Once the boot sequence has requeued, every live Agent is in one of them.
Placed == pc \in PumpUp => \A i \in AgentId : Live(i) => InQueue(i) \/ held.task = i \/ Applying(i)

ScheduleInv == LiveTask /\ QueueSound /\ PlacesApart /\ AwaitCall /\ HeldStopped /\ Placed

\* The invariant says that every live Agent is awaited or queued once.
LEMMA InvScheduled ==
  ASSUME TypeOK, ScheduleInv
  PROVE  Scheduled
<1> SUFFICES ASSUME pc \in AwaitPoint \cup {"loop"}, EventLoopFree, NEW i \in AgentId, Live(i)
             PROVE  Cardinality({n \in DOMAIN queue : queue[n] = i})
                      + (IF held.task = i THEN 1 ELSE 0) = 1
  BY DEF Scheduled
<1> DEFINE S == {n \in DOMAIN queue : queue[n] = i}
<1>1. i # 0
  BY RowTypes
<1>2. InQueue(i) \/ held.task = i
  BY DEF ScheduleInv, Placed, PumpUp, EventLoopFree, NoCall, Applying
<1>3. CASE held.task = i
  <2>1. S = {}
    BY <1>1, <1>3 DEF ScheduleInv, PlacesApart, InQueue
  <2>2. Cardinality(S) = 0
    BY <2>1, FS_EmptySet
  <2> HIDE DEF S
  <2> QED BY <1>3, <2>2 DEF S
<1>4. CASE held.task # i
  <2>1. PICK n \in DOMAIN queue : queue[n] = i
    BY <1>2, <1>4 DEF InQueue
  <2>2. S = {n}
    BY <2>1 DEF ScheduleInv, QueueSound
  <2>3. Cardinality(S) = 1
    BY <2>2, FS_Singleton
  <2> HIDE DEF S
  <2> QED BY <1>4, <2>3 DEF S
<1> QED BY <1>3, <1>4

\* The queue as it was.
LEMMA QueueKept ==
  ASSUME QueueSound, UNCHANGED queue, AgentId \subseteq AgentId'
  PROVE  QueueSound' /\ \A j : InQueue(j)' <=> InQueue(j)
  BY DEF QueueSound, InQueue

\* The queue with a task it did not hold.
LEMMA QueueAppended ==
  ASSUME TypeOK, QueueSound, NEW i \in Nat, ~InQueue(i), queue' = Append(queue, i),
         AgentId \subseteq AgentId', i \in AgentId'
  PROVE  QueueSound' /\ \A j : InQueue(j)' <=> InQueue(j) \/ j = i
<1>1. /\ DOMAIN queue = 1..Len(queue) /\ Len(queue) \in Nat
      /\ DOMAIN queue' = 1..Len(queue) + 1 /\ queue'[Len(queue) + 1] = i
      /\ \A n \in DOMAIN queue : queue'[n] = queue[n]
  BY DEF TypeOK
<1>2. DOMAIN queue' = DOMAIN queue \cup {Len(queue) + 1} /\ Len(queue) + 1 \notin DOMAIN queue
  BY <1>1
<1>3. \A n \in DOMAIN queue : queue[n] # i
  BY DEF InQueue
<1>4. QueueSound'
  <2>1. \A n \in DOMAIN queue' : queue'[n] \in AgentId'
    BY <1>1, <1>2 DEF QueueSound
  <2>2. \A m, n \in DOMAIN queue' : queue'[m] = queue'[n] => m = n
    BY <1>1, <1>2, <1>3 DEF QueueSound
  <2> QED BY <2>1, <2>2 DEF QueueSound
<1>5. ASSUME NEW j PROVE InQueue(j)' <=> InQueue(j) \/ j = i
  BY <1>1, <1>2 DEF InQueue
<1> QED BY <1>4, <1>5

\* The queue without its head.
LEMMA QueueTaken ==
  ASSUME TypeOK, QueueSound, queue # <<>>, NEW i, i = Head(queue), queue' = Tail(queue),
         AgentId' = AgentId
  PROVE  QueueSound' /\ InQueue(i) /\ \A j : InQueue(j)' <=> InQueue(j) /\ j # i
<1>1. /\ DOMAIN queue = 1..Len(queue) /\ Len(queue) \in Nat \ {0} /\ i = queue[1]
      /\ DOMAIN queue' = 1..Len(queue) - 1
      /\ \A n \in 1..Len(queue) - 1 : queue'[n] = queue[n + 1]
  BY DEF TypeOK
<1>2. QueueSound'
  <2>1. \A n \in DOMAIN queue' : n + 1 \in DOMAIN queue /\ queue'[n] = queue[n + 1]
    BY <1>1
  <2>2. \A n \in DOMAIN queue' : queue'[n] \in AgentId'
    BY <2>1 DEF QueueSound
  <2>3. \A m, n \in DOMAIN queue' : queue'[m] = queue'[n] => m = n
    <3>1. SUFFICES ASSUME NEW m \in DOMAIN queue', NEW n \in DOMAIN queue', queue'[m] = queue'[n]
                   PROVE  m = n
      OBVIOUS
    <3>2. m + 1 = n + 1
      BY <2>1, <3>1 DEF QueueSound
    <3> QED BY <1>1, <3>2
  <2> QED BY <2>2, <2>3 DEF QueueSound
<1>3. InQueue(i)
  BY <1>1 DEF InQueue
<1>4. ASSUME NEW j PROVE InQueue(j)' <=> InQueue(j) /\ j # i
  <2>1. ASSUME InQueue(j)' PROVE InQueue(j) /\ j # i
    <3>1. PICK n \in DOMAIN queue' : queue'[n] = j
      BY <2>1 DEF InQueue
    <3>2. n + 1 \in DOMAIN queue /\ queue[n + 1] = j /\ n + 1 # 1 /\ 1 \in DOMAIN queue
      BY <1>1, <3>1
    <3> QED BY <1>1, <3>2 DEF InQueue, QueueSound
  <2>2. ASSUME InQueue(j), j # i PROVE InQueue(j)'
    <3>1. PICK n \in DOMAIN queue : queue[n] = j
      BY <2>2 DEF InQueue
    <3>2. n - 1 \in DOMAIN queue' /\ queue'[n - 1] = j
      BY <1>1, <2>2, <3>1
    <3> QED BY <3>2 DEF InQueue
  <2> QED BY <2>1, <2>2
<1> QED BY <1>2, <1>3, <1>4

\* The end of the process leaves nothing in memory to be sound about.
LEMMA EndSchedule ==
  ASSUME LiveTask, UNCHANGED agent, NEW point \in {"off", "exited"}, End(point)
  PROVE  ScheduleInv'
<1>1. LiveTask'
  BY DEF LiveTask, AgentId, Live
<1>2. /\ queue' = <<>> /\ pc' = point /\ held'.task = 0 /\ call'.at = "none" /\ stopping' = FALSE
  BY DEF End, Nothing, NoCall
<1>3. QueueSound'
  BY <1>2 DEF QueueSound
<1>4. PlacesApart' /\ AwaitCall' /\ HeldStopped'
  BY <1>2 DEF PlacesApart, AwaitCall, HeldStopped, AwaitPoint
<1>5. Placed'
  BY <1>2 DEF Placed, PumpUp, AwaitPoint
<1> QED BY <1>1, <1>3, <1>4, <1>5 DEF ScheduleInv

\* A handler that queues nothing and leaves the pump where it is: it ends live
\* Agents or writes no status, and opens no Run but one without Agents.
LEMMA HandlerSchedule ==
  ASSUME TypeOK, ScheduleInv, UNCHANGED <<queue, pc, held, stopping>>, AgentId' = AgentId,
         \A j \in AgentId :
           /\ agent'[j].run = agent[j].run
           /\ agent'[j].status \in LiveStatus =>
                Live(j) /\ agent'[j].task \in {"queued", "running", "succeeded", "failed"}
           /\ run'[agent[j].run].status \in {"pending", "running"} => Open(agent[j].run)
           /\ Applying(j) /\ agent'[j].status \in LiveStatus => call' = call,
         \/ call' = call
         \/ call.at # "shutdown" /\ call'.at \notin {"apply", "none"}
         \/ /\ call'.at = "none"
            /\ call.at = "shutdown" => \A r \in Run : run'[r].status \notin {"pending", "running"},
         call'.at # "none" => pc \in PumpUp,
         pc \in AwaitPoint /\ call'.at = "progress" => run'[call'.run].status = "pending",
         held.task # 0 => held.task \in AgentId
  PROVE  ScheduleInv'
<1> USE DEF ScheduleInv
<1>1. LiveTask'
  BY DEF LiveTask, Live
<1>2. QueueSound' /\ \A j : InQueue(j)' <=> InQueue(j)
  BY QueueKept
<1>3. PlacesApart'
  BY <1>2 DEF PlacesApart
<1>4. AwaitCall'
  BY DEF AwaitCall
<1>5. HeldStopped'
  <2>1. SUFFICES ASSUME stopping, call'.at # "shutdown", held.task # 0
                 PROVE  run'[agent'[held.task].run].status \notin {"pending", "running"}
    BY DEF HeldStopped, Open
  <2>2. held.task \in AgentId /\ agent[held.task].run \in Run
    BY <2>1, AgentFields
  <2>3. CASE call.at # "shutdown"
    BY <2>1, <2>2, <2>3 DEF HeldStopped
  <2>4. CASE call.at = "shutdown"
    BY <2>1, <2>2, <2>4
  <2> QED BY <2>3, <2>4
<1>6. Placed'
  <2>1. ASSUME pc \in PumpUp, NEW i \in AgentId, agent'[i].status \in LiveStatus
        PROVE  InQueue(i)' \/ held'.task = i \/ (call'.at = "apply" /\ call'.task = i)
    <3>1. Live(i)
      BY <2>1
    <3>2. InQueue(i) \/ held.task = i \/ Applying(i)
      BY <2>1, <3>1 DEF Placed
    <3>3. Applying(i) => call' = call
      BY <2>1
    <3> QED BY <1>2, <3>2, <3>3 DEF Applying
  <2> QED BY <2>1 DEF Placed, Live, Applying
<1> QED BY <1>1, <1>2, <1>3, <1>4, <1>5, <1>6

\* progress keeps the tasks in their places.
LEMMA ProgressSchedule ==
  ASSUME LineageInv, ScheduleInv, NEW r \in Run, ProgressStep(r)
  PROVE  ScheduleInv'
<1> USE DEF LineageInv, durable, volatile
<1>a. held.task # 0 => held.task \in AgentId
  BY DEF ScheduleInv, PlacesApart, HeldSound
<1>1. CASE ProgressReturns(r)
  <2>1. /\ UNCHANGED <<run, agent, queue, pc, held, stopping>> /\ AgentId' = AgentId
        /\ call.at = "progress" /\ call'.at = "none"
    BY <1>1 DEF ProgressReturns, Progressing, NoCall, AgentId
  <2> QED BY <1>a, <2>1, HandlerSchedule DEF Live, Open, ScheduleInv, LiveTask, Applying
<1>2. ASSUME NEW s \in State, CompleteState(r, s) PROVE ScheduleInv'
  <2>1. UNCHANGED <<agent, queue, pc, held, stopping, call>> /\ AgentId' = AgentId
    BY <1>2 DEF CompleteState, AgentId
  <2>2. \A q \in Run : run'[q].status = run[q].status
    <3> DEFINE row == [run[r] EXCEPT !.state = 0, !.action = 0, !.agent = 0,
                                     !.count = CountAfter(r, 1)]
    <3>1. run' = [run EXCEPT ![r] = row]
      BY <1>2 DEF CompleteState
    <3>2. run'[r] = row /\ \A q \in Run \ {r} : run'[q] = run[q]
      BY <3>1, RunUpdate
    <3>3. row.status = run[r].status
      BY RowTypes DEF RunRow
    <3> HIDE DEF row
    <3> QED BY <3>2, <3>3
  <2>3. \A j \in AgentId : agent[j].run \in Run
    BY AgentFields
  <2>4. call.at = "progress" /\ call.run = r
    BY <1>2 DEF CompleteState, Progressing
  <2>5. pc \in PumpUp /\ (pc \in AwaitPoint => run'[r].status = "pending")
    BY <2>2, <2>4 DEF ScheduleInv, AwaitCall
  <2> QED BY <1>a, <2>1, <2>2, <2>3, <2>4, <2>5, HandlerSchedule
          DEF Live, Open, ScheduleInv, LiveTask
<1>3. CASE ClaimFinalization(r)
  <2>1. /\ UNCHANGED <<agent, queue, stopping>> /\ AgentId' = AgentId /\ call' = NoCall
        /\ pc' \in {"bootFinalize", "finalize"} /\ held'.task = 0
        /\ call.at = "progress" /\ call.run = r /\ run[r].status = "running"
    BY <1>3 DEF ClaimFinalization, Progressing, AgentId
  <2>2. pc \notin AwaitPoint /\ held.task = 0
    BY <2>1 DEF ScheduleInv, AwaitCall, PlacesApart, AwaitPoint
  <2>3. LiveTask' /\ QueueSound' /\ \A j : InQueue(j)' <=> InQueue(j)
    BY <2>1, QueueKept DEF ScheduleInv, LiveTask, Live
  <2>4. PlacesApart' /\ AwaitCall' /\ HeldStopped'
    BY <2>1 DEF PlacesApart, AwaitCall, HeldStopped, NoCall
  <2>5. pc \in PumpUp
    BY <2>1 DEF ScheduleInv, AwaitCall
  <2>6. Placed'
    BY <2>1, <2>2, <2>3, <2>5, RowTypes DEF ScheduleInv, Placed, Live, Applying
  <2> QED BY <2>3, <2>4, <2>6 DEF ScheduleInv
<1>4. ASSUME NEW s \in State, NEW a \in Action, Advance(r, s, a) PROVE ScheduleInv'
  <2>1. UNCHANGED <<agent, queue, pc, held, stopping>> /\ AgentId' = AgentId
    BY <1>4 DEF Advance, AgentId
  <2>2. call.at = "progress" /\ call'.at = "dispatch"
    BY <1>4 DEF Advance, Selectable, Progressing, TypeOK, CallRow
  <2>3. Open(r) /\ pc \in PumpUp /\ \A q \in Run \ {r} : run'[q] = run[q]
    BY <1>4, <2>2, AdvanceRows DEF OnlyRun, ScheduleInv, AwaitCall
  <2> QED BY <1>a, <2>1, <2>2, <2>3, AgentFields, HandlerSchedule
          DEF Live, Open, ScheduleInv, LiveTask, Applying
<1>5. ASSUME NEW a \in Action, DispatchPrecheck(r, a) PROVE ScheduleInv'
  <2> DEFINE n == Len(agent) + 1
  <2>1. /\ agent'[n] = NewAgent(r, a, "precheck", 0)
        /\ AgentId' = AgentId \cup {n} /\ n \notin AgentId /\ n \in Nat
        /\ \A j \in AgentId : agent'[j] = agent[j]
        /\ run'[r].status = run[r].status /\ \A q \in Run \ {r} : run'[q] = run[q]
    BY <1>5, DispatchPrecheckRows, RowTypes DEF OnlyRun
  <2>2. /\ queue' = Append(queue, n) /\ UNCHANGED <<pc, held, stopping>>
        /\ call.at = "dispatch" /\ call'.at = "none"
    BY <1>5 DEF DispatchPrecheck, NoCall
  <2> HIDE DEF n
  <2>3. ~InQueue(n)
    BY <2>1 DEF InQueue, ScheduleInv, QueueSound
  <2>4. QueueSound' /\ \A j : InQueue(j)' <=> InQueue(j) \/ j = n
    BY <2>1, <2>2, <2>3, QueueAppended DEF ScheduleInv
  <2>5. LiveTask'
    BY <2>1 DEF ScheduleInv, LiveTask, Live, NewAgent
  <2>6. PlacesApart' /\ AwaitCall'
    BY <1>a, <2>1, <2>2, <2>4 DEF ScheduleInv, PlacesApart, AwaitCall
  <2>7. HeldStopped'
    BY <1>a, <2>1, <2>2, AgentFields DEF ScheduleInv, HeldStopped, Open
  <2>8. Placed'
    BY <2>1, <2>2, <2>4 DEF ScheduleInv, Placed, Live, Applying
  <2> QED BY <2>4, <2>5, <2>6, <2>7, <2>8 DEF ScheduleInv
<1>6. CASE ProgressRefused(r)
  BY <1>6, EndSchedule DEF ProgressRefused, Die, ScheduleInv
<1>7. CASE PrecheckTooLong(r)
  <2>1. CASE Die
    BY <1>7, <2>1, EndSchedule DEF PrecheckTooLong, Die, ScheduleInv
  <2>2. CASE call' = NoCall /\ UNCHANGED <<queue, pc, held, stopping>>
    <3>1. /\ UNCHANGED <<run, agent, queue, pc, held, stopping>> /\ AgentId' = AgentId
          /\ call.at = "dispatch" /\ call'.at = "none"
      BY <1>7, <2>2 DEF PrecheckTooLong, NoCall, AgentId
    <3> QED BY <1>a, <3>1, HandlerSchedule DEF Live, Open, ScheduleInv, LiveTask, Applying
  <2> QED BY <1>7, <2>1, <2>2 DEF PrecheckTooLong
<1> QED BY <1>1, <1>2, <1>3, <1>4, <1>5, <1>6, <1>7 DEF ProgressStep

\* The pump takes a task out of the queue to await it or to apply its outcome,
\* and drops only a cancelled one.
LEMMA PumpSchedule ==
  ASSUME LineageInv, ScheduleInv, PumpStep
  PROVE  ScheduleInv'
<1> USE DEF LineageInv, durable
<1>1. ASSUME NEW i \in AgentId, TakeAnswered(i) PROVE ScheduleInv'
  <2>1. /\ UNCHANGED <<run, agent, held, stopping>> /\ AgentId' = AgentId
        /\ queue # <<>> /\ i = Head(queue) /\ queue' = Tail(queue)
        /\ pc \in {"idle", "loop"} /\ pc' = "loop"
        /\ call'.at = "apply" /\ call'.task = i /\ call.at = "none"
    BY <1>1 DEF TakeAnswered, PumpReady, EventLoopFree, NoCall, ApplyCall, AgentId
  <2>2. QueueSound' /\ \A j : InQueue(j)' <=> InQueue(j) /\ j # i
    BY <2>1, QueueTaken DEF ScheduleInv
  <2>3. held.task = 0
    BY <2>1 DEF ScheduleInv, PlacesApart
  <2>4. LiveTask'
    BY <2>1 DEF ScheduleInv, LiveTask, Live
  <2>5. PlacesApart' /\ AwaitCall' /\ HeldStopped'
    BY <2>1, <2>2, <2>3 DEF PlacesApart, AwaitCall, HeldStopped, PumpUp, AwaitPoint
  <2>6. Placed'
    BY <2>1, <2>2, <2>3 DEF ScheduleInv, Placed, PumpUp, AwaitPoint, Live, Applying
  <2> QED BY <2>2, <2>4, <2>5, <2>6 DEF ScheduleInv
<1>2. ASSUME NEW i \in AgentId, TakeRunnable(i) PROVE ScheduleInv'
  <2> DEFINE row == [agent[i] EXCEPT !.task = "running", !.status = "running"]
  <2>1. /\ queue # <<>> /\ i = Head(queue) /\ queue' = Tail(queue)
        /\ pc \in {"idle", "loop"} /\ pc' = "execute" /\ held'.task = i
        /\ call' = call /\ call.at = "none" /\ ~stopping /\ stopping' = stopping
        /\ agent' = [agent EXCEPT ![i] = row] /\ run' = run
    BY <1>2 DEF TakeRunnable, PumpReady, EventLoopFree, NoCall
  <2>2. row.run = agent[i].run /\ row.task = "running" /\ row.status = "running"
    BY RowTypes DEF AgentRow
  <2>3. AgentId' = AgentId /\ agent'[i] = row /\ \A j \in AgentId \ {i} : agent'[j] = agent[j]
    BY <2>1, AgentUpdate
  <2> HIDE DEF row
  <2>4. QueueSound' /\ \A j : InQueue(j)' <=> InQueue(j) /\ j # i
    BY <2>1, <2>3, QueueTaken DEF ScheduleInv
  <2>5. held.task = 0
    BY <2>1 DEF ScheduleInv, PlacesApart
  <2>6. LiveTask'
    BY <2>2, <2>3 DEF ScheduleInv, LiveTask, Live
  <2>7. PlacesApart' /\ AwaitCall' /\ HeldStopped'
    BY <2>1, <2>4 DEF PlacesApart, AwaitCall, HeldStopped
  <2>8. Placed'
    BY <2>1, <2>3, <2>4, <2>5, RowTypes
       DEF ScheduleInv, Placed, PumpUp, AwaitPoint, Live, Applying
  <2> QED BY <2>4, <2>6, <2>7, <2>8 DEF ScheduleInv
<1>3. ASSUME NEW i \in AgentId, TakeCancelled(i) PROVE ScheduleInv'
  <2>1. /\ UNCHANGED <<run, agent, held, call, stopping>> /\ AgentId' = AgentId
        /\ queue # <<>> /\ i = Head(queue) /\ queue' = Tail(queue)
        /\ pc \in {"idle", "loop"} /\ pc' = "loop" /\ call.at = "none"
        /\ agent[i].task = "cancelled"
    BY <1>3 DEF TakeCancelled, PumpReady, EventLoopFree, NoCall, AgentId
  <2>2. QueueSound' /\ \A j : InQueue(j)' <=> InQueue(j) /\ j # i
    BY <2>1, QueueTaken DEF ScheduleInv
  <2>3. held.task = 0 /\ ~Live(i)
    BY <2>1 DEF ScheduleInv, PlacesApart, LiveTask
  <2>4. LiveTask'
    BY <2>1 DEF ScheduleInv, LiveTask, Live
  <2>5. PlacesApart' /\ AwaitCall' /\ HeldStopped'
    BY <2>1, <2>2, <2>3 DEF PlacesApart, AwaitCall, HeldStopped
  <2>6. Placed'
    BY <2>1, <2>2, <2>3 DEF ScheduleInv, Placed, PumpUp, AwaitPoint, Live, Applying
  <2> QED BY <2>2, <2>4, <2>5, <2>6 DEF ScheduleInv
<1>4. CASE PumpRests
  <2>1. /\ UNCHANGED <<run, agent, queue, held, call, stopping>> /\ AgentId' = AgentId
        /\ pc = "loop" /\ pc' = "idle" /\ call.at = "none"
    BY <1>4 DEF PumpRests, EventLoopFree, NoCall, AgentId
  <2>2. QueueSound' /\ LiveTask' /\ \A j : InQueue(j)' <=> InQueue(j)
    BY <2>1, QueueKept DEF ScheduleInv, LiveTask, Live
  <2>3. PlacesApart' /\ AwaitCall' /\ HeldStopped'
    BY <2>1, <2>2 DEF ScheduleInv, PlacesApart, AwaitCall, HeldStopped, Open
  <2>4. Placed'
    BY <2>1, <2>2 DEF ScheduleInv, Placed, PumpUp, AwaitPoint, Live, Applying
  <2> QED BY <2>2, <2>3, <2>4 DEF ScheduleInv
<1> QED BY <1>1, <1>2, <1>3, <1>4 DEF PumpStep

\* The provider's return leaves an Agent that is over, is applied or waits.
LEMMA ProviderSchedule ==
  ASSUME LineageInv, ScheduleInv, ProviderStep
  PROVE  ScheduleInv'
<1> USE DEF LineageInv, durable
<1>1. ASSUME NEW i \in AgentId, Executing(i), Returned, UNCHANGED <<queue, stopping>>,
             AgentId' = AgentId, \A j \in AgentId \ {i} : agent'[j] = agent[j],
             agent'[i].status \in LiveStatus =>
               agent'[i].task \in {"succeeded", "failed"} /\ call' = ApplyCall(i),
             UNCHANGED call \/ call' = ApplyCall(i)
      PROVE  ScheduleInv'
  <2>1. /\ pc = "execute" /\ held.task = i /\ call.at = "none"
        /\ pc' = "loop" /\ held'.task = 0 /\ i # 0
    BY <1>1, AgentFields DEF Executing, Returned, EventLoopFree, NoCall, Nothing
  <2>2. QueueSound' /\ \A j : InQueue(j)' <=> InQueue(j)
    BY <1>1, QueueKept DEF ScheduleInv
  <2>3. LiveTask'
    BY <1>1 DEF ScheduleInv, LiveTask, Live
  <2>4. call'.at \in {"none", "apply"} /\ (call'.at = "apply" => call'.task = i)
    BY <1>1, <2>1 DEF ApplyCall
  <2>5. ~InQueue(i)
    BY <2>1 DEF ScheduleInv, PlacesApart
  <2>6. PlacesApart' /\ AwaitCall' /\ HeldStopped'
    BY <2>1, <2>2, <2>4, <2>5 DEF PlacesApart, AwaitCall, HeldStopped, PumpUp, AwaitPoint
  <2>7. Placed'
    BY <1>1, <2>1, <2>2 DEF ScheduleInv, Placed, PumpUp, AwaitPoint, Live, Applying, ApplyCall
  <2> QED BY <2>2, <2>3, <2>6, <2>7 DEF ScheduleInv
<1>2. ASSUME NEW i \in AgentId, ProviderIgnored(i) PROVE ScheduleInv'
  <2>1. /\ Executing(i) /\ Returned /\ UNCHANGED <<agent, queue, call, stopping>>
        /\ stopping \/ ~Open(agent[i].run)
    BY <1>2 DEF ProviderIgnored
  <2>2. held.task = i /\ call.at = "none" /\ i # 0
    BY <2>1, AgentFields DEF Executing, EventLoopFree, NoCall
  <2>3. ~Open(agent[i].run)
    BY <2>1, <2>2 DEF ScheduleInv, HeldStopped
  <2>4. ~Live(i)
    BY <2>3, PendingLineage DEF Pending, Open
  <2> QED BY <1>1, <2>1, <2>4 DEF AgentId, Live
<1>3. ASSUME NEW i \in AgentId, NEW o \in Outcome, ProviderAnswers(i, o) PROVE ScheduleInv'
  <2>p. PICK p \in Prompt :
          agent' = [agent EXCEPT ![i] = [@ EXCEPT !.outcome = o, !.prompt = p,
                      !.task = IF o \in Failure THEN "failed" ELSE "succeeded"]]
    BY <1>3, AnswerRow
  <2> DEFINE task == IF o \in Failure THEN "failed" ELSE "succeeded"
             row == [agent[i] EXCEPT !.outcome = o, !.prompt = p, !.task = task]
  <2>1. /\ Executing(i) /\ Returned /\ UNCHANGED <<queue, stopping>> /\ call' = ApplyCall(i)
        /\ agent' = [agent EXCEPT ![i] = row]
    BY <1>3, <2>p DEF ProviderAnswers
  <2>2. row.task \in {"succeeded", "failed"}
    BY RowTypes DEF AgentRow
  <2>3. AgentId' = AgentId /\ agent'[i] = row /\ \A j \in AgentId \ {i} : agent'[j] = agent[j]
    BY <2>1, AgentUpdate
  <2> HIDE DEF row
  <2> QED BY <1>1, <2>1, <2>2, <2>3
<1>4. ASSUME NEW i \in AgentId, WorkAsks(i) PROVE ScheduleInv'
  <2> DEFINE row == [agent[i] EXCEPT !.outcome = "needs_input", !.status = "waiting_for_input",
                                     !.task = "waiting_for_input"]
  <2>1. /\ Executing(i) /\ Returned /\ UNCHANGED <<queue, stopping, call>>
        /\ agent' = [agent EXCEPT ![i] = row]
    BY <1>4 DEF WorkAsks
  <2>2. row.status \notin LiveStatus
    BY RowTypes DEF AgentRow, LiveStatus
  <2>3. AgentId' = AgentId /\ agent'[i] = row /\ \A j \in AgentId \ {i} : agent'[j] = agent[j]
    BY <2>1, AgentUpdate
  <2> HIDE DEF row
  <2> QED BY <1>1, <2>1, <2>2, <2>3
<1>5. ASSUME NEW i \in AgentId, WorkAskRefused(i) PROVE ScheduleInv'
  BY <1>5, EndSchedule DEF WorkAskRefused, Die, ScheduleInv
<1> QED BY <1>2, <1>3, <1>4, <1>5 DEF ProviderStep

\* An applied outcome ends its Agent; the next one is queued with its row.
LEMMA ApplySchedule ==
  ASSUME LineageInv, ScheduleInv, ApplyStep
  PROVE  ScheduleInv'
<1> USE DEF LineageInv, durable
<1>a. held.task # 0 => held.task \in AgentId
  BY DEF ScheduleInv, PlacesApart, HeldSound
<1>1. ASSUME NEW i \in AgentId, FinishAction(i) \/ BlockAction(i) PROVE ScheduleInv'
  <2>1. \E r \in Run : /\ r = agent[i].run /\ run[r].status = "running"
                       /\ \A q \in Run \ {r} : run'[q] = run[q]
    BY <1>1, FinishActionRows, BlockActionRows DEF OnlyRun
  <2>2. /\ AgentId' = AgentId /\ \A j \in AgentId \ {i} : agent'[j] = agent[j]
        /\ agent'[i].status \notin LiveStatus /\ agent'[i].run = agent[i].run
    BY <1>1, FinishActionRows, BlockActionRows DEF SameAgent, LiveStatus
  <2>3. /\ UNCHANGED <<queue, pc, held, stopping>> /\ call.at = "apply" /\ call.task = i
        /\ call'.at \in {"progress", "none"}
    BY <1>1 DEF FinishAction, BlockAction, Applicable, Applying, ProgressCall, NoCall
  <2>4. pc = "loop"
    BY <2>3 DEF ScheduleInv, PlacesApart
  <2>5. ASSUME NEW j \in AgentId
        PROVE  /\ agent'[j].run = agent[j].run
               /\ agent'[j].status \in LiveStatus =>
                    Live(j) /\ agent'[j].task \in {"queued", "running", "succeeded", "failed"}
               /\ run'[agent[j].run].status \in {"pending", "running"} => Open(agent[j].run)
               /\ ~(Applying(j) /\ agent'[j].status \in LiveStatus)
    <3>1. agent'[j].run = agent[j].run
      BY <2>2
    <3>2. agent'[j].status \in LiveStatus => agent'[j] = agent[j] /\ j # i
      BY <2>2
    <3>3. run'[agent[j].run].status \in {"pending", "running"} => Open(agent[j].run)
      BY <2>1, AgentFields DEF Open
    <3> QED BY <2>3, <3>1, <3>2, <3>3 DEF Live, ScheduleInv, LiveTask, Applying
  <2>6. pc \in PumpUp /\ pc \notin AwaitPoint
    BY <2>4 DEF PumpUp, AwaitPoint
  <2> QED BY <1>a, <2>2, <2>3, <2>5, <2>6, HandlerSchedule
<1>2. ASSUME NEW i \in AgentId, DispatchNext(i) PROVE ScheduleInv'
  <2> DEFINE n == Len(agent) + 1
  <2>1. /\ agent'[n] = NewAgent(agent[i].run, agent[i].action, NextPhase(i), i)
        /\ AgentId' = AgentId \cup {n} /\ n \notin AgentId /\ n \in Nat
        /\ \A j \in AgentId \ {i} : agent'[j] = agent[j]
        /\ agent'[i].status \notin LiveStatus /\ agent'[i].run = agent[i].run
    BY <1>2, DispatchNextRows, RowTypes DEF SameAgent, LiveStatus
  <2>2. \E r \in Run : /\ r = agent[i].run /\ run[r].status = "running"
                       /\ \A q \in Run \ {r} : run'[q] = run[q]
    BY <1>2, DispatchNextRows DEF OnlyRun
  <2>3. /\ queue' = Append(queue, n) /\ UNCHANGED <<pc, held, stopping>>
        /\ call.at = "apply" /\ call.task = i /\ call'.at = "none"
    BY <1>2 DEF DispatchNext, Applicable, Applying, NoCall
  <2> HIDE DEF n
  <2>4. ~InQueue(n) /\ pc = "loop"
    BY <2>1, <2>3 DEF InQueue, ScheduleInv, QueueSound, PlacesApart
  <2>5. QueueSound' /\ \A j : InQueue(j)' <=> InQueue(j) \/ j = n
    BY <2>1, <2>3, <2>4, QueueAppended DEF ScheduleInv
  <2>6. LiveTask'
    BY <2>1 DEF ScheduleInv, LiveTask, Live, NewAgent
  <2>7. held.task = 0
    BY <2>4 DEF ScheduleInv, PlacesApart
  <2>8. PlacesApart' /\ AwaitCall' /\ HeldStopped'
    BY <2>3, <2>7 DEF PlacesApart, AwaitCall, HeldStopped
  <2>9. Placed'
    <3>1. pc \in PumpUp
      BY <2>4 DEF PumpUp
    <3>2. ASSUME NEW j \in AgentId', agent'[j].status \in LiveStatus PROVE InQueue(j)'
      <4>1. CASE j = n
        BY <2>5, <4>1
      <4>2. CASE j # n
        <5>1. j \in AgentId /\ j # i /\ Live(j)
          BY <2>1, <3>2, <4>2 DEF Live
        <5>2. InQueue(j)
          BY <2>3, <2>7, <3>1, <5>1, RowTypes DEF ScheduleInv, Placed, Applying
        <5> QED BY <2>5, <5>2
      <4> QED BY <4>1, <4>2
    <3> QED BY <3>2 DEF Placed, Live
  <2> QED BY <2>5, <2>6, <2>8, <2>9 DEF ScheduleInv
<1>3. ASSUME NEW i \in AgentId, ApplyRefused(i) PROVE ScheduleInv'
  BY <1>3, EndSchedule DEF ApplyRefused, Die, ScheduleInv
<1> QED BY <1>1, <1>2, <1>3 DEF ApplyStep

\* The finalizer's return moves the pump on, or ends the process.
LEMMA FinalizeSchedule ==
  ASSUME LineageInv, ScheduleInv, NEW r \in Run, FinalizeStep(r)
  PROVE  ScheduleInv'
<1> USE DEF LineageInv, durable
<1>1. CASE FinalizeSucceeds(r)
  <2>1. /\ UNCHANGED <<agent, queue, call, stopping>> /\ AgentId' = AgentId
        /\ pc \in {"finalize", "bootFinalize"} /\ pc' \in {"bootCleanup", "cleanup"}
        /\ held'.task = 0 /\ call.at = "none"
    BY <1>1 DEF FinalizeSucceeds, Finalizing, EventLoopFree, NoCall, Nothing, AgentId
  <2>2. held.task = 0 /\ pc \in PumpUp
    BY <2>1 DEF ScheduleInv, PlacesApart, PumpUp, AwaitPoint
  <2>3. LiveTask' /\ QueueSound' /\ \A j : InQueue(j)' <=> InQueue(j)
    BY <2>1, QueueKept DEF ScheduleInv, LiveTask, Live
  <2>4. PlacesApart' /\ AwaitCall' /\ HeldStopped'
    BY <2>1 DEF PlacesApart, AwaitCall, HeldStopped
  <2>5. Placed'
    BY <2>1, <2>2, <2>3, RowTypes DEF ScheduleInv, Placed, Live, Applying
  <2> QED BY <2>3, <2>4, <2>5 DEF ScheduleInv
<1>2. CASE FinalizeFails(r) \/ FinalizeStale(r)
  BY <1>2, EndSchedule DEF FinalizeFails, FinalizeStale, Die, ScheduleInv
<1> QED BY <1>1, <1>2 DEF FinalizeStep

\* The pump goes on after the worktree is removed.
LEMMA CleanupSchedule ==
  ASSUME ScheduleInv, CleanupEnds
  PROVE  ScheduleInv'
<1> USE DEF durable
<1>1. /\ UNCHANGED <<run, agent, queue, held, call, stopping>> /\ AgentId' = AgentId
      /\ pc \in PumpUp /\ pc' \in {"boot", "loop"} /\ call.at = "none"
  BY DEF CleanupEnds, Cleaning, EventLoopFree, NoCall, PumpUp, AwaitPoint, AgentId
<1>2. held.task = 0
  BY <1>1 DEF CleanupEnds, Cleaning, ScheduleInv, PlacesApart
<1>3. LiveTask' /\ QueueSound' /\ \A j : InQueue(j)' <=> InQueue(j)
  BY <1>1, QueueKept DEF ScheduleInv, LiveTask, Live
<1>4. PlacesApart' /\ AwaitCall' /\ HeldStopped'
  BY <1>1, <1>2 DEF PlacesApart, AwaitCall, HeldStopped
<1>5. Placed'
  BY <1>1, <1>2, <1>3 DEF ScheduleInv, Placed, Live, Applying
<1> QED BY <1>3, <1>4, <1>5 DEF ScheduleInv

\* A stop ends the Agent of the Run it closes, wherever its task is.
LEMMA StopSchedule ==
  ASSUME LineageInv, ScheduleInv, NEW r \in Run, NEW kind \in {"cancelled", "interrupted"},
         Stop(r, kind), UNCHANGED <<queue, pc, held, call, stopping>>,
         call.at \in {"none", "shutdown"}, held.task # 0 => held.task \in AgentId
  PROVE  ScheduleInv'
<1> USE DEF LineageInv
<1>1. PICK g : g = run[r].agent
  OBVIOUS
<1>2. /\ AgentId' = AgentId /\ \A j \in AgentId \ {g} : agent'[j] = agent[j]
      /\ g # 0 => agent'[g].status = kind
      /\ \A j \in AgentId : agent'[j].run = agent[j].run
      /\ run'[r].status = kind /\ \A q \in Run \ {r} : run'[q] = run[q]
  BY <1>1, StopRows DEF OnlyRun, SameAgent
<1>3. \A q \in Run : run'[q].status \in {"pending", "running"} => Open(q)
  BY <1>2 DEF Open
<1>4. ASSUME NEW j \in AgentId, agent'[j].status \in LiveStatus
      PROVE  Live(j) /\ agent'[j].task \in {"queued", "running", "succeeded", "failed"}
  BY <1>2, <1>4, AgentFields DEF Live, LiveStatus, ScheduleInv, LiveTask
<1>5. \A j \in AgentId : ~Applying(j)
  BY DEF Applying
<1>6. /\ UNCHANGED <<queue, pc, held, stopping>> /\ call' = call
      /\ call'.at # "none" => pc \in PumpUp
      /\ call'.at # "progress"
  BY DEF ScheduleInv, AwaitCall
<1> QED BY <1>2, <1>3, <1>4, <1>5, <1>6, HandlerSchedule, AgentFields

\* A browser's request queues an answered Work, and stops or opens a Run.
LEMMA HttpSchedule ==
  ASSUME LineageInv, ScheduleInv, HttpStep
  PROVE  ScheduleInv'
<1> USE DEF LineageInv, volatile
<1>a. held.task # 0 => held.task \in AgentId
  BY DEF ScheduleInv, PlacesApart, HeldSound
<1>1. ASSUME NEW r \in Run, Cancel(r) PROVE ScheduleInv'
  <2>1. /\ UNCHANGED <<queue, pc, held, stopping, call>> /\ call.at = "none"
        /\ Stop(r, "cancelled")
    BY <1>1 DEF Cancel, Listening, EventLoopFree, NoCall
  <2> QED BY <1>a, <2>1, StopSchedule
<1>2. ASSUME NEW r \in Run, NEW imported \in Importable, Start(r, imported) PROVE ScheduleInv'
  <2>1. /\ UNCHANGED <<queue, pc, held, stopping>> /\ pc \in PumpUp
        /\ call.at = "none" /\ call'.at = "progress" /\ call'.run = r
    BY <1>2 DEF Start, Listening, EventLoopFree, NoCall, PumpUp
  <2>2. /\ UNCHANGED agent /\ AgentId' = AgentId /\ run'[r].status = "pending"
        /\ \A j \in AgentId : agent[j].run # r
        /\ \A q \in Run \ {r} : run'[q] = run[q]
    BY <1>2, StartRows DEF OnlyRun
  <2> QED BY <1>a, <2>1, <2>2, HandlerSchedule, AgentFields
          DEF Live, Open, ScheduleInv, LiveTask, Applying
<1>3. ASSUME NEW i \in AgentId, Answer(i) PROVE ScheduleInv'
  <2> DEFINE n == Len(agent) + 1
  <2>1. /\ agent'[n] = NewAgent(agent[i].run, agent[i].action, "work", i)
        /\ AgentId' = AgentId \cup {n} /\ n \notin AgentId /\ n \in Nat
        /\ \A j \in AgentId \ {i} : agent'[j] = agent[j]
        /\ agent'[i].status \notin LiveStatus /\ agent'[i].run = agent[i].run
    BY <1>3, AnswerRows, RowTypes DEF SameAgent, LiveStatus
  <2>2. \E r \in Run : /\ r = agent[i].run /\ run[r].status = "running"
                       /\ \A q \in Run \ {r} : run'[q] = run[q]
    BY <1>3, AnswerRows DEF OnlyRun
  <2>3. /\ queue' = Append(queue, n) /\ UNCHANGED <<pc, held, stopping, call>>
        /\ call.at = "none" /\ ~Live(i)
    BY <1>3 DEF Answer, Listening, EventLoopFree, NoCall, Live, LiveStatus
  <2> HIDE DEF n
  <2>4. ~InQueue(n)
    BY <2>1 DEF InQueue, ScheduleInv, QueueSound
  <2>5. QueueSound' /\ \A j : InQueue(j)' <=> InQueue(j) \/ j = n
    BY <2>1, <2>3, <2>4, QueueAppended DEF ScheduleInv
  <2>6. LiveTask'
    BY <2>1 DEF ScheduleInv, LiveTask, Live, NewAgent
  <2>7. PlacesApart' /\ AwaitCall'
    BY <1>a, <2>1, <2>3, <2>5 DEF ScheduleInv, PlacesApart, AwaitCall
  <2>8. HeldStopped'
    <3>1. \A q \in Run : run'[q].status \in {"pending", "running"} => Open(q)
      BY <2>2 DEF Open
    <3>2. \A j \in AgentId : agent'[j].run = agent[j].run
      BY <2>1
    <3> QED BY <1>a, <2>3, <3>1, <3>2, AgentFields DEF ScheduleInv, HeldStopped, Open
  <2>9. Placed'
    <3>1. ASSUME pc \in PumpUp, NEW j \in AgentId', agent'[j].status \in LiveStatus
          PROVE  InQueue(j)' \/ held'.task = j
      <4>1. CASE j = n
        BY <2>5, <4>1
      <4>2. CASE j # n
        <5>1. j \in AgentId /\ j # i /\ Live(j)
          BY <2>1, <3>1, <4>2 DEF Live
        <5>2. InQueue(j) \/ held.task = j
          BY <2>3, <3>1, <5>1, RowTypes DEF ScheduleInv, Placed, Applying
        <5> QED BY <2>3, <2>5, <5>2
      <4> QED BY <4>1, <4>2
    <3> QED BY <2>3, <3>1 DEF Placed, Live
  <2> QED BY <2>5, <2>6, <2>7, <2>8, <2>9 DEF ScheduleInv
<1> QED BY <1>1, <1>2, <1>3 DEF HttpStep

\* Shutdown, with every Run it interrupts: none of them is forgotten open.
LEMMA ShutdownSchedule ==
  ASSUME LineageInv, ScheduleInv, Shutdown \/ ShutdownFails \/ ShutdownStep
  PROVE  ScheduleInv'
<1> USE DEF LineageInv, volatile, durable
<1>a. held.task # 0 => held.task \in AgentId
  BY DEF ScheduleInv, PlacesApart, HeldSound
<1>1. CASE Shutdown
  <2>1. /\ UNCHANGED <<run, agent, queue, pc, held>> /\ AgentId' = AgentId
        /\ call.at = "none" /\ call'.at = "shutdown" /\ pc \in AwaitPoint
    BY <1>1 DEF Shutdown, Listening, EventLoopFree, NoCall, AgentId
  <2>2. LiveTask' /\ QueueSound' /\ \A j : InQueue(j)' <=> InQueue(j)
    BY <2>1, QueueKept DEF ScheduleInv, LiveTask, Live
  <2>3. PlacesApart' /\ AwaitCall' /\ HeldStopped'
    BY <2>1, <2>2 DEF ScheduleInv, PlacesApart, AwaitCall, HeldStopped, PumpUp
  <2>4. Placed'
    BY <2>1, <2>2 DEF ScheduleInv, Placed, Live, Applying
  <2> QED BY <2>2, <2>3, <2>4 DEF ScheduleInv
<1>2. ASSUME NEW r \in Run, InterruptRun(r) PROVE ScheduleInv'
  <2>1. /\ UNCHANGED <<queue, pc, held, stopping, call>> /\ call.at = "shutdown"
        /\ Stop(r, "interrupted")
    BY <1>2 DEF InterruptRun
  <2> QED BY <1>a, <2>1, StopSchedule
<1>3. CASE InterruptsDone
  <2>1. /\ UNCHANGED <<run, agent, queue, pc, held, stopping>> /\ AgentId' = AgentId
        /\ call.at = "shutdown" /\ call'.at = "none" /\ \A r \in Run : ~Open(r)
    BY <1>3 DEF InterruptsDone, NoCall, AgentId
  <2> QED BY <1>a, <2>1, HandlerSchedule DEF Live, Open, ScheduleInv, LiveTask, Applying
<1>4. CASE ShutdownFails \/ ShutdownExits \/ \E r \in Run : InterruptRefused(r)
  BY <1>4, EndSchedule DEF ShutdownFails, ShutdownExits, InterruptRefused, Die, ScheduleInv
<1> QED BY <1>1, <1>2, <1>3, <1>4 DEF ShutdownStep

\* While nothing is called or awaited, moving the process changes no place.
LEMMA MoveSchedule ==
  ASSUME ScheduleInv, UNCHANGED <<queue, held, call, stopping>>, held.task = 0,
         call.at = "none", AgentId' = AgentId, LiveTask', Placed'
  PROVE  ScheduleInv'
<1>1. QueueSound'
  BY QueueKept DEF ScheduleInv
<1>2. PlacesApart' /\ AwaitCall' /\ HeldStopped'
  BY DEF PlacesApart, AwaitCall, HeldStopped
<1> QED BY <1>1, <1>2 DEF ScheduleInv

\* A restart queues every live Agent again before the pump runs.
LEMMA BootSchedule ==
  ASSUME LineageInv, ScheduleInv, BootStep \/ StartServer
  PROVE  ScheduleInv'
<1> USE DEF LineageInv, durable
<1>1. CASE Restart \/ StartServer
  <2>1. /\ UNCHANGED <<agent, queue, held, call, stopping>> /\ AgentId' = AgentId
        /\ pc \in {"off", "exited"} /\ pc' = "recover"
    BY <1>1 DEF Restart, StartServer, AgentId
  <2>2. held.task = 0 /\ call.at = "none" /\ LiveTask'
    BY <2>1 DEF ScheduleInv, PlacesApart, AwaitCall, PumpUp, AwaitPoint, LiveTask, Live
  <2>3. Placed'
    BY <2>1 DEF Placed, PumpUp, AwaitPoint
  <2> QED BY <2>1, <2>2, <2>3, MoveSchedule
<1>2. CASE RecoverTasks
  <2>1. /\ UNCHANGED <<queue, held, call, stopping>> /\ AgentId' = AgentId
        /\ pc = "recover" /\ pc' = "restore"
    BY <1>2 DEF RecoverTasks, AgentId
  <2>2. ASSUME NEW i \in AgentId', agent'[i].status \in LiveStatus
        PROVE  agent'[i].task \in {"queued", "running", "succeeded", "failed"}
    <3>1. /\ agent'[i] = IF Unclaimed(i)
                         THEN [agent[i] EXCEPT !.task = "queued",
                                 !.status = IF @ = "running" THEN "queued" ELSE @]
                         ELSE agent[i]
          /\ agent[i] \in AgentRow
      BY <1>2, <2>1, RowTypes DEF RecoverTasks, AgentId
    <3>2. CASE Unclaimed(i)
      BY <3>1, <3>2 DEF AgentRow
    <3>3. CASE ~Unclaimed(i)
      BY <2>1, <2>2, <3>1, <3>3 DEF ScheduleInv, LiveTask, Live
    <3> QED BY <3>2, <3>3
  <2>3. held.task = 0 /\ call.at = "none" /\ LiveTask'
    BY <2>1, <2>2 DEF ScheduleInv, PlacesApart, AwaitCall, PumpUp, AwaitPoint, LiveTask, Live
  <2>4. Placed'
    BY <2>1 DEF Placed, PumpUp, AwaitPoint
  <2> QED BY <2>1, <2>3, <2>4, MoveSchedule
<1>3. CASE RecoverFinalizations
  <2>1. /\ UNCHANGED <<agent, queue, held, call, stopping>> /\ AgentId' = AgentId
        /\ pc = "restore" /\ pc' = "requeue"
    BY <1>3 DEF RecoverFinalizations, AgentId
  <2>2. held.task = 0 /\ call.at = "none" /\ LiveTask'
    BY <2>1 DEF ScheduleInv, PlacesApart, AwaitCall, PumpUp, AwaitPoint, LiveTask, Live
  <2>3. Placed'
    BY <2>1 DEF Placed, PumpUp, AwaitPoint
  <2> QED BY <2>1, <2>2, <2>3, MoveSchedule
<1>4. CASE RequeueEnds
  <2>1. /\ UNCHANGED <<agent, queue, held, call, stopping>> /\ AgentId' = AgentId
        /\ pc = "requeue" /\ \A i \in AgentId : Recoverable(i) => InQueue(i)
    BY <1>4 DEF RequeueEnds, AgentId
  <2>2. held.task = 0 /\ call.at = "none" /\ LiveTask'
    BY <2>1 DEF ScheduleInv, PlacesApart, AwaitCall, PumpUp, AwaitPoint, LiveTask, Live
  <2>3. \A j : InQueue(j)' <=> InQueue(j)
    BY <2>1, QueueKept DEF ScheduleInv
  <2>4. Placed'
    BY <2>1, <2>3 DEF Placed, Live, Recoverable, ScheduleInv, LiveTask
  <2> QED BY <2>1, <2>2, <2>4, MoveSchedule
<1>5. CASE Boot
  <2>1. /\ UNCHANGED <<agent, queue, held, call, stopping>> /\ AgentId' = AgentId
        /\ pc = "boot" /\ call.at = "none"
    BY <1>5 DEF Boot, EventLoopFree, NoCall, AgentId
  <2>2. held.task = 0 /\ LiveTask' /\ pc \in PumpUp
    BY <2>1 DEF ScheduleInv, PlacesApart, PumpUp, AwaitPoint, LiveTask, Live
  <2>3. \A j : InQueue(j)' <=> InQueue(j)
    BY <2>1, QueueKept DEF ScheduleInv
  <2>4. Placed'
    BY <2>1, <2>2, <2>3 DEF Placed, Live, Applying, ScheduleInv
  <2> QED BY <2>1, <2>2, <2>4, MoveSchedule
<1>6. ASSUME NEW i \in AgentId, RequeueTask(i) PROVE ScheduleInv'
  <2>1. /\ UNCHANGED <<agent, pc, held, call, stopping>> /\ AgentId' = AgentId /\ i \in Nat
        /\ queue' = Append(queue, i) /\ pc = "requeue" /\ ~InQueue(i)
    BY <1>6, AgentFields DEF RequeueTask, AgentId
  <2>2. QueueSound'
    BY <2>1, QueueAppended DEF ScheduleInv
  <2>3. held.task = 0 /\ call.at = "none" /\ LiveTask'
    BY <2>1 DEF ScheduleInv, PlacesApart, AwaitCall, PumpUp, AwaitPoint, LiveTask, Live
  <2>4. PlacesApart' /\ AwaitCall' /\ HeldStopped' /\ Placed'
    BY <2>1, <2>3 DEF PlacesApart, AwaitCall, HeldStopped, Placed, PumpUp, AwaitPoint
  <2> QED BY <2>2, <2>3, <2>4 DEF ScheduleInv
<1>7. ASSUME NEW r \in Run, ResumeFinalization(r) PROVE ScheduleInv'
  <2>1. /\ UNCHANGED <<agent, queue, pc, held, stopping>> /\ AgentId' = AgentId
        /\ pc = "boot" /\ call.at = "none" /\ call'.at = "progress"
    BY <1>7 DEF ResumeFinalization, EventLoopFree, NoCall, AgentId
  <2>2. held.task = 0 /\ LiveTask' /\ pc \in PumpUp
    BY <2>1 DEF ScheduleInv, PlacesApart, PumpUp, AwaitPoint, LiveTask, Live
  <2>3. QueueSound' /\ \A j : InQueue(j)' <=> InQueue(j)
    BY <2>1, QueueKept DEF ScheduleInv
  <2>4. PlacesApart' /\ AwaitCall' /\ HeldStopped'
    BY <2>1, <2>2 DEF PlacesApart, AwaitCall, HeldStopped, PumpUp, AwaitPoint
  <2>5. Placed'
    BY <2>1, <2>2, <2>3, RowTypes DEF Placed, Live, Applying, ScheduleInv
  <2> QED BY <2>2, <2>3, <2>4, <2>5 DEF ScheduleInv
<1> QED BY <1>1, <1>2, <1>3, <1>4, <1>5, <1>6, <1>7 DEF BootStep

\* The daemon's claim writes no status.
LEMMA DaemonClaimSchedule ==
  ASSUME LineageInv, ScheduleInv, NEW i \in AgentId, DaemonClaim(i)
  PROVE  ScheduleInv'
<1> USE DEF LineageInv, volatile
<1>a. held.task # 0 => held.task \in AgentId
  BY DEF ScheduleInv, PlacesApart, HeldSound
<1> DEFINE row == [agent[i] EXCEPT !.claimed = TRUE]
<1>1. /\ UNCHANGED <<run, queue, pc, held, stopping, call>> /\ call.at = "none"
      /\ agent' = [agent EXCEPT ![i] = row]
  BY DEF DaemonClaim, Listening, EventLoopFree, NoCall
<1>2. row.run = agent[i].run /\ row.status = agent[i].status /\ row.task = agent[i].task
  BY RowTypes DEF AgentRow
<1>3. AgentId' = AgentId /\ agent'[i] = row /\ \A j \in AgentId \ {i} : agent'[j] = agent[j]
  BY <1>1, AgentUpdate
<1> HIDE DEF row
<1> QED BY <1>a, <1>1, <1>2, <1>3, HandlerSchedule
        DEF Live, Open, ScheduleInv, LiveTask, Applying

\* The first server starts with an empty queue.
LEMMA InitSchedule == Init => ScheduleInv
<1> SUFFICES ASSUME Init PROVE ScheduleInv
  OBVIOUS
<1>1. /\ AgentId = {} /\ queue = <<>> /\ held.task = 0 /\ call.at = "none"
  BY DEF Init, AgentId, Nothing, NoCall
<1> QED BY <1>1 DEF ScheduleInv, LiveTask, QueueSound, PlacesApart, AwaitCall, HeldStopped, Placed

\* Every step keeps every live Agent in exactly one place of the memory, or
\* loses them all with the process.
LEMMA NextSchedule == LineageInv /\ ScheduleInv /\ [Next]_vars => ScheduleInv'
<1> SUFFICES ASSUME LineageInv, ScheduleInv, [Next]_vars PROVE ScheduleInv'
  OBVIOUS
<1>1. CASE UNCHANGED vars
  <2>1. UNCHANGED <<run, agent, queue, pc, held, call, stopping>> /\ AgentId' = AgentId
    BY <1>1 DEF vars, durable, volatile, AgentId
  <2> QED BY <2>1 DEF ScheduleInv, LiveTask, Live, QueueSound, PlacesApart, InQueue, AwaitCall,
                      HeldStopped, Open, Placed, Applying
<1>2. CASE Crash \/ CleanupFails
  BY <1>2, EndSchedule DEF Crash, CleanupFails, Die, durable, ScheduleInv
<1>3. CASE CleanupEnds
  BY <1>3, CleanupSchedule DEF LineageInv
<1> QED
  BY <1>1, <1>2, <1>3, ProgressSchedule, PumpSchedule, ProviderSchedule, ApplySchedule, FinalizeSchedule,
     DaemonClaimSchedule, HttpSchedule, ShutdownSchedule, BootSchedule DEF Next, CleanupStep

\* No dispatched Agent is forgotten by the process that owns it: between two
\* steps of the pump each is awaited or queued exactly once, however cancels,
\* answers, shutdowns, crashes and restarts fall between the commits.
THEOREM ScheduledCorrect == Spec => []Scheduled
<1>1. Init => LineageInv /\ ScheduleInv
  BY InitLineage, InitSchedule
<1>2. LineageInv /\ ScheduleInv /\ [Next]_vars => (LineageInv /\ ScheduleInv)'
  BY NextLineage, NextSchedule
<1>3. LineageInv /\ ScheduleInv => Scheduled
  BY InvScheduled DEF LineageInv
<1> QED BY <1>1, <1>2, <1>3, PTL DEF Spec

-----------------------------------------------------------------------------
(* What the rows of a Run say of its past.                                 *)

AgentsOf(r) == {i \in AgentId : agent[i].run = r}
PostworkOf(r, a) == {i \in AgentId :
  agent[i].run = r /\ agent[i].action = a /\ agent[i].phase = "postwork"}
AcceptedIn(r, a) == \E i \in AgentId :
  /\ agent[i].run = r /\ agent[i].action = a
  /\ agent[i].status = "completed" /\ agent[i].outcome = "done"

\* An outcome is one its phase may give; a live Agent with an answer has one
\* that ends its phase, and an Agent that waits has asked.
OutcomeFits(i) ==
  /\ agent[i].outcome \in {"none"} \cup Answers(agent[i].phase)
  /\ Live(i) /\ agent[i].task \in {"succeeded", "failed"} =>
       agent[i].outcome \notin {"none", "needs_input"}
  /\ agent[i].status = "waiting_for_input" => agent[i].outcome = "needs_input"

\* The attempt a pending Agent was created for is the one its Action counts.
AttemptFits(i) ==
  Pending(i) =>
    agent[i].attempt = action[agent[i].run][agent[i].action].attempt
                       + (IF agent[i].phase = "postwork" THEN 0 ELSE 1)

\* An Action that is not selected, or that waits for its precheck, has no Agent.
Selected(i) ==
  /\ action[agent[i].run][agent[i].action].status # "pending"
  /\ run[agent[i].run].agent = 0 => run[agent[i].run].action # agent[i].action

Caused(i) ==
  /\ agent[i].phase = "precheck" => agent[i].parent = 0 /\ agent[i].attempt = 1
  /\ agent[i].phase # "precheck" => CausedBy(i, agent[i].parent)

AgentHistory(i) == OutcomeFits(i) /\ AttemptFits(i) /\ Selected(i) /\ Caused(i)

\* The pending Agent of a Run is its last.
LastPending(r) == \A i, j \in AgentsOf(r) : Pending(i) => j <= i

\* No outcome causes two Agents of an Action.
OneCause(r) ==
  \A i, j \in AgentsOf(r) :
    i # j /\ agent[i].action = agent[j].action => agent[i].parent # agent[j].parent

\* Attempts count the Work results that were validated, below the limit, and a
\* done Action was imported or accepted.
ActionHistory(r, a) ==
  /\ action[r][a].status \in {"pending", "prechecking"} => action[r][a].attempt = 0
  /\ action[r][a].status = "working" => action[r][a].attempt <= MaxRetries
  /\ action[r][a].attempt <= MaxRetries + 1
  /\ action[r][a].attempt = Cardinality(PostworkOf(r, a))
  /\ action[r][a].status = "done" => action[r][a].imported \/ AcceptedIn(r, a)

BlockHistory(r) ==
  IF run[r].status = "blocked"
  THEN \E f \in feedback :
         /\ FeedbackOf(r) = {f} /\ Justified(f)
         /\ BlockedIn(r) = {agent[f.agent].action}
         /\ \A i \in AgentsOf(r) : i <= f.agent
  ELSE FeedbackOf(r) = {} /\ BlockedIn(r) = {}

CompleteHistory(r) ==
  run[r].status = "completed" =>
    /\ run[r].final = "completed" /\ StatesDone(r)
    /\ \A a \in Action : action[r][a].status = "done"

RunHistory(r) ==
  /\ \A i \in AgentsOf(r) : AgentHistory(i)
  /\ LastPending(r) /\ OneCause(r)
  /\ \A a \in Action : ActionHistory(r, a)
  /\ BlockHistory(r) /\ CompleteHistory(r)

\* Feedback is about an Agent that is over.
FeedbackFits == \A f \in feedback : f.agent \in AgentId /\ ~Pending(f.agent)

HistoryInv == FeedbackFits /\ \A r \in Run : RunHistory(r)

\* The histories of all Runs account for where they are.
LEMMA InvAccounted ==
  ASSUME TypeOK, HistoryInv
  PROVE  OutcomesAccounted
<1>1. \A i \in AgentId : agent[i].run \in Run /\ agent[i].action \in Action
  BY AgentFields
<1>2. CausalChain
  <2>1. \A i \in AgentId : Caused(i)
    BY <1>1 DEF HistoryInv, RunHistory, AgentsOf, AgentHistory
  <2>2. ASSUME NEW i \in AgentId, NEW j \in AgentId, i # j
        PROVE  <<agent[i].run, agent[i].action, agent[i].parent>>
                 # <<agent[j].run, agent[j].action, agent[j].parent>>
    <3>1. CASE agent[i].run = agent[j].run
      <4>1. OneCause(agent[i].run) /\ i \in AgentsOf(agent[i].run) /\ j \in AgentsOf(agent[i].run)
        BY <1>1, <3>1 DEF HistoryInv, RunHistory, AgentsOf
      <4> QED BY <2>2, <4>1 DEF OneCause
    <3> QED BY <3>1
  <2> QED BY <2>1, <2>2 DEF CausalChain, Caused
<1>3. AttemptsCounted
  BY DEF AttemptsCounted, HistoryInv, RunHistory, ActionHistory, PostworkOf
<1>4. BlockedHasFeedback
  <2>1. SUFFICES ASSUME NEW r \in Run
                 PROVE  IF run[r].status = "blocked"
                        THEN \E f \in feedback :
                               /\ FeedbackOf(r) = {f} /\ Justified(f)
                               /\ BlockedIn(r) = {agent[f.agent].action}
                               /\ \A i \in AgentId : agent[i].run = r => i <= f.agent
                        ELSE FeedbackOf(r) = {} /\ BlockedIn(r) = {}
    BY DEF BlockedHasFeedback
  <2>2. BlockHistory(r)
    BY DEF HistoryInv, RunHistory
  <2> QED BY <2>2 DEF BlockHistory, AgentsOf
<1>5. CompletionSound
  BY DEF CompletionSound, HistoryInv, RunHistory, CompleteHistory, ActionHistory, AcceptedIn
<1> QED BY <1>2, <1>3, <1>4, <1>5 DEF OutcomesAccounted

-----------------------------------------------------------------------------
(* Runs a step does not touch.                                             *)

\* A step of one Run leaves the history of the others.
LEMMA OtherHistory ==
  ASSUME TypeOK, FeedbackFits, NEW r \in Run, NEW q \in Run, q # r, RunHistory(q), OnlyRun(r),
         feedback \subseteq feedback',
         \A f \in feedback' \ feedback : f.agent \in AgentId /\ agent[f.agent].run = r
  PROVE  RunHistory(q)'
<1>1. /\ run'[q] = run[q] /\ action'[q] = action[q] /\ state'[q] = state[q]
      /\ AgentId \subseteq AgentId'
      /\ \A j \in AgentId : agent'[j].run = agent[j].run
      /\ \A j \in AgentId : agent[j].run # r => agent'[j] = agent[j]
      /\ \A j \in AgentId' \ AgentId : agent'[j].run = r
  BY DEF OnlyRun
<1>2. /\ AgentsOf(q)' = AgentsOf(q)
      /\ \A i \in AgentsOf(q) : i \in AgentId /\ agent'[i] = agent[i] /\ agent[i].run = q
  BY <1>1 DEF AgentsOf
<1>3. ASSUME NEW i \in AgentsOf(q) PROVE AgentHistory(i)'
  <2>1. OutcomeFits(i) /\ AttemptFits(i) /\ Selected(i) /\ Caused(i)
    BY DEF RunHistory, AgentHistory
  <2>2. OutcomeFits(i)'
    BY <1>2, <2>1 DEF OutcomeFits, Live
  <2>3. AttemptFits(i)'
    BY <1>1, <1>2, <2>1 DEF AttemptFits, Pending, Live
  <2>4. Selected(i)'
    BY <1>1, <1>2, <2>1 DEF Selected
  <2>5. Caused(i)'
    <3>1. ASSUME NEW p, CausedBy(i, p) PROVE CausedBy(i, p)'
      <4>1. p \in AgentsOf(q)
        BY <1>2, <3>1 DEF CausedBy, AgentsOf
      <4> QED BY <1>1, <1>2, <3>1, <4>1 DEF CausedBy
    <3> QED BY <1>2, <2>1, <3>1 DEF Caused
  <2> QED BY <2>2, <2>3, <2>4, <2>5 DEF AgentHistory
<1>4. LastPending(q)' /\ OneCause(q)'
  <2>1. LastPending(q)'
    BY <1>2 DEF RunHistory, LastPending, Pending, Live
  <2>2. OneCause(q)'
    BY <1>2 DEF RunHistory, OneCause
  <2> QED BY <2>1, <2>2
<1>5. ASSUME NEW a \in Action PROVE ActionHistory(q, a)'
  <2>1. PostworkOf(q, a)' = PostworkOf(q, a)
    BY <1>1 DEF PostworkOf
  <2>2. AcceptedIn(q, a) => AcceptedIn(q, a)'
    BY <1>1 DEF AcceptedIn
  <2>3. ActionHistory(q, a)
    BY DEF RunHistory
  <2> QED BY <1>1, <2>1, <2>2, <2>3 DEF ActionHistory
<1>6. BlockHistory(q)'
  <2>1. FeedbackOf(q)' = FeedbackOf(q)
    BY <1>1 DEF FeedbackOf, FeedbackFits
  <2>2. BlockedIn(q)' = BlockedIn(q)
    BY <1>1 DEF BlockedIn
  <2>3. ASSUME NEW f \in FeedbackOf(q) PROVE agent'[f.agent] = agent[f.agent]
    BY <1>1 DEF FeedbackOf, FeedbackFits
  <2>4. BlockHistory(q)
    BY DEF RunHistory
  <2>5. CASE run[q].status # "blocked"
    BY <1>1, <2>1, <2>2, <2>4, <2>5 DEF BlockHistory
  <2>6. CASE run[q].status = "blocked"
    <3>1. PICK f \in feedback :
            /\ FeedbackOf(q) = {f} /\ Justified(f)
            /\ BlockedIn(q) = {agent[f.agent].action}
            /\ \A i \in AgentsOf(q) : i <= f.agent
      BY <2>4, <2>6 DEF BlockHistory
    <3>2. agent'[f.agent] = agent[f.agent] /\ f \in feedback'
      BY <2>3, <3>1
    <3>3. Justified(f)'
      BY <3>1, <3>2 DEF Justified
    <3>4. /\ FeedbackOf(q)' = {f} /\ BlockedIn(q)' = {agent'[f.agent].action}
          /\ \A i \in AgentsOf(q)' : i <= f.agent
      BY <1>2, <2>1, <2>2, <3>1, <3>2
    <3> QED BY <1>1, <2>6, <3>2, <3>3, <3>4 DEF BlockHistory
  <2> QED BY <2>5, <2>6
<1>7. CompleteHistory(q)'
  BY <1>1 DEF RunHistory, CompleteHistory, StatesDone
<1> QED BY <1>2, <1>3, <1>4, <1>5, <1>6, <1>7 DEF RunHistory

\* Feedback stays about Agents that are over.
LEMMA FeedbackKept ==
  ASSUME FeedbackFits, AgentId \subseteq AgentId', \A j \in AgentId : SameAgent(j),
         \A f \in feedback' : f \in feedback \/ (f.agent \in AgentId' /\ ~Pending(f.agent)')
  PROVE  FeedbackFits'
<1>1. ASSUME NEW f \in feedback PROVE f.agent \in AgentId' /\ ~Pending(f.agent)'
  <2>1. f.agent \in AgentId /\ ~Pending(f.agent)
    BY DEF FeedbackFits
  <2>2. agent'[f.agent] = agent[f.agent]
    BY <2>1 DEF SameAgent
  <2> QED BY <2>1, <2>2 DEF Pending, Live
<1> QED BY <1>1 DEF FeedbackFits

\* What caused an Agent stays what it was.
LEMMA CauseKept ==
  ASSUME AgentId \subseteq AgentId', \A j \in AgentId : SameAgent(j), NEW i \in AgentId, Caused(i)
  PROVE  Caused(i)'
<1>1. ASSUME NEW p, CausedBy(i, p) PROVE CausedBy(i, p)'
  <2>1. p \in AgentId /\ agent[p].status = "completed"
    BY <1>1 DEF CausedBy
  <2>2. agent'[p] = agent[p]
    BY <2>1 DEF SameAgent, Pending, Live, LiveStatus
  <2> QED BY <1>1, <2>1, <2>2 DEF CausedBy, SameAgent
<1> QED BY <1>1 DEF Caused, SameAgent

\* A step that writes no Action and no Feedback, ends and creates no Agent, and
\* moves no Run.
Quiet ==
  /\ AgentId' = AgentId /\ UNCHANGED <<action, feedback>>
  /\ \A j \in AgentId : SameAgent(j) /\ (Pending(j)' <=> Pending(j)) /\ OutcomeFits(j)'
  /\ \A r \in Run : /\ run'[r].status = run[r].status /\ run'[r].action = run[r].action
                    /\ run'[r].agent = run[r].agent
                    /\ run[r].status = "completed" =>
                         run'[r].final = run[r].final /\ state'[r] = state[r]

\* Such a step keeps every history.
LEMMA QuietHistory ==
  ASSUME TypeOK, HistoryInv, Quiet
  PROVE  HistoryInv'
<1> USE DEF Quiet
<1>1. FeedbackFits'
  BY FeedbackKept DEF HistoryInv
<1>2. ASSUME NEW r \in Run PROVE RunHistory(r)'
  <2> RunHistory(r)
    BY DEF HistoryInv
  <2>1. AgentsOf(r)' = AgentsOf(r) /\ AgentsOf(r) \subseteq AgentId
    BY DEF AgentsOf, SameAgent
  <2>2. ASSUME NEW i \in AgentsOf(r) PROVE AgentHistory(i)'
    <3>1. OutcomeFits(i) /\ AttemptFits(i) /\ Selected(i) /\ Caused(i) /\ i \in AgentId
      BY <2>1 DEF RunHistory, AgentHistory
    <3>2. /\ agent[i].run \in Run /\ agent'[i].run = agent[i].run
          /\ agent'[i].action = agent[i].action /\ agent'[i].phase = agent[i].phase
          /\ agent'[i].attempt = agent[i].attempt
      BY <3>1, AgentFields DEF SameAgent
    <3>3. AttemptFits(i)'
      BY <3>1, <3>2 DEF AttemptFits
    <3>4. Selected(i)'
      BY <3>1, <3>2 DEF Selected
    <3>5. Caused(i)'
      BY <3>1, CauseKept
    <3> QED BY <3>1, <3>3, <3>4, <3>5 DEF AgentHistory
  <2>3. LastPending(r)' /\ OneCause(r)'
    <3>1. LastPending(r)'
      BY <2>1 DEF RunHistory, LastPending
    <3>2. OneCause(r)'
      BY <2>1 DEF RunHistory, OneCause, SameAgent
    <3> QED BY <3>1, <3>2
  <2>4. ASSUME NEW a \in Action PROVE ActionHistory(r, a)'
    <3>1. PostworkOf(r, a)' = PostworkOf(r, a)
      BY DEF PostworkOf, SameAgent
    <3>2. AcceptedIn(r, a) => AcceptedIn(r, a)'
      BY DEF AcceptedIn, SameAgent, Pending, Live, LiveStatus
    <3>3. ActionHistory(r, a)
      BY DEF RunHistory
    <3> QED BY <3>1, <3>2, <3>3 DEF ActionHistory
  <2>5. BlockHistory(r)'
    <3>1. ASSUME NEW f \in feedback PROVE f.agent \in AgentId /\ agent'[f.agent] = agent[f.agent]
      BY DEF HistoryInv, FeedbackFits, SameAgent
    <3>2. FeedbackOf(r)' = FeedbackOf(r) /\ BlockedIn(r)' = BlockedIn(r)
      BY <3>1 DEF FeedbackOf, BlockedIn
    <3>3. \A f \in feedback : Justified(f)' <=> Justified(f)
      BY <3>1 DEF Justified
    <3>4. BlockHistory(r)
      BY DEF RunHistory
    <3> QED BY <2>1, <3>1, <3>2, <3>3, <3>4 DEF BlockHistory
  <2>6. CompleteHistory(r)'
    BY DEF RunHistory, CompleteHistory, StatesDone
  <2> QED BY <2>1, <2>2, <2>3, <2>4, <2>5, <2>6 DEF RunHistory
<1> QED BY <1>1, <1>2 DEF HistoryInv

\* A step that ends the Agent of a Run and clears its pointers.
LEMMA EndedHistory ==
  ASSUME TypeOK, NEW r \in Run, RunHistory(r), OnlyRun(r), AgentId' = AgentId,
         \A j \in AgentId : SameAgent(j) /\ agent'[j].outcome = agent[j].outcome,
         \A j \in AgentId : agent[j].run = r => ~Pending(j)',
         run'[r].action = 0,
         \A b \in Action : action[r][b].status # "pending" => action'[r][b].status # "pending"
  PROVE  /\ \A i \in AgentsOf(r)' : AgentHistory(i)'
         /\ LastPending(r)' /\ OneCause(r)' /\ AgentsOf(r)' = AgentsOf(r)
         /\ \A b \in Action : PostworkOf(r, b)' = PostworkOf(r, b)
         /\ \A b \in Action : AcceptedIn(r, b) => AcceptedIn(r, b)'
<1>1. AgentsOf(r)' = AgentsOf(r) /\ AgentsOf(r) \subseteq AgentId
  BY DEF AgentsOf, SameAgent
<1>2. ASSUME NEW i \in AgentsOf(r) PROVE AgentHistory(i)'
  <2>1. /\ OutcomeFits(i) /\ AttemptFits(i) /\ Selected(i) /\ Caused(i)
        /\ i \in AgentId /\ agent[i].run = r
    BY <1>1 DEF RunHistory, AgentHistory, AgentsOf
  <2>2. /\ agent'[i].run = r /\ agent'[i].action = agent[i].action /\ agent[i].action \in Action
        /\ agent'[i].phase = agent[i].phase /\ agent'[i].outcome = agent[i].outcome
        /\ agent[i].action # 0
    BY <2>1, AgentFields DEF SameAgent
  <2>3. OutcomeFits(i)'
    BY <2>1, <2>2 DEF OutcomeFits, Pending
  <2>4. AttemptFits(i)'
    BY <2>1 DEF AttemptFits
  <2>5. Selected(i)'
    BY <2>1, <2>2 DEF Selected
  <2>6. Caused(i)'
    BY <2>1, CauseKept
  <2> QED BY <2>3, <2>4, <2>5, <2>6 DEF AgentHistory
<1>3. LastPending(r)'
  BY <1>1 DEF LastPending, AgentsOf
<1>4. OneCause(r)'
  BY <1>1 DEF RunHistory, OneCause, SameAgent
<1>5. ASSUME NEW b \in Action
      PROVE  PostworkOf(r, b)' = PostworkOf(r, b) /\ (AcceptedIn(r, b) => AcceptedIn(r, b)')
  <2>1. PostworkOf(r, b)' = PostworkOf(r, b)
    BY DEF PostworkOf, SameAgent
  <2>2. AcceptedIn(r, b) => AcceptedIn(r, b)'
    BY DEF AcceptedIn, SameAgent, Pending, Live, LiveStatus
  <2> QED BY <2>1, <2>2
<1> QED BY <1>1, <1>2, <1>3, <1>4, <1>5

\* A step that creates an Agent for the Action of a Run, in place of the one
\* that caused it.
LEMMA AddedHistory ==
  ASSUME TypeOK, NEW r \in Run, NEW a \in Action, NEW n \in Nat, NEW p, RunHistory(r),
         OnlyRun(r),
         AgentId' = AgentId \cup {n}, n \notin AgentId, n # 0, \A j \in AgentId : j < n,
         \A j \in AgentId : SameAgent(j) /\ agent'[j].outcome = agent[j].outcome,
         \A j \in AgentId : agent[j].run = r => ~Pending(j)',
         agent'[n].run = r, agent'[n].action = a, agent'[n].outcome = "none",
         agent'[n].task = "queued", agent'[n].status = "queued", agent'[n].parent = p,
         \A j \in AgentsOf(r) : agent[j].action = a => agent[j].parent # p,
         agent'[n].attempt = action'[r][a].attempt + (IF agent'[n].phase = "postwork" THEN 0 ELSE 1),
         Caused(n)',
         run'[r].agent = n, action'[r][a].status # "pending",
         \A b \in Action : action[r][b].status # "pending" => action'[r][b].status # "pending"
  PROVE  /\ \A i \in AgentsOf(r)' : AgentHistory(i)'
         /\ LastPending(r)' /\ OneCause(r)' /\ AgentsOf(r)' = AgentsOf(r) \cup {n}
         /\ \A b \in Action : PostworkOf(r, b)' =
              IF b = a /\ agent'[n].phase = "postwork" THEN PostworkOf(r, b) \cup {n}
              ELSE PostworkOf(r, b)
         /\ \A b \in Action : AcceptedIn(r, b) => AcceptedIn(r, b)'
<1>1. AgentsOf(r)' = AgentsOf(r) \cup {n} /\ AgentsOf(r) \subseteq AgentId
  BY DEF AgentsOf, SameAgent
<1>2. ASSUME NEW i \in AgentsOf(r) PROVE AgentHistory(i)'
  <2>1. /\ OutcomeFits(i) /\ AttemptFits(i) /\ Selected(i) /\ Caused(i)
        /\ i \in AgentId /\ agent[i].run = r
    BY <1>1 DEF RunHistory, AgentHistory, AgentsOf
  <2>2. /\ agent'[i].run = r /\ agent'[i].action = agent[i].action /\ agent[i].action \in Action
        /\ agent'[i].phase = agent[i].phase /\ agent'[i].outcome = agent[i].outcome
    BY <2>1, AgentFields DEF SameAgent
  <2>3. OutcomeFits(i)'
    BY <2>1, <2>2 DEF OutcomeFits, Pending
  <2>4. AttemptFits(i)'
    BY <2>1 DEF AttemptFits
  <2>5. Selected(i)'
    BY <2>1, <2>2 DEF Selected
  <2>6. Caused(i)'
    BY <2>1, CauseKept
  <2> QED BY <2>3, <2>4, <2>5, <2>6 DEF AgentHistory
<1>3. AgentHistory(n)'
  <2>1. OutcomeFits(n)'
    BY DEF OutcomeFits
  <2>2. AttemptFits(n)'
    BY DEF AttemptFits
  <2>3. Selected(n)'
    BY DEF Selected
  <2> QED BY <2>1, <2>2, <2>3 DEF AgentHistory
<1>4. LastPending(r)'
  <2>1. ASSUME NEW i \in AgentsOf(r)', NEW j \in AgentsOf(r)', Pending(i)' PROVE j <= i
    <3>1. i = n
      BY <1>1, <2>1 DEF AgentsOf
    <3>2. j = n \/ j < n
      BY <1>1
    <3>3. j \in Nat
      BY <1>1, RowTypes
    <3> QED BY <1>1, <3>1, <3>2, <3>3
  <2> QED BY <2>1 DEF LastPending
<1>5. OneCause(r)'
  <2>1. ASSUME NEW i \in AgentsOf(r)', NEW j \in AgentsOf(r)', i # j,
               agent'[i].action = agent'[j].action
        PROVE  agent'[i].parent # agent'[j].parent
    <3>1. ASSUME NEW k \in AgentsOf(r), agent'[k].action = a PROVE agent'[k].parent # p
      BY <1>1, <3>1 DEF SameAgent
    <3>2. CASE i = n
      BY <1>1, <2>1, <3>1, <3>2
    <3>3. CASE j = n
      BY <1>1, <2>1, <3>1, <3>3
    <3>4. CASE i # n /\ j # n
      <4>1. i \in AgentsOf(r) /\ j \in AgentsOf(r) /\ OneCause(r)
        BY <1>1, <3>4 DEF RunHistory
      <4> QED BY <1>1, <2>1, <4>1 DEF OneCause, SameAgent
    <3> QED BY <3>2, <3>3, <3>4
  <2> QED BY <2>1 DEF OneCause
<1>6. ASSUME NEW b \in Action
      PROVE  /\ PostworkOf(r, b)' =
                  IF b = a /\ agent'[n].phase = "postwork" THEN PostworkOf(r, b) \cup {n}
                  ELSE PostworkOf(r, b)
             /\ AcceptedIn(r, b) => AcceptedIn(r, b)'
  <2>1. b = a /\ agent'[n].phase = "postwork" => PostworkOf(r, b)' = PostworkOf(r, b) \cup {n}
    BY DEF PostworkOf, SameAgent
  <2>2. ~(b = a /\ agent'[n].phase = "postwork") => PostworkOf(r, b)' = PostworkOf(r, b)
    BY DEF PostworkOf, SameAgent
  <2>3. AcceptedIn(r, b) => AcceptedIn(r, b)'
    BY DEF AcceptedIn, SameAgent, Pending, Live, LiveStatus
  <2> QED BY <2>1, <2>2, <2>3
<1> QED BY <1>1, <1>2, <1>3, <1>4, <1>5, <1>6

-----------------------------------------------------------------------------
(* One lemma per handler.                                                  *)

\* A step of one Run keeps all histories when it keeps that one.
LEMMA OneRunHistory ==
  ASSUME TypeOK, HistoryInv, NEW r \in Run, OnlyRun(r), \A j \in AgentId : SameAgent(j),
         feedback \subseteq feedback',
         \A f \in feedback' \ feedback :
           f.agent \in AgentId /\ agent[f.agent].run = r /\ ~Pending(f.agent)',
         RunHistory(r)'
  PROVE  HistoryInv'
<1>1. FeedbackFits'
  <2>1. AgentId \subseteq AgentId'
    BY DEF OnlyRun
  <2> QED BY <2>1, FeedbackKept DEF HistoryInv
<1>2. ASSUME NEW q \in Run, q # r PROVE RunHistory(q)'
  BY <1>2, OtherHistory DEF HistoryInv
<1> QED BY <1>1, <1>2 DEF HistoryInv

\* A Run that is not blocked has neither Feedback nor a blocked Action.
LEMMA UnblockedHistory ==
  ASSUME FeedbackFits, NEW r \in Run, BlockHistory(r), UNCHANGED feedback,
         \A j \in AgentId : SameAgent(j), run[r].status # "blocked", run'[r].status # "blocked",
         \A b \in Action : action'[r][b].status = "blocked" => action[r][b].status = "blocked"
  PROVE  BlockHistory(r)'
<1>1. FeedbackOf(r)' = FeedbackOf(r)
  BY DEF FeedbackOf, FeedbackFits, SameAgent
<1>2. BlockedIn(r)' = {}
  BY DEF BlockedIn, BlockHistory
<1> QED BY <1>1, <1>2 DEF BlockHistory

\* Only the Agent a Run points at is pending in it.
LEMMA PendingOfRun ==
  ASSUME TypeOK, RowsFit, NEW r \in Run, NEW j \in AgentId, Pending(j), agent[j].run = r
  PROVE  j = run[r].agent
  BY PendingLineage

\* A Run starts with what it imports.
LEMMA StartHistory ==
  ASSUME LineageInv, HistoryInv, NEW r \in Run, NEW imported \in Importable, Start(r, imported)
  PROVE  HistoryInv'
<1> USE DEF LineageInv
<1>1. /\ run[r].status = "absent" /\ run'[r].status = "pending"
      /\ \A b \in Action : /\ action'[r][b].status = IF b \in imported THEN "done" ELSE "pending"
                           /\ action'[r][b].imported = (b \in imported)
                           /\ action'[r][b].attempt = 0
      /\ UNCHANGED <<agent, feedback>> /\ AgentId' = AgentId
      /\ \A j \in AgentId : agent[j].run # r
      /\ OnlyRun(r) /\ \A j \in AgentId : SameAgent(j)
  BY StartRows
<1>2. AgentsOf(r)' = {} /\ \A b \in Action : PostworkOf(r, b)' = {}
  BY <1>1 DEF AgentsOf, PostworkOf
<1>3. ASSUME NEW b \in Action PROVE ActionHistory(r, b)'
  <2>1. Cardinality(PostworkOf(r, b)') = 0
    BY <1>2, FS_EmptySet
  <2>2. action'[r][b].attempt = Cardinality(PostworkOf(r, b))'
    BY <1>1, <2>1
  <2>3. 0 <= MaxRetries + 1
    BY ConstantsAssumption
  <2>4. CASE b \in imported
    BY <1>1, <2>2, <2>3, <2>4 DEF ActionHistory
  <2>5. CASE b \notin imported
    BY <1>1, <2>2, <2>3, <2>5 DEF ActionHistory
  <2> QED BY <2>4, <2>5
<1>4. LastPending(r)' /\ OneCause(r)'
  BY <1>2 DEF LastPending, OneCause
<1>5. BlockHistory(r)'
  BY <1>1, UnblockedHistory DEF HistoryInv, RunHistory
<1>6. CompleteHistory(r)'
  BY <1>1 DEF CompleteHistory
<1>7. RunHistory(r)'
  BY <1>2, <1>3, <1>4, <1>5, <1>6 DEF RunHistory
<1> QED BY <1>1, <1>7, OneRunHistory

\* The Action that is selected has no Agent and no attempt yet.
LEMMA AdvanceHistory ==
  ASSUME LineageInv, HistoryInv, NEW r \in Run, NEW s \in State, NEW a \in Action, Advance(r, s, a)
  PROVE  HistoryInv'
<1> USE DEF LineageInv
<1> RunHistory(r)
  BY DEF HistoryInv
<1>1. /\ Open(r) /\ run[r].agent = 0 /\ action[r][a].status = "pending"
      /\ run'[r].status = "running" /\ run'[r].action = a /\ run'[r].agent = 0
      /\ action'[r][a].status = "prechecking" /\ action'[r][a].attempt = action[r][a].attempt
      /\ \A b \in Action \ {a} : action'[r][b] = action[r][b]
      /\ UNCHANGED <<agent, feedback>> /\ AgentId' = AgentId
      /\ OnlyRun(r) /\ \A j \in AgentId : SameAgent(j)
  BY AdvanceRows
<1>2. AgentsOf(r)' = AgentsOf(r) /\ \A b \in Action : PostworkOf(r, b)' = PostworkOf(r, b)
  BY <1>1 DEF AgentsOf, PostworkOf
<1>3. ASSUME NEW i \in AgentsOf(r) PROVE AgentHistory(i)'
  <2>1. /\ i \in AgentId /\ agent[i].run = r /\ agent[i].action \in Action
        /\ OutcomeFits(i) /\ Selected(i) /\ Caused(i)
    BY AgentFields DEF AgentsOf, RunHistory, AgentHistory
  <2>2. ~Pending(i)
    BY <1>1, <2>1, PendingOfRun, AgentFields
  <2>3. agent[i].action # a
    BY <1>1, <2>1 DEF Selected
  <2>4. OutcomeFits(i)' /\ AttemptFits(i)'
    BY <1>1, <2>1, <2>2 DEF OutcomeFits, AttemptFits, Pending, Live
  <2>5. Selected(i)'
    BY <1>1, <2>1, <2>3 DEF Selected
  <2>6. Caused(i)'
    BY <1>1, <2>1, CauseKept
  <2> QED BY <2>4, <2>5, <2>6 DEF AgentHistory
<1>4. LastPending(r)' /\ OneCause(r)'
  BY <1>1, <1>2 DEF RunHistory, LastPending, OneCause, Pending, Live
<1>5. ASSUME NEW b \in Action PROVE ActionHistory(r, b)'
  <2>1. ActionHistory(r, b) /\ (AcceptedIn(r, b) => AcceptedIn(r, b)')
    BY <1>1 DEF RunHistory, AcceptedIn
  <2>2. CASE b = a
    BY <1>1, <1>2, <2>1, <2>2 DEF ActionHistory
  <2>3. CASE b # a
    BY <1>1, <1>2, <2>1, <2>3 DEF ActionHistory
  <2> QED BY <2>2, <2>3
<1>6. BlockHistory(r)'
  BY <1>1, UnblockedHistory DEF HistoryInv, RunHistory, Open
<1>7. CompleteHistory(r)'
  BY <1>1 DEF CompleteHistory
<1>8. RunHistory(r)'
  BY <1>2, <1>3, <1>4, <1>5, <1>6, <1>7 DEF RunHistory
<1> QED BY <1>1, <1>8, OneRunHistory

\* The precheck Validation is the first Agent of its Action.
LEMMA DispatchPrecheckHistory ==
  ASSUME LineageInv, HistoryInv, NEW r \in Run, NEW a \in Action, DispatchPrecheck(r, a)
  PROVE  HistoryInv'
<1> USE DEF LineageInv
<1> RunHistory(r)
  BY DEF HistoryInv
<1>1. PICK n \in Nat : n = Len(agent) + 1
  BY RowTypes
<1>2. /\ run[r].status = "running" /\ run[r].action = a /\ run[r].agent = 0
      /\ action[r][a].status = "prechecking"
      /\ run'[r].status = "running" /\ run'[r].action = a /\ run'[r].agent = n
      /\ agent'[n] = NewAgent(r, a, "precheck", 0)
      /\ AgentId' = AgentId \cup {n} /\ n \notin AgentId /\ n # 0 /\ \A j \in AgentId : j < n
      /\ UNCHANGED <<action, state, feedback>>
      /\ \A j \in AgentId : agent'[j] = agent[j]
      /\ OnlyRun(r) /\ \A j \in AgentId : SameAgent(j)
  BY <1>1, DispatchPrecheckRows
<1>3. ActionHistory(r, a) /\ action[r][a].attempt = 0
  BY <1>2 DEF RunHistory, ActionHistory
<1>4. /\ agent'[n].run = r /\ agent'[n].action = a /\ agent'[n].outcome = "none"
      /\ agent'[n].task = "queued" /\ agent'[n].status = "queued" /\ agent'[n].parent = 0
      /\ agent'[n].phase = "precheck" /\ agent'[n].attempt = 1
  BY <1>2, <1>3 DEF NewAgent
<1>5. \A j \in AgentsOf(r) : agent[j].action # a
  BY <1>2 DEF RunHistory, AgentHistory, Selected, AgentsOf
<1>6. \A j \in AgentId : agent[j].run = r => ~Pending(j)'
  BY <1>2, PendingOfRun, RowTypes DEF Pending, Live
<1>7. Caused(n)'
  BY <1>4 DEF Caused
<1>8. /\ \A i \in AgentsOf(r)' : AgentHistory(i)'
      /\ LastPending(r)' /\ OneCause(r)'
      /\ \A b \in Action : PostworkOf(r, b)' = PostworkOf(r, b)
      /\ \A b \in Action : AcceptedIn(r, b) => AcceptedIn(r, b)'
  BY <1>2, <1>3, <1>4, <1>5, <1>6, <1>7, AddedHistory
<1>9. \A b \in Action : ActionHistory(r, b)'
  BY <1>2, <1>8 DEF RunHistory, ActionHistory
<1>10. BlockHistory(r)' /\ CompleteHistory(r)'
  BY <1>2, UnblockedHistory DEF HistoryInv, RunHistory, CompleteHistory
<1>11. RunHistory(r)'
  BY <1>8, <1>9, <1>10 DEF RunHistory
<1> QED BY <1>2, <1>11, OneRunHistory

\* The Agent that is applied has an answer of its phase, for the attempt its
\* Action counts.
LEMMA AppliedAgent ==
  ASSUME LineageInv, HistoryInv, NEW i \in AgentId, Applicable(i),
         NEW r, r = agent[i].run, NEW a, a = agent[i].action
  PROVE  /\ r \in Run /\ a \in Action /\ i \in AgentsOf(r) /\ RunHistory(r) /\ Pending(i)
         /\ OutcomeFits(i) /\ Selected(i) /\ Caused(i) /\ ActionHistory(r, a)
         /\ agent[i].phase \in Phase /\ agent[i].outcome \notin {"none", "needs_input"}
         /\ agent[i].attempt = action[r][a].attempt + (IF agent[i].phase = "postwork" THEN 0 ELSE 1)
         /\ action[r][a].status = StatusDuring(agent[i].phase) /\ action[r][a].attempt \in Nat
<1> USE DEF LineageInv
<1>1. /\ r \in Run /\ a \in Action /\ agent[i].phase \in Phase /\ Pending(i) /\ Live(i)
      /\ agent[i].task \in {"succeeded", "failed"} /\ action[r][a] \in ActionRow
  BY ApplicableFacts, AgentFields DEF Applicable
<1>2. RunHistory(r) /\ i \in AgentsOf(r)
  BY <1>1 DEF HistoryInv, AgentsOf
<1>3. OutcomeFits(i) /\ AttemptFits(i) /\ Selected(i) /\ Caused(i) /\ ActionHistory(r, a)
  BY <1>1, <1>2 DEF RunHistory, AgentHistory
<1>4. action[r][a].status = StatusDuring(agent[i].phase)
  BY <1>1, PendingLineage
<1> QED BY <1>1, <1>2, <1>3, <1>4 DEF AttemptFits, OutcomeFits, ActionRow

\* Validation accepts: the Action has the Agent that says so.
LEMMA FinishActionHistory ==
  ASSUME LineageInv, HistoryInv, NEW i \in AgentId, FinishAction(i)
  PROVE  HistoryInv'
<1> USE DEF LineageInv
<1>1. PICK r, a : r = agent[i].run /\ a = agent[i].action
  OBVIOUS
<1>2. Applicable(i) /\ agent[i].outcome = "done"
  BY DEF FinishAction, Finishes
<1>3. r \in Run /\ a \in Action /\ RunHistory(r)
  BY <1>1, <1>2, AppliedAgent
<1>4. /\ run[r].status = "running" /\ run[r].agent = i
      /\ run'[r].status = "running" /\ run'[r].action = 0
      /\ action'[r][a].status = "done" /\ action'[r][a].attempt = action[r][a].attempt
      /\ \A b \in Action \ {a} : action'[r][b] = action[r][b]
      /\ agent'[i].status = "completed" /\ agent'[i].outcome = agent[i].outcome
      /\ AgentId' = AgentId /\ \A j \in AgentId \ {i} : agent'[j] = agent[j]
      /\ UNCHANGED <<state, feedback>>
      /\ OnlyRun(r) /\ \A j \in AgentId : SameAgent(j)
  BY <1>1, FinishActionRows
<1>5. ASSUME NEW j \in AgentId
      PROVE  agent'[j].outcome = agent[j].outcome /\ (agent[j].run = r => ~Pending(j)')
  <2>1. CASE j = i
    BY <1>4, <2>1 DEF Pending, Live, LiveStatus
  <2>2. CASE j # i
    BY <1>3, <1>4, <2>2, PendingOfRun DEF Pending, Live
  <2> QED BY <2>1, <2>2
<1>6. \A b \in Action : action[r][b].status # "pending" => action'[r][b].status # "pending"
  BY <1>4
<1>7. /\ \A j \in AgentsOf(r)' : AgentHistory(j)'
      /\ LastPending(r)' /\ OneCause(r)'
      /\ \A b \in Action : PostworkOf(r, b)' = PostworkOf(r, b)
      /\ \A b \in Action : AcceptedIn(r, b) => AcceptedIn(r, b)'
  BY <1>3, <1>4, <1>5, <1>6, EndedHistory
<1>8. AcceptedIn(r, a)'
  BY <1>1, <1>2, <1>4 DEF AcceptedIn, SameAgent
<1>9. ASSUME NEW b \in Action PROVE ActionHistory(r, b)'
  <2>1. ActionHistory(r, b)
    BY <1>3 DEF RunHistory
  <2>2. CASE b = a
    BY <1>4, <1>7, <1>8, <2>1, <2>2 DEF ActionHistory
  <2>3. CASE b # a
    BY <1>4, <1>7, <2>1, <2>3 DEF ActionHistory
  <2> QED BY <2>2, <2>3
<1>10. BlockHistory(r)' /\ CompleteHistory(r)'
  <2>1. \A b \in Action : action'[r][b].status = "blocked" => action[r][b].status = "blocked"
    BY <1>4
  <2> QED BY <1>3, <1>4, <2>1, UnblockedHistory DEF HistoryInv, RunHistory, CompleteHistory
<1>11. RunHistory(r)'
  BY <1>7, <1>9, <1>10 DEF RunHistory
<1> QED BY <1>3, <1>4, <1>11, OneRunHistory

\* The block has its one Feedback, from the last Agent, for its outcome.
LEMMA BlockActionHistory ==
  ASSUME LineageInv, HistoryInv, NEW i \in AgentId, BlockAction(i)
  PROVE  HistoryInv'
<1> USE DEF LineageInv
<1>1. PICK r, a : r = agent[i].run /\ a = agent[i].action
  OBVIOUS
<1>2. Applicable(i) /\ ~Finishes(i) /\ ~Continues(i)
  BY DEF BlockAction
<1>3. /\ r \in Run /\ a \in Action /\ RunHistory(r) /\ Pending(i) /\ OutcomeFits(i)
      /\ i \in AgentsOf(r) /\ agent[i].phase \in Phase
      /\ agent[i].outcome \notin {"none", "needs_input"} /\ ActionHistory(r, a)
      /\ agent[i].attempt = action[r][a].attempt + (IF agent[i].phase = "postwork" THEN 0 ELSE 1)
      /\ action[r][a].attempt \in Nat
  BY <1>1, <1>2, AppliedAgent
<1>4. /\ run[r].status = "running" /\ run[r].agent = i
      /\ run'[r].status = "blocked" /\ run'[r].action = 0
      /\ action'[r][a].status = "blocked" /\ action'[r][a].attempt = action[r][a].attempt
      /\ \A b \in Action \ {a} : action'[r][b] = action[r][b]
      /\ agent'[i].status \in {"failed", "completed"} /\ agent'[i].outcome = agent[i].outcome
      /\ AgentId' = AgentId /\ \A j \in AgentId \ {i} : agent'[j] = agent[j]
      /\ feedback' = feedback \cup {[agent |-> i, source |-> BlockSource(i)]}
      /\ OnlyRun(r) /\ \A j \in AgentId : SameAgent(j)
  BY <1>1, BlockActionRows
<1>5. ASSUME NEW j \in AgentId
      PROVE  agent'[j].outcome = agent[j].outcome /\ (agent[j].run = r => ~Pending(j)')
  <2>1. CASE j = i
    BY <1>4, <2>1 DEF Pending, Live, LiveStatus
  <2>2. CASE j # i
    BY <1>3, <1>4, <2>2, PendingOfRun DEF Pending, Live
  <2> QED BY <2>1, <2>2
<1>6. \A b \in Action : action[r][b].status # "pending" => action'[r][b].status # "pending"
  BY <1>4
<1>7. /\ \A j \in AgentsOf(r)' : AgentHistory(j)'
      /\ LastPending(r)' /\ OneCause(r)' /\ AgentsOf(r)' = AgentsOf(r)
      /\ \A b \in Action : PostworkOf(r, b)' = PostworkOf(r, b)
      /\ \A b \in Action : AcceptedIn(r, b) => AcceptedIn(r, b)'
  BY <1>3, <1>4, <1>5, <1>6, EndedHistory
<1>8. ASSUME NEW b \in Action PROVE ActionHistory(r, b)'
  <2>1. ActionHistory(r, b)
    BY <1>3 DEF RunHistory
  <2>2. CASE b = a
    BY <1>4, <1>7, <2>1, <2>2 DEF ActionHistory
  <2>3. CASE b # a
    BY <1>4, <1>7, <2>1, <2>3 DEF ActionHistory
  <2> QED BY <2>2, <2>3
<1>9. BlockHistory(r)'
  <2>1. PICK f : f = [agent |-> i, source |-> BlockSource(i)]
    OBVIOUS
  <2>2. f.agent = i /\ f.source = BlockSource(i) /\ feedback' = feedback \cup {f}
    BY <1>4, <2>1
  <2>3. FeedbackOf(r) = {} /\ BlockedIn(r) = {}
    BY <1>3, <1>4 DEF RunHistory, BlockHistory
  <2>4. FeedbackOf(r)' = {f}
    <3>1. agent'[i].run = r
      BY <1>1, <1>4 DEF SameAgent
    <3>2. \A g \in feedback : agent'[g.agent].run # r
      BY <1>4, <2>3 DEF FeedbackOf, HistoryInv, FeedbackFits, SameAgent
    <3> QED BY <2>2, <3>1, <3>2 DEF FeedbackOf
  <2>5. BlockedIn(r)' = {a}
    BY <1>3, <1>4, <2>3 DEF BlockedIn
  <2>6. /\ agent'[i].outcome = agent[i].outcome /\ agent'[i].phase = agent[i].phase
        /\ agent'[i].attempt = agent[i].attempt /\ agent'[i].action = a
    BY <1>1, <1>4 DEF SameAgent
  <2>7. Justified(f)'
    <3>1. /\ agent[i].outcome \in Answers(agent[i].phase)
          /\ agent[i].outcome \notin {"done", "delegate", "completed", "needs_input"}
      BY <1>2, <1>3 DEF OutcomeFits, Finishes, Continues
    <3>2. CASE agent[i].outcome = "blocked"
      BY <2>2, <2>6, <3>2 DEF BlockSource, Justified
    <3>3. CASE agent[i].outcome = "retry"
      <4>1. agent[i].phase = "postwork"
        BY <1>3, <3>1, <3>3 DEF Answers, Phase, Failure
      <4>2. ~(action[r][a].attempt < MaxRetries + 1)
        BY <1>1, <1>2, <3>3 DEF Continues, RetryLeft, AttemptOf
      <4>3. agent[i].attempt = MaxRetries + 1
        BY <1>3, <4>1, <4>2, ConstantsAssumption DEF ActionHistory
      <4> QED BY <2>2, <2>6, <3>3, <4>3 DEF BlockSource, Justified
    <3>4. CASE agent[i].outcome \in Failure
      BY <2>2, <2>6, <3>4 DEF BlockSource, Justified, Failure
    <3> QED BY <1>3, <3>1, <3>2, <3>3, <3>4 DEF Answers, Phase
  <2>8. \A j \in AgentsOf(r) : j <= i
    BY <1>3 DEF RunHistory, LastPending
  <2> QED BY <1>4, <1>7, <2>2, <2>4, <2>5, <2>6, <2>7, <2>8 DEF BlockHistory
<1>10. CompleteHistory(r)'
  BY <1>4 DEF CompleteHistory
<1>11. RunHistory(r)'
  BY <1>7, <1>8, <1>9, <1>10 DEF RunHistory
<1>12. feedback \subseteq feedback' /\ \A f \in feedback' \ feedback :
         f.agent \in AgentId /\ agent[f.agent].run = r /\ ~Pending(f.agent)'
  <2>1. ASSUME NEW f \in feedback' \ feedback PROVE f.agent = i
    BY <1>4, <2>1
  <2>2. agent[i].run = r /\ ~Pending(i)'
    BY <1>1, <1>5
  <2> QED BY <1>4, <2>1, <2>2
<1> QED BY <1>3, <1>4, <1>11, <1>12, OneRunHistory

\* The next Agent is caused by the outcome that is applied, and the attempt is
\* counted with the first Validation of a Work result.
LEMMA DispatchNextHistory ==
  ASSUME LineageInv, HistoryInv, NEW i \in AgentId, DispatchNext(i)
  PROVE  HistoryInv'
<1> USE DEF LineageInv
<1>1. PICK r, a, n : r = agent[i].run /\ a = agent[i].action /\ n = Len(agent) + 1
  OBVIOUS
<1>2. Applicable(i) /\ Continues(i) /\ n \in Nat
  BY <1>1, RowTypes DEF DispatchNext
<1>3. /\ r \in Run /\ a \in Action /\ RunHistory(r) /\ Pending(i) /\ OutcomeFits(i) /\ Caused(i)
      /\ i \in AgentsOf(r) /\ agent[i].phase \in Phase /\ ActionHistory(r, a)
      /\ agent[i].attempt = action[r][a].attempt + (IF agent[i].phase = "postwork" THEN 0 ELSE 1)
      /\ action[r][a].status = StatusDuring(agent[i].phase) /\ action[r][a].attempt \in Nat
  BY <1>1, <1>2, AppliedAgent
<1>4. /\ run[r].status = "running" /\ run[r].agent = i
      /\ run'[r].status = "running" /\ run'[r].action = a /\ run'[r].agent = n
      /\ action'[r][a].status = StatusDuring(NextPhase(i))
      /\ action'[r][a].attempt = AttemptAfter(i)
      /\ \A b \in Action \ {a} : action'[r][b] = action[r][b]
      /\ agent'[i].status = "completed" /\ agent'[i].outcome = agent[i].outcome
      /\ agent'[n] = NewAgent(r, a, NextPhase(i), i)
      /\ AgentId' = AgentId \cup {n} /\ n \notin AgentId /\ n # 0 /\ \A j \in AgentId : j < n
      /\ \A j \in AgentId \ {i} : agent'[j] = agent[j]
      /\ UNCHANGED <<state, feedback>>
      /\ OnlyRun(r) /\ \A j \in AgentId : SameAgent(j)
  BY <1>1, DispatchNextRows
<1>5. ASSUME NEW j \in AgentId
      PROVE  agent'[j].outcome = agent[j].outcome /\ (agent[j].run = r => ~Pending(j)')
  <2>1. CASE j = i
    BY <1>4, <2>1 DEF Pending, Live, LiveStatus
  <2>2. CASE j # i
    BY <1>3, <1>4, <2>2, PendingOfRun DEF Pending, Live
  <2> QED BY <2>1, <2>2
<1>6. PICK phase \in {"work", "postwork"} : phase = NextPhase(i)
  BY DEF NextPhase
<1>7. /\ agent'[n].run = r /\ agent'[n].action = a /\ agent'[n].outcome = "none"
      /\ agent'[n].task = "queued" /\ agent'[n].status = "queued" /\ agent'[n].parent = i
      /\ agent'[n].phase = phase /\ agent'[n].attempt = action[r][a].attempt + 1
  BY <1>4, <1>6 DEF NewAgent
<1>8. /\ action'[r][a].attempt = action[r][a].attempt + (IF phase = "postwork" THEN 1 ELSE 0)
      /\ action'[r][a].status = IF phase = "postwork" THEN "postchecking" ELSE "working"
  <2>1. action'[r][a].attempt = IF phase = "postwork" THEN action[r][a].attempt + 1
                                ELSE action[r][a].attempt
    BY <1>1, <1>4, <1>6 DEF AttemptAfter, AttemptOf
  <2>2. CASE phase = "postwork"
    BY <1>4, <1>6, <2>1, <2>2 DEF StatusDuring
  <2>3. CASE phase = "work"
    BY <1>3, <1>4, <1>6, <2>1, <2>3 DEF StatusDuring
  <2> QED BY <1>6, <2>2, <2>3
<1>9. \/ /\ agent[i].phase = "precheck" /\ agent[i].outcome = "delegate" /\ phase = "work"
         /\ agent[i].attempt = action[r][a].attempt + 1 /\ action[r][a].attempt = 0
      \/ /\ agent[i].phase = "work" /\ agent[i].outcome = "completed" /\ phase = "postwork"
         /\ agent[i].attempt = action[r][a].attempt + 1 /\ action[r][a].attempt <= MaxRetries
      \/ /\ agent[i].phase = "postwork" /\ agent[i].outcome = "retry" /\ phase = "work"
         /\ agent[i].attempt = action[r][a].attempt /\ action[r][a].attempt < MaxRetries + 1
  <2>1. \/ agent[i].outcome \in {"delegate", "completed"}
        \/ agent[i].outcome = "retry" /\ action[r][a].attempt < MaxRetries + 1
    BY <1>1, <1>2 DEF Continues, RetryLeft, AttemptOf
  <2>2. agent[i].outcome \in Answers(agent[i].phase)
    BY <1>3, <2>1 DEF OutcomeFits
  <2>3. CASE agent[i].phase = "precheck"
    <3>1. agent[i].outcome = "delegate"
      BY <2>1, <2>2, <2>3 DEF Answers, Failure
    <3> QED BY <1>3, <1>6, <2>3, <3>1 DEF NextPhase, StatusDuring, ActionHistory
  <2>4. CASE agent[i].phase = "work"
    <3>1. agent[i].outcome = "completed"
      BY <2>1, <2>2, <2>4 DEF Answers, Failure
    <3> QED BY <1>3, <1>6, <2>4, <3>1 DEF NextPhase, StatusDuring, ActionHistory
  <2>5. CASE agent[i].phase = "postwork"
    <3>1. agent[i].outcome = "retry"
      BY <2>1, <2>2, <2>5 DEF Answers, Failure
    <3> QED BY <1>3, <1>6, <2>1, <2>5, <3>1 DEF NextPhase
  <2> QED BY <1>3, <2>3, <2>4, <2>5 DEF Phase
<1>10. Caused(n)'
  <2>1. /\ i \in AgentId' /\ i < n /\ agent'[i].run = r /\ agent'[i].action = a
        /\ agent'[i].phase = agent[i].phase /\ agent'[i].attempt = agent[i].attempt
        /\ agent'[i].outcome = agent[i].outcome /\ agent'[i].status = "completed"
    BY <1>1, <1>4 DEF SameAgent
  <2>2. <<agent[i].phase, agent[i].outcome, phase, agent'[n].attempt - agent[i].attempt>> \in
          {<<"precheck", "delegate", "work", 0>>, <<"work", "completed", "postwork", 0>>,
           <<"work", "needs_input", "work", 0>>, <<"postwork", "retry", "work", 1>>}
    <3>1. agent'[n].attempt - agent[i].attempt = IF agent[i].phase = "postwork" THEN 1 ELSE 0
      BY <1>3, <1>7
    <3> QED BY <1>9, <3>1
  <2>3. CausedBy(n, i)'
    BY <1>7, <2>1, <2>2 DEF CausedBy
  <2> QED BY <1>6, <1>7, <2>3 DEF Caused
<1>11. ASSUME NEW j \in AgentsOf(r), agent[j].action = a PROVE agent[j].parent # i
  <2>1. j <= i /\ Caused(j) /\ i \in AgentId /\ j \in AgentId
    BY <1>3 DEF RunHistory, LastPending, AgentHistory, AgentsOf
  <2>2. ~(i < j) /\ i # 0
    BY <2>1, RowTypes
  <2> QED BY <2>1, <2>2 DEF Caused, CausedBy
<1>12. /\ agent'[n].attempt = action'[r][a].attempt
                              + (IF agent'[n].phase = "postwork" THEN 0 ELSE 1)
       /\ action'[r][a].status # "pending"
       /\ \A b \in Action : action[r][b].status # "pending" => action'[r][b].status # "pending"
  BY <1>3, <1>4, <1>6, <1>7, <1>8
<1>13. /\ \A j \in AgentsOf(r)' : AgentHistory(j)'
       /\ LastPending(r)' /\ OneCause(r)'
       /\ \A b \in Action : PostworkOf(r, b)' =
            IF b = a /\ phase = "postwork" THEN PostworkOf(r, b) \cup {n} ELSE PostworkOf(r, b)
       /\ \A b \in Action : AcceptedIn(r, b) => AcceptedIn(r, b)'
  BY <1>2, <1>3, <1>4, <1>5, <1>7, <1>10, <1>11, <1>12, AddedHistory
<1>14. ASSUME NEW b \in Action PROVE ActionHistory(r, b)'
  <2>1. ActionHistory(r, b)
    BY <1>3 DEF RunHistory
  <2>2. CASE b # a
    BY <1>4, <1>13, <2>1, <2>2 DEF ActionHistory
  <2>3. CASE b = a
    <3>1. Cardinality(PostworkOf(r, a)') = Cardinality(PostworkOf(r, a))
                                           + (IF phase = "postwork" THEN 1 ELSE 0)
      <4>1. IsFiniteSet(PostworkOf(r, a)) /\ n \notin PostworkOf(r, a)
        <5>1. PostworkOf(r, a) \subseteq 1..Len(agent) /\ Len(agent) \in Nat
          BY RowTypes DEF PostworkOf
        <5>2. IsFiniteSet(1..Len(agent))
          BY <5>1, FS_Interval
        <5>3. IsFiniteSet(PostworkOf(r, a))
          BY <5>1, <5>2, FS_Subset
        <5> QED BY <1>4, <5>3 DEF PostworkOf
      <4>2. CASE phase = "postwork"
        BY <1>3, <1>13, <4>1, <4>2, FS_AddElement
      <4>3. CASE phase # "postwork"
        <5>1. PostworkOf(r, a)' = PostworkOf(r, a) /\ Cardinality(PostworkOf(r, a)) \in Nat
          BY <1>3, <1>13, <4>1, <4>3, FS_CardinalityType
        <5> QED BY <4>3, <5>1
      <4> QED BY <4>2, <4>3
    <3>2. action'[r][a].attempt = Cardinality(PostworkOf(r, a))'
      BY <1>3, <1>8, <3>1 DEF ActionHistory
    <3>3. action'[r][a].attempt <= MaxRetries + 1
      BY <1>3, <1>8, <1>9, ConstantsAssumption
    <3>4. phase = "work" => action'[r][a].attempt <= MaxRetries
      BY <1>3, <1>8, <1>9, ConstantsAssumption
    <3> QED BY <1>6, <1>8, <2>3, <3>2, <3>3, <3>4 DEF ActionHistory
  <2> QED BY <2>2, <2>3
<1>15. BlockHistory(r)' /\ CompleteHistory(r)'
  <2>1. \A b \in Action : action'[r][b].status = "blocked" => action[r][b].status = "blocked"
    BY <1>4, <1>8
  <2> QED BY <1>3, <1>4, <2>1, UnblockedHistory DEF HistoryInv, RunHistory, CompleteHistory
<1>16. RunHistory(r)'
  BY <1>13, <1>14, <1>15 DEF RunHistory
<1> QED BY <1>3, <1>4, <1>16, OneRunHistory

\* The Agent that continues an answered Work is caused by its question.
LEMMA AnswerHistory ==
  ASSUME LineageInv, HistoryInv, NEW i \in AgentId, Answer(i)
  PROVE  HistoryInv'
<1> USE DEF LineageInv
<1>1. PICK r, a, n : r = agent[i].run /\ a = agent[i].action /\ n = Len(agent) + 1
  OBVIOUS
<1>2. /\ r \in Run /\ a \in Action /\ run[r].status = "running" /\ run[r].agent = i
      /\ run[r].action = a /\ action[r][a].status = "working"
      /\ agent[i].status = "waiting_for_input" /\ agent[i].phase = "work" /\ Pending(i)
      /\ run'[r].status = "running" /\ run'[r].action = a /\ run'[r].agent = n
      /\ agent'[i].status = "completed" /\ agent'[i].outcome = agent[i].outcome
      /\ agent'[n] = NewAgent(r, a, "work", i)
      /\ AgentId' = AgentId \cup {n} /\ n \notin AgentId /\ n # 0 /\ \A j \in AgentId : j < n
      /\ \A j \in AgentId \ {i} : agent'[j] = agent[j]
      /\ UNCHANGED <<action, state, feedback>>
      /\ OnlyRun(r) /\ \A j \in AgentId : SameAgent(j)
  BY <1>1, AnswerRows
<1>3. n \in Nat /\ action[r][a].attempt \in Nat
  BY <1>1, <1>2, RowTypes DEF ActionRow
<1>4. RunHistory(r) /\ i \in AgentsOf(r) /\ OutcomeFits(i) /\ AttemptFits(i) /\ Caused(i)
  BY <1>1, <1>2 DEF HistoryInv, RunHistory, AgentHistory, AgentsOf
<1>5. ASSUME NEW j \in AgentId
      PROVE  agent'[j].outcome = agent[j].outcome /\ (agent[j].run = r => ~Pending(j)')
  <2>1. CASE j = i
    BY <1>2, <2>1 DEF Pending, Live, LiveStatus
  <2>2. CASE j # i
    BY <1>2, <2>2, PendingOfRun DEF Pending, Live
  <2> QED BY <2>1, <2>2
<1>6. /\ agent'[n].run = r /\ agent'[n].action = a /\ agent'[n].outcome = "none"
      /\ agent'[n].task = "queued" /\ agent'[n].status = "queued" /\ agent'[n].parent = i
      /\ agent'[n].phase = "work" /\ agent'[n].attempt = action[r][a].attempt + 1
  BY <1>2 DEF NewAgent
<1>7. agent[i].outcome = "needs_input" /\ agent[i].attempt = action[r][a].attempt + 1
  BY <1>1, <1>2, <1>4 DEF OutcomeFits, AttemptFits
<1>8. Caused(n)'
  <2>1. /\ i \in AgentId' /\ i < n /\ agent'[i].run = r /\ agent'[i].action = a
        /\ agent'[i].phase = "work" /\ agent'[i].attempt = agent[i].attempt
        /\ agent'[i].outcome = "needs_input" /\ agent'[i].status = "completed"
    BY <1>1, <1>2, <1>7 DEF SameAgent
  <2>2. agent'[n].attempt - agent[i].attempt = 0
    BY <1>3, <1>6, <1>7
  <2>3. CausedBy(n, i)'
    BY <1>6, <2>1, <2>2 DEF CausedBy
  <2> QED BY <1>6, <2>3 DEF Caused
<1>9. ASSUME NEW j \in AgentsOf(r), agent[j].action = a PROVE agent[j].parent # i
  <2>1. j <= i /\ Caused(j) /\ i \in AgentId /\ j \in AgentId
    BY <1>2, <1>4 DEF RunHistory, LastPending, AgentHistory, AgentsOf
  <2>2. ~(i < j) /\ i # 0
    BY <2>1, RowTypes
  <2> QED BY <2>1, <2>2 DEF Caused, CausedBy
<1>10. /\ \A j \in AgentsOf(r)' : AgentHistory(j)'
       /\ LastPending(r)' /\ OneCause(r)'
       /\ \A b \in Action : PostworkOf(r, b)' = PostworkOf(r, b)
       /\ \A b \in Action : AcceptedIn(r, b) => AcceptedIn(r, b)'
  BY <1>2, <1>3, <1>4, <1>5, <1>6, <1>8, <1>9, AddedHistory
<1>11. \A b \in Action : ActionHistory(r, b)'
  BY <1>2, <1>4, <1>10 DEF RunHistory, ActionHistory
<1>12. BlockHistory(r)' /\ CompleteHistory(r)'
  BY <1>2, <1>4, UnblockedHistory DEF HistoryInv, RunHistory, CompleteHistory
<1>13. RunHistory(r)'
  BY <1>10, <1>11, <1>12 DEF RunHistory
<1> QED BY <1>2, <1>13, OneRunHistory

\* The finalizer completes a Run whose States, and so Actions, are all done.
LEMMA FinalizeSucceedsHistory ==
  ASSUME LineageInv, HistoryInv, NEW r \in Run, FinalizeSucceeds(r)
  PROVE  HistoryInv'
<1> USE DEF LineageInv
<1> RunHistory(r)
  BY DEF HistoryInv
<1>1. /\ run[r].status = "running" /\ StatesDone(r) /\ run[r].agent = 0
      /\ run'[r].status = "completed" /\ run'[r].final = "completed" /\ run'[r].action = 0
      /\ UNCHANGED <<state, action, agent, feedback>> /\ AgentId' = AgentId
      /\ OnlyRun(r) /\ \A j \in AgentId : SameAgent(j)
  BY FinalizeSucceedsRows
<1>2. \A j \in AgentId : agent[j].run = r => ~Pending(j)'
  BY <1>1, PendingOfRun, RowTypes DEF Pending, Live
<1>3. /\ \A j \in AgentsOf(r)' : AgentHistory(j)'
      /\ LastPending(r)' /\ OneCause(r)'
      /\ \A b \in Action : PostworkOf(r, b)' = PostworkOf(r, b)
      /\ \A b \in Action : AcceptedIn(r, b) => AcceptedIn(r, b)'
  BY <1>1, <1>2, EndedHistory
<1>4. \A b \in Action : ActionHistory(r, b)'
  BY <1>1, <1>3 DEF RunHistory, ActionHistory
<1>5. BlockHistory(r)'
  BY <1>1, UnblockedHistory DEF HistoryInv, RunHistory
<1>6. CompleteHistory(r)'
  <2>1. ASSUME NEW b \in Action PROVE action[r][b].status = "done"
    <3>1. StateOf[b] \in State /\ state[r][StateOf[b]] = "done"
      BY <1>1, StateOfAssumption DEF StatesDone
    <3> QED BY <3>1 DEF RowsFit, StatesSound, AllDone, ActionsIn
  <2> QED BY <1>1, <2>1 DEF CompleteHistory, StatesDone
<1>7. RunHistory(r)'
  BY <1>3, <1>4, <1>5, <1>6 DEF RunHistory
<1> QED BY <1>1, <1>7, OneRunHistory

\* A stop ends the Run without an outcome.
LEMMA StopHistory ==
  ASSUME LineageInv, HistoryInv, NEW r \in Run, NEW kind \in {"cancelled", "interrupted"},
         Stop(r, kind), UNCHANGED feedback
  PROVE  HistoryInv'
<1> USE DEF LineageInv
<1> RunHistory(r)
  BY DEF HistoryInv
<1>1. PICK g, a : g = run[r].agent /\ a = run[r].action
  OBVIOUS
<1>2. /\ Open(r)
      /\ \A j \in AgentId : Pending(j) /\ agent[j].run = r => j = g
      /\ run'[r].status = kind /\ run'[r].action = 0
      /\ \A b \in Action : /\ action[r][b].status \in ActiveStatus <=> b = a
                           /\ action'[r][b].status = IF b = a THEN kind ELSE action[r][b].status
                           /\ action'[r][b].imported = action[r][b].imported
                           /\ action'[r][b].attempt = action[r][b].attempt
      /\ AgentId' = AgentId /\ \A j \in AgentId \ {g} : agent'[j] = agent[j]
      /\ g # 0 => agent'[g].status = kind /\ agent'[g].outcome = agent[g].outcome
      /\ OnlyRun(r) /\ \A j \in AgentId : SameAgent(j)
  BY <1>1, StopRows
<1>3. ASSUME NEW j \in AgentId
      PROVE  agent'[j].outcome = agent[j].outcome /\ (agent[j].run = r => ~Pending(j)')
  <2>1. j # 0
    BY RowTypes
  <2>2. CASE j = g
    BY <1>2, <2>1, <2>2 DEF Pending, Live, LiveStatus
  <2>3. CASE j # g
    BY <1>2, <2>3 DEF Pending, Live
  <2> QED BY <2>2, <2>3
<1>4. \A b \in Action : action[r][b].status # "pending" => action'[r][b].status # "pending"
  BY <1>2
<1>5. /\ \A j \in AgentsOf(r)' : AgentHistory(j)'
      /\ LastPending(r)' /\ OneCause(r)'
      /\ \A b \in Action : PostworkOf(r, b)' = PostworkOf(r, b)
      /\ \A b \in Action : AcceptedIn(r, b) => AcceptedIn(r, b)'
  BY <1>2, <1>3, <1>4, EndedHistory
<1>6. ASSUME NEW b \in Action PROVE ActionHistory(r, b)'
  <2>1. ActionHistory(r, b)
    BY DEF RunHistory
  <2>2. CASE b = a
    BY <1>2, <1>5, <2>1, <2>2 DEF ActionHistory
  <2>3. CASE b # a
    BY <1>2, <1>5, <2>1, <2>3 DEF ActionHistory
  <2> QED BY <2>2, <2>3
<1>7. BlockHistory(r)' /\ CompleteHistory(r)'
  BY <1>2, UnblockedHistory DEF HistoryInv, RunHistory, CompleteHistory, Open
<1>8. RunHistory(r)'
  BY <1>5, <1>6, <1>7 DEF RunHistory
<1> QED BY <1>2, <1>8, OneRunHistory

-----------------------------------------------------------------------------
(* The steps that add nothing to the history.                              *)

\* Writing a pending Agent that stays pending, with an outcome that fits.
LEMMA AgentStaysPending ==
  ASSUME TypeOK, HistoryInv, NEW i \in AgentId, NEW row, Pending(i),
         agent' = [agent EXCEPT ![i] = row], UNCHANGED <<state, action, feedback>>,
         row.run = agent[i].run, row.action = agent[i].action, row.phase = agent[i].phase,
         row.attempt = agent[i].attempt, row.parent = agent[i].parent,
         row.status \in LiveStatus \cup {"waiting_for_input"},
         row.outcome \in {"none"} \cup Answers(row.phase),
         row.status \in LiveStatus /\ row.task \in {"succeeded", "failed"} =>
           row.outcome \notin {"none", "needs_input"},
         row.status = "waiting_for_input" => row.outcome = "needs_input",
         \A r \in Run : /\ run'[r].status = run[r].status /\ run'[r].action = run[r].action
                        /\ run'[r].agent = run[r].agent /\ run'[r].final = run[r].final
  PROVE  Quiet
<1>1. AgentId' = AgentId /\ agent'[i] = row /\ \A j \in AgentId \ {i} : agent'[j] = agent[j]
  BY AgentUpdate
<1>2. ASSUME NEW j \in AgentId
      PROVE  SameAgent(j) /\ (Pending(j)' <=> Pending(j)) /\ OutcomeFits(j)'
  <2>1. CASE j = i
    BY <1>1, <2>1 DEF SameAgent, Pending, Live, OutcomeFits
  <2>2. CASE j # i
    <3>1. OutcomeFits(j)
      BY AgentFields DEF HistoryInv, RunHistory, AgentHistory, AgentsOf
    <3> QED BY <1>1, <2>2, <3>1 DEF SameAgent, Pending, Live, OutcomeFits
  <2> QED BY <2>1, <2>2
<1> QED BY <1>1, <1>2 DEF Quiet

\* The Agents as they were.
LEMMA SameAgents ==
  ASSUME TypeOK, HistoryInv, UNCHANGED agent
  PROVE  AgentId' = AgentId /\ \A j \in AgentId : SameAgent(j) /\ (Pending(j)' <=> Pending(j))
                                                  /\ OutcomeFits(j)'
<1>1. \A j \in AgentId : OutcomeFits(j)
  BY AgentFields DEF HistoryInv, RunHistory, AgentHistory, AgentsOf
<1> QED BY <1>1 DEF AgentId, SameAgent, Pending, Live, OutcomeFits

\* Claiming, answering and asking write the awaited Agent, which is pending.
LEMMA AgentStepQuiet ==
  ASSUME LineageInv, HistoryInv, NEW i \in AgentId,
         \/ TakeRunnable(i) \/ DaemonClaim(i) \/ WorkAsks(i)
         \/ \E o \in Outcome : ProviderAnswers(i, o)
  PROVE  Quiet
<1> USE DEF LineageInv
<1>1. /\ agent[i] \in AgentRow /\ OutcomeFits(i)
      /\ agent[i].task \in {"queued", "running"} => Pending(i)
      /\ Pending(i) => agent[i].status \in LiveStatus \cup {"waiting_for_input"}
  BY AgentFields, RowTypes
     DEF HistoryInv, RunHistory, AgentHistory, AgentsOf, RowsFit, AgentSound, Pending, Live
<1>2. CASE TakeRunnable(i)
  <2> DEFINE row == [agent[i] EXCEPT !.task = "running", !.status = "running"]
  <2>1. agent' = [agent EXCEPT ![i] = row] /\ UNCHANGED <<run, state, action, feedback>>
        /\ Pending(i)
    BY <1>1, <1>2 DEF TakeRunnable
  <2>2. /\ row.run = agent[i].run /\ row.action = agent[i].action /\ row.phase = agent[i].phase
        /\ row.attempt = agent[i].attempt /\ row.parent = agent[i].parent
        /\ row.status = "running" /\ row.task = "running" /\ row.outcome = agent[i].outcome
    BY <1>1 DEF AgentRow
  <2> HIDE DEF row
  <2> QED BY <1>1, <2>1, <2>2, AgentStaysPending DEF LiveStatus, OutcomeFits
<1>3. CASE DaemonClaim(i)
  <2> DEFINE row == [agent[i] EXCEPT !.claimed = TRUE]
  <2>1. agent' = [agent EXCEPT ![i] = row] /\ UNCHANGED <<run, state, action, feedback>>
        /\ Pending(i)
    BY <1>1, <1>3 DEF DaemonClaim
  <2>2. /\ row.run = agent[i].run /\ row.action = agent[i].action /\ row.phase = agent[i].phase
        /\ row.attempt = agent[i].attempt /\ row.parent = agent[i].parent
        /\ row.status = agent[i].status /\ row.task = agent[i].task
        /\ row.outcome = agent[i].outcome
    BY <1>1 DEF AgentRow
  <2> HIDE DEF row
  <2> QED BY <1>1, <2>1, <2>2, AgentStaysPending DEF OutcomeFits, Live
<1>4. ASSUME Executing(i), Open(agent[i].run) PROVE Pending(i) /\ Live(i)
  BY <1>4 DEF Executing, HeldSound, RowsFit, AgentSound, Pending
<1>5. CASE WorkAsks(i)
  <2> DEFINE row == [agent[i] EXCEPT !.outcome = "needs_input", !.status = "waiting_for_input",
                                     !.task = "waiting_for_input"]
             r == agent[i].run
  <2>1. /\ agent' = [agent EXCEPT ![i] = row] /\ UNCHANGED <<state, action, feedback>>
        /\ Pending(i) /\ "needs_input" \in Answers(agent[i].phase)
        /\ run' = [run EXCEPT ![r] = [@ EXCEPT !.count = CountAfter(r, 1)]]
    BY <1>4, <1>5 DEF WorkAsks, Terminal
  <2>2. /\ row.run = agent[i].run /\ row.action = agent[i].action /\ row.phase = agent[i].phase
        /\ row.attempt = agent[i].attempt /\ row.parent = agent[i].parent
        /\ row.status = "waiting_for_input" /\ row.outcome = "needs_input"
    BY <1>1 DEF AgentRow
  <2>3. ASSUME NEW q \in Run
        PROVE  /\ run'[q].status = run[q].status /\ run'[q].action = run[q].action
               /\ run'[q].agent = run[q].agent /\ run'[q].final = run[q].final
    <3> DEFINE rrow == [run[r] EXCEPT !.count = CountAfter(r, 1)]
    <3>1. r \in Run /\ run[r] \in RunRow /\ run' = [run EXCEPT ![r] = rrow]
      BY <2>1, AgentFields, RowTypes
    <3>2. /\ rrow.status = run[r].status /\ rrow.action = run[r].action
          /\ rrow.agent = run[r].agent /\ rrow.final = run[r].final
      BY <3>1 DEF RunRow
    <3> HIDE DEF rrow, r
    <3>3. run'[r] = rrow /\ \A p \in Run \ {r} : run'[p] = run[p]
      BY <3>1, RunUpdate
    <3>4. CASE q = r
      BY <3>2, <3>3, <3>4
    <3> QED BY <3>3, <3>4
  <2> HIDE DEF row
  <2> QED BY <2>1, <2>2, <2>3, AgentStaysPending DEF LiveStatus
<1>6. ASSUME NEW o \in Outcome, ProviderAnswers(i, o) PROVE Quiet
  <2>p. PICK p \in Prompt :
          agent' = [agent EXCEPT ![i] = [@ EXCEPT !.outcome = o, !.prompt = p,
                      !.task = IF o \in Failure THEN "failed" ELSE "succeeded"]]
    BY <1>6, AnswerRow
  <2> DEFINE task == IF o \in Failure THEN "failed" ELSE "succeeded"
             row == [agent[i] EXCEPT !.outcome = o, !.prompt = p, !.task = task]
  <2>1. agent' = [agent EXCEPT ![i] = row] /\ UNCHANGED <<run, state, action, feedback>>
        /\ Pending(i) /\ Live(i) /\ o \in Answers(agent[i].phase) /\ o # "needs_input"
    BY <1>4, <1>6, <2>p DEF ProviderAnswers, Terminal
  <2>2. /\ row.run = agent[i].run /\ row.action = agent[i].action /\ row.phase = agent[i].phase
        /\ row.attempt = agent[i].attempt /\ row.parent = agent[i].parent
        /\ row.status = agent[i].status /\ row.outcome = o
    BY <1>1 DEF AgentRow
  <2>3. o # "none"
    BY <1>1, <2>1 DEF Answers, Failure, AgentRow, Phase
  <2> HIDE DEF row
  <2> QED BY <1>1, <2>1, <2>2, <2>3, AgentStaysPending DEF Live, LiveStatus
<1> QED BY <1>2, <1>3, <1>5, <1>6

\* Moving a Run to its next State, claiming and giving up its finalization.
LEMMA RunStepQuiet ==
  ASSUME LineageInv, HistoryInv,
         \/ RecoverFinalizations
         \/ \E r \in Run : \/ ClaimFinalization(r) \/ FinalizeFails(r)
                           \/ \E s \in State : CompleteState(r, s)
  PROVE  Quiet
<1> USE DEF LineageInv
<1>1. UNCHANGED <<action, agent, feedback>>
  BY DEF RecoverFinalizations, ClaimFinalization, FinalizeFails, CompleteState
<1>2. ASSUME NEW r \in Run, NEW final, run' = [run EXCEPT ![r] = [@ EXCEPT !.final = final]],
             UNCHANGED state, run[r].status # "completed"
      PROVE  Quiet
  <2> DEFINE row == [run[r] EXCEPT !.final = final]
  <2>1. run' = [run EXCEPT ![r] = row]
    BY <1>2
  <2>2. row.status = run[r].status /\ row.action = run[r].action /\ row.agent = run[r].agent
    BY RowTypes DEF RunRow
  <2> HIDE DEF row
  <2>3. run'[r] = row /\ \A q \in Run \ {r} : run'[q] = run[q]
    BY <2>1, RunUpdate
  <2>4. ASSUME NEW q \in Run
        PROVE  /\ run'[q].status = run[q].status /\ run'[q].action = run[q].action
               /\ run'[q].agent = run[q].agent
               /\ run[q].status = "completed" => run'[q].final = run[q].final /\ state'[q] = state[q]
    <3>1. CASE q = r
      BY <1>2, <2>2, <2>3, <3>1
    <3>2. CASE q # r
      BY <1>2, <2>3, <3>2
    <3> QED BY <3>1, <3>2
  <2> QED BY <1>1, <2>4, SameAgents DEF Quiet
<1>3. ASSUME NEW r \in Run, ClaimFinalization(r) \/ FinalizeFails(r) PROVE Quiet
  BY <1>2, <1>3 DEF ClaimFinalization, FinalizeFails, ClaimHolds
<1>4. CASE RecoverFinalizations
  <2>1. ASSUME NEW q \in Run
        PROVE  /\ run'[q].status = run[q].status /\ run'[q].action = run[q].action
               /\ run'[q].agent = run[q].agent
               /\ run[q].status = "completed" => run'[q].final = run[q].final /\ state'[q] = state[q]
    <3>1. /\ run'[q] = IF ClaimHolds(q) THEN [run[q] EXCEPT !.final = "failed"] ELSE run[q]
          /\ run[q] \in RunRow /\ UNCHANGED state
      BY <1>4, RowTypes DEF RecoverFinalizations
    <3>2. CASE ClaimHolds(q)
      BY <3>1, <3>2 DEF ClaimHolds, RunRow
    <3>3. CASE ~ClaimHolds(q)
      BY <3>1, <3>3
    <3> QED BY <3>2, <3>3
  <2> QED BY <1>1, <2>1, SameAgents DEF Quiet
<1>5. ASSUME NEW r \in Run, NEW s \in State, CompleteState(r, s) PROVE Quiet
  <2> DEFINE row == [run[r] EXCEPT !.state = 0, !.action = 0, !.agent = 0,
                                   !.count = CountAfter(r, 1)]
  <2>1. /\ run' = [run EXCEPT ![r] = row] /\ Open(r) /\ PointersClear(r)
        /\ state' = [state EXCEPT ![r][s] = "done"]
    BY <1>5 DEF CompleteState, Progressing, CallSound
  <2>2. row.status = run[r].status /\ row.action = 0 /\ row.agent = 0
    BY RowTypes DEF RunRow
  <2> HIDE DEF row
  <2>3. run'[r] = row /\ \A q \in Run \ {r} : run'[q] = run[q]
    BY <2>1, RunUpdate
  <2>4. \A q \in Run \ {r} : state'[q] = state[q]
    BY <2>1 DEF TypeOK
  <2>5. ASSUME NEW q \in Run
        PROVE  /\ run'[q].status = run[q].status /\ run'[q].action = run[q].action
               /\ run'[q].agent = run[q].agent
               /\ run[q].status = "completed" => run'[q].final = run[q].final /\ state'[q] = state[q]
    <3>1. CASE q = r
      BY <2>1, <2>2, <2>3, <3>1 DEF Open, PointersClear
    <3>2. CASE q # r
      BY <2>3, <2>4, <3>2
    <3> QED BY <3>1, <3>2
  <2> QED BY <1>1, <2>5, SameAgents DEF Quiet
<1> QED BY <1>3, <1>4, <1>5

\* What nobody claimed is queued again with the outcome it had.
LEMMA RecoverTasksQuiet ==
  ASSUME LineageInv, HistoryInv, RecoverTasks
  PROVE  Quiet
<1> USE DEF LineageInv
<1>1. UNCHANGED <<run, state, action, feedback>> /\ AgentId' = AgentId
  BY DEF RecoverTasks, AgentId
<1>2. ASSUME NEW i \in AgentId
      PROVE  SameAgent(i) /\ (Pending(i)' <=> Pending(i)) /\ OutcomeFits(i)'
  <2> DEFINE row == [agent[i] EXCEPT !.task = "queued",
                                     !.status = IF @ = "running" THEN "queued" ELSE @]
  <2>1. /\ agent'[i] = IF Unclaimed(i) THEN row ELSE agent[i]
        /\ agent[i] \in AgentRow
    BY RowTypes DEF RecoverTasks, AgentId
  <2>2. OutcomeFits(i)
    BY AgentFields DEF HistoryInv, RunHistory, AgentHistory, AgentsOf
  <2>3. CASE Unclaimed(i)
    <3>1. Live(i)
      BY <2>3 DEF Unclaimed, RowsFit, AgentSound
    <3>2. /\ row.run = agent[i].run /\ row.action = agent[i].action /\ row.phase = agent[i].phase
          /\ row.attempt = agent[i].attempt /\ row.parent = agent[i].parent
          /\ row.outcome = agent[i].outcome /\ row.task = "queued"
          /\ row.status = IF agent[i].status = "running" THEN "queued" ELSE agent[i].status
      BY <2>1 DEF AgentRow
    <3> HIDE DEF row
    <3> QED BY <2>1, <2>2, <2>3, <3>1, <3>2 DEF SameAgent, Pending, Live, LiveStatus, OutcomeFits
  <2>4. CASE ~Unclaimed(i)
    <3>1. agent'[i] = agent[i]
      BY <2>1, <2>4
    <3> QED BY <2>2, <3>1 DEF SameAgent, Pending, Live, OutcomeFits
  <2> QED BY <2>3, <2>4
<1> QED BY <1>1, <1>2 DEF Quiet

\* The steps that write no row.
LEMMA MemoryStepQuiet ==
  ASSUME LineageInv, HistoryInv, MemoryStep \/ UNCHANGED vars
  PROVE  Quiet
<1>1. UNCHANGED durable
  BY DEF MemoryStep, ProgressReturns, ProgressRefused, FinalizeStale, InterruptRefused,
         ResumeFinalization, TakeAnswered, TakeCancelled, ProviderIgnored, WorkAskRefused,
         ApplyRefused, RequeueTask, PumpRests, Shutdown, ShutdownFails, InterruptsDone,
         ShutdownExits, Crash, Restart, StartServer, RequeueEnds, Boot, PrecheckTooLong,
         CleanupStep, CleanupEnds, CleanupFails, vars, durable
<1>2. UNCHANGED <<run, state, action, agent, feedback>>
  BY <1>1 DEF durable
<1> QED BY <1>2, SameAgents DEF Quiet, LineageInv

\* Every other step is one of these.
Moves ==
  \/ \E r \in Run : \/ FinalizeSucceeds(r) \/ \E imported \in Importable : Start(r, imported)
                    \/ \E s \in State, a \in Action : Advance(r, s, a)
                    \/ \E a \in Action : DispatchPrecheck(r, a)
                    \/ \E kind \in {"cancelled", "interrupted"} : Stop(r, kind) /\ UNCHANGED feedback
  \/ \E i \in AgentId : FinishAction(i) \/ DispatchNext(i) \/ BlockAction(i) \/ Answer(i)

\* A step moves a Run or is quiet.
LEMMA QuietOrMoves ==
  ASSUME LineageInv, HistoryInv, [Next]_vars
  PROVE  Quiet \/ Moves
<1>1. CASE MemoryStep \/ UNCHANGED vars
  BY <1>1, MemoryStepQuiet
<1>2. CASE Next /\ ~MemoryStep
  <2>1. CASE \E r \in Run : ProgressStep(r) \/ FinalizeStep(r)
    BY <1>2, <2>1, RunStepQuiet DEF ProgressStep, FinalizeStep, MemoryStep, Moves
  <2>2. CASE PumpStep \/ ProviderStep \/ \E i \in AgentId : DaemonClaim(i)
    BY <1>2, <2>2, AgentStepQuiet DEF PumpStep, ProviderStep, MemoryStep
  <2>3. CASE ApplyStep
    BY <1>2, <2>3 DEF ApplyStep, MemoryStep, Moves
  <2>4. CASE HttpStep
    BY <2>4 DEF HttpStep, Cancel, Moves
  <2>5. CASE ShutdownStep
    BY <1>2, <2>5 DEF ShutdownStep, InterruptRun, MemoryStep, Moves
  <2>6. CASE BootStep
    BY <1>2, <2>6, RecoverTasksQuiet, RunStepQuiet DEF BootStep, MemoryStep
  <2> QED BY <1>2, <2>1, <2>2, <2>3, <2>4, <2>5, <2>6 DEF Next, MemoryStep
<1> QED BY <1>1, <1>2

-----------------------------------------------------------------------------
(* The invariant holds initially and is kept by every step.                *)

\* Nothing has happened yet.
LEMMA InitHistory == Init => HistoryInv
<1> SUFFICES ASSUME Init PROVE HistoryInv
  OBVIOUS
<1>1. /\ AgentId = {} /\ feedback = {}
      /\ \A r \in Run : run[r].status = "absent"
      /\ \A r \in Run, a \in Action : action[r][a].status = "pending" /\ action[r][a].attempt = 0
  BY DEF Init, AgentId
<1>2. ASSUME NEW r \in Run PROVE RunHistory(r)
  <2>1. AgentsOf(r) = {} /\ FeedbackOf(r) = {} /\ BlockedIn(r) = {}
    BY <1>1 DEF AgentsOf, FeedbackOf, BlockedIn
  <2>2. ASSUME NEW a \in Action PROVE ActionHistory(r, a)
    <3>1. PostworkOf(r, a) = {}
      BY <1>1 DEF PostworkOf
    <3>2. Cardinality(PostworkOf(r, a)) = 0
      BY <3>1, FS_EmptySet
    <3> QED BY <1>1, <3>2, ConstantsAssumption DEF ActionHistory
  <2> QED BY <1>1, <2>1, <2>2
          DEF RunHistory, LastPending, OneCause, BlockHistory, CompleteHistory
<1> QED BY <1>1, <1>2 DEF HistoryInv, FeedbackFits

\* Every step of the server, a crash included, keeps the history.
LEMMA NextHistory == LineageInv /\ HistoryInv /\ [Next]_vars => HistoryInv'
<1> SUFFICES ASSUME LineageInv, HistoryInv, [Next]_vars PROVE HistoryInv'
  OBVIOUS
<1>1. CASE Quiet
  BY <1>1, QuietHistory DEF LineageInv
<1>2. CASE Moves
  BY <1>2, StartHistory, AdvanceHistory, DispatchPrecheckHistory, FinalizeSucceedsHistory,
     StopHistory, FinishActionHistory, DispatchNextHistory, BlockActionHistory, AnswerHistory
     DEF Moves
<1> QED BY <1>1, <1>2, QuietOrMoves

\* No outcome is applied twice and no Agent dispatched twice, attempts count
\* Work results, a blocked Run has its one Feedback and a completed one its
\* Validations, over every retry, question, cancellation, crash and restart.
THEOREM AccountedCorrect == Spec => []OutcomesAccounted
<1>1. Init => LineageInv /\ HistoryInv
  BY InitLineage, InitHistory
<1>2. LineageInv /\ HistoryInv /\ [Next]_vars => (LineageInv /\ HistoryInv)'
  BY NextLineage, NextHistory
<1>3. LineageInv /\ HistoryInv => OutcomesAccounted
  BY InvAccounted DEF LineageInv
<1> QED BY <1>1, <1>2, <1>3, PTL DEF Spec

-----------------------------------------------------------------------------
(* A Run keeps its contract.                                               *)

\* A step of one Run moves only that Run of the contract.
LEMMA ContractOfOneRun ==
  ASSUME TypeOK, HistoryInv, NEW r \in Run, OnlyRun(r), \A j \in AgentId : SameAgent(j),
         feedback \subseteq feedback',
         \A f \in feedback' \ feedback : f.agent \in AgentId /\ agent[f.agent].run = r
  PROVE  /\ ContractStatuses' = [ContractStatuses EXCEPT ![r] = ContractStatus(run'[r].status)]
         /\ ContractSteps' =
              [ContractSteps EXCEPT ![r] = [a \in Action |-> ContractStep(action'[r][a].status)]]
         /\ ContractAttempts' =
              [ContractAttempts EXCEPT ![r] = [a \in Action |-> action'[r][a].attempt]]
         /\ ContractReports' =
              [ContractReports EXCEPT ![r] =
                 {agent[f.agent].action : f \in {g \in feedback' : agent[g.agent].run = r}}]
<1>1. \A q \in Run \ {r} : run'[q] = run[q] /\ action'[q] = action[q]
  BY DEF OnlyRun
<1>2. ContractStatuses' = [ContractStatuses EXCEPT ![r] = ContractStatus(run'[r].status)]
  BY <1>1 DEF ContractStatuses
<1>3. ContractSteps' =
        [ContractSteps EXCEPT ![r] = [a \in Action |-> ContractStep(action'[r][a].status)]]
  BY <1>1 DEF ContractSteps
<1>4. ContractAttempts' =
        [ContractAttempts EXCEPT ![r] = [a \in Action |-> action'[r][a].attempt]]
  BY <1>1 DEF ContractAttempts
<1>5. \A f \in feedback' : /\ agent'[f.agent].run = agent[f.agent].run
                           /\ agent'[f.agent].action = agent[f.agent].action
  BY DEF HistoryInv, FeedbackFits, SameAgent
<1>6. ContractReports' =
        [ContractReports EXCEPT ![r] =
           {agent[f.agent].action : f \in {g \in feedback' : agent[g.agent].run = r}}]
  <2> DEFINE new == {agent[f.agent].action : f \in {g \in feedback' : agent[g.agent].run = r}}
             Before(q) == {agent[f.agent].action : f \in {g \in feedback : agent[g.agent].run = q}}
             After(q) == {agent'[f.agent].action : f \in {g \in feedback' : agent'[g.agent].run = q}}
  <2>1. After(r) = new
    BY <1>5
  <2>2. ASSUME NEW q \in Run, q # r PROVE After(q) = Before(q)
    <3>1. {g \in feedback' : agent'[g.agent].run = q} = {g \in feedback : agent[g.agent].run = q}
      BY <1>5, <2>2
    <3> QED BY <1>5, <3>1
  <2>3. ContractReports' = [q \in Run |-> After(q)] /\ ContractReports = [q \in Run |-> Before(q)]
    BY DEF ContractReports, FeedbackOf
  <2> HIDE DEF new, Before, After
  <2>4. [q \in Run |-> After(q)] = [[q \in Run |-> Before(q)] EXCEPT ![r] = new]
    BY <2>1, <2>2
  <2>5. ContractReports' = [ContractReports EXCEPT ![r] = new]
    BY <2>3, <2>4
  <2> QED BY <2>5 DEF new
<1> QED BY <1>2, <1>3, <1>4, <1>6

\* Nothing has begun.
LEMMA ContractInit == Init => Contract!Init
<1> SUFFICES ASSUME Init PROVE Contract!Init
  OBVIOUS
<1>1. ContractStatuses = [r \in Run |-> "absent"]
  BY DEF Init, ContractStatuses, ContractStatus
<1>2. ContractSteps = [r \in Run |-> [a \in Action |-> "waiting"]]
  BY DEF Init, ContractSteps, ContractStep, ActiveStatus
<1>3. ContractAttempts = [r \in Run |-> [a \in Action |-> 0]]
  BY DEF Init, ContractAttempts
<1>4. ContractReports = [r \in Run |-> {}]
  <2>1. feedback = {}
    BY DEF Init
  <2>2. \A r \in Run : {agent[f.agent].action : f \in FeedbackOf(r)} = {}
    BY <2>1 DEF FeedbackOf
  <2> QED BY <2>2 DEF ContractReports
<1> QED BY <1>1, <1>2, <1>3, <1>4 DEF Contract!Init, Contract!Action, Action

\* A quiet step is a stutter of the contract.
LEMMA ContractStutter ==
  ASSUME TypeOK, HistoryInv, Quiet
  PROVE  UNCHANGED Contract!vars
<1>1. ContractStatuses' = ContractStatuses
  BY DEF Quiet, ContractStatuses
<1>2. ContractSteps' = ContractSteps /\ ContractAttempts' = ContractAttempts
  BY DEF Quiet, ContractSteps, ContractAttempts
<1>3. ContractReports' = ContractReports
  <2>1. /\ feedback' = feedback
        /\ \A f \in feedback : /\ agent'[f.agent].run = agent[f.agent].run
                               /\ agent'[f.agent].action = agent[f.agent].action
    BY DEF Quiet, HistoryInv, FeedbackFits, SameAgent
  <2>2. ASSUME NEW q \in Run
        PROVE  {agent'[f.agent].action : f \in {g \in feedback' : agent'[g.agent].run = q}}
                 = {agent[f.agent].action : f \in {g \in feedback : agent[g.agent].run = q}}
    <3>1. {g \in feedback' : agent'[g.agent].run = q} = {g \in feedback : agent[g.agent].run = q}
      BY <2>1
    <3> QED BY <2>1, <3>1
  <2> QED BY <2>2 DEF ContractReports, FeedbackOf
<1> QED BY <1>1, <1>2, <1>3 DEF Contract!vars

\* What such a step leaves alone stays in the contract, and what it writes of
\* one Action is all that changes.
LEMMA ContractParts ==
  ASSUME TypeOK, HistoryInv, NEW r \in Run, OnlyRun(r), \A j \in AgentId : SameAgent(j),
         feedback \subseteq feedback',
         \A f \in feedback' \ feedback : f.agent \in AgentId /\ agent[f.agent].run = r
  PROVE  /\ ContractStatus(run'[r].status) = ContractStatus(run[r].status) =>
              ContractStatuses' = ContractStatuses
         /\ (\A a \in Action :
               ContractStep(action'[r][a].status) = ContractStep(action[r][a].status)) =>
              ContractSteps' = ContractSteps
         /\ (\A a \in Action : action'[r][a].attempt = action[r][a].attempt) =>
              ContractAttempts' = ContractAttempts
         /\ feedback' = feedback => ContractReports' = ContractReports
         /\ \A a \in Action : (\A b \in Action \ {a} : action'[r][b] = action[r][b]) =>
              /\ ContractSteps' =
                   [ContractSteps EXCEPT ![r][a] = ContractStep(action'[r][a].status)]
              /\ ContractAttempts' = [ContractAttempts EXCEPT ![r][a] = action'[r][a].attempt]
<1>1. /\ ContractStatuses' = [ContractStatuses EXCEPT ![r] = ContractStatus(run'[r].status)]
      /\ ContractSteps' =
           [ContractSteps EXCEPT ![r] = [a \in Action |-> ContractStep(action'[r][a].status)]]
      /\ ContractAttempts' =
           [ContractAttempts EXCEPT ![r] = [a \in Action |-> action'[r][a].attempt]]
      /\ ContractReports' =
           [ContractReports EXCEPT ![r] =
              {agent[f.agent].action : f \in {g \in feedback' : agent[g.agent].run = r}}]
  BY ContractOfOneRun
<1>2. ContractStatus(run'[r].status) = ContractStatus(run[r].status) =>
        ContractStatuses' = ContractStatuses
  BY <1>1 DEF ContractStatuses
<1>3. (\A a \in Action : ContractStep(action'[r][a].status) = ContractStep(action[r][a].status)) =>
        ContractSteps' = ContractSteps
  <2>1. SUFFICES ASSUME \A a \in Action : ContractStep(action'[r][a].status)
                                            = ContractStep(action[r][a].status)
                 PROVE  ContractSteps' = ContractSteps
    OBVIOUS
  <2>2. [a \in Action |-> ContractStep(action'[r][a].status)]
          = [a \in Action |-> ContractStep(action[r][a].status)]
    BY <2>1
  <2> QED BY <1>1, <2>2 DEF ContractSteps
<1>4. (\A a \in Action : action'[r][a].attempt = action[r][a].attempt) =>
        ContractAttempts' = ContractAttempts
  <2>1. SUFFICES ASSUME \A a \in Action : action'[r][a].attempt = action[r][a].attempt
                 PROVE  ContractAttempts' = ContractAttempts
    OBVIOUS
  <2>2. [a \in Action |-> action'[r][a].attempt] = [a \in Action |-> action[r][a].attempt]
    BY <2>1
  <2> QED BY <1>1, <2>2 DEF ContractAttempts
<1>5. feedback' = feedback => ContractReports' = ContractReports
  <2>1. SUFFICES ASSUME feedback' = feedback PROVE ContractReports' = ContractReports
    OBVIOUS
  <2> DEFINE F(q) == {agent[f.agent].action : f \in {g \in feedback : agent[g.agent].run = q}}
  <2>2. ContractReports' = [ContractReports EXCEPT ![r] = F(r)]
    BY <1>1, <2>1
  <2>3. ContractReports = [q \in Run |-> F(q)]
    BY DEF ContractReports, FeedbackOf
  <2> HIDE DEF F
  <2> QED BY <2>2, <2>3
<1>6. ASSUME NEW a \in Action, \A b \in Action \ {a} : action'[r][b] = action[r][b]
      PROVE  /\ ContractSteps' =
                  [ContractSteps EXCEPT ![r][a] = ContractStep(action'[r][a].status)]
             /\ ContractAttempts' = [ContractAttempts EXCEPT ![r][a] = action'[r][a].attempt]
  <2>1. [b \in Action |-> ContractStep(action'[r][b].status)]
          = [[b \in Action |-> ContractStep(action[r][b].status)] EXCEPT
               ![a] = ContractStep(action'[r][a].status)]
    BY <1>6
  <2>2. ContractSteps[r] = [b \in Action |-> ContractStep(action[r][b].status)]
    BY DEF ContractSteps
  <2>3. [b \in Action |-> action'[r][b].attempt]
          = [[b \in Action |-> action[r][b].attempt] EXCEPT ![a] = action'[r][a].attempt]
    BY <1>6
  <2>4. ContractAttempts[r] = [b \in Action |-> action[r][b].attempt]
    BY DEF ContractAttempts
  <2> QED BY <1>1, <2>1, <2>2, <2>3, <2>4
<1> QED BY <1>2, <1>3, <1>4, <1>5, <1>6

\* What the contract says of a Run and its Actions now.
LEMMA ContractNow ==
  ASSUME NEW r \in Run
  PROVE  /\ ContractStatuses[r] = ContractStatus(run[r].status)
         /\ \A a \in Action : /\ ContractSteps[r][a] = ContractStep(action[r][a].status)
                              /\ ContractAttempts[r][a] = action[r][a].attempt
         /\ ContractReports[r] = {agent[f.agent].action : f \in FeedbackOf(r)}
  BY DEF ContractStatuses, ContractSteps, ContractAttempts, ContractReports

\* How far a row is.
LEMMA ContractWords ==
  /\ ContractStatus("absent") = "absent" /\ ContractStatus("completed") = "completed"
  /\ ContractStatus("blocked") = "blocked"
  /\ \A s \in {"pending", "running"} : ContractStatus(s) = "open"
  /\ \A s \in {"cancelled", "interrupted"} : ContractStatus(s) = "stopped"
  /\ \A s \in TerminalStatus : ContractStatus(s) \in Contract!Over
  /\ ContractStep("pending") = "waiting" /\ ContractStep("done") = "done"
  /\ ContractStep("blocked") = "blocked"
  /\ \A s \in {"cancelled", "interrupted"} : ContractStep(s) = "stopped"
  /\ \A s \in ActionStatus : ContractStep(s) = "doing" <=> s \in ActiveStatus
  BY DEF ContractStatus, ContractStep, ActiveStatus, ActionStatus, TerminalStatus, Contract!Over

\* Starting a Run opens it with what another Run that is over has done.
LEMMA StartContract ==
  ASSUME LineageInv, HistoryInv, NEW r \in Run, NEW imported \in Importable, Start(r, imported)
  PROVE  Contract!Next
<1> USE DEF LineageInv
<1>1. /\ run[r].status = "absent" /\ run'[r].status = "pending"
      /\ \A b \in Action : /\ action'[r][b].status = IF b \in imported THEN "done" ELSE "pending"
                           /\ action'[r][b].attempt = 0
      /\ feedback' = feedback /\ \A j \in AgentId : agent[j].run # r
      /\ OnlyRun(r) /\ \A j \in AgentId : SameAgent(j)
  BY StartRows
<1>2. \A a \in Action : action[r][a].attempt = 0
  <2>1. ASSUME NEW a \in Action PROVE action[r][a].attempt = 0
    <3>1. PostworkOf(r, a) = {}
      BY <1>1 DEF PostworkOf
    <3>2. Cardinality(PostworkOf(r, a)) = 0
      BY <3>1, FS_EmptySet
    <3> QED BY <3>2 DEF HistoryInv, RunHistory, ActionHistory
  <2> QED BY <2>1
<1>3. ContractStatuses' = [ContractStatuses EXCEPT ![r] = "open"]
  BY <1>1, ContractOfOneRun, ContractWords
<1>4. ContractSteps' =
        [ContractSteps EXCEPT ![r] = [a \in Action |-> IF a \in imported THEN "done" ELSE "waiting"]]
  <2>1. ContractSteps' =
          [ContractSteps EXCEPT ![r] = [a \in Action |-> ContractStep(action'[r][a].status)]]
    BY <1>1, ContractOfOneRun
  <2>2. [a \in Action |-> ContractStep(action'[r][a].status)]
          = [a \in Action |-> IF a \in imported THEN "done" ELSE "waiting"]
    BY <1>1, ContractWords
  <2> QED BY <2>1, <2>2
<1>5. ContractAttempts' = ContractAttempts /\ ContractReports' = ContractReports
  BY <1>1, <1>2, ContractParts
<1>6. /\ imported \in SUBSET Action /\ imported # Action
      /\ \A a \in imported : \E p \in Run :
           run[p].status \in TerminalStatus /\ action[p][a].status = "done"
  <2>1. 1 \in Action
    BY ConstantsAssumption DEF Action
  <2>2. CASE imported = {}
    BY <2>1, <2>2
  <2>3. CASE imported # {}
    BY <2>3 DEF Importable, DoneIn
  <2> QED BY <2>2, <2>3
<1>7. \A a \in imported : \E p \in Run :
        ContractStatuses[p] \in Contract!Over /\ ContractSteps[p][a] = "done"
  BY <1>6, ContractNow, ContractWords
<1>8. Contract!Open(r, imported)
  BY <1>1, <1>3, <1>4, <1>5, <1>6, <1>7, ContractNow, ContractWords
     DEF Contract!Open, Contract!Action, Action
<1> QED BY <1>6, <1>8 DEF Contract!Next, Contract!Action, Action

\* Selecting an Action begins it, with everything in front of it done.
LEMMA AdvanceContract ==
  ASSUME LineageInv, HistoryInv, NEW r \in Run, NEW s \in State, NEW a \in Action, Advance(r, s, a)
  PROVE  Contract!Next
<1> USE DEF LineageInv
<1>1. /\ Open(r) /\ action[r][a].status = "pending"
      /\ run'[r].status = "running" /\ action'[r][a].status = "prechecking"
      /\ action'[r][a].attempt = action[r][a].attempt
      /\ \A b \in Action \ {a} : action'[r][b] = action[r][b]
      /\ feedback' = feedback
      /\ OnlyRun(r) /\ \A j \in AgentId : SameAgent(j)
  BY AdvanceRows
<1>2. ASSUME NEW b \in Action, b < a PROVE action[r][b].status = "done"
  <2>1. FirstOpenState(r, s) /\ FirstOpenAction(r, s, a)
    BY DEF Advance, Selectable
  <2>2. StateOf[b] \in State /\ StateOf[b] <= s
    BY <1>2, <2>1, StateOfAssumption DEF FirstOpenAction
  <2>3. CASE StateOf[b] = s
    BY <1>2, <2>1, <2>3 DEF FirstOpenAction, ActionsIn
  <2>4. CASE StateOf[b] # s
    <3>1. StateOf[b] < s
      BY <2>2, <2>4 DEF State
    <3>2. state[r][StateOf[b]] = "done"
      BY <2>1, <2>2, <3>1 DEF FirstOpenState
    <3> QED BY <2>2, <3>2 DEF RowsFit, StatesSound, AllDone, ActionsIn
  <2> QED BY <2>3, <2>4
<1>3. ContractStatus(run'[r].status) = ContractStatus(run[r].status)
  BY <1>1, ContractWords DEF Open
<1>4. \A b \in Action : action'[r][b].attempt = action[r][b].attempt
  BY <1>1
<1>5. ContractStep("prechecking") = "doing"
  BY DEF ContractStep, ActiveStatus
<1>6. /\ ContractSteps' = [ContractSteps EXCEPT ![r][a] = "doing"]
      /\ ContractStatuses' = ContractStatuses /\ ContractAttempts' = ContractAttempts
      /\ ContractReports' = ContractReports
  BY <1>1, <1>3, <1>4, <1>5, ContractParts
<1>7. Contract!Begin(r, a)
  BY <1>1, <1>2, <1>6, ContractNow, ContractWords
     DEF Contract!Begin, Contract!Action, Action, Open
<1> QED BY <1>7 DEF Contract!Next, Contract!Action, Action

\* A Validation that accepts finishes the one Action that is done.
LEMMA FinishActionContract ==
  ASSUME LineageInv, HistoryInv, NEW i \in AgentId, FinishAction(i)
  PROVE  Contract!Next
<1> USE DEF LineageInv
<1>1. PICK r, a : r = agent[i].run /\ a = agent[i].action
  OBVIOUS
<1>2. Applicable(i)
  BY DEF FinishAction
<1>3. /\ r \in Run /\ a \in Action /\ agent[i].phase \in Phase
      /\ action[r][a].status = StatusDuring(agent[i].phase)
  BY <1>1, <1>2, AppliedAgent
<1>4. /\ run[r].status = "running" /\ run'[r].status = "running"
      /\ action'[r][a].status = "done" /\ action'[r][a].attempt = action[r][a].attempt
      /\ \A b \in Action \ {a} : action'[r][b] = action[r][b]
      /\ feedback' = feedback
      /\ OnlyRun(r) /\ \A j \in AgentId : SameAgent(j)
  BY <1>1, FinishActionRows
<1>5. ContractStep(action[r][a].status) = "doing"
  BY <1>3 DEF StatusDuring, Phase, ContractStep, ActiveStatus
<1>6. \A b \in Action : action'[r][b].attempt = action[r][b].attempt
  BY <1>4
<1>7. /\ ContractSteps' = [ContractSteps EXCEPT ![r][a] = "done"]
      /\ ContractStatuses' = ContractStatuses /\ ContractAttempts' = ContractAttempts
      /\ ContractReports' = ContractReports
  BY <1>3, <1>4, <1>6, ContractParts, ContractWords
<1>8. Contract!Accept(r, a)
  BY <1>3, <1>4, <1>5, <1>7, ContractNow, ContractWords DEF Contract!Accept
<1> QED BY <1>3, <1>8 DEF Contract!Next, Contract!Action, Action

\* Dispatching the Validation of a Work result is an attempt; any other
\* dispatch leaves the contract where it is.
LEMMA DispatchNextContract ==
  ASSUME LineageInv, HistoryInv, NEW i \in AgentId, DispatchNext(i)
  PROVE  [Contract!Next]_(Contract!vars)
<1> USE DEF LineageInv
<1>1. PICK r, a, n : r = agent[i].run /\ a = agent[i].action /\ n = Len(agent) + 1
  OBVIOUS
<1>2. Applicable(i) /\ Continues(i)
  BY <1>1 DEF DispatchNext
<1>3. /\ r \in Run /\ a \in Action /\ agent[i].phase \in Phase /\ ActionHistory(r, a)
      /\ OutcomeFits(i) /\ agent[i].outcome # "needs_input"
      /\ action[r][a].status = StatusDuring(agent[i].phase) /\ action[r][a].attempt \in Nat
  BY <1>1, <1>2, AppliedAgent
<1>4. /\ run[r].status = "running" /\ run'[r].status = "running"
      /\ action'[r][a].status = StatusDuring(NextPhase(i))
      /\ action'[r][a].attempt = AttemptAfter(i)
      /\ \A b \in Action \ {a} : action'[r][b] = action[r][b]
      /\ feedback' = feedback
      /\ OnlyRun(r) /\ \A j \in AgentId : SameAgent(j)
  BY <1>1, DispatchNextRows
<1>5. /\ ContractStep(action[r][a].status) = "doing"
      /\ ContractStep(action'[r][a].status) = "doing"
  BY <1>3, <1>4 DEF StatusDuring, NextPhase, Phase, ContractStep, ActiveStatus
<1>6. \A b \in Action : ContractStep(action'[r][b].status) = ContractStep(action[r][b].status)
  BY <1>4, <1>5
<1>7. /\ ContractSteps' = ContractSteps /\ ContractStatuses' = ContractStatuses
      /\ ContractReports' = ContractReports
      /\ ContractAttempts' = [ContractAttempts EXCEPT ![r][a] = action'[r][a].attempt]
  BY <1>3, <1>4, <1>6, ContractParts
<1>8. CASE NextPhase(i) = "postwork"
  <2>1. action'[r][a].attempt = action[r][a].attempt + 1
    BY <1>1, <1>4, <1>8 DEF AttemptAfter, AttemptOf
  <2>2. agent[i].phase = "work"
    BY <1>8 DEF NextPhase
  <2>3. action[r][a].attempt <= MaxRetries
    BY <1>3, <2>2 DEF ActionHistory, StatusDuring
  <2>4. ContractAttempts' = [ContractAttempts EXCEPT ![r][a] = @ + 1]
    BY <1>3, <1>7, <2>1, ContractNow
  <2>5. Contract!Attempt(r, a)
    BY <1>3, <1>4, <1>5, <1>7, <2>3, <2>4, ContractNow, ContractWords DEF Contract!Attempt
  <2>6. a \in Contract!Action
    BY <1>3 DEF Contract!Action, Action
  <2>7. Contract!Next
    BY ONLY <1>3, <2>5, <2>6 DEF Contract!Next
  <2> QED BY <2>7
<1>9. CASE NextPhase(i) # "postwork"
  <2>1. action'[r][a].attempt = action[r][a].attempt
    BY <1>1, <1>4, <1>9 DEF AttemptAfter, AttemptOf
  <2>2. \A b \in Action : action'[r][b].attempt = action[r][b].attempt
    BY <1>4, <2>1
  <2>3. ContractAttempts' = ContractAttempts
    BY <1>3, <1>4, <2>2, ContractParts
  <2> QED BY <1>7, <2>3 DEF Contract!vars
<1> QED BY <1>8, <1>9

\* Blocking an Action blocks its Run and reports it, once.
LEMMA BlockActionContract ==
  ASSUME LineageInv, HistoryInv, NEW i \in AgentId, BlockAction(i)
  PROVE  Contract!Next
<1> USE DEF LineageInv
<1>1. PICK r, a, f : /\ r = agent[i].run /\ a = agent[i].action
                     /\ f = [agent |-> i, source |-> BlockSource(i)]
  OBVIOUS
<1>2. Applicable(i) /\ f.agent = i
  BY <1>1 DEF BlockAction
<1>3. /\ r \in Run /\ a \in Action /\ agent[i].phase \in Phase /\ RunHistory(r)
      /\ action[r][a].status = StatusDuring(agent[i].phase)
  BY <1>1, <1>2, AppliedAgent
<1>4. /\ run[r].status = "running" /\ run'[r].status = "blocked"
      /\ action'[r][a].status = "blocked" /\ action'[r][a].attempt = action[r][a].attempt
      /\ \A b \in Action \ {a} : action'[r][b] = action[r][b]
      /\ feedback' = feedback \cup {f}
      /\ OnlyRun(r) /\ \A j \in AgentId : SameAgent(j)
  BY <1>1, BlockActionRows
<1>5. ContractStep(action[r][a].status) = "doing"
  BY <1>3 DEF StatusDuring, Phase, ContractStep, ActiveStatus
<1>6. \A b \in Action : action'[r][b].attempt = action[r][b].attempt
  BY <1>4
<1>7. /\ feedback \subseteq feedback'
      /\ \A g \in feedback' \ feedback : g.agent \in AgentId /\ agent[g.agent].run = r
  BY <1>1, <1>2, <1>4
<1>8. /\ ContractSteps' = [ContractSteps EXCEPT ![r][a] = "blocked"]
      /\ ContractAttempts' = ContractAttempts
  BY <1>3, <1>4, <1>6, <1>7, ContractParts, ContractWords
<1>9. /\ ContractStatuses' = [ContractStatuses EXCEPT ![r] = "blocked"]
      /\ ContractReports' =
           [ContractReports EXCEPT ![r] =
              {agent[g.agent].action : g \in {h \in feedback' : agent[h.agent].run = r}}]
  BY <1>3, <1>4, <1>7, ContractOfOneRun, ContractWords
<1>10. ContractReports' = [ContractReports EXCEPT ![r] = @ \cup {a}]
  <2>1. FeedbackOf(r) = {}
    BY <1>3, <1>4 DEF RunHistory, BlockHistory
  <2>2. {h \in feedback' : agent[h.agent].run = r} = {f}
    BY <1>1, <1>2, <1>4, <2>1 DEF FeedbackOf
  <2>3. {agent[g.agent].action : g \in {h \in feedback' : agent[h.agent].run = r}} = {a}
    BY <1>1, <1>2, <2>2
  <2>4. ContractReports[r] = {}
    BY <1>3, <2>1 DEF ContractReports
  <2>5. ContractReports' = [ContractReports EXCEPT ![r] = {a}]
    BY <1>9, <2>3
  <2>6. {a} = ContractReports[r] \cup {a}
    BY <2>4
  <2> QED BY <1>3, <2>5, <2>6 DEF ContractReports
<1>11. ContractStatuses[r] = "open" /\ ContractSteps[r][a] = "doing"
  BY <1>3, <1>4, <1>5, ContractNow, ContractWords
<1>12. ContractStatuses' = [ContractStatuses EXCEPT ![r] = "blocked"]
  BY <1>9
<1>13. Contract!Block(r, a)
  BY <1>8, <1>10, <1>11, <1>12 DEF Contract!Block
<1> QED BY <1>3, <1>13 DEF Contract!Next, Contract!Action, Action

\* A Run is completed with all its Actions done.
LEMMA FinalizeSucceedsContract ==
  ASSUME LineageInv, HistoryInv, NEW r \in Run, FinalizeSucceeds(r)
  PROVE  Contract!Next
<1> USE DEF LineageInv
<1>1. /\ run[r].status = "running" /\ StatesDone(r) /\ run'[r].status = "completed"
      /\ UNCHANGED <<state, action, agent, feedback>>
      /\ OnlyRun(r) /\ \A j \in AgentId : SameAgent(j)
  BY FinalizeSucceedsRows
<1>2. ASSUME NEW b \in Action PROVE action[r][b].status = "done"
  <2>1. StateOf[b] \in State /\ state[r][StateOf[b]] = "done"
    BY <1>1, StateOfAssumption DEF StatesDone
  <2> QED BY <2>1 DEF RowsFit, StatesSound, AllDone, ActionsIn
<1>3. /\ ContractStatuses' = [ContractStatuses EXCEPT ![r] = "completed"]
      /\ ContractSteps' = ContractSteps /\ ContractAttempts' = ContractAttempts
      /\ ContractReports' = ContractReports
  BY <1>1, ContractOfOneRun, ContractParts, ContractWords
<1>4. Contract!Complete(r)
  BY <1>1, <1>2, <1>3, ContractNow, ContractWords DEF Contract!Complete, Contract!Action, Action
<1> QED BY <1>4 DEF Contract!Next

\* A stop stops the Action that was being worked on with its Run.
LEMMA StopContract ==
  ASSUME LineageInv, HistoryInv, NEW r \in Run, NEW kind \in {"cancelled", "interrupted"},
         Stop(r, kind), UNCHANGED feedback
  PROVE  Contract!Next
<1> USE DEF LineageInv
<1>1. PICK a : a = run[r].action
  OBVIOUS
<1>2. /\ Open(r) /\ run'[r].status = kind
      /\ \A b \in Action : /\ action[r][b].status \in ActiveStatus <=> b = a
                           /\ action'[r][b].status = IF b = a THEN kind ELSE action[r][b].status
                           /\ action'[r][b].attempt = action[r][b].attempt
      /\ OnlyRun(r) /\ \A j \in AgentId : SameAgent(j)
  BY <1>1, StopRows
<1>3. /\ ContractStatuses' = [ContractStatuses EXCEPT ![r] = "stopped"]
      /\ ContractAttempts' = ContractAttempts /\ ContractReports' = ContractReports
  BY <1>2, ContractOfOneRun, ContractParts, ContractWords
<1>4. ContractSteps' =
        [ContractSteps EXCEPT ![r] = [b \in Action |-> ContractStep(action'[r][b].status)]]
  BY <1>2, ContractOfOneRun
<1>5. ASSUME NEW b \in Action
      PROVE  ContractStep(action'[r][b].status) =
               IF ContractSteps[r][b] = "doing" THEN "stopped" ELSE ContractSteps[r][b]
  <2>1. action[r][b].status \in ActionStatus
    BY RowTypes DEF ActionRow
  <2>2. ContractSteps[r][b] = "doing" <=> b = a
    BY <1>2, <2>1, ContractNow, ContractWords
  <2>3. CASE b = a
    BY <1>2, <2>2, <2>3, ContractWords
  <2>4. CASE b # a
    BY <1>2, <2>2, <2>4, ContractNow
  <2> QED BY <2>3, <2>4
<1>6. [b \in Action |-> ContractStep(action'[r][b].status)]
        = [b \in Action |-> IF ContractSteps[r][b] = "doing" THEN "stopped"
                            ELSE ContractSteps[r][b]]
  BY <1>5
<1>7. ContractStatuses[r] = "open"
  BY <1>2, ContractNow, ContractWords DEF Open
<1>8. r \in DOMAIN ContractSteps
  BY DEF ContractSteps
<1>9. ContractSteps' =
        [ContractSteps EXCEPT ![r] =
           [b \in Action |-> IF @[b] = "doing" THEN "stopped" ELSE @[b]]]
  BY <1>4, <1>6, <1>8
<1>10. Contract!Stop(r)
  BY <1>3, <1>7, <1>9 DEF Contract!Stop, Contract!Action, Action
<1> QED BY <1>10 DEF Contract!Next

\* A dispatched precheck and an answered question leave the contract.
LEMMA SameContract ==
  ASSUME TypeOK, HistoryInv, NEW r \in Run, OnlyRun(r), \A j \in AgentId : SameAgent(j),
         UNCHANGED <<action, feedback>>, run'[r].status = run[r].status
  PROVE  UNCHANGED Contract!vars
<1>1. \A a \in Action : action'[r][a] = action[r][a]
  OBVIOUS
<1> QED BY <1>1, ContractParts DEF Contract!vars

-----------------------------------------------------------------------------
(* The Run implements its contract.                                        *)

\* Every step of the server is a step of the contract or none.
LEMMA NextContract == LineageInv /\ HistoryInv /\ [Next]_vars => [Contract!Next]_(Contract!vars)
<1> SUFFICES ASSUME LineageInv, HistoryInv, [Next]_vars
             PROVE  [Contract!Next]_(Contract!vars)
  OBVIOUS
<1>1. CASE Quiet
  BY <1>1, ContractStutter DEF LineageInv
<1>2. CASE Moves
  <2>1. ASSUME NEW r \in Run, NEW a \in Action, DispatchPrecheck(r, a)
        PROVE  UNCHANGED Contract!vars
    BY <2>1, DispatchPrecheckRows, SameContract DEF LineageInv
  <2>2. ASSUME NEW i \in AgentId, Answer(i) PROVE UNCHANGED Contract!vars
    BY <2>2, AnswerRows, SameContract DEF LineageInv
  <2> QED BY <1>2, <2>1, <2>2, StartContract, AdvanceContract, FinalizeSucceedsContract,
             StopContract, FinishActionContract, DispatchNextContract, BlockActionContract
          DEF Moves
<1> QED BY <1>1, <1>2, QuietOrMoves

\* Whatever queue, Agents, tasks, cancellations, crashes and restarts carry it
\* out, the server works a Run's Actions one at a time and in order, attempts
\* Work a bounded number of times, finishes an Action by acceptance only, blocks
\* with one report, and leaves a Run that is over as it is.
THEOREM ContractKept == Spec => KeepsContract
<1>1. Init => LineageInv /\ HistoryInv
  BY InitLineage, InitHistory
<1>2. LineageInv /\ HistoryInv /\ [Next]_vars => (LineageInv /\ HistoryInv)'
  BY NextLineage, NextHistory
<1> QED BY <1>1, <1>2, ContractInit, NextContract, PTL DEF Spec, KeepsContract, Contract!Spec

-----------------------------------------------------------------------------
(* The gate rules read the same rows.                                      *)

\* A State is blocked exactly when one of its Actions is.
StateGates ==
  \A r \in Run, s \in State :
    state[r][s] = "blocked" <=> \E a \in ActionsIn(s) : action[r][a].status = "blocked"

\* Feedback for exhausted retries is about an Action that has none left.
RetryGates ==
  \A f \in feedback : f.source = "retry_exhaustion" => AttemptOf(f.agent) = MaxRetries + 1

\* The inductive invariant of the gates.
GateInv == StateGates /\ RetryGates

\* Neither a State nor an Action of a Run that is not blocked is blocked, and
\* it has no Feedback.
LEMMA UnblockedRun ==
  ASSUME HistoryInv, StateGates, NEW r \in Run, run[r].status # "blocked"
  PROVE  /\ FeedbackOf(r) = {}
         /\ \A a \in Action : action[r][a].status # "blocked"
         /\ \A s \in State : state[r][s] # "blocked"
<1>1. FeedbackOf(r) = {} /\ BlockedIn(r) = {}
  BY DEF HistoryInv, RunHistory, BlockHistory
<1>2. \A a \in Action : action[r][a].status # "blocked"
  BY <1>1 DEF BlockedIn
<1> QED BY <1>1, <1>2 DEF StateGates, ActionsIn

\* A step of one Run keeps the gates of all when it blocks nothing in it.
LEMMA UnblockedGates ==
  ASSUME TypeOK, HistoryInv, GateInv, NEW r \in Run, OnlyRun(r), \A j \in AgentId : SameAgent(j),
         run[r].status # "blocked", UNCHANGED feedback,
         \A a \in Action : action'[r][a].status # "blocked",
         \A s \in State : state'[r][s] # "blocked"
  PROVE  GateInv'
<1>1. StateGates'
  BY DEF GateInv, StateGates, ActionsIn, OnlyRun
<1>2. ASSUME NEW f \in feedback
      PROVE  AttemptOf(f.agent)' = AttemptOf(f.agent)
  <2>1. f.agent \in AgentId /\ agent[f.agent].run # r
    BY <1>2, UnblockedRun DEF GateInv, FeedbackOf, HistoryInv, FeedbackFits
  <2> QED BY <2>1, AgentFields DEF AttemptOf, OnlyRun, SameAgent
<1>3. RetryGates'
  BY <1>2 DEF GateInv, RetryGates
<1> QED BY <1>1, <1>3 DEF GateInv

\* So does a step that writes no Action and no Feedback and blocks no State.
LEMMA QuietGates ==
  ASSUME GateInv, HistoryInv, Quiet, UNCHANGED state
  PROVE  GateInv'
<1>1. \A f \in feedback : AttemptOf(f.agent)' = AttemptOf(f.agent)
  BY DEF HistoryInv, FeedbackFits, Quiet, SameAgent, AttemptOf
<1>2. StateGates' /\ RetryGates'
  BY <1>1 DEF GateInv, StateGates, RetryGates, Quiet
<1> QED BY <1>2 DEF GateInv

\* A State whose Actions are done was not blocked and is not now.
LEMMA CompleteStateGates ==
  ASSUME LineageInv, HistoryInv, GateInv, NEW r \in Run, NEW s \in State, CompleteState(r, s)
  PROVE  GateInv'
<1> USE DEF LineageInv
<1>1. Quiet
  BY RunStepQuiet
<1>2. Open(r) /\ TypeOK /\ state' = [state EXCEPT ![r][s] = "done"]
  BY DEF CompleteState
<1>3. \A t \in State : state[r][t] # "blocked"
  BY <1>2, UnblockedRun DEF GateInv, Open
<1>4. \A q \in Run, t \in State : state'[q][t] = "blocked" <=> state[q][t] = "blocked"
  BY ONLY <1>2, <1>3 DEF TypeOK
<1>5. \A f \in feedback : AttemptOf(f.agent)' = AttemptOf(f.agent)
  BY <1>1 DEF HistoryInv, FeedbackFits, Quiet, SameAgent, AttemptOf
<1>6. StateGates' /\ RetryGates'
  BY <1>1, <1>4, <1>5 DEF GateInv, StateGates, RetryGates, Quiet
<1> QED BY <1>6 DEF GateInv

\* What a continuation imports is done, the rest waits.
LEMMA StartGates ==
  ASSUME LineageInv, HistoryInv, GateInv, NEW r \in Run, NEW imported \in Importable, Start(r, imported)
  PROVE  GateInv'
<1>1. \A s \in State : state'[r][s] # "blocked"
  BY DEF Start, LineageInv, TypeOK
<1> QED BY <1>1, StartRows, UnblockedGates DEF LineageInv

\* The selected State runs.
LEMMA AdvanceGates ==
  ASSUME LineageInv, HistoryInv, GateInv, NEW r \in Run, NEW s \in State, NEW a \in Action,
         Advance(r, s, a)
  PROVE  GateInv'
<1>1. Open(r) /\ TypeOK /\ state' = [state EXCEPT ![r][s] = "running"]
  BY DEF Advance, Selectable, LineageInv
<1>2. /\ \A b \in Action : action[r][b].status # "blocked"
      /\ \A t \in State : state[r][t] # "blocked"
  BY <1>1, UnblockedRun DEF GateInv, Open
<1>3. \A t \in State : state'[r][t] # "blocked"
  BY ONLY <1>1, <1>2, r \in Run, s \in State DEF TypeOK
<1>4. \A b \in Action : action'[r][b].status # "blocked"
  BY <1>2, AdvanceRows
<1> QED BY <1>1, <1>3, <1>4, AdvanceRows, UnblockedGates DEF Open

\* A stop leaves the Run without a blocked State or Action.
LEMMA StopGates ==
  ASSUME LineageInv, HistoryInv, GateInv, NEW r \in Run, NEW kind \in {"cancelled", "interrupted"},
         Stop(r, kind), UNCHANGED feedback
  PROVE  GateInv'
<1>1. Open(r) /\ TypeOK
  BY DEF Stop, LineageInv
<1>2. /\ \A b \in Action : action[r][b].status # "blocked"
      /\ \A t \in State : state[r][t] # "blocked"
  BY <1>1, UnblockedRun DEF GateInv, Open
<1>3. \A b \in Action : action'[r][b].status # "blocked"
  BY <1>2, StopRows
<1>4. \A t \in State : state'[r][t] # "blocked"
  <2>1. CASE run[r].state = 0
    BY <1>2, <2>1 DEF Stop
  <2>2. CASE run[r].state # 0
    <3> DEFINE s == run[r].state
    <3>1. state' = [state EXCEPT ![r][s] = kind] /\ kind # "blocked"
      BY <2>2 DEF Stop
    <3> HIDE DEF s
    <3> QED BY ONLY <1>1, <1>2, <3>1, r \in Run DEF TypeOK
  <2> QED BY <2>1, <2>2
<1> QED BY <1>1, <1>3, <1>4, StopRows, UnblockedGates DEF Open

\* Steps inside the active Action.
LEMMA WorkGates ==
  ASSUME LineageInv, HistoryInv, GateInv,
         \/ \E r \in Run : FinalizeSucceeds(r) \/ \E a \in Action : DispatchPrecheck(r, a)
         \/ \E i \in AgentId : FinishAction(i) \/ DispatchNext(i) \/ Answer(i)
  PROVE  GateInv'
<1> USE DEF LineageInv
<1>1. ASSUME NEW r \in Run, FinalizeSucceeds(r) \/ \E a \in Action : DispatchPrecheck(r, a)
      PROVE  GateInv'
  <2>1. /\ run[r].status = "running" /\ UNCHANGED <<state, action, feedback>>
        /\ OnlyRun(r) /\ \A j \in AgentId : SameAgent(j)
    BY <1>1, FinalizeSucceedsRows, DispatchPrecheckRows
  <2> QED BY <2>1, UnblockedRun, UnblockedGates DEF GateInv
<1>2. ASSUME NEW i \in AgentId, FinishAction(i) \/ DispatchNext(i) \/ Answer(i)
      PROVE  GateInv'
  <2>1. PICK r, a : r = agent[i].run /\ a = agent[i].action
    OBVIOUS
  <2>2. /\ r \in Run /\ run[r].status = "running" /\ UNCHANGED <<state, feedback>>
        /\ OnlyRun(r) /\ \A j \in AgentId : SameAgent(j)
        /\ \A b \in Action \ {a} : action'[r][b].status = action[r][b].status
        /\ action'[r][a].status # "blocked"
    <3>1. CASE FinishAction(i)
      BY <2>1, <3>1, FinishActionRows
    <3>2. CASE DispatchNext(i)
      BY <2>1, <3>2, DispatchNextRows DEF NextPhase, StatusDuring
    <3>3. CASE Answer(i)
      BY <2>1, <3>3, AnswerRows
    <3> QED BY <1>2, <3>1, <3>2, <3>3
  <2>3. /\ \A b \in Action : action'[r][b].status # "blocked"
        /\ \A s \in State : state'[r][s] # "blocked"
    BY <2>2, UnblockedRun DEF GateInv
  <2> QED BY <2>2, <2>3, UnblockedGates
<1> QED BY <1>1, <1>2

\* A block writes the Action, its State and its Feedback together.
LEMMA BlockActionGates ==
  ASSUME LineageInv, HistoryInv, GateInv, NEW i \in AgentId, BlockAction(i)
  PROVE  GateInv'
<1> USE DEF LineageInv
<1>1. PICK r, a : r = agent[i].run /\ a = agent[i].action
  OBVIOUS
<1>2. /\ r \in Run /\ a \in Action /\ run[r].status = "running"
      /\ action'[r][a].status = "blocked" /\ action'[r][a].attempt = action[r][a].attempt
      /\ \A b \in Action \ {a} : action'[r][b] = action[r][b]
      /\ feedback' = feedback \cup {[agent |-> i, source |-> BlockSource(i)]}
      /\ OnlyRun(r) /\ \A j \in AgentId : SameAgent(j)
  BY <1>1, BlockActionRows
<1>3. /\ FeedbackOf(r) = {}
      /\ \A b \in Action : action[r][b].status # "blocked"
      /\ \A t \in State : state[r][t] # "blocked"
  BY <1>2, UnblockedRun DEF GateInv
<1>4. \A t \in State : state'[r][t] = "blocked" <=> t = StateOf[a]
  <2>1. state' = [state EXCEPT ![r][StateOf[a]] = "blocked"] /\ TypeOK /\ StateOf[a] \in State
    BY <1>1, <1>2, StateOfAssumption DEF BlockAction
  <2> QED BY ONLY <1>2, <1>3, <2>1 DEF TypeOK
<1>5. StateGates'
  <2>1. ASSUME NEW t \in State
        PROVE  state'[r][t] = "blocked" <=> \E b \in ActionsIn(t) : action'[r][b].status = "blocked"
    BY <1>2, <1>3, <1>4, StateOfAssumption DEF ActionsIn
  <2>2. ASSUME NEW q \in Run, q # r, NEW t \in State
        PROVE  state'[q][t] = "blocked" <=> \E b \in ActionsIn(t) : action'[q][b].status = "blocked"
    <3>1. state'[q] = state[q] /\ action'[q] = action[q]
      BY <1>2, <2>2 DEF OnlyRun
    <3> QED BY <3>1 DEF GateInv, StateGates
  <2> QED BY <2>1, <2>2 DEF StateGates, ActionsIn
<1>6. RetryGates'
  <2>1. ASSUME NEW f \in feedback, f.source = "retry_exhaustion"
        PROVE  AttemptOf(f.agent)' = MaxRetries + 1
    <3>1. f.agent \in AgentId /\ agent[f.agent].run # r
      BY <1>3, <2>1 DEF FeedbackOf, HistoryInv, FeedbackFits
    <3>2. AttemptOf(f.agent)' = AttemptOf(f.agent)
      BY <1>2, <3>1, AgentFields DEF AttemptOf, OnlyRun, SameAgent
    <3> QED BY <2>1, <3>2 DEF GateInv, RetryGates
  <2>2. ASSUME BlockSource(i) = "retry_exhaustion"
        PROVE  AttemptOf(i)' = MaxRetries + 1
    <3>1. agent[i].outcome = "retry" /\ Applicable(i) /\ ~Continues(i)
      BY <2>2 DEF BlockSource, BlockAction
    <3>2. ActionHistory(r, a) /\ action[r][a].attempt \in Nat
      BY <1>1, <3>1, AppliedAgent
    <3>3. action[r][a].attempt = MaxRetries + 1
      BY <1>1, <3>1, <3>2, ConstantsAssumption DEF Continues, RetryLeft, AttemptOf, ActionHistory
    <3> QED BY <1>1, <1>2, <3>3 DEF AttemptOf, SameAgent
  <2>3. PICK g : g = [agent |-> i, source |-> BlockSource(i)]
    OBVIOUS
  <2>4. g.agent = i /\ g.source = BlockSource(i) /\ feedback' = feedback \cup {g}
    BY <1>2, <2>3
  <2> QED BY <2>1, <2>2, <2>4 DEF RetryGates
<1> QED BY <1>5, <1>6 DEF GateInv

\* Only these handlers write the status of a State.
LEMMA StateWrites ==
  ASSUME [Next]_vars, state' # state
  PROVE  Moves \/ \E r \in Run, s \in State : CompleteState(r, s)
<1>1. ~UNCHANGED durable /\ ~UNCHANGED vars
  BY DEF durable, vars
<1>2. CASE \E r \in Run : ProgressStep(r) \/ FinalizeStep(r)
  BY <1>1, <1>2 DEF ProgressStep, FinalizeStep, Moves, ProgressReturns, ProgressRefused,
     PrecheckTooLong, ClaimFinalization, FinalizeFails, FinalizeStale
<1>3. CASE PumpStep \/ ProviderStep \/ \E i \in AgentId : DaemonClaim(i)
  BY <1>1, <1>3 DEF PumpStep, ProviderStep, DaemonClaim, TakeAnswered, TakeRunnable,
     TakeCancelled, PumpRests, ProviderIgnored, ProviderAnswers, WorkAsks, WorkAskRefused
<1>4. CASE ApplyStep
  BY <1>1, <1>4 DEF ApplyStep, ApplyRefused, Moves
<1>5. CASE HttpStep
  BY <1>5 DEF HttpStep, Cancel, Moves
<1>6. CASE ShutdownStep
  BY <1>1, <1>6 DEF ShutdownStep, InterruptRun, InterruptRefused, InterruptsDone, ShutdownExits,
     Moves
<1>7. CASE BootStep
  BY <1>1, <1>7 DEF BootStep, Restart, RecoverTasks, RecoverFinalizations, RequeueEnds, Boot,
     RequeueTask, ResumeFinalization
<1>8. CASE Shutdown \/ ShutdownFails \/ Crash \/ StartServer \/ CleanupStep
  BY <1>1, <1>8 DEF Shutdown, ShutdownFails, Crash, StartServer, CleanupStep, CleanupEnds,
     CleanupFails
<1> QED BY <1>1, <1>2, <1>3, <1>4, <1>5, <1>6, <1>7, <1>8 DEF Next

\* Nothing is blocked before anything is started.
LEMMA InitGates == Init => GateInv
  BY DEF Init, GateInv, StateGates, RetryGates, ActionsIn

\* Every step of the server, a crash included, keeps the gates.
LEMMA NextGates == LineageInv /\ HistoryInv /\ GateInv /\ [Next]_vars => GateInv'
<1> SUFFICES ASSUME LineageInv, HistoryInv, GateInv, [Next]_vars PROVE GateInv'
  OBVIOUS
<1>1. CASE Moves
  BY <1>1, StartGates, AdvanceGates, StopGates, WorkGates, BlockActionGates DEF Moves
<1>2. CASE \E r \in Run, s \in State : CompleteState(r, s)
  BY <1>2, CompleteStateGates
<1>3. CASE Quiet /\ UNCHANGED state
  BY <1>3, QuietGates
<1> QED BY <1>1, <1>2, <1>3, QuietOrMoves, StateWrites

\* What the rows of every Run say, the rules derive.
RulesAgree == \A r \in Run : RowsAgree(r) /\ BudgetAgrees(r)

\* Every State has an Action, and there is a State.
LEMMA NoneEmpty ==
  /\ State # {} /\ \A s \in State : ActionsIn(s) # {}
  /\ \A a \in Action : StateOf[a] \in State /\ a \in ActionsIn(StateOf[a])
<1>1. 1 \in State
  BY ConstantsAssumption DEF State
<1> QED BY <1>1, StateOfAssumption DEF ActionsIn

\* What a status derived from the statuses below says.
LEMMA DerivedStatus ==
  ASSUME NEW status, NEW whole, whole \notin {"blocked", "pending", "running"}
  PROVE  /\ Derived(status, whole) = "blocked" <=> Some(status, "blocked")
         /\ EveryDone(status) => Derived(status, whole) = whole
<1>1. EveryDone(status) => ~Some(status, "blocked")
  BY DEF EveryDone, Some
<1> QED BY <1>1 DEF Derived

\* The lineage, the history and the gates of a Run make the rules agree with it.
LEMMA InvRules == LineageInv /\ HistoryInv /\ GateInv => RulesAgree
<1> SUFFICES ASSUME LineageInv, HistoryInv, GateInv, NEW r \in Run
             PROVE  RowsAgree(r) /\ BudgetAgrees(r)
  BY DEF RulesAgree
<1> USE DEF LineageInv
<1>1. /\ RunView(r).status = run[r].status
      /\ \A s \in State : RunView(r).states[s].blocked = Some(StatusesIn(r, s), "blocked")
      /\ \A a \in Action : /\ RunView(r).actions[a].done = (action[r][a].status = "done")
                           /\ RunView(r).actions[a].blocked = (action[r][a].status = "blocked")
      /\ RunView(r).activeAgent = IF run[r].agent = 0 THEN {} ELSE {agent[run[r].agent]}
  BY DEF RunView, StateFlags, ActionFlags
<1>2. \A s \in State : /\ DOMAIN StatusesIn(r, s) = ActionsIn(s)
                       /\ \A a \in ActionsIn(s) : StatusesIn(r, s)[a] = action[r][a].status
  BY DEF StatusesIn
<1>3. \A s \in State : Some(StatusesIn(r, s), "blocked") <=> state[r][s] = "blocked"
  BY <1>2 DEF Some, GateInv, StateGates
<1>4. DOMAIN state[r] = State
  BY DEF TypeOK
<1>5. ASSUME NEW s \in State, state[r][s] = "done"
      PROVE  DeriveStateStatus(StatusesIn(r, s)) = "done"
  <2>1. AllDone(r, s)
    BY <1>5 DEF RowsFit, StatesSound
  <2>2. EveryDone(StatusesIn(r, s))
    BY <1>2, <2>1, NoneEmpty DEF AllDone, EveryDone
  <2> QED BY <2>2, DerivedStatus DEF DeriveStateStatus
<1>6. run[r].status = "blocked" <=> DeriveEnvironmentStatus(state[r]) = "blocked"
  <2>1. run[r].status = "blocked" <=> \E a \in Action : action[r][a].status = "blocked"
    <3>1. CASE run[r].status = "blocked"
      <4>1. PICK f \in feedback : BlockedIn(r) = {agent[f.agent].action}
        BY <3>1 DEF HistoryInv, RunHistory, BlockHistory
      <4> QED BY <3>1, <4>1 DEF BlockedIn
    <3>2. CASE run[r].status # "blocked"
      BY <3>2, UnblockedRun DEF GateInv
    <3> QED BY <3>1, <3>2
  <2>2. (\E a \in Action : action[r][a].status = "blocked") <=> Some(state[r], "blocked")
    <3>1. Some(state[r], "blocked") <=>
            \E s \in State : \E a \in ActionsIn(s) : action[r][a].status = "blocked"
      BY <1>4 DEF Some, GateInv, StateGates
    <3> QED BY <3>1, NoneEmpty DEF ActionsIn
  <2> QED BY <2>1, <2>2, DerivedStatus DEF DeriveEnvironmentStatus
<1>7. ASSUME run[r].status = "completed"
      PROVE  DeriveEnvironmentStatus(state[r]) = "completed"
  <2>1. StatesDone(r)
    BY <1>7 DEF HistoryInv, RunHistory, CompleteHistory
  <2>2. EveryDone(state[r])
    BY <1>4, <2>1, NoneEmpty DEF StatesDone, EveryDone
  <2> QED BY <2>2, DerivedStatus DEF DeriveEnvironmentStatus
<1>8. ASSUME NEW x \in RunView(r).activeAgent
      PROVE  /\ x.action \in Action
             /\ action[r][x.action].status \in ActiveStatus
             /\ x.phase = "work" => action[r][x.action].attempt \in Nat
                                    /\ action[r][x.action].attempt <= MaxRetries
  <2>1. run[r].agent # 0 /\ x = agent[run[r].agent]
    BY <1>1, <1>8
  <2>2. PICK i \in AgentId : i = run[r].agent /\ agent[i].run = r /\ Pending(i)
    BY <2>1 DEF RowsFit, ActiveLineage
  <2>3. x.action \in Action /\ action[r][x.action].status = StatusDuring(x.phase)
        /\ action[r][x.action].status \in ActiveStatus
    BY <2>1, <2>2, PendingLineage, AgentFields
  <2>4. ASSUME x.phase = "work"
        PROVE  action[r][x.action].attempt <= MaxRetries /\ action[r][x.action].attempt \in Nat
    <3>1. ActionHistory(r, x.action) /\ action[r][x.action].status = "working"
      BY <2>3, <2>4 DEF HistoryInv, RunHistory, StatusDuring
    <3> QED BY <2>3, <3>1, RowTypes DEF ActionHistory, ActionRow
  <2> QED BY <2>3, <2>4
<1>9. \A x \in RunView(r).activeAgent :
        ~RunView(r).actions[x.action].done /\ ~RunView(r).actions[x.action].blocked
  BY <1>1, <1>8 DEF ActiveStatus
<1>10. RowsAgree(r)
  BY <1>1, <1>3, <1>5, <1>6, <1>7, <1>9 DEF RowsAgree
<1>11. \A n \in Nat : RetryBudget(MaxRetries, n).exhausted <=> n >= 1 + MaxRetries
  BY DEF RetryBudget
<1>12. ASSUME NEW x \in RunView(r).activeAgent, x.phase = "work"
       PROVE  ~RetryBudget(MaxRetries, action[r][x.action].attempt).exhausted
  BY <1>8, <1>11, <1>12, ConstantsAssumption
<1>13. ASSUME NEW f \in FeedbackOf(r), f.source = "retry_exhaustion"
       PROVE  RetryBudget(MaxRetries, action[r][agent[f.agent].action].attempt).exhausted
  <2>1. f \in feedback /\ agent[f.agent].run = r
    BY DEF FeedbackOf
  <2>2. action[r][agent[f.agent].action].attempt = MaxRetries + 1
    BY <1>13, <2>1 DEF GateInv, RetryGates, AttemptOf
  <2> QED BY <1>11, <2>2, ConstantsAssumption
<1>14. BudgetAgrees(r)
  BY <1>12, <1>13 DEF BudgetAgrees
<1> QED BY <1>10, <1>14

\* The store's queries name the one State and the one Action the rules name.
LEMMA AdvanceByRules ==
  ASSUME LineageInv, NEW r \in Run, NEW s \in State, NEW a \in Action, Advance(r, s, a)
  PROVE  /\ StateOf[a] = s
         /\ NextRunnableState(state[r]) = {s} /\ NextRunnableAction(StatusesIn(r, s)) = {a}
<1>1. /\ FirstOpenState(r, s) /\ state[r][s] \in {"pending", "running"}
      /\ FirstOpenAction(r, s, a) /\ action[r][a].status = "pending"
  BY DEF Advance, Selectable
<1>2. DOMAIN state[r] = State /\ \A t, u \in State : t < u \/ t = u \/ u < t
  BY DEF LineageInv, TypeOK, State
<1>3. FirstOpen(state[r]) = {s}
  BY <1>1, <1>2 DEF FirstOpen, FirstOpenState
<1>4. /\ DOMAIN StatusesIn(r, s) = ActionsIn(s) /\ a \in ActionsIn(s)
      /\ \A b \in ActionsIn(s) : StatusesIn(r, s)[b] = action[r][b].status
      /\ \A b, c \in ActionsIn(s) : b < c \/ b = c \/ c < b
  BY <1>1 DEF StatusesIn, FirstOpenAction, ActionsIn, Action
<1>5. FirstOpen(StatusesIn(r, s)) = {a}
  BY <1>1, <1>4 DEF FirstOpen, FirstOpenAction
<1>6. NextRunnableState(state[r]) = {s}
  BY <1>1, <1>3 DEF NextRunnableState
<1>7. NextRunnableAction(StatusesIn(r, s)) = {a}
  BY <1>1, <1>4, <1>5 DEF NextRunnableAction
<1> QED BY <1>1, <1>6, <1>7 DEF FirstOpenAction

\* A Run gets an active Action by that step only.
LEMMA NextSelects ==
  LineageInv /\ HistoryInv /\ [Next]_vars => \A r \in Run : SelectedByRules(r)
<1> SUFFICES ASSUME LineageInv, HistoryInv, [Next]_vars, NEW r \in Run,
                    run'[r].action \notin {0, run[r].action}
             PROVE  SelectedByRules(r)
  BY DEF SelectedByRules
<1>1. Moves
  BY QuietOrMoves DEF Quiet
<1>2. ASSUME NEW q \in Run, OnlyRun(q), run'[q].action \in {0, run[q].action} PROVE FALSE
  BY <1>2 DEF OnlyRun
<1>3. ASSUME NEW q \in Run, FinalizeSucceeds(q) \/ (\E imported \in Importable : Start(q, imported))
                            \/ \E a \in Action : DispatchPrecheck(q, a)
      PROVE  FALSE
  BY <1>2, <1>3, FinalizeSucceedsRows, StartRows, DispatchPrecheckRows
<1>4. ASSUME NEW q \in Run, NEW kind \in {"cancelled", "interrupted"}, Stop(q, kind) PROVE FALSE
  BY <1>2, <1>4, StopRows
<1>5. ASSUME NEW i \in AgentId, FinishAction(i) \/ DispatchNext(i) \/ BlockAction(i) \/ Answer(i)
      PROVE  FALSE
  <2>1. PICK q, a : q = agent[i].run /\ a = agent[i].action
    OBVIOUS
  <2>2. q \in Run /\ OnlyRun(q) /\ run'[q].action \in {0, run[q].action}
    BY <1>5, <2>1, FinishActionRows, DispatchNextRows, BlockActionRows, AnswerRows
  <2> QED BY <1>2, <2>2
<1>6. ASSUME NEW q \in Run, NEW s \in State, NEW a \in Action, Advance(q, s, a)
      PROVE  SelectedByRules(r)
  <2>1. run'[q].action = a /\ OnlyRun(q)
    BY <1>6, AdvanceRows
  <2>2. r = q
    BY <2>1 DEF OnlyRun
  <2> QED BY <1>6, <2>1, <2>2, AdvanceByRules DEF SelectedByRules
<1> QED BY <1>1, <1>3, <1>4, <1>5, <1>6 DEF Moves

\* The server's own queries and the shared gate rules never disagree: what is
\* selected is what the rules select, and what the rows say after every commit
\* is what the rules derive, over retries, continuations, cancellations, crashes
\* and restarts, for every shape of the Environment.
THEOREM GatesFollowed == Spec => FollowsGates
<1>1. Init => LineageInv /\ HistoryInv /\ GateInv
  BY InitLineage, InitHistory, InitGates
<1>2. LineageInv /\ HistoryInv /\ GateInv /\ [Next]_vars => (LineageInv /\ HistoryInv /\ GateInv)'
  BY NextLineage, NextHistory, NextGates
<1>3. (LineageInv /\ HistoryInv /\ GateInv)' => RulesAgree'
  BY InvRules, PTL
<1>4. (\A r \in Run : SelectedByRules(r)) /\ RulesAgree'
        => \A r \in Run : SelectedByRules(r) /\ (RowsAgree(r) /\ BudgetAgrees(r))'
  BY DEF RulesAgree
<1> QED BY <1>1, <1>2, <1>3, <1>4, NextSelects, PTL DEF Spec, FollowsGates
==============================================================================
