------------------------ MODULE RefinementFlowProofs ------------------------
(***************************************************************************)
(* Proofs about RefinementFlow for every set of Feedback, Critic proposals *)
(* and Refinement Runs, and any number of Environment Runs and crashes.    *)
(***************************************************************************)
EXTENDS RefinementFlow, TLAPS

-----------------------------------------------------------------------------
(* The inductive invariant *)

\* Where the rows of a proposal, its decision and its apply, the branch and
\* the worker can be together.
Rows ==
  \A r \in Refinement :
    /\ proposal[r] # "none" => refinement[r].status = "completed"
    /\ decision[r] = "rejected" <=> proposal[r] = "rejected"
    /\ decision[r] = "approved" <=> proposal[r] \in {"applying"} \cup ApplyEnd
    /\ apply[r] # "none" => decision[r] = "approved"
    /\ apply[r] \in ApplyEnd \/ proposal[r] \in ApplyEnd => apply[r] = proposal[r]
    /\ worker[r] \in {"checking", "committed"} => apply[r] = "running"
    /\ worker[r] = "checking" => ~commit[r]
    /\ worker[r] = "committed" \/ apply[r] = "applied" => commit[r]
    /\ commit[r] => apply[r] \notin {"none", "stale"}

\* Runs are created in the order of their numbers.
Numbered == \A d, e \in Run : d < e /\ run[e] # "none" => run[d] # "none"

\* A link is what an applied proposal has, and only that.
Lineage ==
  /\ \A l \in link :
       /\ apply[l.refinement] = "applied"
       /\ l.source = refinement[l.refinement].source
       /\ l.source < l.continuation
       /\ run[l.source] \in Terminal
       /\ run[l.continuation] # "none"
  /\ \A k, l \in link :
       k.source = l.source \/ k.continuation = l.continuation \/ k.refinement = l.refinement => k = l
  /\ \A r \in Refinement : apply[r] = "applied" => \E l \in link : l.refinement = r

\* A Refinement Run has its Feedback from its creation, and holds it until a
\* rejection.
Holding ==
  /\ \A r \in Refinement : refinement[r].status = "none" => refinement[r].feedback = NoFeedback
  /\ \A f \in Feedback :
       /\ \A r, s \in Holders(f) : r = s
       /\ feedback[f].status \in {"none", "open"} => Holders(f) = {}
       /\ feedback[f].status = "in_refinement" =>
            /\ Holders(f) # {}
            /\ \A r \in Holders(f) : proposal[r] # "none" => feedback[f].proposal = r

Inv == TypeOK /\ Rows /\ Numbered /\ Lineage /\ Holding

-----------------------------------------------------------------------------
(* Types *)

\* Every entry the code writes is an entry.
LEMMA EntryType ==
  ASSUME NEW status \in FeedbackStatus, NEW e \in Run \cup {NoRun},
         NEW c \in Critic \cup {NoCritic}, NEW r \in Refinement \cup {NoRefinement}
  PROVE  Entry(status, e, c, r) \in FeedbackRow
  BY DEF Entry, FeedbackRow

\* Changing the status of an entry, or its proposal, leaves entries.
LEMMA FeedbackUpdates ==
  ASSUME feedback \in [Feedback -> FeedbackRow], NEW f \in Feedback
  PROVE  /\ \A status \in FeedbackStatus : [feedback EXCEPT ![f].status = status] \in [Feedback -> FeedbackRow]
         /\ \A r \in Refinement : [feedback EXCEPT ![f].proposal = r] \in [Feedback -> FeedbackRow]
<1>1. feedback[f] \in FeedbackRow
  OBVIOUS
<1>2. \A status \in FeedbackStatus : [feedback[f] EXCEPT !.status = status] \in FeedbackRow
  BY <1>1 DEF FeedbackRow
<1>3. \A r \in Refinement : [feedback[f] EXCEPT !.proposal = r] \in FeedbackRow
  BY <1>1 DEF FeedbackRow
<1> QED BY <1>2, <1>3

\* So does changing the status of a Critic proposal or of a Refinement Run.
LEMMA CriticUpdates ==
  ASSUME critic \in [Critic -> CriticRow], NEW c \in Critic
  PROVE  /\ critic[c].run \in Run \cup {NoRun}
         /\ \A status \in {"approved", "rejected"} : [critic EXCEPT ![c].status = status] \in [Critic -> CriticRow]
BY DEF CriticRow

LEMMA RefinementUpdates ==
  ASSUME TypeOK, NEW r \in Refinement, NEW status \in {"completed", "failed"},
         refinement[r].status = "queued", refinement' = [refinement EXCEPT ![r].status = status]
  PROVE  /\ refinement' \in [Refinement -> RefinementRow]
         /\ \A s \in Refinement :
              /\ refinement'[s].source = refinement[s].source
              /\ refinement'[s].feedback = refinement[s].feedback
              /\ (refinement'[s].status = "none") <=> (refinement[s].status = "none")
<1>1. refinement \in [Refinement -> RefinementRow] /\ refinement[r] \in RefinementRow
  BY DEF TypeOK
<1>2. refinement'[r] = [refinement[r] EXCEPT !.status = status]
  BY <1>1
<1>3. refinement'[r] \in RefinementRow
  BY <1>1, <1>2 DEF RefinementRow
<1>4. \A s \in Refinement : s # r => refinement'[s] = refinement[s]
  BY <1>1
<1>5. refinement' \in [Refinement -> RefinementRow]
  BY <1>1, <1>3
<1>6. /\ refinement'[r].source = refinement[r].source
      /\ refinement'[r].feedback = refinement[r].feedback
      /\ refinement'[r].status = status
  BY <1>1, <1>2 DEF RefinementRow
<1> QED BY <1>4, <1>5, <1>6

THEOREM InitTypes == Init => TypeOK
BY RefinementAssumption, EntryType
   DEF Init, TypeOK, NoEntry, NoRun, CriticRow, RefinementRow, RunStatus, FeedbackStatus, ProposalStatus, Run

\* Both rows and the worker keep their types when a result is recorded.
LEMMA RecordTypes ==
  ASSUME TypeOK, NEW r \in Refinement, NEW result \in ApplyEnd,
         NEW next \in {"idle", "checking", "committed", "applied"}, Record(r, result, next)
  PROVE  /\ apply' \in [Refinement -> {"none", "running"} \cup ApplyEnd]
         /\ proposal' \in [Refinement -> ProposalStatus]
         /\ worker' \in [Refinement -> {"idle", "checking", "committed", "applied"}]
BY DEF TypeOK, Record, ProposalStatus

LEMMA StepTypes == TypeOK /\ Rows /\ [Next]_vars => TypeOK'
<1> SUFFICES ASSUME TypeOK, Rows, [Next]_vars PROVE TypeOK'
  OBVIOUS
<1> USE DEF TypeOK, applies, reviews
<1>1. ASSUME NEW e \in Run, StartRun(e) \/ CompleteRun(e) \/ StopRun(e) PROVE TypeOK'
  BY <1>1 DEF StartRun, CompleteRun, StopRun, RunStatus
<1>2. ASSUME NEW e \in Run, NEW f \in Feedback, BlockRun(e, f) PROVE TypeOK'
  BY <1>2, EntryType DEF BlockRun, RunStatus, FeedbackStatus
<1>3. ASSUME NEW f \in Feedback, NEW e \in Run \cup {NoRun}, CreateHumanFeedback(f, e) PROVE TypeOK'
  BY <1>3, EntryType DEF CreateHumanFeedback, FeedbackStatus
<1>4. ASSUME NEW f \in Feedback, DecideFeedback(f) PROVE TypeOK'
  BY <1>4, FeedbackUpdates DEF DecideFeedback, FeedbackStatus
<1>5. ASSUME NEW c \in Critic, NEW e \in Run, CreateCriticProposal(c, e) PROVE TypeOK'
  BY <1>5 DEF CreateCriticProposal, CriticRow
<1>6. ASSUME NEW c \in Critic, RejectCritic(c) PROVE TypeOK'
  BY <1>6, CriticUpdates DEF RejectCritic
<1>7. ASSUME NEW c \in Critic, NEW f \in Feedback, ApproveCritic(c, f) PROVE TypeOK'
  BY <1>7, CriticUpdates, EntryType DEF ApproveCritic, CriticEntry, FeedbackStatus
<1>8. ASSUME NEW f \in Feedback, NEW r \in Refinement, CreateRefinement(f, r) PROVE TypeOK'
  <2>1. feedback[f].run \in Run
    BY <1>8 DEF CreateRefinement, Refinable, FeedbackRow
  <2>2. [status |-> "queued", source |-> feedback[f].run, feedback |-> f] \in RefinementRow
    BY <2>1 DEF RefinementRow
  <2>3. refinement' \in [Refinement -> RefinementRow]
    BY <1>8, <2>2 DEF CreateRefinement
  <2>4. \A s \in Refinement : refinement'[s].status # "none" =>
          refinement'[s].source \in Run /\ refinement'[s].feedback \in Feedback
    BY <1>8, <2>1 DEF CreateRefinement
  <2>5. feedback' \in [Feedback -> FeedbackRow]
    BY <1>8, FeedbackUpdates DEF CreateRefinement, FeedbackStatus
  <2> QED BY <1>8, <2>3, <2>4, <2>5 DEF CreateRefinement
<1>9. ASSUME NEW r \in Refinement, CreateRefinementProposal(r) PROVE TypeOK'
  <2>1. refinement[r].feedback \in Feedback
    BY <1>9 DEF CreateRefinementProposal
  <2>2. feedback' \in [Feedback -> FeedbackRow]
    BY <1>9, <2>1, FeedbackUpdates DEF CreateRefinementProposal, Bound
  <2>3. /\ refinement' \in [Refinement -> RefinementRow]
        /\ \A s \in Refinement : refinement'[s].status # "none" =>
             refinement'[s].source \in Run /\ refinement'[s].feedback \in Feedback
    BY <1>9, RefinementUpdates DEF CreateRefinementProposal
  <2>4. proposal' \in [Refinement -> ProposalStatus]
    BY <1>9 DEF CreateRefinementProposal, ProposalStatus
  <2> QED BY <1>9, <2>2, <2>3, <2>4 DEF CreateRefinementProposal
<1>10. ASSUME NEW r \in Refinement, RefinementFails(r) PROVE TypeOK'
  BY <1>10, RefinementUpdates DEF RefinementFails
<1>11. ASSUME NEW r \in Refinement, ApproveRefinement(r) PROVE TypeOK'
  BY <1>11 DEF ApproveRefinement, ProposalStatus
<1>12. ASSUME NEW r \in Refinement, RejectRefinement(r) PROVE TypeOK'
  <2>1. refinement[r].feedback \in Feedback
    BY <1>12 DEF RejectRefinement, Rows
  <2>2. feedback' \in [Feedback -> FeedbackRow]
    BY <1>12, <2>1, FeedbackUpdates DEF RejectRefinement, Reopened, FeedbackStatus
  <2>3. proposal' \in [Refinement -> ProposalStatus]
    BY <1>12 DEF RejectRefinement, ProposalStatus
  <2> QED BY <1>12, <2>2, <2>3 DEF RejectRefinement
<1>13. ASSUME NEW r \in Refinement, ClaimApply(r) PROVE TypeOK'
  BY <1>13 DEF ClaimApply
<1>14. ASSUME NEW r \in Refinement, RecordStale(r) \/ RecordFailed(r) PROVE TypeOK'
  BY <1>14, RecordTypes DEF RecordStale, RecordFailed, ApplyEnd
<1>15. ASSUME NEW r \in Refinement, Commit(r) PROVE TypeOK'
  BY <1>15 DEF Commit
<1>16. ASSUME NEW r \in Refinement, NEW e \in Run, RecordApplied(r, e) PROVE TypeOK'
  <2>1. refinement[r].status = "completed"
    BY <1>16 DEF RecordApplied, Record, Rows
  <2>2. Link(r, e) \in LinkRow
    BY <2>1 DEF Link, LinkRow, RefinementRow
  <2> QED BY <1>16, <2>2, RecordTypes DEF RecordApplied, ApplyEnd, RunStatus
<1>17. ASSUME NEW r \in Refinement, NEW e \in Run, ResumeContinuation(r, e) PROVE TypeOK'
  BY <1>17 DEF ResumeContinuation, RunStatus
<1>18. CASE Crash
  BY <1>18, RefinementAssumption DEF Crash
<1>19. CASE UNCHANGED vars
  BY <1>19 DEF vars
<1> QED BY <1>1, <1>2, <1>3, <1>4, <1>5, <1>6, <1>7, <1>8, <1>9, <1>10, <1>11, <1>12, <1>13, <1>14,
           <1>15, <1>16, <1>17, <1>18, <1>19 DEF Next, FeedbackRequests, ReviewRequests, ApplyStep
-----------------------------------------------------------------------------
(* Rows *)

\* Nothing but these touches the rows of a proposal or its worker.
LEMMA RowsFrame ==
  ASSUME Rows, UNCHANGED <<proposal, decision, apply, commit, worker>>,
         \A r \in Refinement : refinement[r].status = "completed" => refinement'[r].status = "completed"
  PROVE  Rows'
BY DEF Rows, ApplyEnd

LEMMA RowsStep == TypeOK /\ Rows /\ [Next]_vars => Rows'
<1> SUFFICES ASSUME TypeOK, Rows, [Next]_vars PROVE Rows'
  OBVIOUS
<1> USE DEF applies, reviews
<1>1. ASSUME NEW e \in Run, StartRun(e) \/ CompleteRun(e) \/ StopRun(e) PROVE Rows'
  BY <1>1, RowsFrame DEF StartRun, CompleteRun, StopRun
<1>2. ASSUME NEW e, NEW f, BlockRun(e, f) \/ CreateHumanFeedback(f, e) \/ DecideFeedback(f)
      PROVE  Rows'
  BY <1>2, RowsFrame DEF BlockRun, CreateHumanFeedback, DecideFeedback
<1>3. ASSUME NEW c, NEW e, CreateCriticProposal(c, e) \/ RejectCritic(c) \/ ApproveCritic(c, e)
      PROVE  Rows'
  BY <1>3, RowsFrame DEF CreateCriticProposal, RejectCritic, ApproveCritic, CriticEntry
<1>4. ASSUME NEW f \in Feedback, NEW r \in Refinement, CreateRefinement(f, r) PROVE Rows'
  <2>1. \A s \in Refinement : refinement[s].status = "completed" => refinement'[s].status = "completed"
    BY <1>4 DEF CreateRefinement, TypeOK
  <2> QED BY <1>4, <2>1, RowsFrame DEF CreateRefinement
<1>5. ASSUME NEW r \in Refinement, RefinementFails(r) PROVE Rows'
  <2>1. \A s \in Refinement : refinement[s].status = "completed" => refinement'[s].status = "completed"
    BY <1>5 DEF RefinementFails, TypeOK
  <2> QED BY <1>5, <2>1, RowsFrame DEF RefinementFails
<1>6. ASSUME NEW r \in Refinement, CreateRefinementProposal(r) PROVE Rows'
  <2>1. \A s \in Refinement : refinement'[s].status = IF s = r THEN "completed" ELSE refinement[s].status
    BY <1>6 DEF CreateRefinementProposal, TypeOK, RefinementRow
  <2>2. \A s \in Refinement : proposal'[s] = IF s = r THEN "pending_human_review" ELSE proposal[s]
    BY <1>6 DEF CreateRefinementProposal, TypeOK
  <2>3. proposal[r] = "none"
    BY <1>6 DEF CreateRefinementProposal, Rows
  <2>4. UNCHANGED <<decision, apply, commit, worker>>
    BY <1>6 DEF CreateRefinementProposal
  <2> QED BY <2>1, <2>2, <2>3, <2>4 DEF Rows, ApplyEnd
<1>7. ASSUME NEW r \in Refinement, ApproveRefinement(r) \/ RejectRefinement(r) PROVE Rows'
  <2>1. \A s \in Refinement : s # r => proposal'[s] = proposal[s] /\ decision'[s] = decision[s]
    BY <1>7 DEF ApproveRefinement, RejectRefinement, TypeOK
  <2>2. \/ proposal'[r] = "applying" /\ decision'[r] = "approved"
        \/ proposal'[r] = "rejected" /\ decision'[r] = "rejected"
    BY <1>7 DEF ApproveRefinement, RejectRefinement, TypeOK
  <2>3. proposal[r] = "pending_human_review" /\ decision[r] = "none"
    BY <1>7 DEF ApproveRefinement, RejectRefinement
  <2>4. UNCHANGED <<refinement, apply, commit, worker>>
    BY <1>7 DEF ApproveRefinement, RejectRefinement
  <2> QED BY <2>1, <2>2, <2>3, <2>4 DEF Rows, ApplyEnd
<1>8. ASSUME NEW r \in Refinement, ClaimApply(r) PROVE Rows'
  <2>1. \A s \in Refinement :
          /\ apply'[s] = IF s = r THEN "running" ELSE apply[s]
          /\ worker'[s] = IF s = r THEN "checking" ELSE worker[s]
    BY <1>8 DEF ClaimApply, TypeOK
  <2>2. UNCHANGED <<refinement, proposal, decision, commit>> /\ Claimable(r)
    BY <1>8 DEF ClaimApply
  <2> QED BY <2>1, <2>2 DEF Rows, ApplyEnd, Claimable
<1>9. ASSUME NEW r \in Refinement, NEW result \in ApplyEnd, NEW next \in {"idle", "applied"},
             Record(r, result, next), UNCHANGED <<refinement, decision, commit>>,
             result = "applied" => commit[r], result = "stale" => ~commit[r]
      PROVE  Rows'
  <2>1. \A s \in Refinement :
          /\ apply'[s] = IF s = r THEN result ELSE apply[s]
          /\ proposal'[s] = IF s = r THEN result ELSE proposal[s]
          /\ worker'[s] = IF s = r THEN next ELSE worker[s]
    <3>1. /\ apply \in [Refinement -> {"none", "running"} \cup ApplyEnd]
          /\ proposal \in [Refinement -> ProposalStatus]
          /\ worker \in [Refinement -> {"idle", "checking", "committed", "applied"}]
      BY DEF TypeOK
    <3> QED BY <1>9, <3>1 DEF Record
  <2>2. apply[r] = "running" /\ proposal[r] = "applying"
    BY <1>9 DEF Record
  <2>3. UNCHANGED <<refinement, decision, commit>>
    BY <1>9
  <2>4. CASE result = "applied"
    BY <1>9, <2>1, <2>2, <2>3, <2>4 DEF Rows, ApplyEnd
  <2>5. CASE result = "stale"
    BY <1>9, <2>1, <2>2, <2>3, <2>5 DEF Rows, ApplyEnd
  <2>6. CASE result = "apply_failed"
    BY <1>9, <2>1, <2>2, <2>3, <2>6 DEF Rows, ApplyEnd
  <2> QED BY <2>4, <2>5, <2>6 DEF ApplyEnd
<1>10. ASSUME NEW r \in Refinement, RecordStale(r) \/ RecordFailed(r) PROVE Rows'
  BY <1>9, <1>10 DEF RecordStale, RecordFailed, Rows, ApplyEnd
<1>11. ASSUME NEW r \in Refinement, NEW e \in Run, RecordApplied(r, e) PROVE Rows'
  BY <1>9, <1>11 DEF RecordApplied, Rows, ApplyEnd
<1>12. ASSUME NEW r \in Refinement, Commit(r) PROVE Rows'
  <2>1. \A s \in Refinement :
          /\ commit'[s] = (s = r \/ commit[s])
          /\ worker'[s] = IF s = r THEN "committed" ELSE worker[s]
    BY <1>12 DEF Commit, TypeOK
  <2>2. UNCHANGED <<refinement, proposal, decision, apply>> /\ worker[r] = "checking"
    BY <1>12 DEF Commit
  <2> QED BY <2>1, <2>2 DEF Rows, ApplyEnd
<1>13. ASSUME NEW r \in Refinement, NEW e \in Run, ResumeContinuation(r, e) PROVE Rows'
  <2>1. \A s \in Refinement : worker'[s] = IF s = r THEN "idle" ELSE worker[s]
    BY <1>13 DEF ResumeContinuation, TypeOK
  <2> QED BY <1>13, <2>1 DEF ResumeContinuation, Rows, ApplyEnd
<1>14. CASE Crash
  BY <1>14 DEF Crash, Rows, ApplyEnd
<1>15. CASE UNCHANGED vars
  BY <1>15, RowsFrame DEF vars
<1> QED BY <1>1, <1>2, <1>3, <1>4, <1>5, <1>6, <1>7, <1>8, <1>10, <1>11, <1>12, <1>13, <1>14, <1>15
        DEF Next, FeedbackRequests, ReviewRequests, ApplyStep
-----------------------------------------------------------------------------
(* Runs and their lineage *)

\* What any step may do to Environment Runs: they begin in the order of their
\* numbers, never vanish, and stay over.
RunsMove ==
  \A e \in Run :
    /\ run[e] # "none" => run'[e] # "none"
    /\ run[e] \in Terminal => run'[e] \in Terminal
    /\ run[e] = "none" /\ run'[e] # "none" => Fresh(e)

LEMMA OneRunMoves ==
  ASSUME TypeOK, NEW e \in Run, NEW status \in RunStatus \ {"none"},
         run' = [run EXCEPT ![e] = status], run[e] \notin Terminal,
         Fresh(e) \/ run[e] # "none"
  PROVE  RunsMove
BY DEF TypeOK, RunsMove

LEMMA RunsStep == TypeOK /\ [Next]_vars => RunsMove
<1> SUFFICES ASSUME TypeOK, [Next]_vars PROVE RunsMove
  OBVIOUS
<1> USE DEF applies, reviews, RunStatus, Terminal
<1>0. ASSUME UNCHANGED run PROVE RunsMove
  BY <1>0 DEF RunsMove
<1>1. ASSUME NEW e \in Run, StartRun(e) PROVE RunsMove
  BY <1>1, OneRunMoves DEF StartRun, Fresh, Created
<1>2. ASSUME NEW e \in Run, CompleteRun(e) \/ StopRun(e) PROVE RunsMove
  BY <1>2, OneRunMoves DEF CompleteRun, StopRun
<1>3. ASSUME NEW e \in Run, NEW f, BlockRun(e, f) PROVE RunsMove
  BY <1>3, OneRunMoves DEF BlockRun
<1>4. ASSUME NEW r, NEW e \in Run, RecordApplied(r, e) PROVE RunsMove
  BY <1>4, OneRunMoves DEF RecordApplied, Fresh, Created
<1>5. ASSUME NEW r, NEW e \in Run, ResumeContinuation(r, e) PROVE RunsMove
  <2>1. CASE run[e] = "pending"
    BY <1>5, <2>1, OneRunMoves DEF ResumeContinuation
  <2> QED BY <1>0, <1>5, <2>1 DEF ResumeContinuation
<1>6. ASSUME NEW f, NEW e, CreateHumanFeedback(f, e) \/ DecideFeedback(f) PROVE RunsMove
  BY <1>0, <1>6 DEF CreateHumanFeedback, DecideFeedback
<1>7. ASSUME NEW c, NEW e, CreateCriticProposal(c, e) \/ RejectCritic(c) \/ ApproveCritic(c, e)
      PROVE  RunsMove
  BY <1>0, <1>7 DEF CreateCriticProposal, RejectCritic, ApproveCritic, CriticEntry
<1>8. ASSUME NEW f, NEW r,
             \/ CreateRefinement(f, r) \/ CreateRefinementProposal(r) \/ RefinementFails(r)
             \/ ApproveRefinement(r) \/ RejectRefinement(r)
      PROVE  RunsMove
  BY <1>0, <1>8 DEF CreateRefinement, CreateRefinementProposal, RefinementFails, ApproveRefinement,
                    RejectRefinement
<1>9. ASSUME NEW r, ClaimApply(r) \/ RecordStale(r) \/ Commit(r) \/ RecordFailed(r)
      PROVE  RunsMove
  BY <1>0, <1>9 DEF ClaimApply, RecordStale, Commit, RecordFailed
<1>10. CASE Crash \/ UNCHANGED vars
  BY <1>0, <1>10 DEF Crash, vars
<1> QED BY <1>1, <1>2, <1>3, <1>4, <1>5, <1>6, <1>7, <1>8, <1>9, <1>10 DEF Next, FeedbackRequests, ReviewRequests, ApplyStep

LEMMA NumberedStep == TypeOK /\ Numbered /\ [Next]_vars => Numbered'
<1> SUFFICES ASSUME TypeOK, Numbered, [Next]_vars PROVE Numbered'
  OBVIOUS
<1>1. RunsMove
  BY RunsStep
<1> SUFFICES ASSUME NEW d \in Run, NEW e \in Run, d < e, run'[e] # "none" PROVE run'[d] # "none"
  BY DEF Numbered
<1>2. CASE run[e] # "none"
  BY <1>1, <1>2 DEF Numbered, RunsMove
<1>3. CASE run[e] = "none"
  <2>1. d \in 1..(e - 1)
    BY RefinementAssumption DEF Run
  <2> QED BY <1>1, <1>3, <2>1 DEF RunsMove, Fresh, Created
<1> QED BY <1>2, <1>3

\* A step that leaves links, applied proposals and sources alone keeps the lineage.
LEMMA LineageFrame ==
  ASSUME TypeOK, Lineage, RunsMove, UNCHANGED link,
         \A r \in Refinement : /\ (apply'[r] = "applied") <=> (apply[r] = "applied")
                               /\ apply[r] = "applied" => refinement'[r].source = refinement[r].source
  PROVE  Lineage'
BY DEF Lineage, RunsMove, TypeOK, LinkRow

LEMMA LineageStep == TypeOK /\ Rows /\ Numbered /\ Lineage /\ [Next]_vars => Lineage'
<1> SUFFICES ASSUME TypeOK, Rows, Numbered, Lineage, [Next]_vars PROVE Lineage'
  OBVIOUS
<1> USE DEF applies, reviews
<1>0. RunsMove
  BY RunsStep
<1>1. ASSUME UNCHANGED <<refinement, apply, link>> PROVE Lineage'
  BY <1>0, <1>1, LineageFrame
<1>2. ASSUME NEW r \in Refinement, NEW f \in Feedback, CreateRefinement(f, r) PROVE Lineage'
  <2>1. apply[r] # "applied"
    BY <1>2 DEF CreateRefinement, Rows, ApplyEnd
  <2>2. \A s \in Refinement : s # r => refinement'[s] = refinement[s]
    BY <1>2 DEF CreateRefinement, TypeOK
  <2> QED BY <1>0, <1>2, <2>1, <2>2, LineageFrame DEF CreateRefinement
<1>3. ASSUME NEW r \in Refinement, CreateRefinementProposal(r) \/ RefinementFails(r) PROVE Lineage'
  <2>1. \A s \in Refinement : refinement'[s].source = refinement[s].source
    BY <1>3, RefinementUpdates DEF CreateRefinementProposal, RefinementFails
  <2> QED BY <1>0, <1>3, <2>1, LineageFrame DEF CreateRefinementProposal, RefinementFails
<1>4. ASSUME NEW r \in Refinement, ClaimApply(r) \/ RecordStale(r) \/ RecordFailed(r) PROVE Lineage'
  <2>1. \A s \in Refinement : (apply'[s] = "applied") <=> (apply[s] = "applied")
    BY <1>4 DEF ClaimApply, Claimable, RecordStale, RecordFailed, Record, TypeOK
  <2> QED BY <1>0, <1>4, <2>1, LineageFrame DEF ClaimApply, RecordStale, RecordFailed
<1>5. ASSUME NEW r \in Refinement, NEW e \in Run, RecordApplied(r, e) PROVE Lineage'
  <2> DEFINE d == refinement[r].source
             new == Link(r, e)
  <2>1. /\ new.refinement = r /\ new.source = d /\ new.continuation = e
        /\ link' = link \cup {new} /\ UNCHANGED refinement
    BY <1>5 DEF RecordApplied, Link
  <2>2. apply[r] = "running" /\ apply' = [apply EXCEPT ![r] = "applied"]
    BY <1>5 DEF RecordApplied, Record
  <2>3. \A l \in link : l.refinement \in Refinement /\ l.source \in Run /\ l.continuation \in Run
    BY DEF TypeOK, LinkRow
  <2>4. /\ run[d] \in Terminal /\ \A l \in link : l.source # d
        /\ run[e] = "none" /\ run'[e] = "pending"
    BY <1>5 DEF RecordApplied, Continuable, Fresh, Created, TypeOK
  <2>5. d \in Run
    <3>1. refinement[r].status = "completed"
      BY <1>5 DEF RecordApplied, Record, Rows
    <3> QED BY <3>1 DEF TypeOK
  <2>6. d < e
    BY <2>4, <2>5, RefinementAssumption DEF Numbered, Run, Terminal
  <2>7. \A l \in link : l.refinement # r /\ l.continuation # e
    BY <2>2, <2>4 DEF Lineage
  <2>8. \A l \in link' :
          /\ apply'[l.refinement] = "applied" /\ l.source = refinement'[l.refinement].source
          /\ l.source < l.continuation
          /\ run'[l.source] \in Terminal /\ run'[l.continuation] # "none"
    <3>1. ASSUME NEW l \in link
          PROVE  /\ apply'[l.refinement] = "applied" /\ l.source = refinement'[l.refinement].source
                 /\ l.source < l.continuation
                 /\ run'[l.source] \in Terminal /\ run'[l.continuation] # "none"
      BY <1>0, <2>1, <2>2, <2>3, <2>7 DEF Lineage, RunsMove, TypeOK
    <3>2. apply'[r] = "applied" /\ run'[d] \in Terminal /\ run'[e] # "none"
      BY <1>0, <2>2, <2>4, <2>5 DEF RunsMove, TypeOK
    <3> QED BY <2>1, <2>6, <3>1, <3>2
  <2>9. \A k, l \in link' :
          k.source = l.source \/ k.continuation = l.continuation \/ k.refinement = l.refinement => k = l
    BY <2>1, <2>4, <2>7 DEF Lineage
  <2>10. \A s \in Refinement : apply'[s] = "applied" => \E l \in link' : l.refinement = s
    BY <2>1, <2>2 DEF Lineage, TypeOK
  <2> QED BY <2>8, <2>9, <2>10 DEF Lineage
<1>6. ASSUME NEW e, NEW f, \/ StartRun(e) \/ CompleteRun(e) \/ StopRun(e) \/ BlockRun(e, f)
                           \/ CreateHumanFeedback(f, e) \/ DecideFeedback(f)
      PROVE  Lineage'
  BY <1>1, <1>6 DEF StartRun, CompleteRun, StopRun, BlockRun, CreateHumanFeedback, DecideFeedback
<1>7. ASSUME NEW c, NEW e, CreateCriticProposal(c, e) \/ RejectCritic(c) \/ ApproveCritic(c, e)
      PROVE  Lineage'
  BY <1>1, <1>7 DEF CreateCriticProposal, RejectCritic, ApproveCritic, CriticEntry
<1>8. ASSUME NEW r, NEW e,
             \/ ApproveRefinement(r) \/ RejectRefinement(r) \/ Commit(r) \/ ResumeContinuation(r, e)
      PROVE  Lineage'
  BY <1>1, <1>8 DEF ApproveRefinement, RejectRefinement, Commit, ResumeContinuation
<1>9. CASE Crash \/ UNCHANGED vars
  BY <1>1, <1>9 DEF Crash, vars
<1> QED BY <1>2, <1>3, <1>4, <1>5, <1>6, <1>7, <1>8, <1>9 DEF Next, FeedbackRequests, ReviewRequests, ApplyStep
-----------------------------------------------------------------------------
(* Feedback and its holders *)

\* One Feedback that keeps its holders and is created, closed or left alone
\* by a step.
Kept(f) ==
  /\ Holders(f)' = Holders(f)
  /\ \/ UNCHANGED <<feedback[f].status, feedback[f].proposal>>
     \/ feedback[f].status = "none" /\ feedback'[f].status = "open"
     \/ feedback'[f].status = "closed"
  /\ \A r \in Holders(f) : proposal'[r] # "none" => proposal[r] # "none"

LEMMA KeptHolds ==
  ASSUME Holding, NEW f \in Feedback, Kept(f)
  PROVE  /\ \A r, s \in Holders(f)' : r = s
         /\ feedback'[f].status \in {"none", "open"} => Holders(f)' = {}
         /\ feedback'[f].status = "in_refinement" =>
              /\ Holders(f)' # {}
              /\ \A r \in Holders(f)' : proposal'[r] # "none" => feedback'[f].proposal = r
BY DEF Holding, Kept

LEMMA HoldingStep == TypeOK /\ Rows /\ Holding /\ [Next]_vars => Holding'
<1> SUFFICES ASSUME TypeOK, Rows, Holding, [Next]_vars PROVE Holding'
  OBVIOUS
<1> USE DEF applies, reviews
\* Steps that leave Refinement Runs and decisions alone, but may touch Feedback.
<1>1. ASSUME UNCHANGED <<refinement, decision>>,
             \A r \in Refinement : proposal'[r] # "none" => proposal[r] # "none",
             \A f \in Feedback :
               \/ UNCHANGED <<feedback[f].status, feedback[f].proposal>>
               \/ feedback[f].status = "none" /\ feedback'[f].status = "open"
               \/ feedback'[f].status = "closed"
      PROVE  Holding'
  <2>1. \A f \in Feedback : Kept(f)
    BY <1>1 DEF Kept, Holders
  <2> QED BY <1>1, <2>1, KeptHolds DEF Holding
<1>2. ASSUME UNCHANGED <<refinement, decision, proposal, feedback>> PROVE Holding'
  BY <1>1, <1>2
<1>3. ASSUME NEW e, NEW f \in Feedback, BlockRun(e, f) \/ CreateHumanFeedback(f, e) PROVE Holding'
  <2>1. \A g \in Feedback :
          \/ feedback'[g] = feedback[g]
          \/ feedback[g].status = "none" /\ feedback'[g].status = "open"
    BY <1>3 DEF BlockRun, CreateHumanFeedback, Entry, TypeOK
  <2> QED BY <1>1, <1>3, <2>1 DEF BlockRun, CreateHumanFeedback
<1>4. ASSUME NEW c, NEW f \in Feedback, ApproveCritic(c, f) PROVE Holding'
  <2>1. \A g \in Feedback :
          \/ feedback'[g] = feedback[g]
          \/ feedback[g].status = "none" /\ feedback'[g].status = "open"
    BY <1>4 DEF ApproveCritic, CriticEntry, Entry, TypeOK
  <2> QED BY <1>1, <1>4, <2>1 DEF ApproveCritic, CriticEntry
<1>5. ASSUME NEW f \in Feedback, DecideFeedback(f) PROVE Holding'
  <2>1. \A g \in Feedback : feedback'[g] = feedback[g] \/ feedback'[g].status = "closed"
    BY <1>5 DEF DecideFeedback, TypeOK, FeedbackRow
  <2> QED BY <1>1, <1>5, <2>1 DEF DecideFeedback
\* A Refinement Run takes an open Feedback, which nobody holds.
<1>6. ASSUME NEW f \in Feedback, NEW r \in Refinement, CreateRefinement(f, r) PROVE Holding'
  <2>1. feedback[f].status = "open" /\ refinement[r].status = "none"
    BY <1>6 DEF CreateRefinement, Refinable
  <2>2. decision[r] = "none" /\ proposal[r] = "none" /\ refinement[r].feedback = NoFeedback
    <3>1. proposal[r] = "none"
      BY <2>1 DEF Rows
    <3>2. decision[r] # "approved" /\ decision[r] # "rejected"
      BY <3>1 DEF Rows, ApplyEnd
    <3>3. decision[r] \in {"none", "approved", "rejected"}
      BY DEF TypeOK
    <3>4. refinement[r].feedback = NoFeedback
      BY <2>1 DEF Holding
    <3> QED BY <3>1, <3>2, <3>3, <3>4
  <2>3. /\ UNCHANGED <<decision, proposal>>
        /\ refinement'[r].feedback = f /\ refinement'[r].status = "queued"
        /\ \A s \in Refinement : s # r => refinement'[s] = refinement[s]
    BY <1>6 DEF CreateRefinement, TypeOK
  <2>4. /\ feedback'[f].status = "in_refinement"
        /\ \A g \in Feedback : g # f => feedback'[g] = feedback[g]
    BY <1>6 DEF CreateRefinement, TypeOK, FeedbackRow
  <2>5. Holders(f)' = {r}
    BY <2>1, <2>2, <2>3 DEF Holders, Holding
  <2>6. \A g \in Feedback : g # f => Holders(g)' = Holders(g)
    BY <2>2, <2>3, RefinementAssumption DEF Holders
  <2>7. \A s \in Refinement : refinement'[s].status = "none" => refinement'[s].feedback = NoFeedback
    BY <2>3 DEF Holding
  <2>8. \A g \in Feedback : g # f => Kept(g)
    BY <2>3, <2>4, <2>6 DEF Kept
  <2>9. \A g \in Feedback : g # f =>
          /\ \A q, s \in Holders(g)' : q = s
          /\ feedback'[g].status \in {"none", "open"} => Holders(g)' = {}
          /\ feedback'[g].status = "in_refinement" =>
               /\ Holders(g)' # {}
               /\ \A q \in Holders(g)' : proposal'[q] # "none" => feedback'[g].proposal = q
    BY <2>8, KeptHolds
  <2> QED BY <2>2, <2>3, <2>4, <2>5, <2>7, <2>9 DEF Holding
<1>7. ASSUME NEW r \in Refinement, RefinementFails(r) PROVE Holding'
  <2>1. \A s \in Refinement : /\ refinement'[s].feedback = refinement[s].feedback
                              /\ (refinement'[s].status = "none") <=> (refinement[s].status = "none")
    BY <1>7, RefinementUpdates DEF RefinementFails
  <2>2. \A f \in Feedback : Holders(f)' = Holders(f)
    BY <1>7, <2>1 DEF Holders, RefinementFails
  <2>3. \A f \in Feedback : Kept(f)
    BY <1>7, <2>2 DEF Kept, RefinementFails
  <2> QED BY <2>1, <2>3, KeptHolds DEF Holding
\* The Feedback in refinement learns its proposal.
<1>8. ASSUME NEW r \in Refinement, CreateRefinementProposal(r) PROVE Holding'
  <2> DEFINE f == refinement[r].feedback
  <2>1. \A s \in Refinement : /\ refinement'[s].feedback = refinement[s].feedback
                              /\ (refinement'[s].status = "none") <=> (refinement[s].status = "none")
    BY <1>8, RefinementUpdates DEF CreateRefinementProposal
  <2>2. \A g \in Feedback : Holders(g)' = Holders(g)
    BY <1>8, <2>1 DEF Holders, CreateRefinementProposal
  <2>3. /\ f \in Feedback /\ r \in Holders(f)
        /\ \A g \in Feedback : r \in Holders(g) => g = f
    BY <1>8 DEF CreateRefinementProposal, TypeOK, Rows, Holders
  <2>4. /\ \A s \in Refinement : s # r => proposal'[s] = proposal[s]
        /\ \A g \in Feedback : g # f => feedback'[g] = feedback[g]
    BY <1>8, <2>3 DEF CreateRefinementProposal, Bound, TypeOK
  <2>5. /\ feedback'[f].status = feedback[f].status
        /\ feedback[f].status = "in_refinement" => feedback'[f].proposal = r
    BY <1>8, <2>3 DEF CreateRefinementProposal, Bound, TypeOK, FeedbackRow
  <2>6. \A g \in Feedback : g # f => Kept(g)
    BY <2>2, <2>3, <2>4 DEF Kept, Holders
  <2>7. \A g \in Feedback : g # f =>
          /\ \A q, s \in Holders(g)' : q = s
          /\ feedback'[g].status \in {"none", "open"} => Holders(g)' = {}
          /\ feedback'[g].status = "in_refinement" =>
               /\ Holders(g)' # {}
               /\ \A q \in Holders(g)' : proposal'[q] # "none" => feedback'[g].proposal = q
    BY <2>6, KeptHolds
  <2>8. Holders(f)' = {r}
    <3>1. \A q, s \in Holders(f) : q = s
      BY <2>3 DEF Holding
    <3>2. Holders(f) = {r}
      BY <2>3, <3>1
    <3>3. Holders(f)' = Holders(f)
      BY <2>3, <1>8, <2>1 DEF Holders, CreateRefinementProposal
    <3> QED BY <3>2, <3>3
  <2> QED BY <2>1, <2>2, <2>3, <2>5, <2>7, <2>8 DEF Holding
<1>9. ASSUME NEW r \in Refinement, ApproveRefinement(r) PROVE Holding'
  <2>1. \A s \in Refinement : /\ (decision'[s] = "rejected") <=> (decision[s] = "rejected")
                              /\ proposal'[s] # "none" => proposal[s] # "none"
    BY <1>9 DEF ApproveRefinement, TypeOK
  <2>2. \A f \in Feedback : Kept(f)
    BY <1>9, <2>1 DEF Kept, Holders, ApproveRefinement
  <2> QED BY <1>9, <2>2, KeptHolds DEF Holding, ApproveRefinement
\* A rejection lets go.
<1>10. ASSUME NEW r \in Refinement, RejectRefinement(r) PROVE Holding'
  <2> DEFINE f == refinement[r].feedback
  <2>1. /\ UNCHANGED refinement /\ proposal[r] = "pending_human_review" /\ decision[r] = "none"
        /\ decision'[r] = "rejected" /\ proposal'[r] = "rejected"
        /\ \A s \in Refinement : s # r => decision'[s] = decision[s] /\ proposal'[s] = proposal[s]
    BY <1>10 DEF RejectRefinement, TypeOK
  <2>2. f \in Feedback /\ r \in Holders(f)
    BY <2>1 DEF TypeOK, Rows, Holders
  <2>3. Holders(f) = {r}
    BY <2>2 DEF Holding
  <2>4. Holders(f)' = {} /\ \A g \in Feedback : g # f => Holders(g)' = Holders(g)
    BY <2>1, <2>3 DEF Holders
  <2>5. \A g \in Feedback : g # f => feedback'[g] = feedback[g]
    BY <1>10, <2>2 DEF RejectRefinement, Reopened, TypeOK
  <2>6. feedback'[f].status # "in_refinement"
    BY <1>10, <2>2 DEF RejectRefinement, Reopened, TypeOK, FeedbackRow
  <2>7. \A g \in Feedback : g # f => Kept(g)
    BY <2>1, <2>4, <2>5 DEF Kept, Holders
  <2>8. \A g \in Feedback : g # f =>
          /\ \A q, s \in Holders(g)' : q = s
          /\ feedback'[g].status \in {"none", "open"} => Holders(g)' = {}
          /\ feedback'[g].status = "in_refinement" =>
               /\ Holders(g)' # {}
               /\ \A q \in Holders(g)' : proposal'[q] # "none" => feedback'[g].proposal = q
    BY <2>7, KeptHolds
  <2> QED BY <2>1, <2>4, <2>6, <2>8 DEF Holding
<1>11. ASSUME NEW r \in Refinement, NEW e, RecordStale(r) \/ RecordFailed(r) \/ RecordApplied(r, e)
       PROVE  Holding'
  <2>1. \A s \in Refinement : proposal'[s] # "none" => proposal[s] # "none"
    BY <1>11 DEF RecordStale, RecordFailed, RecordApplied, Record, TypeOK
  <2> QED BY <1>1, <1>11, <2>1 DEF RecordStale, RecordFailed, RecordApplied
<1>12. ASSUME NEW r, NEW e, \/ StartRun(e) \/ CompleteRun(e) \/ StopRun(e) \/ ClaimApply(r)
                            \/ Commit(r) \/ ResumeContinuation(r, e)
       PROVE  Holding'
  BY <1>2, <1>12 DEF StartRun, CompleteRun, StopRun, ClaimApply, Commit, ResumeContinuation
<1>13. ASSUME NEW c, NEW e, CreateCriticProposal(c, e) \/ RejectCritic(c) PROVE Holding'
  BY <1>2, <1>13 DEF CreateCriticProposal, RejectCritic
<1>14. CASE Crash \/ UNCHANGED vars
  BY <1>2, <1>14 DEF Crash, vars
<1> QED BY <1>3, <1>4, <1>5, <1>6, <1>7, <1>8, <1>9, <1>10, <1>11, <1>12, <1>13, <1>14
        DEF Next, FeedbackRequests, ReviewRequests, ApplyStep

-----------------------------------------------------------------------------
(* Theorems *)

THEOREM InitInv == Init => Inv
<1> SUFFICES ASSUME Init PROVE Inv
  OBVIOUS
<1>1. TypeOK
  BY InitTypes
<1>2. Rows /\ Lineage /\ Numbered
  BY DEF Init, Rows, Lineage, Numbered, ApplyEnd
<1>3. Holding
  BY RefinementAssumption DEF Init, Holding, Holders, NoEntry, Entry
<1> QED BY <1>1, <1>2, <1>3 DEF Inv

THEOREM InvCorrect == Spec => []Inv
<1>1. Inv /\ [Next]_vars => Inv'
  BY StepTypes, RowsStep, NumberedStep, LineageStep, HoldingStep DEF Inv
<1> QED BY InitInv, <1>1, PTL DEF Spec

\* Rows, statuses and references have their types whatever people, git and
\* crashes do, and every Refinement Run has a source Run (ReviewStore).
THEOREM RefinementTypeCorrect == Spec => []TypeOK
BY InvCorrect, PTL DEF Inv

\* A Feedback is in refinement for one Refinement Run at a time and names its
\* proposal (ReviewStore.createRefinementRun, decideRefinement).
THEOREM OneHolderCorrect == Spec => []OneHolder
<1>1. Inv => OneHolder
  BY DEF Inv, Holding, OneHolder
<1> QED BY <1>1, InvCorrect, PTL

\* Nothing is committed or continued without approval, or from a stale
\* preimage (RefinementApplyService.apply).
THEOREM NothingUnapprovedCorrect == Spec => []NothingUnapproved
<1>1. Inv => NothingUnapproved
  BY DEF Inv, Rows, Lineage, TypeOK, LinkRow, NothingUnapproved, ApplyEnd
<1> QED BY <1>1, InvCorrect, PTL

\* The apply, the proposal, the continuation and its link are recorded
\* together or not at all (ReviewCoordinator.recordApply).
THEOREM ResultIsWholeCorrect == Spec => []ResultIsWhole
<1>1. Inv => ResultIsWhole
  BY DEF Inv, Rows, Lineage, ResultIsWhole
<1> QED BY <1>1, InvCorrect, PTL

\* Lineage branches nowhere and runs from older, finished Runs to younger
\* ones (ReviewStore.recordContinuation).
THEOREM ContinuedOnceCorrect == Spec => []ContinuedOnce
<1>1. Inv => ContinuedOnce
  BY DEF Inv, Lineage, ContinuedOnce
<1> QED BY <1>1, InvCorrect, PTL

\* A person's closing of Feedback is final, also while a proposal for it is
\* under review or applied (ReviewStore.decideRefinement, FeedbackStore.transition).
THEOREM ClosedStaysClosedCorrect == Spec => ClosedStaysClosed
<1>1. ASSUME TypeOK, [Next]_vars, NEW f \in Feedback, feedback[f].status = "closed"
      PROVE  feedback'[f] = feedback[f]
  <2> USE DEF applies, reviews
  <2>1. ASSUME NEW e, NEW g \in Feedback, NEW c,
               BlockRun(e, g) \/ CreateHumanFeedback(g, e) \/ DecideFeedback(g) \/ ApproveCritic(c, g)
        PROVE  feedback'[f] = feedback[f]
    BY <1>1, <2>1 DEF BlockRun, CreateHumanFeedback, DecideFeedback, ApproveCritic, CriticEntry, TypeOK
  <2>2. ASSUME NEW g \in Feedback, NEW r \in Refinement, CreateRefinement(g, r)
        PROVE  feedback'[f] = feedback[f]
    BY <1>1, <2>2 DEF CreateRefinement, Refinable, TypeOK
  <2>3. ASSUME NEW r \in Refinement, CreateRefinementProposal(r) \/ RejectRefinement(r)
        PROVE  feedback'[f] = feedback[f]
    BY <1>1, <2>3 DEF CreateRefinementProposal, Bound, RejectRefinement, Reopened, TypeOK
  <2> QED
    BY <1>1, <2>1, <2>2, <2>3
    DEF Next, FeedbackRequests, ReviewRequests, ApplyStep, vars, StartRun, CompleteRun, StopRun, CreateCriticProposal, RejectCritic,
        RefinementFails, ApproveRefinement, ClaimApply, RecordStale, Commit, RecordFailed,
        RecordApplied, ResumeContinuation, Crash
<1>2. TypeOK /\ [Next]_vars
        => [\A f \in Feedback : feedback[f].status = "closed" => feedback'[f] = feedback[f]]_vars
  BY <1>1
<1> QED BY <1>2, RefinementTypeCorrect, PTL DEF Spec, ClosedStaysClosed

-----------------------------------------------------------------------------
(* What only a death strands *)

\* Nothing dies, no Run becomes pending and no link or claim is new: whoever
\* was at work still is, or has recorded a result.
LEMMA QuietStrands ==
  ASSUME OnlyDeathStrands, UNCHANGED <<link, crashes>>,
         \A e \in Run : run'[e] = "pending" => run[e] = "pending",
         \A l \in link : l.continuation \in Run,
         \A r \in Refinement :
           \/ apply'[r] = apply[r] /\ worker'[r] = worker[r]
           \/ /\ apply'[r] # "running" \/ worker'[r] \in {"checking", "committed"}
              /\ worker[r] # "applied"
  PROVE  OnlyDeathStrands'
  BY DEF OnlyDeathStrands

LEMMA StrandsStep == TypeOK /\ Lineage /\ OnlyDeathStrands /\ [Next]_vars => OnlyDeathStrands'
<1> SUFFICES ASSUME TypeOK, Lineage, OnlyDeathStrands, [Next]_vars PROVE OnlyDeathStrands'
  OBVIOUS
<1> USE DEF applies, reviews
<1>a. \A l \in link : l.continuation \in Run /\ l.refinement \in Refinement
  BY DEF TypeOK, LinkRow
<1>1. ASSUME UNCHANGED <<run, apply, worker, link, crashes>> PROVE OnlyDeathStrands'
  BY <1>1, <1>a, QuietStrands
<1>2. ASSUME NEW e, NEW f, StartRun(e) \/ CompleteRun(e) \/ StopRun(e) \/ BlockRun(e, f)
      PROVE  OnlyDeathStrands'
  <2>1. \A d \in Run : run'[d] = "pending" => run[d] = "pending"
    BY <1>2 DEF StartRun, CompleteRun, StopRun, BlockRun, TypeOK
  <2> QED BY <1>2, <1>a, <2>1, QuietStrands DEF StartRun, CompleteRun, StopRun, BlockRun
<1>3. ASSUME NEW r \in Refinement, ClaimApply(r) PROVE OnlyDeathStrands'
  <2>1. UNCHANGED <<run, link, crashes>> /\ apply[r] = "none"
    BY <1>3 DEF ClaimApply, Claimable
  <2>2. \A l \in link : l.refinement # r
    BY <2>1 DEF Lineage
  <2>3. /\ worker'[r] = "checking"
        /\ \A s \in Refinement : s # r => apply'[s] = apply[s] /\ worker'[s] = worker[s]
    BY <1>3 DEF ClaimApply, TypeOK
  <2> QED BY <2>1, <2>2, <2>3 DEF OnlyDeathStrands
<1>4. ASSUME NEW r \in Refinement, RecordStale(r) \/ RecordFailed(r) \/ Commit(r)
      PROVE  OnlyDeathStrands'
  <2>1. UNCHANGED <<run, link, crashes>> /\ worker[r] # "applied"
    BY <1>4 DEF RecordStale, RecordFailed, Commit
  <2>2. /\ apply'[r] # "running" \/ worker'[r] \in {"checking", "committed"}
        /\ \A s \in Refinement : s # r => apply'[s] = apply[s] /\ worker'[s] = worker[s]
    BY <1>4 DEF RecordStale, RecordFailed, Record, Commit, TypeOK
  <2> QED BY <1>a, <2>1, <2>2, QuietStrands
<1>5. ASSUME NEW r \in Refinement, NEW e \in Run, RecordApplied(r, e) PROVE OnlyDeathStrands'
  <2>1. /\ UNCHANGED crashes /\ link' = link \cup {Link(r, e)}
        /\ apply'[r] = "applied" /\ worker'[r] = "applied" /\ run[e] = "none"
        /\ \A s \in Refinement : s # r => apply'[s] = apply[s] /\ worker'[s] = worker[s]
        /\ \A d \in Run : d # e => run'[d] = run[d]
    BY <1>5 DEF RecordApplied, Record, Fresh, Created, TypeOK
  <2>2. Link(r, e).refinement = r
    BY DEF Link
  <2>3. \A l \in link : l.continuation # e
    BY <2>1 DEF Lineage
  <2>4. ASSUME NEW s \in Refinement, ~(crashes > 0) PROVE
          /\ apply'[s] = "running" => worker'[s] \in {"checking", "committed"}
          /\ \A l \in link' : l.refinement = s /\ run'[l.continuation] = "pending" => worker'[s] = "applied"
    BY <1>a, <2>1, <2>2, <2>3, <2>4 DEF OnlyDeathStrands
  <2> QED BY <2>1, <2>4 DEF OnlyDeathStrands
\* The Run that is resumed is the only one its link names.
<1>6. ASSUME NEW r \in Refinement, NEW e \in Run, ResumeContinuation(r, e) PROVE OnlyDeathStrands'
  <2>1. /\ UNCHANGED <<apply, link, crashes>> /\ worker[r] = "applied"
        /\ \A s \in Refinement : s # r => worker'[s] = worker[s]
        /\ run'[e] # "pending" /\ \A d \in Run : d # e => run'[d] = run[d]
    BY <1>6 DEF ResumeContinuation, TypeOK
  <2>2. \A l \in link : l.refinement = r => l.continuation = e
    BY <1>6 DEF ResumeContinuation, Lineage
  <2>3. ASSUME NEW s \in Refinement, ~(crashes > 0) PROVE
          /\ apply'[s] = "running" => worker'[s] \in {"checking", "committed"}
          /\ \A l \in link : l.refinement = s /\ run'[l.continuation] = "pending" => worker'[s] = "applied"
    BY <1>a, <2>1, <2>2, <2>3 DEF OnlyDeathStrands
  <2> QED BY <2>1, <2>3 DEF OnlyDeathStrands
<1>7. CASE Crash
  <2>1. crashes' > 0
    BY <1>7, RefinementAssumption DEF Crash, TypeOK
  <2> QED BY <2>1 DEF OnlyDeathStrands
<1>8. ASSUME NEW e, NEW f, NEW c, NEW r,
             \/ CreateHumanFeedback(f, e) \/ DecideFeedback(f) \/ CreateCriticProposal(c, e)
             \/ RejectCritic(c) \/ ApproveCritic(c, f) \/ CreateRefinement(f, r)
             \/ CreateRefinementProposal(r) \/ RefinementFails(r) \/ ApproveRefinement(r)
             \/ RejectRefinement(r) \/ UNCHANGED vars
      PROVE  OnlyDeathStrands'
  BY <1>1, <1>8 DEF vars, CreateHumanFeedback, DecideFeedback, CreateCriticProposal, RejectCritic,
     ApproveCritic, CriticEntry, CreateRefinement, CreateRefinementProposal, RefinementFails, ApproveRefinement,
     RejectRefinement
<1> QED BY <1>2, <1>3, <1>4, <1>5, <1>6, <1>7, <1>8 DEF Next, FeedbackRequests, ReviewRequests, ApplyStep

\* As long as the server lives, whatever fails in an apply is recorded and
\* every continuation is resumed by its handler (RefinementApplyService.apply,
\* ApiController.applyRefinement).
THEOREM OnlyDeathStrandsCorrect == Spec => []OnlyDeathStrands
<1>1. Init => OnlyDeathStrands
  BY DEF Init, OnlyDeathStrands
<1>2. Inv /\ OnlyDeathStrands /\ [Next]_vars => OnlyDeathStrands'
  BY StrandsStep DEF Inv
<1> QED BY <1>1, <1>2, InvCorrect, PTL DEF Spec

-----------------------------------------------------------------------------
(* The Feedback of Critics *)

Entries(c) == {f \in Feedback : feedback[f].critic = c}

\* Rows that were never written name no Critic proposal.
Blank == \A f \in Feedback : feedback[f].status = "none" => feedback[f].critic = NoCritic

\* Steps that leave Critic proposals alone may create Feedback without one.
LEMMA QuietCritics ==
  ASSUME Blank, CriticFeedback, UNCHANGED critic,
         \A f \in Feedback :
           \/ /\ feedback'[f].critic = feedback[f].critic /\ feedback'[f].run = feedback[f].run
              /\ feedback'[f].status = "none" => feedback[f].status = "none"
           \/ feedback[f].status = "none" /\ feedback'[f].critic = NoCritic
  PROVE  Blank' /\ CriticFeedback'
<1>1. Blank'
  BY DEF Blank
<1>2. \A c \in Critic : Entries(c)' = Entries(c) /\ \A f \in Entries(c) : feedback'[f].run = feedback[f].run
  BY RefinementAssumption DEF Blank, Entries
<1>3. CriticFeedback'
  BY <1>2 DEF CriticFeedback, Entries
<1> QED BY <1>1, <1>3

LEMMA CriticsStep == TypeOK /\ Blank /\ CriticFeedback /\ [Next]_vars => Blank' /\ CriticFeedback'
<1> SUFFICES ASSUME TypeOK, Blank, CriticFeedback, [Next]_vars PROVE Blank' /\ CriticFeedback'
  OBVIOUS
<1> USE DEF applies, reviews
<1>1. ASSUME NEW e, NEW f, BlockRun(e, f) \/ CreateHumanFeedback(f, e) PROVE Blank' /\ CriticFeedback'
  <2>1. \A g \in Feedback :
          \/ feedback'[g] = feedback[g]
          \/ feedback[g].status = "none" /\ feedback'[g].critic = NoCritic
    BY <1>1 DEF BlockRun, CreateHumanFeedback, Entry, TypeOK
  <2> QED BY <1>1, <2>1, QuietCritics DEF BlockRun, CreateHumanFeedback
<1>2. ASSUME NEW f, NEW r, \/ DecideFeedback(f) \/ CreateRefinement(f, r)
                           \/ CreateRefinementProposal(r) \/ RejectRefinement(r)
      PROVE  Blank' /\ CriticFeedback'
  <2>1. ASSUME NEW g \in Feedback
        PROVE  /\ feedback'[g].critic = feedback[g].critic /\ feedback'[g].run = feedback[g].run
               /\ feedback'[g].status = "none" => feedback[g].status = "none"
    <3>1. ASSUME NEW h, NEW v \in {"open", "in_refinement", "closed"},
                 feedback' = [feedback EXCEPT ![h].status = v]
          PROVE  /\ feedback'[g].critic = feedback[g].critic /\ feedback'[g].run = feedback[g].run
                 /\ feedback'[g].status # feedback[g].status => feedback'[g].status = v
      BY <3>1 DEF TypeOK, FeedbackRow
    <3>2. ASSUME NEW h, NEW v, feedback' = [feedback EXCEPT ![h].proposal = v]
          PROVE  /\ feedback'[g].critic = feedback[g].critic /\ feedback'[g].run = feedback[g].run
                 /\ feedback'[g].status = feedback[g].status
      BY <3>2 DEF TypeOK, FeedbackRow
    <3>3. \/ \E h, v : v \in {"open", "in_refinement", "closed"} /\ feedback' = [feedback EXCEPT ![h].status = v]
          \/ \E h, v : feedback' = [feedback EXCEPT ![h].proposal = v]
          \/ feedback' = feedback
      BY <1>2 DEF DecideFeedback, CreateRefinement, CreateRefinementProposal, Bound, RejectRefinement, Reopened
    <3> QED BY <3>1, <3>2, <3>3
  <2> QED BY <1>2, <2>1, QuietCritics
       DEF DecideFeedback, CreateRefinement, CreateRefinementProposal, RejectRefinement
\* A proposal that is not approved may be stored or rejected.
<1>3. ASSUME NEW c \in Critic, NEW e, CreateCriticProposal(c, e) \/ RejectCritic(c)
      PROVE  Blank' /\ CriticFeedback'
  <2>1. /\ UNCHANGED feedback
        /\ critic[c].status # "approved" /\ critic'[c].status # "approved"
        /\ \A d \in Critic : d # c => critic'[d] = critic[d]
    BY <1>3 DEF CreateCriticProposal, RejectCritic, TypeOK, CriticRow
  <2> QED BY <2>1 DEF Blank, CriticFeedback
<1>4. ASSUME NEW c \in Critic, NEW f \in Feedback, ApproveCritic(c, f)
      PROVE  Blank' /\ CriticFeedback'
  <2>1. /\ critic[c].status # "approved"
        /\ critic'[c].status = "approved" /\ critic'[c].run = critic[c].run
        /\ \A d \in Critic : d # c => critic'[d] = critic[d]
    BY <1>4 DEF ApproveCritic, CriticEntry, TypeOK, CriticRow
  <2>2. /\ feedback[f].critic = NoCritic
        /\ feedback'[f].status = "open" /\ feedback'[f].critic = c /\ feedback'[f].run = critic[c].run
        /\ \A g \in Feedback : g # f => feedback'[g] = feedback[g]
    BY <1>4 DEF ApproveCritic, CriticEntry, Entry, TypeOK, Blank
  <2>3. Blank'
    BY <2>2 DEF Blank
  <2>4. Entries(c) = {} /\ Entries(c)' = {f}
    BY <2>1, <2>2, RefinementAssumption DEF CriticFeedback, Entries
  <2>5. \A d \in Critic : d # c => Entries(d)' = Entries(d) /\ f \notin Entries(d)
    BY <2>2, RefinementAssumption DEF Entries
  <2>6. ASSUME NEW d \in Critic, d # c
        PROVE  IF critic'[d].status = "approved"
               THEN \E g \in Entries(d)' : Entries(d)' = {g} /\ feedback'[g].run = critic'[d].run
               ELSE Entries(d)' = {}
    BY <2>1, <2>2, <2>5, <2>6 DEF CriticFeedback, Entries
  <2> QED BY <2>1, <2>2, <2>3, <2>4, <2>6 DEF CriticFeedback, Entries
<1>5. ASSUME UNCHANGED <<feedback, critic>> PROVE Blank' /\ CriticFeedback'
  BY <1>5 DEF Blank, CriticFeedback
<1>6. ASSUME NEW e, NEW r,
             \/ StartRun(e) \/ CompleteRun(e) \/ StopRun(e) \/ RefinementFails(r) \/ ApproveRefinement(r)
             \/ ClaimApply(r) \/ RecordStale(r) \/ RecordFailed(r) \/ Commit(r) \/ RecordApplied(r, e)
             \/ ResumeContinuation(r, e) \/ Crash \/ UNCHANGED vars
      PROVE  Blank' /\ CriticFeedback'
  BY <1>5, <1>6 DEF vars, StartRun, CompleteRun, StopRun, RefinementFails, ApproveRefinement, ClaimApply,
     RecordStale, RecordFailed, Commit, RecordApplied, ResumeContinuation, Crash
<1> QED BY <1>1, <1>2, <1>3, <1>4, <1>6 DEF Next, FeedbackRequests, ReviewRequests, ApplyStep

\* An approval creates the one Feedback of its proposal, on the Run that was
\* judged, and nothing else ever names that proposal (ReviewCoordinator.decideCritic).
THEOREM CriticFeedbackCorrect == Spec => []CriticFeedback
<1>1. Init => Blank /\ CriticFeedback
  BY RefinementAssumption DEF Init, Blank, CriticFeedback, NoEntry, Entry
<1>2. Inv /\ Blank /\ CriticFeedback /\ [Next]_vars => Blank' /\ CriticFeedback'
  BY CriticsStep DEF Inv
<1> QED BY <1>1, <1>2, InvCorrect, PTL DEF Spec

\* Feedback in work has one Refinement, and a Critic's Feedback its approval
\* (ReviewStore.createRefinementRun, ReviewCoordinator.decideCritic).
THEOREM FeedbackAccountedCorrect == Spec => []FeedbackAccounted
BY OneHolderCorrect, CriticFeedbackCorrect, PTL DEF FeedbackAccounted

\* The results of all applies are approved, whole and unique, and only a death
\* of the server leaves one out (RefinementApplyService.apply, recordApply).
THEOREM ResultsRecordedCorrect == Spec => []ResultsRecorded
BY NothingUnapprovedCorrect, ResultIsWholeCorrect, ContinuedOnceCorrect,
   OnlyDeathStrandsCorrect, PTL DEF ResultsRecorded

-----------------------------------------------------------------------------
(* RefinementFlow implements ReviewContract.  Storing a proposal is Propose,*)
(* the human's decision Decide, and what an apply records Succeed or Fail; *)
(* all that Feedback, Critics, git and crashes do is a stutter.            *)

\* Nothing has been proposed yet.
LEMMA ContractInit == Init => Contract!Init
  BY DEF Init, Contract!Init, Verdict, Outcome, Successor

\* Only proposals, results and links are seen; a claimed apply is still open.
LEMMA QuietContract ==
  ASSUME UNCHANGED <<proposal, link>>,
         \A r \in Refinement : \/ apply'[r] = apply[r]
                               \/ apply[r] = "none" /\ apply'[r] = "running"
  PROVE  UNCHANGED Contract!vars
<1>1. UNCHANGED <<Verdict, Successor>>
  BY DEF Verdict, Successor
<1>2. UNCHANGED Outcome
  <2>1. \A r \in Refinement : Outcome'[r] = Outcome[r]
    BY DEF Outcome
  <2> QED BY <2>1 DEF Outcome
<1> QED BY <1>1, <1>2 DEF Contract!vars

\* The status of a proposal decides its verdict.
LEMMA VerdictStep ==
  ASSUME TypeOK, NEW r \in Refinement, NEW status \in ProposalStatus,
         proposal' = [proposal EXCEPT ![r] = status]
  PROVE  Verdict' = [Verdict EXCEPT ![r] =
           CASE status = "none" -> "none"
             [] status = "pending_human_review" -> "pending"
             [] status = "rejected" -> "rejected"
             [] OTHER -> "approved"]
  BY DEF TypeOK, Verdict

\* The result of an apply is its outcome, and leaves an approved proposal so.
LEMMA OutcomeStep ==
  ASSUME TypeOK, NEW r \in Refinement, NEW result \in ApplyEnd, NEW next, Record(r, result, next)
  PROVE  /\ Verdict[r] = "approved" /\ Outcome[r] = "open"
         /\ Verdict' = Verdict
         /\ Outcome' = [Outcome EXCEPT ![r] = IF result = "applied" THEN "applied" ELSE "failed"]
<1>1. /\ apply[r] = "running" /\ proposal[r] = "applying"
      /\ apply' = [apply EXCEPT ![r] = result]
      /\ proposal' = [proposal EXCEPT ![r] = result]
  BY DEF Record
<1>2. Verdict[r] = "approved" /\ Outcome[r] = "open"
  BY <1>1 DEF Verdict, Outcome
<1>3. \A s \in Refinement : Verdict'[s] = Verdict[s]
  BY <1>1 DEF Verdict, TypeOK, ApplyEnd
<1>4. Verdict' = Verdict
  BY <1>3 DEF Verdict
<1>5. Outcome' = [Outcome EXCEPT ![r] = IF result = "applied" THEN "applied" ELSE "failed"]
  BY <1>1 DEF Outcome, TypeOK, ApplyEnd
<1> QED BY <1>2, <1>4, <1>5

\* The continuation is younger than every Run there is, so also than its parent.
LEMMA ContinuationStep ==
  ASSUME Inv, NEW r \in Refinement, NEW e \in Run, RecordApplied(r, e)
  PROVE  Contract!Succeed(r, refinement[r].source, e) /\ refinement[r].source \in Run
<1> DEFINE d == refinement[r].source
<1>1. proposal[r] = "applying" /\ run[e] = "none" /\ run[d] \in Terminal
  BY DEF RecordApplied, Record, Fresh, Created, Continuable
<1>2. d \in Run
  BY <1>1 DEF Inv, Rows, TypeOK
<1>3. d < e
  <2>1. ~(e < d) /\ d # e
    BY <1>1, <1>2 DEF Inv, Numbered, Terminal
  <2>2. d \in Nat /\ e \in Nat
    BY <1>2, RefinementAssumption DEF Run
  <2> QED BY <2>1, <2>2
<1>4. \A p \in Successor : p[1] # d /\ p[2] # e
  <2>1. \A l \in link : l.source # d /\ l.continuation # e
    BY <1>1 DEF RecordApplied, Continuable, Inv, Lineage
  <2> QED BY <2>1 DEF Successor
<1>5. Successor' = Successor \cup {<<d, e>>}
  <2>1. link' = link \cup {Link(r, e)} /\ Link(r, e).source = d /\ Link(r, e).continuation = e
    BY DEF RecordApplied, Link
  <2> HIDE DEF d
  <2> QED BY <2>1 DEF Successor
<1>6. "applied" \in ApplyEnd
  BY DEF ApplyEnd
<1> QED BY <1>2, <1>3, <1>4, <1>5, <1>6, OutcomeStep DEF Inv, RecordApplied, Contract!Succeed

LEMMA ContractStep == Inv /\ [Next]_vars => [Contract!Next]_(Contract!vars)
<1> SUFFICES ASSUME Inv, [Next]_vars PROVE Contract!Next \/ UNCHANGED Contract!vars
  OBVIOUS
<1> USE DEF applies, reviews
<1>1. ASSUME NEW r \in Refinement, CreateRefinementProposal(r) PROVE Contract!Propose(r)
  <2>1. proposal[r] = "none"
    BY <1>1 DEF CreateRefinementProposal, Inv, Rows
  <2>2. /\ proposal' = [proposal EXCEPT ![r] = "pending_human_review"]
        /\ UNCHANGED <<apply, link>>
    BY <1>1 DEF CreateRefinementProposal
  <2>3. "pending_human_review" \in ProposalStatus
    BY DEF ProposalStatus
  <2>4. Verdict[r] = "none" /\ Verdict' = [Verdict EXCEPT ![r] = "pending"]
    BY <2>1, <2>2, <2>3, VerdictStep DEF Inv, Verdict
  <2>5. UNCHANGED <<Outcome, Successor>>
    BY <2>2 DEF Outcome, Successor
  <2> QED BY <2>4, <2>5 DEF Contract!Propose
<1>2. ASSUME NEW r \in Refinement, ApproveRefinement(r) \/ RejectRefinement(r) PROVE Contract!Decide(r)
  <2> DEFINE status == IF ApproveRefinement(r) THEN "applying" ELSE "rejected"
             verdict == IF ApproveRefinement(r) THEN "approved" ELSE "rejected"
  <2>1. /\ proposal[r] = "pending_human_review"
        /\ proposal' = [proposal EXCEPT ![r] = status]
        /\ UNCHANGED <<apply, link>>
    BY <1>2 DEF ApproveRefinement, RejectRefinement
  <2>2. status \in ProposalStatus
    BY DEF ProposalStatus
  <2>3. Verdict[r] = "pending" /\ Verdict' = [Verdict EXCEPT ![r] = verdict]
    BY <2>1, <2>2, VerdictStep DEF Inv, Verdict
  <2>4. UNCHANGED <<Outcome, Successor>>
    BY <2>1 DEF Outcome, Successor
  <2>5. verdict \in {"approved", "rejected"}
    OBVIOUS
  <2> QED BY <2>3, <2>4, <2>5 DEF Contract!Decide
<1>3. ASSUME NEW r \in Refinement, RecordStale(r) \/ RecordFailed(r) PROVE Contract!Fail(r)
  <2>1. PICK result \in {"stale", "apply_failed"} : Record(r, result, "idle")
    BY <1>3 DEF RecordStale, RecordFailed
  <2>2. UNCHANGED Successor
    BY <1>3 DEF RecordStale, RecordFailed, Successor
  <2>3. result \in ApplyEnd /\ result # "applied"
    BY <2>1 DEF ApplyEnd
  <2> QED BY <2>1, <2>2, <2>3, OutcomeStep DEF Inv, Contract!Fail
<1>4. ASSUME NEW r \in Refinement, NEW e \in Run, RecordApplied(r, e) PROVE Contract!Next
  BY <1>4, ContinuationStep DEF Contract!Next
<1>5. ASSUME NEW r \in Refinement, ClaimApply(r) PROVE UNCHANGED Contract!vars
  <2>1. \A s \in Refinement : \/ apply'[s] = apply[s]
                              \/ apply[s] = "none" /\ apply'[s] = "running"
    BY <1>5 DEF ClaimApply, Claimable, Inv, TypeOK
  <2> QED BY <1>5, <2>1, QuietContract DEF ClaimApply
<1>6. ASSUME NEW e, NEW f, NEW c, NEW r,
             \/ StartRun(e) \/ CompleteRun(e) \/ StopRun(e) \/ BlockRun(e, f)
             \/ CreateHumanFeedback(f, e) \/ DecideFeedback(f) \/ CreateCriticProposal(c, e)
             \/ RejectCritic(c) \/ ApproveCritic(c, f) \/ CreateRefinement(f, r)
             \/ RefinementFails(r) \/ Commit(r) \/ ResumeContinuation(r, e) \/ Crash
             \/ UNCHANGED vars
      PROVE  UNCHANGED Contract!vars
  <2>1. UNCHANGED <<proposal, apply, link>>
    BY <1>6 DEF vars, StartRun, CompleteRun, StopRun, BlockRun, CreateHumanFeedback, DecideFeedback,
         CreateCriticProposal, RejectCritic, ApproveCritic, CriticEntry, CreateRefinement, RefinementFails, Commit,
         ResumeContinuation, Crash
  <2> QED BY <2>1, QuietContract
<1>7. ASSUME NEW r \in Refinement, CreateRefinementProposal(r) \/ ApproveRefinement(r)
               \/ RejectRefinement(r) \/ RecordStale(r) \/ RecordFailed(r)
      PROVE  Contract!Next
  BY <1>1, <1>2, <1>3, <1>7 DEF Contract!Next
<1> QED BY <1>4, <1>5, <1>6, <1>7 DEF Next, FeedbackRequests, ReviewRequests, ApplyStep

\* A proposal is decided once, only an approved one has a result, one, and
\* success comes with the one continuation of its Run in the same step.
THEOREM ReviewContractKept == Spec => KeepsReviewContract
BY ContractInit, ContractStep, InvCorrect, PTL DEF Spec, KeepsReviewContract, Contract!Spec
=============================================================================
