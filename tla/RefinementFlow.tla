--------------------------- MODULE RefinementFlow ---------------------------
(***************************************************************************)
(* From Feedback to a continuation Run: Feedback of people, of blocked     *)
(* Runs and of approved Critic proposals; the Refinement Run that takes an *)
(* open Feedback; the proposal it writes and the human decision on it; the *)
(* apply, which awaits git and validations between its claim and the       *)
(* transaction that records the result; and the continuation Run that      *)
(* transaction creates, which is resumed in another one.                   *)
(*                                                                         *)
(* Every SQLite transaction is one action.  Handlers interleave only where *)
(* they await, so "worker" says where an apply is parked; a death of the   *)
(* server, or its orderly exit, forgets it.                                *)
(***************************************************************************)
EXTENDS Naturals, FiniteSets

CONSTANTS
  Feedback,      \* ids of feedback_entries
  Critic,        \* ids of critic_proposals
  Refinement,    \* ids of refinement_runs; each has at most one proposal
  NoFeedback, NoCritic, NoRefinement,
  MaxRuns,       \* bound: Environment Runs, numbered in the order of creation
  MaxStarts,     \* bound: those among them that people start
  MaxCrashes     \* bound: deaths or exits of the server

ASSUME RefinementAssumption ==
  /\ MaxRuns \in Nat /\ MaxStarts \in Nat /\ MaxCrashes \in Nat
  /\ NoFeedback \notin Feedback
  /\ NoCritic \notin Critic
  /\ NoRefinement \notin Refinement

Run == 1..MaxRuns
NoRun == 0      \* Feedback on the project as a whole has no Run

VARIABLES
  run,         \* environment_runs: status
  feedback,    \* feedback_entries
  critic,      \* critic_proposals with the Run of their evidence
  refinement,  \* refinement_runs with their selected Feedback
  proposal,    \* refinement_proposals: status
  decision,    \* refinement_proposal_decisions
  apply,       \* refinement_applies: status
  commit,      \* the branch ballet/refinement/<proposal> has its commit
  link,        \* continuation_links
  worker,      \* where the apply of a proposal is parked in this process
  crashes      \* bound: the deaths so far

reviews == <<critic, refinement, proposal, decision>>
applies == <<apply, commit, link, worker>>
vars == <<run, feedback, reviews, applies, crashes>>

RunStatus == {"none", "pending", "running", "completed", "blocked", "stopped"}
Terminal == {"completed", "blocked", "stopped"}    \* stopped: cancelled or interrupted
\* closed: resolved or dismissed, between which only people tell a difference
FeedbackStatus == {"none", "open", "in_refinement", "closed"}
ApplyEnd == {"applied", "stale", "apply_failed"}
ProposalStatus == {"none", "pending_human_review", "rejected", "applying"} \cup ApplyEnd

Entry(status, e, c, r) == [status |-> status, run |-> e, critic |-> c, proposal |-> r]
NoEntry == Entry("none", NoRun, NoCritic, NoRefinement)
Link(r, e) == [refinement |-> r, source |-> refinement[r].source, continuation |-> e]

Init ==
  /\ run = [e \in Run |-> "none"]
  /\ feedback = [f \in Feedback |-> NoEntry]
  /\ critic = [c \in Critic |-> [status |-> "none", run |-> NoRun]]
  /\ refinement = [r \in Refinement |-> [status |-> "none", source |-> NoRun, feedback |-> NoFeedback]]
  /\ proposal = [r \in Refinement |-> "none"]
  /\ decision = [r \in Refinement |-> "none"]
  /\ apply = [r \in Refinement |-> "none"]
  /\ commit = [r \in Refinement |-> FALSE]
  /\ link = {}
  /\ worker = [r \in Refinement |-> "idle"]
  /\ crashes = 0
-----------------------------------------------------------------------------
(* Environment Runs; EnvironmentRun has their whole life.                  *)

Created == {e \in Run : run[e] # "none"}
Fresh(e) == e \notin Created /\ \A d \in 1..(e - 1) : d \in Created
\* ORDER BY created_at DESC LIMIT 1
Newest(e) ==
  \/ Created = {} /\ e = NoRun
  \/ e \in Created /\ \A d \in Created : d <= e

StartRun(e) ==
  /\ Fresh(e)
  /\ Cardinality(Created) < MaxStarts + Cardinality(link)
  /\ run' = [run EXCEPT ![e] = "running"]
  /\ UNCHANGED <<feedback, reviews, applies, crashes>>

CompleteRun(e) ==
  /\ run[e] = "running"
  /\ run' = [run EXCEPT ![e] = "completed"]
  /\ UNCHANGED <<feedback, reviews, applies, crashes>>

\* Cancelled by a person, also before it was resumed, or interrupted.
StopRun(e) ==
  /\ run[e] \in {"pending", "running"}
  /\ run' = [run EXCEPT ![e] = "stopped"]
  /\ UNCHANGED <<feedback, reviews, applies, crashes>>

\* blockAction writes the Run and its Feedback together.
BlockRun(e, f) ==
  /\ run[e] = "running"
  /\ feedback[f].status = "none"
  /\ run' = [run EXCEPT ![e] = "blocked"]
  /\ feedback' = [feedback EXCEPT ![f] = Entry("open", e, NoCritic, NoRefinement)]
  /\ UNCHANGED <<reviews, applies, crashes>>
-----------------------------------------------------------------------------
(* Feedback of people and of Critics.                                      *)

CreateHumanFeedback(f, e) ==
  /\ feedback[f].status = "none"
  /\ Newest(e)
  /\ feedback' = [feedback EXCEPT ![f] = Entry("open", e, NoCritic, NoRefinement)]
  /\ UNCHANGED <<run, reviews, applies, crashes>>

\* The request names the status the person saw; the UPDATE compares it.
DecideFeedback(f) ==
  /\ feedback[f].status \in {"open", "in_refinement"}
  /\ feedback' = [feedback EXCEPT ![f].status = "closed"]
  /\ UNCHANGED <<run, reviews, applies, crashes>>

\* A Critic reads the Run Evidence of a completed Run.
CreateCriticProposal(c, e) ==
  /\ critic[c].status = "none"
  /\ run[e] = "completed"
  /\ critic' = [critic EXCEPT ![c] = [status |-> "pending_human_review", run |-> e]]
  /\ UNCHANGED <<run, feedback, refinement, proposal, decision, applies, crashes>>

RejectCritic(c) ==
  /\ critic[c].status = "pending_human_review"
  /\ critic' = [critic EXCEPT ![c].status = "rejected"]
  /\ UNCHANGED <<run, feedback, refinement, proposal, decision, applies, crashes>>

\* The Feedback of an approved Critic proposal: on the Run whose evidence the
\* Critic read.
CriticEntry(c) == Entry("open", critic[c].run, c, NoRefinement)

\* One transaction decides and creates the Feedback.
ApproveCritic(c, f) ==
  /\ critic[c].status = "pending_human_review"
  /\ feedback[f].status = "none"
  /\ critic' = [critic EXCEPT ![c].status = "approved"]
  /\ feedback' = [feedback EXCEPT ![f] = CriticEntry(c)]
  /\ UNCHANGED <<run, refinement, proposal, decision, applies, crashes>>
-----------------------------------------------------------------------------
(* Refinement Runs and the decision on their proposals.                    *)

\* Fault: two people start a Refinement from the list each has on screen.
OpenWhenListed(f) == feedback[f].status \in {"open", "in_refinement"} /\ feedback[f].run # NoRun

\* Only Feedback that belongs to a Run and is open at this commit.
Refinable(f) == feedback[f].status = "open" /\ feedback[f].run # NoRun

CreateRefinement(f, r) ==
  /\ refinement[r].status = "none"
  /\ Refinable(f)
  /\ refinement' = [refinement EXCEPT ![r] = [status |-> "queued", source |-> feedback[f].run, feedback |-> f]]
  /\ feedback' = [feedback EXCEPT ![f].status = "in_refinement"]
  /\ UNCHANGED <<run, critic, proposal, decision, applies, crashes>>

\* What the selected Feedback becomes when the proposal is stored: it names the
\* proposal, unless a person has closed it meanwhile.
Bound(r) ==
  LET f == refinement[r].feedback
  IN  IF feedback[f].status = "in_refinement"
      THEN [feedback EXCEPT ![f].proposal = r]
      ELSE feedback

CreateRefinementProposal(r) ==
  /\ refinement[r].status = "queued"
  /\ refinement' = [refinement EXCEPT ![r].status = "completed"]
  /\ proposal' = [proposal EXCEPT ![r] = "pending_human_review"]
  /\ feedback' = Bound(r)
  /\ UNCHANGED <<run, critic, decision, applies, crashes>>

\* failGovernanceRun leaves the Feedback as it is.
RefinementFails(r) ==
  /\ refinement[r].status = "queued"
  /\ refinement' = [refinement EXCEPT ![r].status = "failed"]
  /\ UNCHANGED <<run, feedback, critic, proposal, decision, applies, crashes>>

\* Fault: the status read before the await is not read again after it.
ApproveAsShown(r) ==
  /\ proposal[r] \in {"pending_human_review", "rejected"}
  /\ decision' = [decision EXCEPT ![r] = "approved"]
  /\ proposal' = [proposal EXCEPT ![r] = "applying"]
  /\ UNCHANGED <<run, feedback, critic, refinement, applies, crashes>>

\* Awaiting the preimages comes before this transaction, which reads the
\* proposal again; its content never changes, so hashes are not modelled.
ApproveRefinement(r) ==
  /\ proposal[r] = "pending_human_review"
  /\ decision[r] = "none"
  /\ decision' = [decision EXCEPT ![r] = "approved"]
  /\ proposal' = [proposal EXCEPT ![r] = "applying"]
  /\ UNCHANGED <<run, feedback, critic, refinement, applies, crashes>>

\* What a rejection makes of the selected Feedback.
Reopened(r) ==
  LET f == refinement[r].feedback
  IN  IF feedback[f].status = "in_refinement"
      THEN [feedback EXCEPT ![f].status = "open"]
      ELSE feedback

RejectRefinement(r) ==
  /\ proposal[r] = "pending_human_review"
  /\ decision[r] = "none"
  /\ decision' = [decision EXCEPT ![r] = "rejected"]
  /\ proposal' = [proposal EXCEPT ![r] = "rejected"]
  /\ feedback' = Reopened(r)
  /\ UNCHANGED <<run, critic, refinement, applies, crashes>>
-----------------------------------------------------------------------------
(* The apply.                                                              *)

\* RefinementApplyService.apply up to its first await.
Claimable(r) ==
  /\ proposal[r] = "applying"
  /\ decision[r] = "approved"
  /\ apply[r] = "none"

ClaimApply(r) ==
  /\ Claimable(r)
  /\ apply' = [apply EXCEPT ![r] = "running"]
  /\ worker' = [worker EXCEPT ![r] = "checking"]
  /\ UNCHANGED <<run, feedback, reviews, commit, link, crashes>>

\* The two rows every result is written to, and the end of the worker.
Record(r, result, next) ==
  /\ apply[r] = "running" /\ proposal[r] = "applying"
  /\ apply' = [apply EXCEPT ![r] = result]
  /\ proposal' = [proposal EXCEPT ![r] = result]
  /\ worker' = [worker EXCEPT ![r] = next]

\* A preimage in the worktree differs: nothing has been written.
RecordStale(r) ==
  /\ worker[r] = "checking"
  /\ Record(r, "stale", "idle")
  /\ UNCHANGED <<run, feedback, critic, refinement, decision, commit, link, crashes>>

\* Preimages agree, the files are written and validated, git commits them.
Commit(r) ==
  /\ worker[r] = "checking"
  /\ commit' = [commit EXCEPT ![r] = TRUE]
  /\ worker' = [worker EXCEPT ![r] = "committed"]
  /\ UNCHANGED <<run, feedback, reviews, apply, link, crashes>>

\* Fault: nothing keeps a Run from a second continuation.
ParentOver(r) == run[refinement[r].source] \in Terminal

\* A continuation needs a finished parent that has no continuation yet
\* (continuation_links.source_run_id is UNIQUE).
Continuable(r) ==
  /\ run[refinement[r].source] \in Terminal
  /\ \A l \in link : l.source # refinement[r].source

\* One transaction: both rows, the continuation Run and its link.
RecordApplied(r, e) ==
  /\ worker[r] = "committed"
  /\ Fresh(e)
  /\ Continuable(r)
  /\ Record(r, "applied", "applied")
  /\ run' = [run EXCEPT ![e] = "pending"]
  /\ link' = link \cup {Link(r, e)}
  /\ UNCHANGED <<feedback, critic, refinement, decision, commit, crashes>>

\* Whatever throws before or in RecordApplied is caught and recorded.
RecordFailed(r) ==
  /\ worker[r] \in {"checking", "committed"}
  /\ Record(r, "apply_failed", "idle")
  /\ UNCHANGED <<run, feedback, critic, refinement, decision, commit, link, crashes>>

\* The HTTP handler then resumes the continuation; a cancelled one stays so.
ResumeContinuation(r, e) ==
  /\ worker[r] = "applied"
  /\ \E l \in link : l.refinement = r /\ l.continuation = e
  /\ run' = IF run[e] = "pending" THEN [run EXCEPT ![e] = "running"] ELSE run
  /\ worker' = [worker EXCEPT ![r] = "idle"]
  /\ UNCHANGED <<feedback, reviews, apply, commit, link, crashes>>

\* Death or exit of the server.  Nothing at boot looks for running applies
\* or for continuations that were not resumed.
Crash ==
  /\ crashes < MaxCrashes
  /\ crashes' = crashes + 1
  /\ worker' = [r \in Refinement |-> "idle"]
  /\ UNCHANGED <<run, feedback, reviews, apply, commit, link>>
-----------------------------------------------------------------------------
ApplyStep(r) ==
  \/ RecordStale(r)
  \/ Commit(r)
  \/ RecordFailed(r)
  \/ \E e \in Run : RecordApplied(r, e)
  \/ \E e \in Run : ResumeContinuation(r, e)

\* What people ask of the server: Feedback, and decisions on proposals.
FeedbackRequests ==
  \/ \E f \in Feedback, e \in Run \cup {NoRun} : CreateHumanFeedback(f, e)
  \/ \E f \in Feedback : DecideFeedback(f)
  \/ \E f \in Feedback, r \in Refinement : CreateRefinement(f, r)

ReviewRequests ==
  \/ \E c \in Critic : RejectCritic(c)
  \/ \E c \in Critic, f \in Feedback : ApproveCritic(c, f)
  \/ \E r \in Refinement : ApproveRefinement(r) \/ RejectRefinement(r)
  \/ \E r \in Refinement : ClaimApply(r)

Next ==
  \/ \E e \in Run : StartRun(e) \/ CompleteRun(e) \/ StopRun(e)
  \/ \E e \in Run, f \in Feedback : BlockRun(e, f)
  \/ FeedbackRequests
  \/ ReviewRequests
  \/ \E c \in Critic, e \in Run : CreateCriticProposal(c, e)
  \/ \E r \in Refinement : CreateRefinementProposal(r) \/ RefinementFails(r)
  \/ \E r \in Refinement : ApplyStep(r)
  \/ Crash

Spec == Init /\ [][Next]_vars

-----------------------------------------------------------------------------
FeedbackRow == [status : FeedbackStatus, run : Run \cup {NoRun},
                critic : Critic \cup {NoCritic}, proposal : Refinement \cup {NoRefinement}]
CriticRow == [status : {"none", "pending_human_review", "approved", "rejected"},
              run : Run \cup {NoRun}]
RefinementRow == [status : {"none", "queued", "completed", "failed"},
                  source : Run \cup {NoRun}, feedback : Feedback \cup {NoFeedback}]
LinkRow == [refinement : Refinement, source : Run, continuation : Run]

\* Types; a Refinement Run that exists has a source Run and a Feedback.
TypeOK ==
  /\ run \in [Run -> RunStatus]
  /\ feedback \in [Feedback -> FeedbackRow]
  /\ critic \in [Critic -> CriticRow]
  /\ refinement \in [Refinement -> RefinementRow]
  /\ \A r \in Refinement : refinement[r].status # "none" =>
       refinement[r].source \in Run /\ refinement[r].feedback \in Feedback
  /\ proposal \in [Refinement -> ProposalStatus]
  /\ decision \in [Refinement -> {"none", "approved", "rejected"}]
  /\ apply \in [Refinement -> {"none", "running"} \cup ApplyEnd]
  /\ commit \in [Refinement -> BOOLEAN]
  /\ link \subseteq LinkRow
  /\ worker \in [Refinement -> {"idle", "checking", "committed", "applied"}]
  /\ crashes \in 0..MaxCrashes

\* The Refinement Runs that still hold a Feedback: only a rejection lets go.
Holders(f) == {r \in Refinement : refinement[r].feedback = f /\ decision[r] # "rejected"}

\* A Feedback is worked on by at most one Refinement at a time, and says so:
\* open Feedback has no holder, Feedback in refinement has exactly one, and
\* names that one's proposal as soon as there is one.
OneHolder ==
  \A f \in Feedback :
    /\ \A r, s \in Holders(f) : r = s
    /\ feedback[f].status = "open" => Holders(f) = {}
    /\ feedback[f].status = "in_refinement" =>
         \E r \in Holders(f) : proposal[r] # "none" => feedback[f].proposal = r

\* What a person has closed stays closed, whatever is decided afterwards on a
\* proposal made for it.
ClosedStaysClosed ==
  [][\A f \in Feedback : feedback[f].status = "closed" => feedback'[f] = feedback[f]]_vars

\* A commit, and all the more a continuation, exists only for a proposal a
\* person has approved; a stale proposal has written nothing.
NothingUnapproved ==
  \A r \in Refinement :
    /\ commit[r] => decision[r] = "approved" /\ apply[r] # "none" /\ proposal[r] # "stale"
    /\ (\E l \in link : l.refinement = r) => commit[r]

\* The result of an apply is all or nothing: both rows agree on it, and it is
\* "applied" exactly when the continuation of the source Run exists.
ResultIsWhole ==
  \A r \in Refinement :
    /\ apply[r] \in ApplyEnd \/ proposal[r] \in ApplyEnd => apply[r] = proposal[r]
    /\ apply[r] = "applied" <=> \E l \in link : l.refinement = r
    /\ \A l \in link : l.refinement = r =>
         l.source = refinement[r].source /\ run[l.continuation] # "none"

\* Continuations form a chain per Run, however many proposals for one Run are
\* approved and applied side by side: a Run is continued at most once, is the
\* continuation of at most one other, older and finished Run.
ContinuedOnce ==
  /\ \A k, l \in link : k.source = l.source \/ k.continuation = l.continuation => k = l
  /\ \A l \in link : l.source < l.continuation /\ run[l.source] \in Terminal

\* Every error path of an apply records a result: only the death of the server
\* leaves one running, or its continuation never resumed.
OnlyDeathStrands ==
  \A r \in Refinement :
    \/ crashes > 0
    \/ /\ apply[r] = "running" => worker[r] \in {"checking", "committed"}
       /\ \A l \in link : l.refinement = r /\ run[l.continuation] = "pending" => worker[r] = "applied"

\* An approved Critic proposal has exactly one Feedback, on the Run whose
\* evidence it read; any other has none.
CriticFeedback ==
  \A c \in Critic :
    LET entries == {f \in Feedback : feedback[f].critic = c}
    IN  IF critic[c].status = "approved"
        THEN \E f \in entries : entries = {f} /\ feedback[f].run = critic[c].run
        ELSE entries = {}

\* Every Feedback in work has one Refinement that works on it, and Feedback of
\* a Critic is there for its approval and for nothing else.
FeedbackAccounted == OneHolder /\ CriticFeedback

\* What the applies of all proposals have left behind at any moment, deaths of
\* the server included: results that are approved, whole and unique, and none
\* missing that the server lived to record.
ResultsRecorded ==
  NothingUnapproved /\ ResultIsWhole /\ ContinuedOnce /\ OnlyDeathStrands

\* What people see of a proposal, and the lineage of Runs, follow ReviewContract.
Verdict == [r \in Refinement |->
  CASE proposal[r] = "none" -> "none"
    [] proposal[r] = "pending_human_review" -> "pending"
    [] proposal[r] = "rejected" -> "rejected"
    [] OTHER -> "approved"]
Outcome == [r \in Refinement |->
  CASE apply[r] = "applied" -> "applied"
    [] apply[r] \in {"stale", "apply_failed"} -> "failed"
    [] OTHER -> "open"]
Successor == {<<l.source, l.continuation>> : l \in link}

Contract == INSTANCE ReviewContract WITH
  verdict <- Verdict, outcome <- Outcome, successor <- Successor

KeepsReviewContract == Contract!Spec
=============================================================================
