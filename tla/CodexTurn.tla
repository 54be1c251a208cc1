------------------------------ MODULE CodexTurn ------------------------------
(***************************************************************************)
(* One provider lane of the daemon and its Codex processes.  The lane works *)
(* on one job after the other: it verifies the runtime (command probe and   *)
(* model list), has the adapter run a turn of "codex app-server" over       *)
(* JSON-RPC lines, posts every event to the server and reports an output or *)
(* a failure.  Codex itself is the environment: it answers, notifies, asks  *)
(* for permissions, falls silent or exits as it likes.                      *)
(*                                                                         *)
(* A promise continuation is an action of its own, so any number of lines   *)
(* that came in the same chunk may be read before it.  The lease of the     *)
(* task and the terminal call are LeasedTask's; here a job is aborted at    *)
(* any time and ends by reporting.                                          *)
(***************************************************************************)
EXTENDS Naturals, Sequences, SequencesExt, FiniteSets

CONSTANTS
  Turn,        \* the jobs, in the order of their numbers
  Access,      \* workspace access of the jobs
  Requests,    \* permissions Codex may ask for
  MaxNotices,  \* bound: lines Codex writes in a turn apart from its answers
  MaxPages     \* pages of the model list that are read (20 in the code)

RequestKind == {"command", "write", "escalation", "mcp", "unsupported"}
Permission == [kind : RequestKind, place : {"none", "inside", "outside"}, scoped : BOOLEAN]

ASSUME CodexAssumption ==
  /\ Turn \subseteq Nat \ {0}
  /\ Access \in {"read-only", "workspace-write"} /\ Requests \subseteq Permission
  /\ MaxNotices \in Nat /\ MaxPages \in Nat \ {0}

VARIABLES
  lane,     \* the job in hand, what it is at, and the output it has seen
  outcome,  \* what was reported for each job
  aborted,  \* jobs whose controller was aborted
  turn,     \* the adapter's run of each job: its continuation and turn state
  client,   \* JSON-RPC connection
  child,    \* app-server process of the turn
  stdin,    \* request Codex has not answered
  stdout,   \* lines not yet read
  queue,    \* events for the runner
  said,     \* history: what Codex wrote about its turn
  notices   \* bound: lines written

runnerVars == <<lane, outcome, aborted>>
adapterVars == <<turn, client, queue>>
codexVars == <<child, stdin, stdout, said, notices>>
vars == <<runnerVars, adapterVars, codexVars>>

NoJob == 0
IdleLane == [job |-> NoJob, at |-> "idle", page |-> 0, listed |-> FALSE, raw |-> FALSE]

Notice == {"json answer", "prose answer", "turn completed", "turn failed", "error"}
Response == {"result", "refusal"}
NoRequest == [kind |-> "unsupported", place |-> "none", scoped |-> FALSE]
Line == [what : Notice \cup Response \cup {"request"}, about : Permission]
\* Of an event only that it is the last one matters.
Event == {"other", "completed"}

\* CodexTurnState, with the promises the run awaits.
TurnState ==
  [at : {"unborn", "initialize", "thread", "turn/start", "turn", "over"},
   reply : {"awaited", "result", "error"},
   done : {"open", "settled", "failed"},
   status : {"none", "completed", "failed"}, error : BOOLEAN,
   final : {"none", "json", "prose"}]

NoTurn == [at |-> "unborn", reply |-> "awaited", done |-> "open",
           status |-> "none", error |-> FALSE, final |-> "none"]

Lane ==
  [job : {NoJob} \cup Turn,
   at : {"idle", "probing", "listing", "reading", "posting"},
   page : 0..MaxPages, listed : BOOLEAN, raw : BOOLEAN]

TypeOK ==
  /\ lane \in Lane
  /\ outcome \in [Turn -> {"none", "output", "failure"}]
  /\ aborted \in SUBSET Turn
  /\ turn \in [Turn -> TurnState]
  /\ client \in [Turn -> {"open", "closed"}]
  /\ child \in [Turn -> {"none", "running", "exited"}]
  /\ stdin \in [Turn -> {"none", "initialize", "thread", "turn/start"}]
  /\ stdout \in [Turn -> Seq(Line)]
  /\ queue \in [Turn -> [items : Seq(Event), end : {"open", "closed", "failed"}]]
  /\ said \in [Turn -> [status : {"none", "completed", "failed"}, json : BOOLEAN]]
  /\ notices \in [Turn -> 0..MaxNotices]

Init ==
  /\ lane = IdleLane
  /\ outcome = [t \in Turn |-> "none"] /\ aborted = {}
  /\ turn = [t \in Turn |-> NoTurn]
  /\ client = [t \in Turn |-> "open"]
  /\ child = [t \in Turn |-> "none"]
  /\ stdin = [t \in Turn |-> "none"]
  /\ stdout = [t \in Turn |-> <<>>]
  /\ queue = [t \in Turn |-> [items |-> <<>>, end |-> "open"]]
  /\ said = [t \in Turn |-> [status |-> "none", json |-> FALSE]]
  /\ notices = [t \in Turn |-> 0]

-----------------------------------------------------------------------------
(* AsyncEventQueue *)

Push(q, events) == IF q.end = "open" THEN [q EXCEPT !.items = @ \o events] ELSE q

End(q, how) == IF q.end = "open" THEN [q EXCEPT !.end = how] ELSE q

-----------------------------------------------------------------------------
(* The job *)

At(t, place) == lane.job = t /\ lane.at = place

\* The lane is free for the next claim.
Report(t, verdict) ==
  /\ lane' = IdleLane
  /\ outcome' = [outcome EXCEPT ![t] = verdict]

\* The claim loop takes the next task.
TakeJob(t) ==
  /\ lane = IdleLane /\ outcome[t] = "none"
  /\ \A s \in Turn : s < t => outcome[s] # "none"
  /\ lane' = [IdleLane EXCEPT !.job = t, !.at = "probing"]
  /\ UNCHANGED <<outcome, aborted, adapterVars, codexVars>>

\* What running the command for its version may show: it is not there, fails,
\* prints no version, one older than the minimum, another than the one in the
\* snapshot of the Run, or that one.
Version == {"missing", "failing", "unreadable", "old", "changed", "pinned"}
Compatible(version) == version \in {"changed", "pinned"}

\* The login is asked for only of a compatible command.
Login == {"ready", "expired", "required", "unknown"}
AuthStatus(version, login, key) ==
  IF key THEN "ready" ELSE IF Compatible(version) THEN login ELSE "unknown"

\* verifyRuntime, up to the model list.
Usable(version, auth) == version = "pinned" /\ auth = "ready"

ProbeSucceeds(t) ==
  /\ At(t, "probing") /\ t \notin aborted
  /\ \E version \in Version, login \in Login, key \in BOOLEAN :
       Usable(version, AuthStatus(version, login, key))
  /\ lane' = [lane EXCEPT !.at = "listing", !.page = 1]
  /\ UNCHANGED <<outcome, aborted, adapterVars, codexVars>>

ProbeFails(t) ==
  /\ At(t, "probing")
  /\ Report(t, "failure")
  /\ UNCHANGED <<aborted, adapterVars, codexVars>>

\* A page of the model list, with the model the snapshot names or without it.
ListPage(t) ==
  /\ At(t, "listing") /\ t \notin aborted /\ lane.page < MaxPages
  /\ \E listed \in BOOLEAN :
       lane' = [lane EXCEPT !.page = @ + 1, !.listed = @ \/ listed]
  /\ UNCHANGED <<outcome, aborted, adapterVars, codexVars>>

\* The last page: the connection is closed, and the adapter starts a turn when
\* the model is still available.
ListEnds(t) ==
  /\ At(t, "listing") /\ t \notin aborted
  /\ \E listed \in BOOLEAN :
       IF lane.listed \/ listed
       THEN /\ lane' = [lane EXCEPT !.at = "reading"]
            /\ turn' = [turn EXCEPT ![t].at = "initialize"]
            /\ child' = [child EXCEPT ![t] = "running"]
            /\ stdin' = [stdin EXCEPT ![t] = "initialize"]
            /\ queue' = [queue EXCEPT ![t] = Push(@, <<"other">>)]
            /\ UNCHANGED outcome
       ELSE /\ Report(t, "failure")
            /\ UNCHANGED <<turn, child, stdin, queue>>
  /\ UNCHANGED <<aborted, client, stdout, said, notices>>

\* The listing process refuses, exits or is killed by the abort.
ListFails(t) ==
  /\ At(t, "listing")
  /\ Report(t, "failure")
  /\ UNCHANGED <<aborted, adapterVars, codexVars>>

\* The runner takes an event and posts it.
TakeEvent(t) ==
  /\ At(t, "reading") /\ queue[t].items # <<>>
  /\ lane' = [lane EXCEPT !.at = "posting",
                          !.raw = @ \/ Head(queue[t].items) = "completed"]
  /\ queue' = [queue EXCEPT ![t].items = Tail(@)]
  /\ UNCHANGED <<outcome, aborted, turn, client, codexVars>>

EventStored(t) ==
  /\ At(t, "posting") /\ t \notin aborted
  /\ lane' = [lane EXCEPT !.at = "reading"]
  /\ UNCHANGED <<outcome, aborted, adapterVars, codexVars>>

\* The server refuses the event, cannot be reached, or the signal is aborted.
\* Nothing tells the adapter.
EventRefused(t) ==
  /\ At(t, "posting")
  /\ Report(t, "failure")
  /\ UNCHANGED <<aborted, adapterVars, codexVars>>

\* The stream is over: an output, or a failure when it failed, when there was
\* none, or when the job was aborted.
StreamEnds(t) ==
  /\ At(t, "reading") /\ queue[t].items = <<>> /\ queue[t].end # "open"
  /\ Report(t, IF queue[t].end = "closed" /\ lane.raw /\ t \notin aborted
               THEN "output" ELSE "failure")
  /\ UNCHANGED <<aborted, adapterVars, codexVars>>

-----------------------------------------------------------------------------
(* The JSON-RPC connection *)

\* Fault: the request that is awaited stays pending.
RejectedTurnOnly(s) == [s EXCEPT !.done = IF @ = "open" THEN "failed" ELSE @]

\* fail: every request is rejected, and so is the turn.
Rejected(s) == [s EXCEPT !.reply = IF s.at \in {"initialize", "thread", "turn/start"}
                                   THEN "error" ELSE @,
                         !.done = IF @ = "open" THEN "failed" ELSE @]

FailConnection(t) ==
  IF client[t] = "open"
  THEN /\ client' = [client EXCEPT ![t] = "closed"]
       /\ turn' = [turn EXCEPT ![t] = Rejected(@)]
  ELSE UNCHANGED <<client, turn>>

\* The runner's controller is aborted: the lease is lost or the task cancelled.
\* Every process of the job gets SIGTERM, which Codex may ignore; the
\* connection fails at once, so that cancel's interrupt and its kill after two
\* seconds find it closed.
Abort(t) ==
  /\ lane.job = t /\ t \notin aborted
  /\ aborted' = aborted \cup {t}
  /\ IF child[t] = "running" THEN FailConnection(t) ELSE UNCHANGED <<client, turn>>
  /\ UNCHANGED <<lane, outcome, queue, codexVars>>

\* The process is gone; lines it wrote before may still be read.
ChildExits(t) ==
  /\ child[t] = "running"
  /\ child' = [child EXCEPT ![t] = "exited"]
  /\ FailConnection(t)
  /\ UNCHANGED <<runnerVars, queue, stdin, stdout, said, notices>>

\* SIGKILL 500 ms after the run is over.
Kill(t) == turn[t].at = "over" /\ ChildExits(t)

\* codexPermission and WorkspacePermissionPolicy.
Authorized(p) ==
  /\ p.kind \in {"command", "write"}
  /\ p.place = "inside"
  /\ Access = "workspace-write"
  /\ p.kind = "command" => p.scoped

\* normalizeCodexNotification: what a notice does to the turn's state ...
Noted(s, line) ==
  CASE line = "json answer" -> [s EXCEPT !.final = "json"]
    [] line = "prose answer" -> [s EXCEPT !.final = "prose"]
    [] line = "turn completed" -> [s EXCEPT !.status = "completed", !.error = FALSE]
    [] line = "turn failed" -> [s EXCEPT !.status = "failed", !.error = TRUE]
    [] line = "error" -> [s EXCEPT !.error = TRUE]
    [] OTHER -> s

\* ... and which events it becomes.
EventsOf(line) == IF line \in {"turn completed", "turn failed"} THEN <<>> ELSE <<"other">>

\* Fault: only a completed turn is waited for.
SettlingOnSuccess(line) == line = "turn completed"

\* Three notices end the wait for the turn.
Settling(line) == line \in {"turn completed", "turn failed", "error"}

ReadNotice(t, line) ==
  /\ turn' = [turn EXCEPT ![t] =
       [Noted(turn[t], line) EXCEPT !.done = IF Settling(line) /\ @ = "open" THEN "settled" ELSE @]]
  /\ queue' = [queue EXCEPT ![t] = Push(@, EventsOf(line))]

\* The answer to the only request that can be pending; a closed connection has
\* forgotten it.
ReadResponse(t, line) ==
  /\ turn' = IF client[t] = "open"
             THEN [turn EXCEPT ![t].reply = IF line = "result" THEN "result" ELSE "error"]
             ELSE turn
  /\ UNCHANGED queue

\* A request of Codex is approved, declined with an event, or refused as
\* unsupported.
ReadRequest(t, request) ==
  /\ queue' = IF request.kind = "unsupported" \/ Authorized(request) THEN queue
              ELSE [queue EXCEPT ![t] = Push(@, <<"other">>)]
  /\ UNCHANGED turn

ReadLine(t) ==
  /\ stdout[t] # <<>>
  /\ stdout' = [stdout EXCEPT ![t] = Tail(@)]
  /\ LET line == Head(stdout[t])
     IN \/ line.what \in Notice /\ ReadNotice(t, line.what)
        \/ line.what \in Response /\ ReadResponse(t, line.what)
        \/ line.what = "request" /\ ReadRequest(t, line.about)
  /\ UNCHANGED <<runnerVars, client, child, stdin, said, notices>>

-----------------------------------------------------------------------------
(* The adapter's run *)

\* An exception: the connection is closed and the stream fails.
Throw(t, q) ==
  /\ turn' = [turn EXCEPT ![t].at = "over"]
  /\ client' = [client EXCEPT ![t] = "closed"]
  /\ queue' = [queue EXCEPT ![t] = End(q, "failed")]
  /\ UNCHANGED stdin

\* The next request of the run, rejected at once when the connection is closed.
Send(t, next, q) ==
  IF client[t] = "closed" THEN Throw(t, q)
  ELSE /\ turn' = [turn EXCEPT ![t].at = next, ![t].reply = "awaited"]
       /\ stdin' = [stdin EXCEPT ![t] = next]
       /\ queue' = [queue EXCEPT ![t] = q]
       /\ UNCHANGED client

Refused(t) ==
  /\ turn[t].at \in {"initialize", "thread", "turn/start"} /\ turn[t].reply = "error"
  /\ Throw(t, queue[t])
  /\ UNCHANGED <<runnerVars, child, stdout, said, notices>>

Initialized(t) ==
  /\ turn[t].at = "initialize" /\ turn[t].reply = "result"
  /\ Send(t, "thread", queue[t])
  /\ UNCHANGED <<runnerVars, child, stdout, said, notices>>

ThreadOpened(t) ==
  /\ turn[t].at = "thread" /\ turn[t].reply = "result"
  /\ Send(t, "turn/start", Push(queue[t], <<"other">>))
  /\ UNCHANGED <<runnerVars, child, stdout, said, notices>>

TurnStarted(t) ==
  /\ turn[t].at = "turn/start" /\ turn[t].reply = "result"
  /\ turn' = [turn EXCEPT ![t].at = "turn"]
  /\ UNCHANGED <<runnerVars, client, queue, codexVars>>

\* Fault: the error of the turn is not looked at.
SoundButError(s) == s.done = "settled" /\ s.status \in {"none", "completed"} /\ s.final = "json"

\* parseStructuredOutput, of a final text that is not empty.
Structured(final) == final = "json"

\* The checks after turnDone.
Sound(s) == /\ s.done = "settled"
            /\ s.status \in {"none", "completed"}
            /\ ~s.error
            /\ Structured(s.final)

TurnEnds(t) ==
  /\ turn[t].at = "turn" /\ turn[t].done # "open"
  /\ IF Sound(turn[t])
     THEN /\ turn' = [turn EXCEPT ![t].at = "over"]
          /\ client' = [client EXCEPT ![t] = "closed"]
          /\ queue' = [queue EXCEPT ![t] = End(Push(@, <<"completed">>), "closed")]
          /\ UNCHANGED stdin
     ELSE Throw(t, queue[t])
  /\ UNCHANGED <<runnerVars, child, stdout, said, notices>>

-----------------------------------------------------------------------------
(* Codex, the environment *)

Writes(t, what, about) ==
  stdout' = [stdout EXCEPT ![t] = Append(@, [what |-> what, about |-> about])]

Respond(t) ==
  /\ child[t] = "running" /\ stdin[t] # "none"
  /\ \E line \in Response : Writes(t, line, NoRequest)
  /\ stdin' = [stdin EXCEPT ![t] = "none"]
  /\ UNCHANGED <<runnerVars, adapterVars, child, said, notices>>

\* A turn is under way, as far as Codex is concerned.
InTurn(t) == turn[t].at = "turn" \/ turn[t].at = "turn/start"

Notify(t) ==
  /\ child[t] = "running" /\ notices[t] < MaxNotices /\ turn[t].at # "over"
  /\ notices' = [notices EXCEPT ![t] = @ + 1]
  /\ \E line \in Notice :
       /\ line = "error" \/ (InTurn(t) /\ said[t].status = "none")
       /\ Writes(t, line, NoRequest)
       /\ said' = [said EXCEPT ![t] =
            CASE line = "turn completed" -> [@ EXCEPT !.status = "completed"]
              [] line = "turn failed" -> [@ EXCEPT !.status = "failed"]
              [] line = "json answer" -> [@ EXCEPT !.json = TRUE]
              [] line = "prose answer" -> [@ EXCEPT !.json = FALSE]
              [] OTHER -> @]
  /\ UNCHANGED <<runnerVars, adapterVars, child, stdin>>

Ask(t) ==
  /\ child[t] = "running" /\ notices[t] < MaxNotices /\ InTurn(t)
  /\ notices' = [notices EXCEPT ![t] = @ + 1]
  /\ \E request \in Requests : Writes(t, "request", request)
  /\ UNCHANGED <<runnerVars, adapterVars, child, stdin, said>>

-----------------------------------------------------------------------------

Job(t) ==
  \/ TakeJob(t) \/ ProbeSucceeds(t) \/ ProbeFails(t)
  \/ ListPage(t) \/ ListEnds(t) \/ ListFails(t)
  \/ TakeEvent(t) \/ EventStored(t) \/ EventRefused(t) \/ StreamEnds(t)

Adapter(t) ==
  \/ ReadLine(t)
  \/ Refused(t) \/ Initialized(t) \/ ThreadOpened(t) \/ TurnStarted(t) \/ TurnEnds(t)

Codex(t) == Respond(t) \/ Notify(t) \/ Ask(t) \/ ChildExits(t)

Next ==
  \E t \in Turn : Job(t) \/ Adapter(t) \/ Codex(t) \/ Abort(t)

Spec == Init /\ [][Next]_vars

\* The daemon's event loop goes on, a post is answered or fails, and timers
\* fire.  Codex owes nothing: it may stay silent for ever.
Fairness ==
  \A t \in Turn :
    /\ WF_vars(Adapter(t)) /\ WF_vars(Kill(t))
    /\ WF_vars(TakeEvent(t)) /\ WF_vars(StreamEnds(t))
    /\ WF_vars(EventStored(t) \/ EventRefused(t))
    /\ WF_vars(t \in aborted /\ (ProbeFails(t) \/ ListFails(t)))

FairSpec == Spec /\ Fairness

-----------------------------------------------------------------------------
(* Properties *)

\* Whatever order answers, notices, errors, aborts and the exit of the process
\* come in, a job reports an output only when Codex completed the turn and
\* answered in the structured form last.
OutputEarned ==
  \A t \in Turn : outcome[t] = "output" => said[t].status = "completed" /\ said[t].json

\* execution.completed is the last event of its stream: nothing that is read
\* later follows it, and nothing is left unread when it has been taken.
CompletedIsLast ==
  \A t \in Turn :
    /\ \A i \in DOMAIN queue[t].items :
         queue[t].items[i] = "completed" => i = Len(queue[t].items) /\ queue[t].end = "closed"
    /\ lane.job = t /\ lane.raw => queue[t].items = <<>>

\* What a stream holds, and what a job makes of it, are sound at any moment.
TurnSound == TypeOK /\ OutputEarned /\ CompletedIsLast

\* Once Codex has ended its turn and answered its requests, the job gets an
\* outcome.
TurnDecided ==
  \A t \in Turn : (said[t].status # "none" /\ stdin[t] = "none") ~> (outcome[t] # "none")

\* An aborted job ends and its process is gone, although Codex may ignore the
\* termination signal and every request.
AbortEnds ==
  \A t \in Turn : t \in aborted ~> (outcome[t] = "failure" /\ child[t] # "running")
=============================================================================
