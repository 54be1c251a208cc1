---------------------------- MODULE DaemonProofs ----------------------------
(***************************************************************************)
(* Proofs about the daemon: CodexTurn for every number of jobs, every       *)
(* access and every set of permission requests, however many lines and      *)
(* pages Codex writes, and DaemonControl for every set of tasks and         *)
(* commands and any number of processes and faults.                        *)
(***************************************************************************)
EXTENDS CodexTurn, DaemonControl, SequenceTheorems, TLAPS

-----------------------------------------------------------------------------
(* The inductive invariant: what has been read of a turn, what is still to  *)
(* be read, and what Codex said.                                            *)

Ending == {"turn completed", "turn failed"}
AnswerLines == {"json answer", "prose answer"}
StatusOf(line) == IF line = "turn completed" THEN "completed" ELSE "failed"

\* A turn ends once, and Codex answers before it does.
EndsOnce(t) ==
  /\ \A n \in DOMAIN stdout[t] : stdout[t][n].what \in Ending =>
       /\ turn[t].status = "none" /\ said[t].status = StatusOf(stdout[t][n].what)
       /\ \A m \in DOMAIN stdout[t] : n < m => stdout[t][m].what \notin Ending \cup AnswerLines
  /\ turn[t].status # "none" =>
       /\ said[t].status = turn[t].status
       /\ \A n \in DOMAIN stdout[t] : stdout[t][n].what \notin Ending \cup AnswerLines

\* Of the answers the last one counts, whether it has been read or not.
LastAnswers(t) ==
  /\ (\A n \in DOMAIN stdout[t] : stdout[t][n].what \notin AnswerLines) =>
       (said[t].json <=> turn[t].final = "json")
  /\ \A n \in DOMAIN stdout[t] :
       /\ stdout[t][n].what \in AnswerLines
       /\ \A m \in DOMAIN stdout[t] : n < m => stdout[t][m].what \notin AnswerLines
       => (said[t].json <=> stdout[t][n].what = "json answer")

\* The wait for a turn is settled by its end, or by an error the checks see.
SettledSoundly(t) == turn[t].done = "settled" => turn[t].error \/ turn[t].status = "completed"

\* A stream is closed by a turn that was sound, after its last event.
ClosedSoundly(t) ==
  /\ queue[t].end = "closed" => turn[t].at = "over" /\ said[t].status = "completed" /\ said[t].json
  /\ \A i \in DOMAIN queue[t].items :
       queue[t].items[i] = "completed" => i = Len(queue[t].items) /\ queue[t].end = "closed"
  /\ outcome[t] = "output" => queue[t].end = "closed"

\* The job in hand has no outcome yet, and the adapter begins with a job once.
BegunOnce(t) ==
  /\ lane.job = t => outcome[t] = "none"
  /\ outcome[t] = "none" /\ (lane.job # t \/ lane.at \in {"probing", "listing"}) =>
       turn[t].at = "unborn"

\* An output has been seen only when nothing follows it.
LaneSound ==
  lane.raw =>
    lane.job \in Turn /\ queue[lane.job].end = "closed" /\ queue[lane.job].items = <<>>

TurnInv(t) ==
  EndsOnce(t) /\ LastAnswers(t) /\ SettledSoundly(t) /\ ClosedSoundly(t) /\ BegunOnce(t)

Inv == TypeOK /\ LaneSound /\ \A t \in Turn : TurnInv(t)

\* The invariant says what the run checks.
LEMMA InvSound == Inv => TurnSound
<1> SUFFICES ASSUME Inv PROVE TurnSound
  OBVIOUS
<1>1. OutputEarned
  BY DEF OutputEarned, Inv, TurnInv, ClosedSoundly
<1>2. CompletedIsLast
  BY DEF CompletedIsLast, Inv, TurnInv, ClosedSoundly, LaneSound
<1> QED BY <1>1, <1>2 DEF TurnSound, Inv

-----------------------------------------------------------------------------
(* Records and sequences.                                                  *)

\* What is left of a list of lines after the first.
LEMMA TailLines ==
  ASSUME NEW S, NEW s \in Seq(S), s # <<>>
  PROVE  /\ Tail(s) \in Seq(S) /\ Head(s) \in S /\ Head(s) = s[1] /\ 1 \in DOMAIN s
         /\ \A n \in DOMAIN Tail(s) : n + 1 \in DOMAIN s /\ Tail(s)[n] = s[n + 1] /\ n > 0
         /\ \A n \in DOMAIN s : n # 1 => n - 1 \in DOMAIN Tail(s) /\ Tail(s)[n - 1] = s[n]
  OBVIOUS

\* The places of a list and those of what is left after the first line.
LEMMA TailPlaces ==
  ASSUME NEW S, NEW s \in Seq(S), s # <<>>, NEW r, r = Tail(s)
  PROVE  /\ 1 \in DOMAIN s /\ r \in Seq(S)
         /\ \A n \in DOMAIN r : n + 1 \in DOMAIN s /\ 1 < n + 1 /\ r[n] = s[n + 1]
         /\ \A n, m \in DOMAIN r : n < m => n + 1 < m + 1
         /\ \A n \in DOMAIN s : n # 1 => 1 < n /\ n - 1 \in DOMAIN r /\ r[n - 1] = s[n]
         /\ \A n \in DOMAIN r : \A m \in DOMAIN s : n + 1 < m => m # 1 /\ n < m - 1
         /\ ~(1 < 1)
<1>1. /\ \A n \in DOMAIN s : n \in Int /\ n >= 1
      /\ \A n \in DOMAIN r : n \in Int /\ n >= 1
  OBVIOUS
<1>2. /\ 1 \in DOMAIN s /\ r \in Seq(S)
      /\ \A n \in DOMAIN r : n + 1 \in DOMAIN s /\ r[n] = s[n + 1]
      /\ \A n \in DOMAIN s : n # 1 => n - 1 \in DOMAIN r /\ r[n - 1] = s[n]
  BY TailLines
<1> QED BY <1>1, <1>2

\* A list of lines with one more.
LEMMA AppendLines ==
  ASSUME NEW S, NEW s \in Seq(S), NEW e \in S
  PROVE  /\ Append(s, e) \in Seq(S)
         /\ DOMAIN Append(s, e) = DOMAIN s \cup {Len(s) + 1} /\ Len(s) + 1 \notin DOMAIN s
         /\ Append(s, e)[Len(s) + 1] = e
         /\ \A n \in DOMAIN s : Append(s, e)[n] = s[n] /\ n < Len(s) + 1
  OBVIOUS

\* Nothing comes after the new line.
LEMMA LastPlace ==
  ASSUME NEW S, NEW s \in Seq(S)
  PROVE  ~(Len(s) + 1 < Len(s) + 1) /\ \A n \in DOMAIN s : ~(Len(s) + 1 < n)
  OBVIOUS

\* A failed connection rejects what is awaited and nothing else.
LEMMA RejectedFields ==
  ASSUME NEW s \in TurnState, NEW n, n = Rejected(s)
  PROVE  /\ n \in TurnState /\ n.at = s.at /\ n.final = s.final
         /\ n.status = s.status /\ n.error = s.error
         /\ n.done = "settled" => s.done = "settled"
  BY DEF Rejected, TurnState

Stream == [items : Seq(Event), end : {"open", "closed", "failed"}]

\* Events are added to an open stream only.
LEMMA PushFields ==
  ASSUME NEW q \in Stream, NEW e \in Event, NEW p, p = Push(q, <<e>>)
  PROVE  /\ p \in Stream /\ p.end = q.end
         /\ q.end # "open" => p = q
         /\ q.end = "open" => p.items = Append(q.items, e)
<1>1. PICK items \in Seq(Event), end \in {"open", "closed", "failed"} : items = q.items /\ end = q.end
  BY DEF Stream
<1>2. items \o <<e>> = Append(items, e) /\ Append(items, e) \in Seq(Event)
  OBVIOUS
<1>3. CASE end = "open"
  <2>1. p = [q EXCEPT !.items = Append(items, e)]
    BY <1>1, <1>2, <1>3 DEF Push
  <2> QED BY <1>1, <1>2, <1>3, <2>1 DEF Stream
<1>4. CASE end # "open"
  BY <1>1, <1>4 DEF Push
<1> QED BY <1>3, <1>4

\* A notice that is no event adds none.
LEMMA PushNothing ==
  ASSUME NEW q \in Stream
  PROVE  Push(q, <<>>) = q
  BY DEF Push, Stream

\* A stream ends once.
LEMMA EndFields ==
  ASSUME NEW q \in Stream, NEW how \in {"closed", "failed"}, NEW p, p = End(q, how)
  PROVE  /\ p \in Stream /\ p.items = q.items
         /\ p.end = IF q.end = "open" THEN how ELSE q.end
  BY DEF End, Stream

\* Every row has its type.
LEMMA RowTypes ==
  ASSUME TypeOK, NEW t \in Turn
  PROVE  /\ turn[t] \in TurnState /\ queue[t] \in Stream /\ stdout[t] \in Seq(Line)
         /\ said[t] \in [status : {"none", "completed", "failed"}, json : BOOLEAN]
         /\ t # NoJob /\ notices[t] \in 0..MaxNotices
  BY CodexAssumption DEF TypeOK, Stream, NoJob

\* What may follow in a stream whose last event is marked.
LastIsMarked(q) ==
  \A i \in DOMAIN q.items : q.items[i] = "completed" => i = Len(q.items) /\ q.end = "closed"

\* Events other than the last one keep the mark.
LEMMA PushOther ==
  ASSUME NEW q \in Stream, LastIsMarked(q), NEW p, p = Push(q, <<"other">>)
  PROVE  LastIsMarked(p) /\ p \in Stream /\ p.end = q.end /\ (q.end # "open" => p = q)
<1>1. p \in Stream /\ p.end = q.end /\ (q.end # "open" => p = q)
      /\ (q.end = "open" => p.items = Append(q.items, "other"))
  BY PushFields DEF Event
<1>2. CASE q.end = "open"
  <2>1. \A i \in DOMAIN q.items : q.items[i] # "completed"
    BY <1>2 DEF LastIsMarked
  <2>2. q.items \in Seq(Event) /\ "other" \in Event
    BY DEF Stream, Event
  <2>3. \A i \in DOMAIN p.items : p.items[i] # "completed"
    BY <1>1, <1>2, <2>1, <2>2, SMTT(30)
  <2> QED BY <1>1, <2>3 DEF LastIsMarked
<1>3. CASE q.end # "open"
  BY <1>1, <1>3
<1> QED BY <1>1, <1>2, <1>3

\* The last event closes the stream.
LEMMA PushLast ==
  ASSUME NEW q \in Stream, LastIsMarked(q), NEW p, p = End(Push(q, <<"completed">>), "closed")
  PROVE  LastIsMarked(p) /\ p \in Stream /\ (q.end # "open" => p.end = q.end /\ p.items = q.items)
<1>1. PICK r : r = Push(q, <<"completed">>)
  OBVIOUS
<1>2. r \in Stream /\ r.end = q.end /\ (q.end # "open" => r = q)
      /\ (q.end = "open" => r.items = Append(q.items, "completed"))
  BY <1>1, PushFields DEF Event
<1>3. p \in Stream /\ p.items = r.items /\ p.end = IF r.end = "open" THEN "closed" ELSE r.end
  BY <1>1, <1>2, EndFields
<1>4. CASE q.end = "open"
  <2>1. \A i \in DOMAIN q.items : q.items[i] # "completed"
    BY <1>4 DEF LastIsMarked
  <2>2. q.items \in Seq(Event) /\ "completed" \in Event
    BY DEF Stream, Event
  <2>3. \A i \in DOMAIN p.items : p.items[i] = "completed" => i = Len(p.items)
    <3>1. p.items = Append(q.items, "completed")
      BY <1>2, <1>3, <1>4
    <3>2. DOMAIN p.items = DOMAIN q.items \cup {Len(q.items) + 1}
          /\ \A n \in DOMAIN q.items : p.items[n] = q.items[n]
      BY <2>2, <3>1, AppendLines
    <3>3. Len(p.items) = Len(q.items) + 1
      BY <2>2, <3>1
    <3> QED BY <2>1, <3>2, <3>3
  <2> QED BY <1>2, <1>3, <1>4, <2>3 DEF LastIsMarked
<1>5. CASE q.end # "open"
  BY <1>2, <1>3, <1>5 DEF LastIsMarked
<1> QED BY <1>4, <1>5

\* A failure ends the stream without an event.
LEMMA EndFailed ==
  ASSUME NEW q \in Stream, LastIsMarked(q), NEW p, p = End(q, "failed")
  PROVE  /\ LastIsMarked(p) /\ p \in Stream
         /\ p.end = IF q.end = "open" THEN "failed" ELSE q.end
         /\ q.end # "open" => p.items = q.items
  BY EndFields DEF LastIsMarked

-----------------------------------------------------------------------------
(* Types                                                                   *)

Place == {"idle", "probing", "listing", "reading", "posting"}

\* The lane begins with no job.
LEMMA IdleType == IdleLane \in Lane
BY CodexAssumption DEF Lane, IdleLane, NoJob

\* The lane takes a job.
LEMMA TakenType ==
  ASSUME NEW t \in Turn, NEW at \in Place
  PROVE  [IdleLane EXCEPT !.job = t, !.at = at] \in Lane
BY IdleType DEF Lane, Place

\* The lane goes on with a job.
LEMMA LaneMoves ==
  ASSUME NEW l \in Lane, NEW at \in Place
  PROVE  [l EXCEPT !.at = at] \in Lane
BY DEF Lane, Place

\* It begins with a page of the model list.
LEMMA LanePages ==
  ASSUME NEW l \in Lane, NEW at \in Place, NEW p \in 0..MaxPages
  PROVE  [l EXCEPT !.at = at, !.page = p] \in Lane
BY DEF Lane, Place

\* It has read a page.
LEMMA LaneLists ==
  ASSUME NEW l \in Lane, NEW p \in 0..MaxPages, NEW b \in BOOLEAN
  PROVE  [l EXCEPT !.page = p, !.listed = b] \in Lane
BY DEF Lane

\* It has taken an event.
LEMMA LaneSees ==
  ASSUME NEW l \in Lane, NEW at \in Place, NEW b \in BOOLEAN
  PROVE  [l EXCEPT !.at = at, !.raw = b] \in Lane
BY DEF Lane, Place

Stage == {"unborn", "initialize", "thread", "turn/start", "turn", "over"}

\* A turn goes on.
LEMMA TurnMoves ==
  ASSUME NEW s \in TurnState, NEW at \in Stage
  PROVE  [s EXCEPT !.at = at] \in TurnState
BY DEF TurnState, Stage

\* Its request is answered.
LEMMA TurnReplies ==
  ASSUME NEW s \in TurnState, NEW reply \in {"awaited", "result", "error"}
  PROVE  [s EXCEPT !.reply = reply] \in TurnState
BY DEF TurnState

\* It sends the next request.
LEMMA TurnSends ==
  ASSUME NEW s \in TurnState, NEW at \in Stage, NEW reply \in {"awaited", "result", "error"}
  PROVE  [s EXCEPT !.at = at, !.reply = reply] \in TurnState
BY DEF TurnState, Stage

\* The wait for it is over.
LEMMA TurnSettles ==
  ASSUME NEW s \in TurnState, NEW done \in {"open", "settled", "failed"}
  PROVE  [s EXCEPT !.done = done] \in TurnState
BY DEF TurnState

\* The row of one job changes.
LEMMA RowChanges ==
  ASSUME NEW S, NEW f \in [Turn -> S], NEW t \in Turn, NEW x \in S
  PROVE  /\ [f EXCEPT ![t] = x] \in [Turn -> S] /\ [f EXCEPT ![t] = x][t] = x
         /\ \A u \in Turn \ {t} : [f EXCEPT ![t] = x][u] = f[u]
  OBVIOUS

\* The steps of the job keep the types.
LEMMA JobType ==
  ASSUME TypeOK, NEW t \in Turn, Job(t)
  PROVE  TypeOK'
<1>1. CASE TakeJob(t) \/ ProbeSucceeds(t) \/ ProbeFails(t) \/ ListPage(t) \/ ListFails(t)
  <2>1. lane' \in Lane
    <3>1. CASE TakeJob(t)
      BY <3>1, TakenType DEF TakeJob, Place
    <3>2. CASE ProbeSucceeds(t)
      <4>1. 1 \in 0..MaxPages
        BY CodexAssumption
      <4> QED BY <3>2, <4>1, LanePages DEF ProbeSucceeds, TypeOK, Place
    <3>3. CASE ListPage(t)
      <4>1. lane \in Lane /\ lane.page + 1 \in 0..MaxPages
        BY <3>3, CodexAssumption DEF ListPage, TypeOK, Lane
      <4>2. PICK listed \in BOOLEAN : lane' = [lane EXCEPT !.page = @ + 1, !.listed = @ \/ listed]
        BY <3>3 DEF ListPage
      <4>3. PICK b \in BOOLEAN : b = (lane.listed \/ listed)
        OBVIOUS
      <4>4. PICK p \in 0..MaxPages : p = lane.page + 1
        BY <4>1
      <4>5. lane' = [lane EXCEPT !.page = p, !.listed = b]
        BY <4>2, <4>3, <4>4
      <4> QED BY <4>1, <4>5, LaneLists
    <3>4. CASE ProbeFails(t) \/ ListFails(t)
      BY <3>4, IdleType DEF ProbeFails, ListFails, Report
    <3> QED BY <1>1, <3>1, <3>2, <3>3, <3>4
  <2>2. outcome' \in [Turn -> {"none", "output", "failure"}]
    BY <1>1 DEF TakeJob, ProbeSucceeds, ProbeFails, ListPage, ListFails, Report, TypeOK
  <2>3. UNCHANGED <<aborted, adapterVars, codexVars>>
    BY <1>1 DEF TakeJob, ProbeSucceeds, ProbeFails, ListPage, ListFails
  <2> QED BY <2>1, <2>2, <2>3 DEF TypeOK, adapterVars, codexVars
<1>2. CASE ListEnds(t)
  <2>1. lane' \in Lane
    <3>1. lane' = IdleLane \/ lane' = [lane EXCEPT !.at = "reading"]
      BY <1>2 DEF ListEnds, Report
    <3>2. lane \in Lane /\ "reading" \in Place
      BY DEF TypeOK, Place
    <3> QED BY <3>1, <3>2, IdleType, LaneMoves
  <2>2. outcome' \in [Turn -> {"none", "output", "failure"}]
    BY <1>2 DEF ListEnds, Report, TypeOK
  <2>3. turn' \in [Turn -> TurnState]
    <3>1. turn[t] \in TurnState /\ turn \in [Turn -> TurnState]
      BY RowTypes DEF TypeOK
    <3>2. [turn[t] EXCEPT !.at = "initialize"] \in TurnState
      BY <3>1, TurnMoves DEF Stage
    <3> QED BY <1>2, <3>1, <3>2, RowChanges DEF ListEnds
  <2>4. queue' \in [Turn -> Stream]
    <3>1. queue[t] \in Stream
      BY RowTypes
    <3>2. Push(queue[t], <<"other">>) \in Stream
      BY <3>1, PushFields DEF Event
    <3>3. queue \in [Turn -> Stream]
      BY DEF TypeOK, Stream
    <3> QED BY <1>2, <3>2, <3>3 DEF ListEnds
  <2>5. child' \in [Turn -> {"none", "running", "exited"}]
        /\ stdin' \in [Turn -> {"none", "initialize", "thread", "turn/start"}]
    BY <1>2 DEF ListEnds, TypeOK
  <2>6. UNCHANGED <<aborted, client, stdout, said, notices>>
    BY <1>2 DEF ListEnds
  <2> QED BY <2>1, <2>2, <2>3, <2>4, <2>5, <2>6 DEF TypeOK, Stream
<1>3. CASE TakeEvent(t)
  <2>1. lane' \in Lane
    <3>1. PICK b \in BOOLEAN : b = (lane.raw \/ Head(queue[t].items) = "completed")
      OBVIOUS
    <3>2. lane' = [lane EXCEPT !.at = "posting", !.raw = b]
      BY <1>3, <3>1 DEF TakeEvent
    <3> QED BY <3>2, LaneSees DEF TypeOK, Place
  <2>2. queue' \in [Turn -> Stream]
    <3>1. queue[t] \in Stream /\ queue[t].items # <<>>
      BY <1>3, RowTypes DEF TakeEvent
    <3>2. Tail(queue[t].items) \in Seq(Event)
      BY <3>1 DEF Stream
    <3> QED BY <1>3, <3>1, <3>2 DEF TakeEvent, TypeOK, Stream
  <2>3. UNCHANGED <<outcome, aborted, turn, client, codexVars>>
    BY <1>3 DEF TakeEvent
  <2> QED BY <2>1, <2>2, <2>3 DEF TypeOK, codexVars, Stream
<1>4. CASE EventStored(t) \/ EventRefused(t) \/ StreamEnds(t)
  <2>1. lane' \in Lane
    BY <1>4, IdleType, LaneMoves DEF EventStored, EventRefused, StreamEnds, Report, TypeOK, Place
  <2>2. outcome' \in [Turn -> {"none", "output", "failure"}]
    BY <1>4 DEF EventStored, EventRefused, StreamEnds, Report, TypeOK
  <2>3. UNCHANGED <<aborted, adapterVars, codexVars>>
    BY <1>4 DEF EventStored, EventRefused, StreamEnds
  <2> QED BY <2>1, <2>2, <2>3 DEF TypeOK, adapterVars, codexVars
<1> QED BY <1>1, <1>2, <1>3, <1>4 DEF Job

\* An exception keeps the types of the adapter.
LEMMA ThrowType ==
  ASSUME TypeOK, NEW t \in Turn, NEW q \in Stream, Throw(t, q)
  PROVE  /\ turn' \in [Turn -> TurnState] /\ client' \in [Turn -> {"open", "closed"}]
         /\ queue' \in [Turn -> Stream]
         /\ stdin' \in [Turn -> {"none", "initialize", "thread", "turn/start"}]
<1>1. End(q, "failed") \in Stream
  BY EndFields
<1>2. turn' \in [Turn -> TurnState] /\ client' \in [Turn -> {"open", "closed"}]
  <2>1. turn[t] \in TurnState /\ turn \in [Turn -> TurnState] /\ client \in [Turn -> {"open", "closed"}]
    BY RowTypes DEF TypeOK
  <2>2. [turn[t] EXCEPT !.at = "over"] \in TurnState
    BY <2>1, TurnMoves DEF Stage
  <2> QED BY <2>1, <2>2 DEF Throw
<1> QED BY <1>1, <1>2 DEF Throw, TypeOK, Stream

\* So does the next request of the run.
LEMMA SendType ==
  ASSUME TypeOK, NEW t \in Turn, NEW q \in Stream, NEW next \in {"thread", "turn/start"},
         Send(t, next, q)
  PROVE  /\ turn' \in [Turn -> TurnState] /\ client' \in [Turn -> {"open", "closed"}]
         /\ queue' \in [Turn -> Stream]
         /\ stdin' \in [Turn -> {"none", "initialize", "thread", "turn/start"}]
<1>1. CASE client[t] = "closed"
  BY <1>1, ThrowType DEF Send
<1>2. CASE client[t] # "closed"
  <2>1. turn' \in [Turn -> TurnState]
    <3>1. turn[t] \in TurnState /\ turn \in [Turn -> TurnState]
      BY RowTypes DEF TypeOK
    <3>2. [turn[t] EXCEPT !.at = next, !.reply = "awaited"] \in TurnState
      BY <3>1, TurnSends DEF Stage
    <3>3. turn' = [turn EXCEPT ![t] = [turn[t] EXCEPT !.at = next, !.reply = "awaited"]]
      BY <1>2 DEF Send
    <3> QED BY <3>1, <3>2, <3>3, RowChanges
  <2>2. queue \in [Turn -> Stream] /\ stdin \in [Turn -> {"none", "initialize", "thread", "turn/start"}]
        /\ client \in [Turn -> {"open", "closed"}]
    BY DEF TypeOK, Stream
  <2> QED BY <1>2, <2>1, <2>2 DEF Send
<1> QED BY <1>1, <1>2

\* What a line does to the turn and its stream.
LEMMA ReadTypes ==
  ASSUME TypeOK, NEW t \in Turn, ReadLine(t)
  PROVE  /\ turn' \in [Turn -> TurnState] /\ queue' \in [Turn -> Stream]
         /\ stdout' \in [Turn -> Seq(Line)]
<1>1. turn[t] \in TurnState /\ queue[t] \in Stream /\ stdout[t] \in Seq(Line)
  BY RowTypes
<1>2. PICK line \in Line : line = Head(stdout[t])
  BY <1>1 DEF ReadLine
<1>3. \/ line.what \in Notice /\ ReadNotice(t, line.what)
      \/ line.what \in Response /\ ReadResponse(t, line.what)
      \/ line.what = "request" /\ ReadRequest(t, line.about)
  BY <1>2 DEF ReadLine
<1>4. stdout' \in [Turn -> Seq(Line)]
  <2>1. Tail(stdout[t]) \in Seq(Line)
    BY <1>1 DEF ReadLine
  <2> QED BY <2>1 DEF ReadLine, TypeOK
<1>5. Push(queue[t], <<"other">>) \in Stream /\ Push(queue[t], <<>>) \in Stream
  BY <1>1, PushFields, PushNothing DEF Event
<1>6. CASE line.what \in Notice /\ ReadNotice(t, line.what)
  <2>0. PICK s \in TurnState, what \in Notice : s = turn[t] /\ what = line.what
    BY <1>1, <1>6
  <2>4. PICK n : n = Noted(s, what)
    OBVIOUS
  <2>1. n \in TurnState /\ n = Noted(turn[t], line.what)
    <3>1. n \in TurnState
      BY ONLY s \in TurnState, what \in Notice, <2>4 DEF Noted, Notice, TurnState
    <3> QED BY <2>0, <2>4, <3>1
  <2>2. PICK done \in {"open", "settled", "failed"} :
          done = IF Settling(line.what) /\ n.done = "open" THEN "settled" ELSE n.done
    BY <2>1 DEF TurnState
  <2>3. turn' = [turn EXCEPT ![t] = [n EXCEPT !.done = done]]
    BY <1>6, <2>1, <2>2 DEF ReadNotice
  <2>5. [n EXCEPT !.done = done] \in TurnState
    BY <2>1, TurnSettles
  <2>6. queue' \in [Turn -> Stream]
    BY <1>5, <1>6 DEF ReadNotice, EventsOf, TypeOK, Stream
  <2> QED BY <1>4, <2>3, <2>5, <2>6 DEF TypeOK
<1>7. CASE line.what \in Response /\ ReadResponse(t, line.what)
  <2>1. turn' \in [Turn -> TurnState]
    <3>1. turn \in [Turn -> TurnState]
      BY DEF TypeOK
    <3>2. [turn[t] EXCEPT !.reply = IF line.what = "result" THEN "result" ELSE "error"] \in TurnState
      BY <1>1, TurnReplies
    <3> QED BY <1>7, <3>1, <3>2 DEF ReadResponse
  <2> QED BY <1>4, <1>7, <2>1 DEF ReadResponse, TypeOK, Stream
<1>8. CASE line.what = "request" /\ ReadRequest(t, line.about)
  BY <1>4, <1>5, <1>8 DEF ReadRequest, TypeOK, Stream
<1> QED BY <1>3, <1>6, <1>7, <1>8

\* The steps of the adapter keep the types.
LEMMA AdapterType ==
  ASSUME TypeOK, NEW t \in Turn, Adapter(t)
  PROVE  TypeOK'
<1>1. queue[t] \in Stream
  BY RowTypes
<1>2. Push(queue[t], <<"other">>) \in Stream
  BY <1>1, PushFields DEF Event
<1>3. CASE ReadLine(t)
  <2>1. UNCHANGED <<runnerVars, client, child, stdin, said, notices>>
    BY <1>3 DEF ReadLine
  <2> QED BY <1>3, <2>1, ReadTypes DEF TypeOK, runnerVars, Stream
<1>4. CASE Refused(t) \/ Initialized(t) \/ ThreadOpened(t)
  <2>1. /\ turn' \in [Turn -> TurnState] /\ client' \in [Turn -> {"open", "closed"}]
        /\ queue' \in [Turn -> Stream]
        /\ stdin' \in [Turn -> {"none", "initialize", "thread", "turn/start"}]
    BY <1>1, <1>2, <1>4, ThrowType, SendType DEF Refused, Initialized, ThreadOpened
  <2>2. UNCHANGED <<runnerVars, child, stdout, said, notices>>
    BY <1>4 DEF Refused, Initialized, ThreadOpened
  <2> QED BY <2>1, <2>2 DEF TypeOK, runnerVars, Stream
<1>5. CASE TurnStarted(t)
  <2>1. turn' \in [Turn -> TurnState]
    <3>1. turn[t] \in TurnState /\ turn \in [Turn -> TurnState]
      BY RowTypes DEF TypeOK
    <3>2. [turn[t] EXCEPT !.at = "turn"] \in TurnState
      BY <3>1, TurnMoves DEF Stage
    <3> QED BY <1>5, <3>1, <3>2 DEF TurnStarted
  <2> QED BY <1>5, <2>1 DEF TurnStarted, TypeOK, runnerVars, codexVars
<1>6. CASE TurnEnds(t)
  <2>1. /\ turn' \in [Turn -> TurnState] /\ client' \in [Turn -> {"open", "closed"}]
        /\ queue' \in [Turn -> Stream]
        /\ stdin' \in [Turn -> {"none", "initialize", "thread", "turn/start"}]
    <3>1. CASE Sound(turn[t])
      <4>1. PICK q \in Stream : q = Push(queue[t], <<"completed">>)
        BY <1>1, PushFields DEF Event
      <4>2. End(Push(queue[t], <<"completed">>), "closed") \in Stream
        BY <4>1, EndFields
      <4>3. turn' \in [Turn -> TurnState]
        <5>1. turn[t] \in TurnState /\ turn \in [Turn -> TurnState]
          BY RowTypes DEF TypeOK
        <5>2. [turn[t] EXCEPT !.at = "over"] \in TurnState
          BY <5>1, TurnMoves DEF Stage
        <5> QED BY <1>6, <3>1, <5>1, <5>2 DEF TurnEnds
      <4>4. /\ queue \in [Turn -> Stream] /\ client \in [Turn -> {"open", "closed"}]
            /\ stdin \in [Turn -> {"none", "initialize", "thread", "turn/start"}]
        BY DEF TypeOK, Stream
      <4> QED BY <1>6, <3>1, <4>2, <4>3, <4>4 DEF TurnEnds
    <3>2. CASE ~Sound(turn[t])
      BY <1>1, <1>6, <3>2, ThrowType DEF TurnEnds
    <3> QED BY <3>1, <3>2
  <2>2. UNCHANGED <<runnerVars, child, stdout, said, notices>>
    BY <1>6 DEF TurnEnds
  <2> QED BY <2>1, <2>2 DEF TypeOK, runnerVars, Stream
<1> QED BY <1>3, <1>4, <1>5, <1>6 DEF Adapter

\* A failing connection keeps the types.
LEMMA FailType ==
  ASSUME TypeOK, NEW t \in Turn, FailConnection(t) \/ UNCHANGED <<client, turn>>
  PROVE  turn' \in [Turn -> TurnState] /\ client' \in [Turn -> {"open", "closed"}]
<1>1. Rejected(turn[t]) \in TurnState
  BY RowTypes, RejectedFields
<1> QED BY <1>1, ZenonT(40) DEF FailConnection, TypeOK

\* A line is written at the end.
LEMMA WritesType ==
  ASSUME TypeOK, NEW t \in Turn, NEW what \in Notice \cup Response \cup {"request"},
         NEW about \in Permission, Writes(t, what, about)
  PROVE  /\ stdout' \in [Turn -> Seq(Line)]
         /\ \E e \in Line : e.what = what /\ stdout'[t] = Append(stdout[t], e)
         /\ \A u \in Turn \ {t} : stdout'[u] = stdout[u]
<1>1. PICK line \in Line : line = [what |-> what, about |-> about]
  BY DEF Line
<1>2. stdout[t] \in Seq(Line) /\ stdout \in [Turn -> Seq(Line)]
  BY RowTypes DEF TypeOK
<1>3. Append(stdout[t], line) \in Seq(Line)
  BY <1>2
<1>4. stdout' = [stdout EXCEPT ![t] = Append(stdout[t], line)]
  BY <1>1 DEF Writes
<1> QED BY <1>1, <1>2, <1>3, <1>4, RowChanges

\* What a notice says about the turn.
SaidBy(s, line) ==
  [status |-> IF line \in Ending THEN StatusOf(line) ELSE s.status,
   json |-> IF line \in AnswerLines THEN line = "json answer" ELSE s.json]

\* Lines that ask for nothing.
LEMMA NoRequestType == NoRequest \in Permission
<1>1. \A no \in BOOLEAN : [kind |-> "unsupported", place |-> "none", scoped |-> no] \in Permission
  BY DEF Permission, RequestKind
<1> QED BY <1>1 DEF NoRequest

\* What a notice says, field by field.
LEMMA SaidFields ==
  ASSUME NEW s \in [status : {"none", "completed", "failed"}, json : BOOLEAN], NEW line, NEW n,
         n = SaidBy(s, line)
  PROVE  /\ line \in Ending => n.status = StatusOf(line)
         /\ line \notin Ending => n.status = s.status
         /\ line \in AnswerLines => (n.json <=> line = "json answer")
         /\ line \notin AnswerLines => n.json = s.json
<1>1. PICK b \in BOOLEAN : b = (line = "json answer")
  OBVIOUS
<1>2. PICK j \in BOOLEAN : j = IF line \in AnswerLines THEN b ELSE s.json
  OBVIOUS
<1>3. n = [status |-> IF line \in Ending THEN StatusOf(line) ELSE s.status, json |-> j]
  BY <1>1, <1>2 DEF SaidBy
<1>4. n.json = j /\ n.status = IF line \in Ending THEN StatusOf(line) ELSE s.status
  BY <1>3
<1>5. CASE line \in AnswerLines
  BY <1>1, <1>2, <1>4, <1>5
<1>6. CASE line \notin AnswerLines
  BY <1>2, <1>4, <1>6
<1> QED BY <1>4, <1>5, <1>6

\* A notice is written, and what it says is recorded.
LEMMA NotifyRow ==
  ASSUME TypeOK, NEW t \in Turn, Notify(t)
  PROVE  \E line \in Notice :
           /\ Writes(t, line, NoRequest) /\ NoRequest \in Permission
           /\ line = "error" \/ (InTurn(t) /\ said[t].status = "none")
           /\ said' = [said EXCEPT ![t] = SaidBy(@, line)]
           /\ SaidBy(said[t], line) \in [status : {"none", "completed", "failed"}, json : BOOLEAN]
<1>1. PICK line \in Notice :
        /\ line = "error" \/ (InTurn(t) /\ said[t].status = "none")
        /\ Writes(t, line, NoRequest)
        /\ said' = [said EXCEPT ![t] =
             CASE line = "turn completed" -> [@ EXCEPT !.status = "completed"]
               [] line = "turn failed" -> [@ EXCEPT !.status = "failed"]
               [] line = "json answer" -> [@ EXCEPT !.json = TRUE]
               [] line = "prose answer" -> [@ EXCEPT !.json = FALSE]
               [] OTHER -> @]
  BY DEF Notify
<1>2. PICK s \in [status : {"none", "completed", "failed"}, json : BOOLEAN] : s = said[t]
  BY RowTypes
<1>3. SaidBy(s, line) \in [status : {"none", "completed", "failed"}, json : BOOLEAN]
  BY DEF SaidBy, StatusOf
<1>4. ASSUME NEW yes \in BOOLEAN, NEW no \in BOOLEAN, yes, ~no
      PROVE  (CASE line = "turn completed" -> [s EXCEPT !.status = "completed"]
               [] line = "turn failed" -> [s EXCEPT !.status = "failed"]
               [] line = "json answer" -> [s EXCEPT !.json = yes]
               [] line = "prose answer" -> [s EXCEPT !.json = no]
               [] OTHER -> s) = SaidBy(s, line)
  BY <1>4 DEF SaidBy, StatusOf, Notice, Ending, AnswerLines
<1>5. (CASE line = "turn completed" -> [s EXCEPT !.status = "completed"]
               [] line = "turn failed" -> [s EXCEPT !.status = "failed"]
               [] line = "json answer" -> [s EXCEPT !.json = TRUE]
               [] line = "prose answer" -> [s EXCEPT !.json = FALSE]
               [] OTHER -> s) = SaidBy(s, line)
  BY <1>4
<1> QED BY <1>1, <1>2, <1>3, <1>5, NoRequestType

\* So do Codex and the aborts.
LEMMA CodexType ==
  ASSUME TypeOK, NEW t \in Turn, Codex(t) \/ Abort(t)
  PROVE  TypeOK'
<1>1. CASE Respond(t)
  <2>1. stdout' \in [Turn -> Seq(Line)]
    <3>2. PICK line \in Response : Writes(t, line, NoRequest)
      BY <1>1 DEF Respond
    <3> QED BY <3>2, NoRequestType, WritesType
  <2> QED BY <1>1, <2>1 DEF Respond, TypeOK, runnerVars, adapterVars
<1>2. CASE Notify(t)
  <2>1. PICK line \in Notice :
           /\ Writes(t, line, NoRequest) /\ NoRequest \in Permission
           /\ said' = [said EXCEPT ![t] = SaidBy(@, line)]
           /\ SaidBy(said[t], line) \in [status : {"none", "completed", "failed"}, json : BOOLEAN]
    BY <1>2, NotifyRow
  <2>2. stdout' \in [Turn -> Seq(Line)]
    BY <2>1, WritesType
  <2>3. said' \in [Turn -> [status : {"none", "completed", "failed"}, json : BOOLEAN]]
    BY <2>1 DEF TypeOK
  <2>4. notices' \in [Turn -> 0..MaxNotices]
    <3>1. notices[t] + 1 \in 0..MaxNotices
      <4>1. notices[t] < MaxNotices
        BY <1>2 DEF Notify
      <4> QED BY <4>1, RowTypes, CodexAssumption
    <3>2. notices \in [Turn -> 0..MaxNotices] /\ notices' = [notices EXCEPT ![t] = notices[t] + 1]
      BY <1>2 DEF Notify, TypeOK
    <3> QED BY <3>1, <3>2
  <2> QED BY <1>2, <2>2, <2>3, <2>4 DEF Notify, TypeOK, runnerVars, adapterVars
<1>3. CASE Ask(t)
  <2>1. stdout' \in [Turn -> Seq(Line)]
    BY <1>3, CodexAssumption, WritesType DEF Ask
  <2>2. notices' \in [Turn -> 0..MaxNotices]
    <3>1. notices[t] + 1 \in 0..MaxNotices
      BY <1>3, RowTypes, CodexAssumption DEF Ask
    <3>2. notices \in [Turn -> 0..MaxNotices] /\ notices' = [notices EXCEPT ![t] = notices[t] + 1]
      BY <1>3 DEF Ask, TypeOK
    <3> QED BY <3>1, <3>2
  <2> QED BY <1>3, <2>1, <2>2 DEF Ask, TypeOK, runnerVars, adapterVars
<1>4. CASE ChildExits(t)
  <2>1. child' \in [Turn -> {"none", "running", "exited"}]
    BY <1>4 DEF ChildExits, TypeOK
  <2>2. turn' \in [Turn -> TurnState] /\ client' \in [Turn -> {"open", "closed"}]
    BY <1>4, FailType DEF ChildExits
  <2> QED BY <1>4, <2>1, <2>2 DEF ChildExits, TypeOK, runnerVars
<1>5. CASE Abort(t)
  <2>1. turn' \in [Turn -> TurnState] /\ client' \in [Turn -> {"open", "closed"}]
    BY <1>5, FailType DEF Abort
  <2> QED BY <1>5, <2>1 DEF Abort, TypeOK, codexVars
<1> QED BY <1>1, <1>2, <1>3, <1>4, <1>5 DEF Codex

\* The initial state has its types.
LEMMA InitType == Init => TypeOK
<1> SUFFICES ASSUME Init PROVE TypeOK
  OBVIOUS
<1>1. lane \in Lane
  BY CodexAssumption DEF Init, Lane, IdleLane, NoJob
<1>2. turn \in [Turn -> TurnState]
  BY DEF Init, NoTurn, TurnState
<1>3. stdout \in [Turn -> Seq(Line)]
  BY DEF Init
<1>4. queue \in [Turn -> [items : Seq(Event), end : {"open", "closed", "failed"}]]
  BY DEF Init
<1> QED BY <1>1, <1>2, <1>3, <1>4, CodexAssumption DEF Init, TypeOK

-----------------------------------------------------------------------------
(* Steps of one job                                                        *)

SameTurn(u) ==
  /\ stdout'[u] = stdout[u] /\ said'[u] = said[u] /\ turn'[u] = turn[u]
  /\ queue'[u] = queue[u] /\ outcome'[u] = outcome[u]

\* A step of one job leaves the others as they are.
LEMMA StepOfOneTurn ==
  ASSUME Inv, TypeOK', NEW t \in Turn, \A u \in Turn \ {t} : SameTurn(u),
         lane' = lane \/ (lane.job \in {t, NoJob} /\ lane'.job \in {t, NoJob}),
         TurnInv(t)', LaneSound'
  PROVE  Inv'
<1>1. SUFFICES ASSUME NEW u \in Turn, u # t PROVE TurnInv(u)'
  BY DEF Inv
<1>2. SameTurn(u) /\ TurnInv(u) /\ u # NoJob
  BY <1>1, RowTypes DEF Inv
<1>3. EndsOnce(u)' /\ LastAnswers(u)'
  <2>1. EndsOnce(u) /\ LastAnswers(u)
    BY <1>2 DEF TurnInv
  <2>2. stdout'[u] = stdout[u] /\ said'[u] = said[u] /\ turn'[u] = turn[u]
    BY <1>2 DEF SameTurn
  <2>3. EndsOnce(u)'
    BY ONLY <2>1, <2>2 DEF EndsOnce
  <2>4. LastAnswers(u)'
    BY ONLY <2>1, <2>2 DEF LastAnswers
  <2> QED BY <2>3, <2>4
<1>4. SettledSoundly(u)' /\ ClosedSoundly(u)'
  BY <1>2 DEF TurnInv, SettledSoundly, ClosedSoundly, SameTurn
<1>5. BegunOnce(u)'
  BY <1>1, <1>2 DEF TurnInv, BegunOnce, SameTurn
<1> QED BY <1>3, <1>4, <1>5 DEF TurnInv

\* A step that reads and writes nothing of a turn keeps what is known of it.
LEMMA QuietTurn ==
  ASSUME Inv, NEW t \in Turn, stdout'[t] = stdout[t], said'[t] = said[t],
         turn'[t].status = turn[t].status, turn'[t].final = turn[t].final,
         turn'[t].error = turn[t].error, turn'[t].done = "settled" => turn[t].done = "settled"
  PROVE  EndsOnce(t)' /\ LastAnswers(t)' /\ SettledSoundly(t)'
<1>1. EndsOnce(t) /\ LastAnswers(t) /\ SettledSoundly(t)
  BY DEF Inv, TurnInv
<1>2. EndsOnce(t)' /\ LastAnswers(t)'
  BY <1>1 DEF EndsOnce, LastAnswers
<1> QED BY <1>1, <1>2 DEF SettledSoundly

\* While the lane stays, an output that has been seen stays the last event.
LEMMA LaneKept ==
  ASSUME Inv, lane' = lane, \A u \in Turn : queue'[u] = queue[u] \/ queue[u].end = "open"
  PROVE  LaneSound'
BY DEF Inv, LaneSound

\* While the lane and the outcomes stay, a turn that has begun goes on.
LEMMA BegunKept ==
  ASSUME Inv, NEW t \in Turn, lane' = lane, outcome' = outcome,
         turn'[t].at = turn[t].at \/ turn[t].at # "unborn"
  PROVE  BegunOnce(t)'
BY DEF Inv, TurnInv, BegunOnce

-----------------------------------------------------------------------------
(* The job                                                                 *)

\* A step of the lane alone.
LEMMA LaneOnly ==
  ASSUME Inv, TypeOK', NEW t \in Turn, lane.job \in {t, NoJob}, lane'.job \in {t, NoJob},
         UNCHANGED <<turn, queue, stdout, said>>, \A u \in Turn \ {t} : outcome'[u] = outcome[u],
         outcome'[t] = "output" => queue[t].end = "closed",
         BegunOnce(t)', LaneSound'
  PROVE  Inv'
<1>1. EndsOnce(t)' /\ LastAnswers(t)' /\ SettledSoundly(t)'
  BY QuietTurn
<1>2. ClosedSoundly(t)'
  BY DEF Inv, TurnInv, ClosedSoundly
<1>3. \A u \in Turn \ {t} : SameTurn(u)
  BY DEF SameTurn
<1> QED BY <1>1, <1>2, <1>3, StepOfOneTurn DEF TurnInv

\* The job in hand is reported on.
LEMMA ReportStep ==
  ASSUME Inv, TypeOK', NEW t \in Turn, NEW verdict \in {"output", "failure"}, lane.job = t,
         Report(t, verdict), UNCHANGED <<turn, queue, stdout, said>>,
         verdict = "output" => queue[t].end = "closed"
  PROVE  Inv'
<1>1. lane' = IdleLane /\ outcome' = [outcome EXCEPT ![t] = verdict]
  BY DEF Report
<1>2. lane'.job = NoJob /\ ~lane'.raw /\ t # NoJob
  BY <1>1, RowTypes DEF IdleLane, Inv
<1>3. outcome'[t] = verdict /\ \A u \in Turn \ {t} : outcome'[u] = outcome[u]
  BY <1>1 DEF Inv, TypeOK
<1>4. BegunOnce(t)'
  BY <1>2, <1>3 DEF BegunOnce
<1>5. LaneSound'
  BY <1>2 DEF LaneSound
<1> QED BY <1>2, <1>3, <1>4, <1>5, LaneOnly

\* The lane goes on with a job whose turn has not begun, or reads its stream.
LEMMA LaneGoesOn ==
  ASSUME Inv, TypeOK', NEW t \in Turn, lane.job = t, lane'.job = t, lane'.raw = lane.raw,
         lane.at \in {"probing", "listing"} \/ lane'.at \notin {"probing", "listing"},
         UNCHANGED <<outcome, turn, queue, stdout, said>>
  PROVE  Inv'
<1>1. outcome[t] = "none" /\ BegunOnce(t)
  BY DEF Inv, TurnInv, BegunOnce
<1>2. BegunOnce(t)'
  BY <1>1 DEF BegunOnce
<1>3. LaneSound'
  BY DEF Inv, LaneSound
<1> QED BY <1>1, <1>2, <1>3, LaneOnly

\* The lane takes a job.
LEMMA TakeJobStep ==
  ASSUME Inv, TypeOK', NEW t \in Turn, TakeJob(t)
  PROVE  Inv'
<1>1. lane.job = NoJob /\ outcome[t] = "none" /\ outcome' = outcome
  BY DEF TakeJob, IdleLane
<1>2. lane'.job = t /\ ~lane'.raw
  BY DEF TakeJob, IdleLane
<1>3. UNCHANGED <<turn, queue, stdout, said>>
  BY DEF TakeJob, adapterVars, codexVars
<1>4. BegunOnce(t)'
  BY <1>1, <1>2, <1>3, RowTypes DEF Inv, TurnInv, BegunOnce
<1>5. LaneSound'
  BY <1>2 DEF LaneSound
<1> QED BY <1>1, <1>2, <1>3, <1>4, <1>5, LaneOnly

\* The model is available and a turn begins.
LEMMA BeginStep ==
  ASSUME Inv, TypeOK', NEW t \in Turn, At(t, "listing"),
         lane' = [lane EXCEPT !.at = "reading"],
         turn' = [turn EXCEPT ![t].at = "initialize"],
         queue' = [queue EXCEPT ![t] = Push(@, <<"other">>)],
         UNCHANGED <<outcome, stdout, said>>
  PROVE  Inv'
<1>1. lane.job = t /\ outcome[t] = "none" /\ turn[t].at = "unborn" /\ queue[t].end # "closed"
  BY DEF At, Inv, TurnInv, BegunOnce, ClosedSoundly
<1>2. lane'.job = t /\ lane'.at = "reading" /\ lane'.raw = lane.raw /\ ~lane.raw
  BY <1>1 DEF Inv, TypeOK, Lane, LaneSound
<1>3. /\ turn'[t].status = turn[t].status /\ turn'[t].final = turn[t].final
      /\ turn'[t].error = turn[t].error /\ turn'[t].done = turn[t].done
  <2>1. turn \in [Turn -> TurnState] /\ turn[t] \in TurnState
    BY DEF Inv, TypeOK
  <2>2. turn'[t] = [turn[t] EXCEPT !.at = "initialize"]
    BY <2>1
  <2> QED BY <2>1, <2>2 DEF TurnState
<1>4. EndsOnce(t)' /\ LastAnswers(t)' /\ SettledSoundly(t)'
  BY <1>3, QuietTurn
<1>5. queue[t] \in Stream /\ LastIsMarked(queue[t])
  BY RowTypes DEF Inv, TurnInv, ClosedSoundly, LastIsMarked
<1>6. queue'[t] = Push(queue[t], <<"other">>)
  BY DEF Inv, TypeOK
<1>7. LastIsMarked(queue'[t]) /\ queue'[t].end = queue[t].end
  <2>1. PICK p : p = queue'[t]
    OBVIOUS
  <2> QED BY <1>5, <1>6, <2>1, PushOther
<1>8. ClosedSoundly(t)'
  BY <1>1, <1>7 DEF ClosedSoundly, LastIsMarked
<1>9. BegunOnce(t)'
  BY <1>1, <1>2 DEF BegunOnce
<1>10. LaneSound'
  BY <1>2 DEF LaneSound
<1>11. \A u \in Turn \ {t} : SameTurn(u)
  BY DEF SameTurn, Inv, TypeOK
<1> QED BY <1>1, <1>2, <1>4, <1>8, <1>9, <1>10, <1>11, StepOfOneTurn DEF TurnInv

\* An event is taken, the last one only when none follows.
LEMMA TakeEventStep ==
  ASSUME Inv, TypeOK', NEW t \in Turn, TakeEvent(t)
  PROVE  Inv'
<1>1. lane.job = t /\ queue[t].items # <<>> /\ UNCHANGED <<outcome, turn, stdout, said>>
  BY DEF TakeEvent, At, codexVars
<1>2. queue[t] \in Stream /\ LastIsMarked(queue[t])
  BY RowTypes DEF Inv, TurnInv, ClosedSoundly, LastIsMarked
<1>3. PICK items \in Seq(Event) : items = queue[t].items
  BY <1>2 DEF Stream
<1>4. queue'[t].items = Tail(items) /\ queue'[t].end = queue[t].end
  BY <1>2, <1>3 DEF TakeEvent, Inv, TypeOK, Stream
<1>5. /\ \A n \in DOMAIN Tail(items) : n + 1 \in DOMAIN items /\ Tail(items)[n] = items[n + 1]
      /\ Len(Tail(items)) = Len(items) - 1
  BY <1>1, <1>3, TailLines
<1>6. \A i \in DOMAIN Tail(items) : Tail(items)[i] = "completed" =>
        i = Len(Tail(items)) /\ queue[t].end = "closed"
  BY <1>2, <1>3, <1>5 DEF LastIsMarked
<1>7. ClosedSoundly(t)'
  <2>1. ClosedSoundly(t)
    BY DEF Inv, TurnInv
  <2>2. \A i \in DOMAIN queue'[t].items : queue'[t].items[i] = "completed" =>
          i = Len(queue'[t].items) /\ queue'[t].end = "closed"
    BY <1>4, <1>6
  <2> QED BY <1>1, <1>4, <2>1, <2>2 DEF ClosedSoundly
<1>8. lane'.job = t /\ lane'.at = "posting"
  BY <1>1 DEF TakeEvent, Inv, TypeOK, Lane
<1>9. LaneSound'
  <2>1. SUFFICES ASSUME lane'.raw PROVE queue'[t].end = "closed" /\ queue'[t].items = <<>>
    BY <1>8 DEF LaneSound
  <2>2. ~lane.raw
    BY <1>1 DEF Inv, LaneSound
  <2>3. Head(items) = "completed"
    BY <1>3, <2>1, <2>2 DEF TakeEvent, Inv, TypeOK, Lane
  <2>4. 1 \in DOMAIN items /\ items[1] = "completed"
    BY <1>1, <1>3, <2>3
  <2>5. Len(items) = 1 /\ queue[t].end = "closed"
    BY <1>2, <1>3, <2>4 DEF LastIsMarked
  <2>6. Tail(items) = <<>>
    BY <1>1, <1>3, <1>5, <2>5, TailLines, EmptySeq
  <2> QED BY <1>4, <2>5, <2>6
<1>10. EndsOnce(t)' /\ LastAnswers(t)' /\ SettledSoundly(t)'
  BY <1>1, QuietTurn
<1>11. BegunOnce(t)'
  BY <1>1, <1>8 DEF BegunOnce, Inv, TurnInv
<1>12. \A u \in Turn \ {t} : SameTurn(u)
  BY <1>1 DEF SameTurn, TakeEvent, Inv, TypeOK
<1> QED BY <1>1, <1>7, <1>8, <1>9, <1>10, <1>11, <1>12, StepOfOneTurn DEF TurnInv

\* The steps of the job keep the invariant.
LEMMA JobStep ==
  ASSUME Inv, NEW t \in Turn, Job(t)
  PROVE  Inv'
<1>1. TypeOK'
  BY JobType DEF Inv
<1>2. lane \in Lane
  BY DEF Inv, TypeOK
<1>3. CASE TakeJob(t)
  BY <1>1, <1>3, TakeJobStep
<1>4. CASE ProbeSucceeds(t)
  <2>1. lane.job = t /\ lane'.job = t /\ lane'.raw = lane.raw /\ lane.at \in {"probing", "listing"}
    BY <1>2, <1>4 DEF ProbeSucceeds, At, Lane
  <2>2. UNCHANGED <<outcome, turn, queue, stdout, said>>
    BY <1>4 DEF ProbeSucceeds, adapterVars, codexVars
  <2> QED BY <1>1, <2>1, <2>2, LaneGoesOn
<1>5. CASE ListPage(t)
  <2>1. lane.job = t /\ lane'.job = t /\ lane'.raw = lane.raw /\ lane.at \in {"probing", "listing"}
    BY <1>2, <1>5 DEF ListPage, At, Lane
  <2>2. UNCHANGED <<outcome, turn, queue, stdout, said>>
    BY <1>5 DEF ListPage, adapterVars, codexVars
  <2> QED BY <1>1, <2>1, <2>2, LaneGoesOn
<1>6. CASE EventStored(t)
  <2>1. lane.job = t /\ lane'.job = t /\ lane'.raw = lane.raw /\ lane'.at \notin {"probing", "listing"}
    BY <1>2, <1>6 DEF EventStored, At, Lane
  <2>2. UNCHANGED <<outcome, turn, queue, stdout, said>>
    BY <1>6 DEF EventStored, adapterVars, codexVars
  <2> QED BY <1>1, <2>1, <2>2, LaneGoesOn
<1>7. CASE ProbeFails(t) \/ ListFails(t) \/ EventRefused(t)
  <2>1. lane.job = t /\ Report(t, "failure") /\ UNCHANGED <<turn, queue, stdout, said>>
    BY <1>7 DEF ProbeFails, ListFails, EventRefused, At, adapterVars, codexVars
  <2> QED BY <1>1, <2>1, ReportStep
<1>8. CASE StreamEnds(t)
  <2>1. PICK verdict \in {"output", "failure"} :
          verdict = IF queue[t].end = "closed" /\ lane.raw /\ t \notin aborted
                    THEN "output" ELSE "failure"
    OBVIOUS
  <2>2. lane.job = t /\ Report(t, verdict) /\ UNCHANGED <<turn, queue, stdout, said>>
    BY <1>8, <2>1 DEF StreamEnds, At, adapterVars, codexVars
  <2> QED BY <1>1, <2>1, <2>2, ReportStep
<1>9. CASE TakeEvent(t)
  BY <1>1, <1>9, TakeEventStep
<1>10. CASE ListEnds(t)
  <2>1. At(t, "listing") /\ lane.job = t /\ UNCHANGED <<stdout, said>>
    BY <1>10 DEF ListEnds, At
  <2>2. \/ /\ lane' = [lane EXCEPT !.at = "reading"]
           /\ turn' = [turn EXCEPT ![t].at = "initialize"]
           /\ queue' = [queue EXCEPT ![t] = Push(@, <<"other">>)]
           /\ outcome' = outcome
        \/ Report(t, "failure") /\ UNCHANGED <<turn, queue>>
    BY <1>10 DEF ListEnds
  <2>3. CASE Report(t, "failure") /\ UNCHANGED <<turn, queue>>
    BY <1>1, <2>1, <2>3, ReportStep
  <2>4. CASE /\ lane' = [lane EXCEPT !.at = "reading"]
             /\ turn' = [turn EXCEPT ![t].at = "initialize"]
             /\ queue' = [queue EXCEPT ![t] = Push(@, <<"other">>)]
             /\ outcome' = outcome
    BY <1>1, <2>1, <2>4, BeginStep
  <2> QED BY <2>2, <2>3, <2>4
<1> QED BY <1>3, <1>4, <1>5, <1>6, <1>7, <1>8, <1>9, <1>10 DEF Job

-----------------------------------------------------------------------------
(* The adapter                                                             *)

\* A step of the adapter or of Codex in one job, after what it reads is sound.
LEMMA TurnStep ==
  ASSUME Inv, TypeOK', NEW t \in Turn, lane' = lane, outcome' = outcome,
         \A u \in Turn \ {t} : stdout'[u] = stdout[u] /\ said'[u] = said[u]
                                /\ turn'[u] = turn[u] /\ queue'[u] = queue[u],
         queue'[t] = queue[t] \/ queue[t].end = "open",
         turn'[t].at = turn[t].at \/ turn[t].at # "unborn",
         EndsOnce(t)', LastAnswers(t)', SettledSoundly(t)', LastIsMarked(queue'[t]),
         queue'[t].end = "closed" =>
           turn'[t].at = "over" /\ said'[t].status = "completed" /\ said'[t].json
  PROVE  Inv'
<1>1. \A u \in Turn \ {t} : SameTurn(u)
  BY DEF SameTurn
<1>2. LaneSound'
  <2>1. \A u \in Turn : queue'[u] = queue[u] \/ queue[u].end = "open"
    OBVIOUS
  <2> QED BY <2>1, LaneKept
<1>3. BegunOnce(t)'
  BY BegunKept
<1>4. outcome'[t] = "output" => queue'[t].end = "closed"
  <2>1. outcome[t] = "output" => queue[t].end = "closed"
    BY DEF Inv, TurnInv, ClosedSoundly
  <2> QED BY <2>1
<1>5. ClosedSoundly(t)'
  BY <1>4 DEF ClosedSoundly, LastIsMarked
<1> QED BY <1>1, <1>2, <1>3, <1>5, StepOfOneTurn DEF TurnInv

\* What a stream is before a step.
LEMMA StreamBefore ==
  ASSUME Inv, NEW t \in Turn
  PROVE  /\ queue[t] \in Stream /\ LastIsMarked(queue[t])
         /\ queue[t].end = "closed" =>
              turn[t].at = "over" /\ said[t].status = "completed" /\ said[t].json
         /\ turn[t] \in TurnState /\ stdout[t] \in Seq(Line)
BY RowTypes DEF Inv, TurnInv, ClosedSoundly, LastIsMarked

\* What is known of the lines a turn has not read: "status" and "final" are what
\* it has read, "told" and "json" what Codex said.
Unread(s, status, final, told, json) ==
  /\ \A n \in DOMAIN s : s[n].what \in Ending =>
       /\ status = "none" /\ told = StatusOf(s[n].what)
       /\ \A m \in DOMAIN s : n < m => s[m].what \notin Ending \cup AnswerLines
  /\ status # "none" =>
       /\ told = status
       /\ \A n \in DOMAIN s : s[n].what \notin Ending \cup AnswerLines
  /\ (\A n \in DOMAIN s : s[n].what \notin AnswerLines) => (json <=> final = "json")
  /\ \A n \in DOMAIN s :
       /\ s[n].what \in AnswerLines
       /\ \A m \in DOMAIN s : n < m => s[m].what \notin AnswerLines
       => (json <=> s[n].what = "json answer")

\* The first line is read.
LEMMA UnreadTail ==
  ASSUME NEW s \in Seq(Line), s # <<>>, NEW status, NEW final, NEW told, NEW json \in BOOLEAN,
         Unread(s, status, final, told, json), NEW what, what = s[1].what, NEW r, r = Tail(s),
         NEW status2, what \in Ending => status2 = StatusOf(what), what \notin Ending => status2 = status,
         NEW final2, what = "json answer" => final2 = "json", what = "prose answer" => final2 = "prose",
         what \notin AnswerLines => final2 = final
  PROVE  Unread(r, status2, final2, told, json)
<1>0. s \in Seq(Line) /\ s # <<>> /\ r = Tail(s)
  OBVIOUS
<1>1. /\ 1 \in DOMAIN s /\ r \in Seq(Line)
      /\ \A n \in DOMAIN r : n + 1 \in DOMAIN s /\ 1 < n + 1 /\ r[n] = s[n + 1]
      /\ \A n, m \in DOMAIN r : n < m => n + 1 < m + 1
      /\ ~(1 < 1)
  BY ONLY <1>0, TailPlaces
<1>2. \A n \in DOMAIN r : \A m \in DOMAIN s : n + 1 < m => m # 1 /\ n < m - 1
  BY ONLY <1>0, TailPlaces
<1>3. \A n \in DOMAIN s : n # 1 => 1 < n /\ n - 1 \in DOMAIN r /\ r[n - 1] = s[n]
  BY ONLY <1>0, TailPlaces
<1>4. /\ \A n \in DOMAIN s : s[n].what \in Ending =>
           /\ status = "none" /\ told = StatusOf(s[n].what)
           /\ \A m \in DOMAIN s : n < m => s[m].what \notin Ending \cup AnswerLines
      /\ status # "none" =>
           /\ told = status
           /\ \A n \in DOMAIN s : s[n].what \notin Ending \cup AnswerLines
  BY DEF Unread
<1>5. /\ (\A n \in DOMAIN s : s[n].what \notin AnswerLines) => (json <=> final = "json")
      /\ \A n \in DOMAIN s :
           /\ s[n].what \in AnswerLines
           /\ \A m \in DOMAIN s : n < m => s[m].what \notin AnswerLines
           => (json <=> s[n].what = "json answer")
  BY DEF Unread
<1>6. (\A n \in DOMAIN r : r[n].what \notin AnswerLines) => (json <=> final2 = "json")
  <2>1. SUFFICES ASSUME \A n \in DOMAIN r : r[n].what \notin AnswerLines
                 PROVE  json <=> final2 = "json"
    OBVIOUS
  <2>2. \A n \in DOMAIN s : n # 1 => s[n].what \notin AnswerLines
    BY <1>3, <2>1
  <2>3. CASE what \in AnswerLines
    <3>1. \A m \in DOMAIN s : 1 < m => s[m].what \notin AnswerLines
      BY <1>1, <2>2
    <3>2. json <=> what = "json answer"
      BY <1>1, <1>5, <2>3, <3>1
    <3> QED BY <2>3, <3>2 DEF AnswerLines
  <2>4. CASE what \notin AnswerLines
    <3>1. \A n \in DOMAIN s : s[n].what \notin AnswerLines
      BY <2>2, <2>4
    <3>2. json <=> final = "json"
      BY <1>5, <3>1
    <3> QED BY <2>4, <3>2 DEF AnswerLines
  <2> QED BY <2>3, <2>4
<1>7. ASSUME NEW n \in DOMAIN r, r[n].what \in AnswerLines,
             \A m \in DOMAIN r : n < m => r[m].what \notin AnswerLines
      PROVE  json <=> r[n].what = "json answer"
  <2>1. n + 1 \in DOMAIN s /\ s[n + 1] = r[n]
    BY <1>1
  <2>2. ASSUME NEW m \in DOMAIN s, n + 1 < m PROVE s[m].what \notin AnswerLines
    <3>1. m # 1 /\ n < m - 1
      BY <1>2, <2>2
    <3>2. m - 1 \in DOMAIN r /\ r[m - 1] = s[m]
      BY <1>3, <3>1
    <3> QED BY <1>7, <3>1, <3>2
  <2> QED BY <1>5, <1>7, <2>1, <2>2
<1>8. /\ \A n \in DOMAIN r : r[n].what \in Ending =>
           /\ status2 = "none" /\ told = StatusOf(r[n].what)
           /\ \A m \in DOMAIN r : n < m => r[m].what \notin Ending \cup AnswerLines
      /\ status2 # "none" =>
           /\ told = status2
           /\ \A n \in DOMAIN r : r[n].what \notin Ending \cup AnswerLines
  <2>1. CASE what \in Ending
    <3>1. /\ told = StatusOf(what)
          /\ \A m \in DOMAIN s : 1 < m => s[m].what \notin Ending \cup AnswerLines
      BY <1>1, <1>4, <2>1
    <3>2. ASSUME NEW n \in DOMAIN r PROVE r[n].what \notin Ending \cup AnswerLines
      <4>1. n + 1 \in DOMAIN s /\ r[n] = s[n + 1]
        BY <1>1
      <4>2. 1 < n + 1
        BY <1>1
      <4> QED BY <3>1, <4>1, <4>2
    <3> QED BY <2>1, <3>1, <3>2
  <2>2. CASE what \notin Ending
    <3>1. ASSUME NEW n \in DOMAIN r, r[n].what \in Ending, NEW m \in DOMAIN r, n < m
          PROVE  r[m].what \notin Ending \cup AnswerLines
      <4>1. n + 1 \in DOMAIN s /\ s[n + 1].what \in Ending /\ m + 1 \in DOMAIN s
            /\ r[m] = s[m + 1]
        BY <1>1, <3>1
      <4>2. n + 1 < m + 1
        BY <1>1, <3>1
      <4> QED BY <1>4, <4>1, <4>2
    <3>2. status2 = status
      BY <2>2
    <3>3. \A n \in DOMAIN r : r[n].what \in Ending => status = "none" /\ told = StatusOf(r[n].what)
      BY <1>1, <1>4
    <3>4. status # "none" => told = status /\ \A n \in DOMAIN r : r[n].what \notin Ending \cup AnswerLines
      BY <1>1, <1>4
    <3> QED BY <3>1, <3>2, <3>3, <3>4
  <2> QED BY <2>1, <2>2
<1> QED BY <1>6, <1>7, <1>8 DEF Unread

\* A notice, a response or a request is taken off the lines.
LEMMA ReadingKeeps ==
  ASSUME Inv, NEW t \in Turn, stdout[t] # <<>>, stdout'[t] = Tail(stdout[t]), said'[t] = said[t],
         NEW what, what = Head(stdout[t]).what,
         what \in Ending => turn'[t].status = StatusOf(what),
         what \notin Ending => turn'[t].status = turn[t].status,
         what = "json answer" => turn'[t].final = "json",
         what = "prose answer" => turn'[t].final = "prose",
         what \notin AnswerLines => turn'[t].final = turn[t].final
  PROVE  EndsOnce(t)' /\ LastAnswers(t)'
<1>1. PICK s \in Seq(Line) : s = stdout[t]
  BY StreamBefore
<1>2. PICK r : r = stdout'[t]
  OBVIOUS
<1>3. PICK status, final, told : status = turn[t].status /\ final = turn[t].final /\ told = said[t].status
  OBVIOUS
<1>4. PICK json \in BOOLEAN : json = said[t].json
  BY DEF Inv, TypeOK
<1>5. PICK status2, final2 : status2 = turn'[t].status /\ final2 = turn'[t].final
  OBVIOUS
<1>6. EndsOnce(t) /\ LastAnswers(t)
  BY DEF Inv, TurnInv
<1>7. Unread(s, status, final, told, json)
  BY <1>1, <1>3, <1>4, <1>6 DEF EndsOnce, LastAnswers, Unread
<1>8. s # <<>> /\ r = Tail(s) /\ what = Head(s).what
  BY <1>1, <1>2
<1>9. what = s[1].what
  BY <1>8, TailLines
<1>10. /\ what \in Ending => status2 = StatusOf(what)
       /\ what \notin Ending => status2 = status
       /\ what = "json answer" => final2 = "json"
       /\ what = "prose answer" => final2 = "prose"
       /\ what \notin AnswerLines => final2 = final
  BY <1>3, <1>5
<1>11. Unread(r, status2, final2, told, json)
  BY ONLY s \in Seq(Line), json \in BOOLEAN, <1>7, <1>8, <1>9, <1>10, UnreadTail
<1>12. said'[t].status = told /\ said'[t].json = json
  BY <1>3, <1>4
<1>13. EndsOnce(t)'
  BY <1>2, <1>5, <1>11, <1>12 DEF EndsOnce, Unread
<1> QED BY <1>2, <1>5, <1>11, <1>12, <1>13 DEF LastAnswers, Unread

\* Reading a line keeps the invariant.
LEMMA ReadStep ==
  ASSUME Inv, NEW t \in Turn, ReadLine(t)
  PROVE  Inv'
<1>1. TypeOK'
  BY AdapterType DEF Inv, Adapter
<1>2. TypeOK /\ turn[t] \in TurnState /\ stdout[t] \in Seq(Line) /\ queue[t] \in Stream
      /\ LastIsMarked(queue[t])
  BY StreamBefore DEF Inv
<1>3. PICK line \in Line : line = Head(stdout[t])
  BY <1>2 DEF ReadLine
<1>4. /\ stdout[t] # <<>> /\ stdout'[t] = Tail(stdout[t])
      /\ \A u \in Turn \ {t} : stdout'[u] = stdout[u]
      /\ UNCHANGED <<lane, outcome, said>>
  <2>1. stdout \in [Turn -> Seq(Line)]
    BY <1>2 DEF TypeOK
  <2> QED BY <2>1 DEF ReadLine, runnerVars
<1>5. \/ line.what \in Notice /\ ReadNotice(t, line.what)
      \/ line.what \in Response /\ ReadResponse(t, line.what)
      \/ line.what = "request" /\ ReadRequest(t, line.about)
  BY <1>3 DEF ReadLine
<1>6. SettledSoundly(t)
  BY DEF Inv, TurnInv
<1>7. \A q \in Stream : q = Push(queue[t], <<"other">>) \/ q = queue[t] =>
        LastIsMarked(q) /\ q.end = queue[t].end /\ (q = queue[t] \/ queue[t].end = "open")
  BY <1>2, PushOther
<1>8. turn \in [Turn -> TurnState] /\ queue \in [Turn -> Stream]
  BY <1>2 DEF TypeOK, Stream
<1>9. Push(queue[t], <<"other">>) \in Stream /\ Push(queue[t], <<>>) = queue[t]
  BY <1>2, PushOther, PushNothing
<1>10. ASSUME \A u \in Turn \ {t} : turn'[u] = turn[u] /\ queue'[u] = queue[u],
              queue'[t] = Push(queue[t], <<"other">>) \/ queue'[t] = queue[t],
              turn'[t].at = turn[t].at, EndsOnce(t)', LastAnswers(t)', SettledSoundly(t)'
       PROVE  Inv'
  <2>1. PICK q \in Stream : q = queue'[t]
    BY <1>2, <1>9, <1>10
  <2>2. LastIsMarked(q) /\ q.end = queue[t].end /\ (q = queue[t] \/ queue[t].end = "open")
    BY <1>7, <1>10, <2>1
  <2>3. queue'[t].end = "closed" =>
          turn'[t].at = "over" /\ said'[t].status = "completed" /\ said'[t].json
    BY <1>4, <1>10, <2>1, <2>2, StreamBefore
  <2> QED BY <1>1, <1>4, <1>10, <2>1, <2>2, <2>3, TurnStep
<1>11. CASE line.what \in Notice /\ ReadNotice(t, line.what)
  <2>0. PICK s \in TurnState, what \in Notice : s = turn[t] /\ what = line.what
    BY <1>2, <1>11
  <2>1. PICK n : n = Noted(s, what)
    OBVIOUS
  <2>11. /\ n \in TurnState
         /\ n.at = s.at /\ n.done = s.done
         /\ what = "json answer" => n.final = "json"
         /\ what = "prose answer" => n.final = "prose"
         /\ what \notin AnswerLines => n.final = s.final
         /\ what \in Ending => n.status = StatusOf(what)
         /\ what \notin Ending => n.status = s.status
         /\ what \in {"turn failed", "error"} => n.error
         /\ what \notin {"turn completed", "turn failed", "error"} /\ s.error => n.error
    BY ONLY s \in TurnState, what \in Notice, <2>1
       DEF Noted, Notice, Ending, AnswerLines, StatusOf, TurnState
  <2>2. /\ n.at = turn[t].at /\ n.done = turn[t].done
        /\ line.what = "json answer" => n.final = "json"
        /\ line.what = "prose answer" => n.final = "prose"
        /\ line.what \notin AnswerLines => n.final = turn[t].final
        /\ line.what \in Ending => n.status = StatusOf(line.what)
        /\ line.what \notin Ending => n.status = turn[t].status
        /\ line.what \in {"turn failed", "error"} => n.error
        /\ line.what \notin {"turn completed", "turn failed", "error"} /\ turn[t].error => n.error
    BY <2>0, <2>11
  <2>3. turn' = [turn EXCEPT ![t] =
          [n EXCEPT !.done = IF Settling(line.what) /\ @ = "open" THEN "settled" ELSE @]]
    BY <1>11, <2>0, <2>1 DEF ReadNotice
  <2>4. turn'[t] = [n EXCEPT !.done = IF Settling(line.what) /\ n.done = "open" THEN "settled" ELSE n.done]
        /\ \A u \in Turn \ {t} : turn'[u] = turn[u]
    BY <1>8, <2>3
  <2>5. /\ turn'[t].at = n.at /\ turn'[t].final = n.final /\ turn'[t].status = n.status
        /\ turn'[t].error = n.error
        /\ turn'[t].done = IF Settling(line.what) /\ n.done = "open" THEN "settled" ELSE n.done
    BY <2>11, <2>4 DEF TurnState
  <2>6. EndsOnce(t)' /\ LastAnswers(t)'
    BY <1>3, <1>4, <2>2, <2>5, ReadingKeeps, ZenonT(40)
  <2>7. SettledSoundly(t)'
    BY <1>6, <2>2, <2>5 DEF SettledSoundly, Settling, Ending, StatusOf
  <2>8. queue'[t] = Push(queue[t], EventsOf(line.what)) /\ \A u \in Turn \ {t} : queue'[u] = queue[u]
    BY <1>8, <1>11 DEF ReadNotice
  <2>9. queue'[t] = Push(queue[t], <<"other">>) \/ queue'[t] = queue[t]
    BY <1>9, <2>8 DEF EventsOf
  <2> QED BY <1>10, <2>2, <2>4, <2>5, <2>6, <2>7, <2>8, <2>9
<1>12. ASSUME line.what \notin Notice, queue'[t] = Push(queue[t], <<"other">>) \/ queue'[t] = queue[t],
              turn'[t].at = turn[t].at, turn'[t].final = turn[t].final,
              turn'[t].status = turn[t].status, turn'[t].error = turn[t].error,
              turn'[t].done = turn[t].done,
              \A u \in Turn \ {t} : turn'[u] = turn[u] /\ queue'[u] = queue[u]
       PROVE  Inv'
  <2>1. line.what \notin Ending \cup AnswerLines
    BY <1>12 DEF Notice, Ending, AnswerLines
  <2>2. EndsOnce(t)' /\ LastAnswers(t)'
    BY <1>3, <1>4, <1>12, <2>1, ReadingKeeps DEF AnswerLines
  <2>3. SettledSoundly(t)'
    BY <1>6, <1>12 DEF SettledSoundly
  <2> QED BY <1>10, <1>12, <2>2, <2>3
<1>13. CASE line.what \in Response /\ ReadResponse(t, line.what)
  <2>1. line.what \notin Notice /\ queue' = queue
    BY <1>13 DEF Response, Notice, ReadResponse
  <2>2. PICK reply \in {"result", "error"} : reply = IF line.what = "result" THEN "result" ELSE "error"
    OBVIOUS
  <2>3. turn' = [turn EXCEPT ![t].reply = reply] \/ turn' = turn
    BY <1>13, <2>2 DEF ReadResponse
  <2>4. turn'[t] = [turn[t] EXCEPT !.reply = reply] \/ turn'[t] = turn[t]
    BY <1>8, <2>3
  <2>5. \A u \in Turn \ {t} : turn'[u] = turn[u]
    BY <1>8, <2>3
  <2>6. /\ turn'[t].at = turn[t].at /\ turn'[t].final = turn[t].final
        /\ turn'[t].status = turn[t].status /\ turn'[t].error = turn[t].error
        /\ turn'[t].done = turn[t].done
    BY <1>2, <2>4 DEF TurnState
  <2> QED BY <1>12, <2>1, <2>5, <2>6
<1>14. CASE line.what = "request" /\ ReadRequest(t, line.about)
  <2>1. line.what \notin Notice /\ turn' = turn
    BY <1>14 DEF Notice, ReadRequest
  <2>2. (queue'[t] = Push(queue[t], <<"other">>) \/ queue'[t] = queue[t])
        /\ \A u \in Turn \ {t} : queue'[u] = queue[u]
    BY <1>8, <1>14 DEF ReadRequest
  <2> QED BY <1>12, <2>1, <2>2
<1> QED BY <1>5, <1>11, <1>13, <1>14

\* An exception ends the turn and a stream that was open.
LEMMA ThrowStep ==
  ASSUME Inv, TypeOK', NEW t \in Turn, turn[t].at \notin {"unborn", "over"},
         NEW q \in Stream, LastIsMarked(q), q.end = queue[t].end, q = queue[t] \/ queue[t].end = "open",
         Throw(t, q), UNCHANGED <<lane, outcome, stdout, said>>
  PROVE  Inv'
<1>1. /\ turn \in [Turn -> TurnState] /\ queue \in [Turn -> Stream]
      /\ turn[t] \in TurnState /\ queue[t].end # "closed"
  BY StreamBefore DEF Inv, TypeOK, Stream
<1>2. turn'[t] = [turn[t] EXCEPT !.at = "over"] /\ \A u \in Turn \ {t} : turn'[u] = turn[u]
  BY <1>1 DEF Throw
<1>3. /\ turn'[t].status = turn[t].status /\ turn'[t].final = turn[t].final
      /\ turn'[t].error = turn[t].error /\ turn'[t].done = turn[t].done
      /\ turn'[t].at = "over"
  BY <1>1, <1>2 DEF TurnState
<1>4. EndsOnce(t)' /\ LastAnswers(t)' /\ SettledSoundly(t)'
  BY <1>3, QuietTurn
<1>5. PICK p : p = End(q, "failed")
  OBVIOUS
<1>6. queue'[t] = p /\ \A u \in Turn \ {t} : queue'[u] = queue[u]
  BY <1>1, <1>5 DEF Throw
<1>7. LastIsMarked(p) /\ p.end # "closed" /\ (queue[t].end # "open" => p = queue[t])
  <2>1. /\ LastIsMarked(p)
        /\ p.end = IF q.end = "open" THEN "failed" ELSE q.end
    BY <1>5, EndFailed
  <2>2. queue[t].end # "open" => p = queue[t]
    BY <1>5 DEF End
  <2> QED BY <1>1, <2>1, <2>2
<1> QED BY <1>1, <1>2, <1>3, <1>4, <1>6, <1>7, TurnStep

\* The next request of the run.
LEMMA SendStep ==
  ASSUME Inv, TypeOK', NEW t \in Turn, turn[t].at \notin {"unborn", "over"},
         NEW next \in {"thread", "turn/start"}, NEW q \in Stream, LastIsMarked(q),
         q.end = queue[t].end, q = queue[t] \/ queue[t].end = "open",
         Send(t, next, q), UNCHANGED <<lane, outcome, stdout, said>>
  PROVE  Inv'
<1>1. CASE client[t] = "closed"
  BY <1>1, ThrowStep DEF Send
<1>2. CASE client[t] # "closed"
  <2>1. /\ turn \in [Turn -> TurnState] /\ queue \in [Turn -> Stream]
        /\ turn[t] \in TurnState /\ queue[t].end # "closed"
    BY StreamBefore DEF Inv, TypeOK, Stream
  <2>2. turn' = [turn EXCEPT ![t] = [turn[t] EXCEPT !.at = next, !.reply = "awaited"]]
        /\ queue' = [queue EXCEPT ![t] = q]
    BY <1>2 DEF Send
  <2>3. turn'[t] = [turn[t] EXCEPT !.at = next, !.reply = "awaited"]
        /\ \A u \in Turn \ {t} : turn'[u] = turn[u]
    BY <2>1, <2>2
  <2>4. /\ turn'[t].status = turn[t].status /\ turn'[t].final = turn[t].final
        /\ turn'[t].error = turn[t].error /\ turn'[t].done = turn[t].done
    BY <2>1, <2>3 DEF TurnState
  <2>5. EndsOnce(t)' /\ LastAnswers(t)' /\ SettledSoundly(t)'
    BY <2>4, QuietTurn
  <2>6. queue'[t] = q /\ \A u \in Turn \ {t} : queue'[u] = queue[u]
    BY <2>1, <2>2
  <2> QED BY <2>1, <2>3, <2>5, <2>6, TurnStep
<1> QED BY <1>1, <1>2

\* The answer to turn/start.
LEMMA StartedStep ==
  ASSUME Inv, TypeOK', NEW t \in Turn, TurnStarted(t)
  PROVE  Inv'
<1>1. /\ turn \in [Turn -> TurnState] /\ turn[t] \in TurnState /\ turn[t].at = "turn/start"
      /\ turn' = [turn EXCEPT ![t].at = "turn"]
      /\ UNCHANGED <<lane, outcome, queue, stdout, said>>
  BY StreamBefore DEF Inv, TypeOK, TurnStarted, runnerVars, codexVars
<1>2. turn'[t] = [turn[t] EXCEPT !.at = "turn"] /\ \A u \in Turn \ {t} : turn'[u] = turn[u]
  BY <1>1
<1>3. /\ turn'[t].status = turn[t].status /\ turn'[t].final = turn[t].final
      /\ turn'[t].error = turn[t].error /\ turn'[t].done = turn[t].done
  BY <1>1, <1>2 DEF TurnState
<1>4. EndsOnce(t)' /\ LastAnswers(t)' /\ SettledSoundly(t)'
  BY <1>1, <1>3, QuietTurn
<1>5. LastIsMarked(queue[t]) /\ queue[t].end # "closed"
  BY <1>1, StreamBefore
<1> QED BY <1>1, <1>2, <1>4, <1>5, TurnStep

\* The checks after turnDone pass only a turn Codex completed with an answer in
\* the structured form.
LEMMA SoundEarned ==
  ASSUME Inv, NEW t \in Turn, Sound(turn[t])
  PROVE  said[t].status = "completed" /\ said[t].json
<1>1. EndsOnce(t) /\ LastAnswers(t) /\ SettledSoundly(t)
  BY DEF Inv, TurnInv
<1>2. turn[t].status = "completed" /\ turn[t].final = "json"
  BY <1>1 DEF Sound, Structured, SettledSoundly
<1>3. /\ said[t].status = turn[t].status
      /\ \A n \in DOMAIN stdout[t] : stdout[t][n].what \notin Ending \cup AnswerLines
  BY <1>1, <1>2 DEF EndsOnce
<1> QED BY <1>1, <1>2, <1>3 DEF LastAnswers

\* The end of a turn.
LEMMA EndsStep ==
  ASSUME Inv, TypeOK', NEW t \in Turn, TurnEnds(t)
  PROVE  Inv'
<1>1. /\ turn \in [Turn -> TurnState] /\ queue \in [Turn -> Stream]
      /\ turn[t] \in TurnState /\ turn[t].at = "turn" /\ queue[t].end # "closed"
      /\ queue[t] \in Stream /\ LastIsMarked(queue[t])
      /\ UNCHANGED <<lane, outcome, stdout, said>>
  BY StreamBefore DEF Inv, TypeOK, Stream, TurnEnds, runnerVars
<1>2. CASE ~Sound(turn[t])
  <2>1. Throw(t, queue[t])
    BY <1>2 DEF TurnEnds
  <2> QED BY <1>1, <2>1, ThrowStep
<1>3. CASE Sound(turn[t])
  <2>1. turn' = [turn EXCEPT ![t].at = "over"]
        /\ queue' = [queue EXCEPT ![t] = End(Push(@, <<"completed">>), "closed")]
    BY <1>3 DEF TurnEnds
  <2>2. turn'[t] = [turn[t] EXCEPT !.at = "over"] /\ \A u \in Turn \ {t} : turn'[u] = turn[u]
    BY <1>1, <2>1
  <2>3. /\ turn'[t].status = turn[t].status /\ turn'[t].final = turn[t].final
        /\ turn'[t].error = turn[t].error /\ turn'[t].done = turn[t].done
        /\ turn'[t].at = "over"
    BY <1>1, <2>2 DEF TurnState
  <2>4. EndsOnce(t)' /\ LastAnswers(t)' /\ SettledSoundly(t)'
    BY <1>1, <2>3, QuietTurn
  <2>5. PICK p : p = End(Push(queue[t], <<"completed">>), "closed")
    OBVIOUS
  <2>6. queue'[t] = p /\ \A u \in Turn \ {t} : queue'[u] = queue[u]
    BY <1>1, <2>1, <2>5
  <2>7. LastIsMarked(p)
    BY <1>1, <2>5, PushLast
  <2>8. queue[t].end # "open" => p = queue[t]
    BY <2>5 DEF Push, End
  <2>9. said[t].status = "completed" /\ said[t].json
    BY <1>3, SoundEarned
  <2> QED BY <1>1, <2>2, <2>3, <2>4, <2>6, <2>7, <2>8, <2>9, TurnStep
<1> QED BY <1>2, <1>3

\* The steps of the adapter keep the invariant.
LEMMA AdapterStep ==
  ASSUME Inv, NEW t \in Turn, Adapter(t)
  PROVE  Inv'
<1>1. TypeOK'
  BY AdapterType DEF Inv
<1>2. queue[t] \in Stream /\ LastIsMarked(queue[t])
  BY StreamBefore
<1>3. PICK q : q = Push(queue[t], <<"other">>)
  OBVIOUS
<1>4. q \in Stream /\ LastIsMarked(q) /\ q.end = queue[t].end /\ (q = queue[t] \/ queue[t].end = "open")
  BY <1>2, <1>3, PushOther
<1>5. CASE ReadLine(t)
  BY <1>5, ReadStep
<1>6. CASE Refused(t)
  <2>1. turn[t].at \notin {"unborn", "over"} /\ Throw(t, queue[t])
        /\ UNCHANGED <<lane, outcome, stdout, said>>
    BY <1>6 DEF Refused, runnerVars
  <2> QED BY <1>1, <1>2, <2>1, ThrowStep
<1>7. CASE Initialized(t)
  <2>1. turn[t].at \notin {"unborn", "over"} /\ Send(t, "thread", queue[t])
        /\ UNCHANGED <<lane, outcome, stdout, said>>
    BY <1>7 DEF Initialized, runnerVars
  <2> QED BY <1>1, <1>2, <2>1, SendStep
<1>8. CASE ThreadOpened(t)
  <2>1. turn[t].at \notin {"unborn", "over"} /\ Send(t, "turn/start", q)
        /\ UNCHANGED <<lane, outcome, stdout, said>>
    BY <1>3, <1>8 DEF ThreadOpened, runnerVars
  <2> QED BY <1>1, <1>4, <2>1, SendStep
<1>9. CASE TurnStarted(t)
  BY <1>1, <1>9, StartedStep
<1>10. CASE TurnEnds(t)
  BY <1>1, <1>10, EndsStep
<1> QED BY <1>5, <1>6, <1>7, <1>8, <1>9, <1>10 DEF Adapter

-----------------------------------------------------------------------------
(* Codex and the aborts                                                    *)

\* A failing connection reads nothing of a turn.
LEMMA FailStep ==
  ASSUME Inv, TypeOK', NEW t \in Turn, FailConnection(t) \/ UNCHANGED <<client, turn>>,
         UNCHANGED <<lane, outcome, queue, stdout, said>>
  PROVE  Inv'
<1>1. turn \in [Turn -> TurnState] /\ turn[t] \in TurnState
  BY StreamBefore DEF Inv, TypeOK
<1>2. turn' = [turn EXCEPT ![t] = Rejected(turn[t])] \/ turn' = turn
  BY DEF FailConnection
<1>3. \A u \in Turn \ {t} : turn'[u] = turn[u]
  BY <1>1, <1>2
<1>4. turn'[t] = Rejected(turn[t]) \/ turn'[t] = turn[t]
  BY <1>1, <1>2
<1>5. /\ turn'[t].status = turn[t].status /\ turn'[t].final = turn[t].final
      /\ turn'[t].error = turn[t].error /\ turn'[t].at = turn[t].at
      /\ turn'[t].done = "settled" => turn[t].done = "settled"
  <2>1. CASE turn'[t] = turn[t]
    BY <2>1
  <2>2. CASE turn'[t] = Rejected(turn[t])
    BY <1>1, <2>2, RejectedFields
  <2> QED BY <1>4, <2>1, <2>2
<1>6. EndsOnce(t)' /\ LastAnswers(t)' /\ SettledSoundly(t)'
  BY <1>5, QuietTurn
<1>7. /\ LastIsMarked(queue[t])
      /\ queue[t].end = "closed" => turn[t].at = "over" /\ said[t].status = "completed" /\ said[t].json
  BY StreamBefore
<1> QED BY <1>3, <1>5, <1>6, <1>7, TurnStep

\* What a line says of the turn, when it says anything.
Tells(what, told, json, told2, json2) ==
  \/ told2 = told /\ json2 = json /\ what \notin Ending \cup AnswerLines
  \/ /\ told = "none"
     /\ what \in Ending => told2 = StatusOf(what)
     /\ what \notin Ending => told2 = told
     /\ what \in AnswerLines => (json2 <=> what = "json answer")
     /\ what \notin AnswerLines => json2 = json

Longer(r, s, e) == r = Append(s, e)

\* A line more to read.
LEMMA UnreadAppend ==
  ASSUME NEW s \in Seq(Line), NEW e \in Line, NEW r, Longer(r, s, e), NEW status, NEW final,
         NEW told, NEW json \in BOOLEAN, Unread(s, status, final, told, json),
         NEW told2, NEW json2 \in BOOLEAN,
         Tells(e.what, told, json, told2, json2)
  PROVE  Unread(r, status, final, told2, json2)
<1>0. s \in Seq(Line) /\ e \in Line /\ r = Append(s, e)
  BY DEF Longer
<1>1. /\ r \in Seq(Line) /\ DOMAIN r = DOMAIN s \cup {Len(s) + 1}
      /\ r[Len(s) + 1] = e /\ Len(s) + 1 \notin DOMAIN s
      /\ \A n \in DOMAIN s : r[n] = s[n] /\ n < Len(s) + 1
  BY ONLY <1>0, AppendLines
<1>2. ~(Len(s) + 1 < Len(s) + 1) /\ \A n \in DOMAIN s : ~(Len(s) + 1 < n)
  BY ONLY <1>0, LastPlace
<1>3. PICK last : last = Len(s) + 1
  OBVIOUS
<1>4. /\ DOMAIN r = DOMAIN s \cup {last} /\ r[last] = e /\ ~(last < last)
      /\ \A n \in DOMAIN s : r[n] = s[n] /\ n < last /\ ~(last < n)
  BY <1>1, <1>2, <1>3
<1>5. /\ \A n \in DOMAIN s : s[n].what \in Ending =>
           /\ status = "none" /\ told = StatusOf(s[n].what)
           /\ \A m \in DOMAIN s : n < m => s[m].what \notin Ending \cup AnswerLines
      /\ status # "none" =>
           /\ told = status
           /\ \A n \in DOMAIN s : s[n].what \notin Ending \cup AnswerLines
  BY DEF Unread
<1>6. /\ (\A n \in DOMAIN s : s[n].what \notin AnswerLines) => (json <=> final = "json")
      /\ \A n \in DOMAIN s :
           /\ s[n].what \in AnswerLines
           /\ \A m \in DOMAIN s : n < m => s[m].what \notin AnswerLines
           => (json <=> s[n].what = "json answer")
  BY DEF Unread
<1>12. \/ told2 = told /\ json2 = json /\ e.what \notin Ending \cup AnswerLines
       \/ /\ told = "none"
          /\ e.what \in Ending => told2 = StatusOf(e.what)
          /\ e.what \notin Ending => told2 = told
          /\ e.what \in AnswerLines => (json2 <=> e.what = "json answer")
          /\ e.what \notin AnswerLines => json2 = json
  BY DEF Tells
<1>7. told = "none" => status = "none" /\ \A n \in DOMAIN s : s[n].what \notin Ending
  BY <1>5 DEF StatusOf
<1>8. \A n \in DOMAIN r : r[n].what \in Ending =>
        /\ status = "none" /\ told2 = StatusOf(r[n].what)
        /\ \A m \in DOMAIN r : n < m => r[m].what \notin Ending \cup AnswerLines
  <2>1. CASE told2 = told /\ json2 = json /\ e.what \notin Ending \cup AnswerLines
    BY <1>4, <1>5, <2>1
  <2>2. CASE told = "none" /\ (e.what \in Ending => told2 = StatusOf(e.what))
    <3>1. ASSUME NEW n \in DOMAIN r, r[n].what \in Ending PROVE n = last
      BY <1>4, <1>7, <2>2, <3>1
    <3> QED BY <1>4, <1>7, <2>2, <3>1
  <2> QED BY <1>12, <2>1, <2>2
<1>9. status # "none" =>
        told2 = status /\ \A n \in DOMAIN r : r[n].what \notin Ending \cup AnswerLines
  BY <1>4, <1>5, <1>7, <1>12
<1>10. (\A n \in DOMAIN r : r[n].what \notin AnswerLines) => (json2 <=> final = "json")
  BY <1>4, <1>6, <1>12
<1>11. ASSUME NEW n \in DOMAIN r, r[n].what \in AnswerLines,
              \A m \in DOMAIN r : n < m => r[m].what \notin AnswerLines
       PROVE  json2 <=> r[n].what = "json answer"
  <2>1. CASE n = last
    BY <1>4, <1>11, <1>12, <2>1
  <2>2. CASE n \in DOMAIN s
    <3>1. e.what \notin AnswerLines
      BY <1>4, <1>11, <2>2
    <3>2. json2 = json
      BY <1>12, <3>1
    <3>3. \A m \in DOMAIN s : n < m => s[m].what \notin AnswerLines
      BY <1>4, <1>11
    <3> QED BY <1>4, <1>6, <1>11, <2>2, <3>2, <3>3
  <2> QED BY <1>4, <2>1, <2>2
<1> QED BY <1>8, <1>9, <1>10, <1>11 DEF Unread

\* Codex writes a line, which says something of the turn or not.
LEMMA WriteStep ==
  ASSUME Inv, TypeOK', NEW t \in Turn, NEW e \in Line,
         stdout'[t] = Append(stdout[t], e), \A u \in Turn \ {t} : stdout'[u] = stdout[u],
         \A u \in Turn \ {t} : said'[u] = said[u],
         UNCHANGED <<lane, outcome, turn, queue>>,
         Tells(e.what, said[t].status, said[t].json, said'[t].status, said'[t].json),
         said'[t] = said[t] \/ turn[t].at # "over"
  PROVE  Inv'
<1>1. PICK s \in Seq(Line) : s = stdout[t]
  BY StreamBefore
<1>2. PICK r : r = Append(s, e) /\ r = stdout'[t]
  BY <1>1
<1>3. PICK status, final, told, told2 :
        status = turn[t].status /\ final = turn[t].final /\ told = said[t].status /\ told2 = said'[t].status
  OBVIOUS
<1>4. PICK json \in BOOLEAN, json2 \in BOOLEAN : json = said[t].json /\ json2 = said'[t].json
  BY DEF Inv, TypeOK
<1>5. Unread(s, status, final, told, json)
  BY <1>1, <1>3, <1>4, ZenonT(40) DEF Inv, TurnInv, EndsOnce, LastAnswers, Unread
<1>6. Tells(e.what, told, json, told2, json2)
  BY <1>3, <1>4
<1>7. Unread(r, status, final, told2, json2)
  <2>1. Longer(r, s, e)
    BY <1>2 DEF Longer
  <2> QED BY ONLY s \in Seq(Line), e \in Line, json \in BOOLEAN, json2 \in BOOLEAN,
                  <1>5, <1>6, <2>1, UnreadAppend
<1>8. EndsOnce(t)'
  BY <1>2, <1>3, <1>4, <1>7 DEF EndsOnce, Unread
<1>9. LastAnswers(t)'
  BY <1>2, <1>3, <1>4, <1>7 DEF LastAnswers, Unread
<1>10. SettledSoundly(t)'
  BY DEF Inv, TurnInv, SettledSoundly
<1>11. LastIsMarked(queue[t])
  BY StreamBefore
<1>12. queue[t].end = "closed" => turn[t].at = "over" /\ said'[t].status = "completed" /\ said'[t].json
  BY StreamBefore
<1> QED BY <1>8, <1>9, <1>10, <1>11, <1>12, TurnStep

\* The steps of Codex and the aborts keep the invariant.
LEMMA CodexStep ==
  ASSUME Inv, NEW t \in Turn, Codex(t) \/ Abort(t)
  PROVE  Inv'
<1>1. TypeOK' /\ TypeOK
  BY CodexType DEF Inv
<1>2. CASE Respond(t)
  <2>1. PICK what \in Response : Writes(t, what, NoRequest)
    BY <1>2 DEF Respond
  <2>2. PICK e \in Line :
          /\ e.what = what /\ stdout'[t] = Append(stdout[t], e)
          /\ \A u \in Turn \ {t} : stdout'[u] = stdout[u]
    BY <1>1, <2>1, WritesType, NoRequestType
  <2>3. what \notin Ending \cup AnswerLines
    BY DEF Response, Ending, AnswerLines
  <2>4. UNCHANGED <<lane, outcome, turn, queue, said>>
    BY <1>2 DEF Respond, runnerVars, adapterVars
  <2>5. Tells(e.what, said[t].status, said[t].json, said'[t].status, said'[t].json)
    BY <2>2, <2>3, <2>4 DEF Tells
  <2> QED BY <1>1, <2>2, <2>4, <2>5, WriteStep
<1>3. CASE Ask(t)
  <2>1. PICK request \in Requests : Writes(t, "request", request)
    BY <1>3 DEF Ask
  <2>2. PICK e \in Line :
          /\ e.what = "request" /\ stdout'[t] = Append(stdout[t], e)
          /\ \A u \in Turn \ {t} : stdout'[u] = stdout[u]
    BY <1>1, <2>1, WritesType, CodexAssumption
  <2>3. "request" \notin Ending \cup AnswerLines
    BY DEF Ending, AnswerLines
  <2>4. UNCHANGED <<lane, outcome, turn, queue, said>>
    BY <1>3 DEF Ask, runnerVars, adapterVars
  <2>5. Tells(e.what, said[t].status, said[t].json, said'[t].status, said'[t].json)
    BY <2>2, <2>3, <2>4 DEF Tells
  <2> QED BY <1>1, <2>2, <2>4, <2>5, WriteStep
<1>4. CASE Notify(t)
  <2>1. PICK line \in Notice :
           /\ Writes(t, line, NoRequest) /\ NoRequest \in Permission
           /\ line = "error" \/ (InTurn(t) /\ said[t].status = "none")
           /\ said' = [said EXCEPT ![t] = SaidBy(@, line)]
    BY <1>1, <1>4, NotifyRow
  <2>2. PICK e \in Line :
          /\ e.what = line /\ stdout'[t] = Append(stdout[t], e)
          /\ \A u \in Turn \ {t} : stdout'[u] = stdout[u]
    BY <1>1, <2>1, WritesType
  <2>3. said'[t] = SaidBy(said[t], line) /\ \A u \in Turn \ {t} : said'[u] = said[u]
    BY <1>1, <2>1 DEF TypeOK
  <2>4. /\ line \in Ending => said'[t].status = StatusOf(line)
        /\ line \notin Ending => said'[t].status = said[t].status
        /\ line \in AnswerLines => (said'[t].json <=> line = "json answer")
        /\ line \notin AnswerLines => said'[t].json = said[t].json
    <3>1. said[t] \in [status : {"none", "completed", "failed"}, json : BOOLEAN]
      BY <1>1, RowTypes
    <3>2. said'[t] = SaidBy(said[t], line)
      BY <2>3
    <3> QED BY ONLY <3>1, <3>2, SaidFields
  <2>5. UNCHANGED <<lane, outcome, turn, queue>>
    BY <1>4 DEF Notify, runnerVars, adapterVars
  <2>6. CASE line = "error"
    <3>1. line \notin Ending \cup AnswerLines
      BY <2>6 DEF Ending, AnswerLines
    <3>2. said'[t] = said[t]
      <4>1. said[t] \in [status : {"none", "completed", "failed"}, json : BOOLEAN]
            /\ said'[t] \in [status : {"none", "completed", "failed"}, json : BOOLEAN]
        BY <1>1 DEF TypeOK
      <4>2. said'[t].status = said[t].status /\ said'[t].json = said[t].json
        BY <2>4, <3>1
      <4> QED BY <4>1, <4>2
    <3>3. Tells(e.what, said[t].status, said[t].json, said'[t].status, said'[t].json)
      BY <2>2, <3>1, <3>2 DEF Tells
    <3> QED BY <1>1, <2>2, <2>3, <2>5, <3>2, <3>3, WriteStep
  <2>7. CASE InTurn(t) /\ said[t].status = "none"
    <3>1. turn[t].at # "over"
      BY <2>7 DEF InTurn
    <3>2. Tells(e.what, said[t].status, said[t].json, said'[t].status, said'[t].json)
      BY <2>2, <2>4, <2>7 DEF Tells
    <3> QED BY <1>1, <2>2, <2>3, <2>5, <3>1, <3>2, WriteStep
  <2> QED BY <2>1, <2>6, <2>7
<1>5. CASE ChildExits(t)
  <2>1. FailConnection(t) /\ UNCHANGED <<lane, outcome, queue, stdout, said>>
    BY <1>5 DEF ChildExits, runnerVars
  <2> QED BY <1>1, <2>1, FailStep
<1>6. CASE Abort(t)
  <2>1. FailConnection(t) \/ UNCHANGED <<client, turn>>
    BY <1>6 DEF Abort
  <2>2. UNCHANGED <<lane, outcome, queue, stdout, said>>
    BY <1>6 DEF Abort, codexVars
  <2> QED BY <1>1, <2>1, <2>2, FailStep
<1> QED BY <1>2, <1>3, <1>4, <1>5, <1>6 DEF Codex

-----------------------------------------------------------------------------
(* The theorem                                                             *)

\* The invariant holds before any job is taken.
LEMMA InitInv == Init => Inv
<1> SUFFICES ASSUME Init PROVE Inv
  OBVIOUS
<1>1. TypeOK
  BY InitType
<1>2. LaneSound
  BY DEF Init, IdleLane, LaneSound
<1>3. ASSUME NEW t \in Turn PROVE TurnInv(t)
  <2>1. /\ stdout[t] = <<>> /\ said[t] = [status |-> "none", json |-> FALSE]
        /\ turn[t] = NoTurn /\ queue[t] = [items |-> <<>>, end |-> "open"]
        /\ outcome[t] = "none" /\ DOMAIN stdout[t] = {} /\ DOMAIN queue[t].items = {}
    BY DEF Init
  <2>2. turn[t].status = "none" /\ turn[t].final = "none" /\ turn[t].done = "open"
        /\ turn[t].at = "unborn" /\ ~said[t].json /\ queue[t].end = "open"
    BY <2>1 DEF NoTurn
  <2> QED BY <2>1, <2>2
      DEF TurnInv, EndsOnce, LastAnswers, SettledSoundly, ClosedSoundly, BegunOnce
<1> QED BY <1>1, <1>2, <1>3 DEF Inv

\* A step that changes nothing keeps the invariant.
LEMMA StutterStep ==
  ASSUME Inv, UNCHANGED vars
  PROVE  Inv'
<1>1. UNCHANGED <<lane, outcome, aborted, turn, client, queue, child, stdin, stdout, said, notices>>
  BY DEF vars, runnerVars, adapterVars, codexVars
<1>2. TypeOK'
  BY <1>1 DEF Inv, TypeOK
<1>3. LaneSound'
  BY <1>1 DEF Inv, LaneSound
<1>4. ASSUME NEW t \in Turn PROVE TurnInv(t)'
  <2>1. EndsOnce(t)' /\ LastAnswers(t)' /\ SettledSoundly(t)'
    BY <1>1, QuietTurn
  <2>2. ClosedSoundly(t)'
    BY <1>1 DEF Inv, TurnInv, ClosedSoundly
  <2>3. BegunOnce(t)'
    BY <1>1, BegunKept
  <2> QED BY <2>1, <2>2, <2>3 DEF TurnInv
<1> QED BY <1>2, <1>3, <1>4 DEF Inv

\* In every reachable state, whatever order answers, notices, errors, aborts and
\* the exit of a process come in: the types; a job reports an output only when
\* Codex completed the turn and answered in the structured form last; and
\* execution.completed is the last event of its stream (the adapter's run, its
\* connection and queue, and the runner's loop over the events).
THEOREM TurnSoundCorrect == Spec => []TurnSound
<1>1. Inv /\ [Next]_vars => Inv'
  <2> SUFFICES ASSUME Inv, [Next]_vars PROVE Inv'
    OBVIOUS
  <2>1. CASE UNCHANGED vars
    BY <2>1, StutterStep
  <2>2. ASSUME NEW t \in Turn, Job(t) \/ Adapter(t) \/ Codex(t) \/ Abort(t) PROVE Inv'
    BY <2>2, JobStep, AdapterStep, CodexStep
  <2> QED BY <2>1, <2>2 DEF Next
<1> QED BY <1>1, InitInv, InvSound, PTL DEF Spec

-----------------------------------------------------------------------------
(***************************************************************************)
(* The daemon process: what DaemonControl says of the process that runs     *)
(* those turns.                                                            *)
(***************************************************************************)
\* A command knows the daemon it replaces, and any it launches is a later one.
Replacing ==
  /\ cli.before <= daemon.pid
  /\ cli.step \in {"kickstart", "launched"} /\ daemon.up => cli.before < daemon.pid
  /\ cli.step = "wait" => cli.before < cli.pid

\* The inductive invariant of the daemon under its commands.
ControlInv == ControlTypeOK /\ Replacing

\* Process identifiers are numbers, 0 before the first process.
LEMMA PidsAreNumbers ==
  Pid \subseteq Nat /\ 0 \in Pid /\ MaxPid \in Nat /\ MaxFaults \in Nat
BY DaemonAssumption DEF Pid

\* A daemon that is down has a daemon's type and keeps its identifier.
LEMMA DownType ==
  ASSUME NEW p \in Pid
  PROVE  Down(p) \in DaemonState /\ Down(p).pid = p /\ ~Down(p).up
BY DEF Down, DaemonState, BeatStep, Health

\* A daemon between two heartbeats is still the same process.
LEMMA RestedType ==
  ASSUME NEW d \in DaemonState
  PROVE  Rested(d) \in DaemonState /\ Rested(d).pid = d.pid /\ Rested(d).up = d.up
BY DEF Rested, DaemonState, BeatStep

\* A terminal without a command has its type.
LEMMA NoCommandType ==
  ASSUME 0 \in Pid
  PROVE  NoCommand \in CommandLine /\ NoCommand.before = 0 /\ NoCommand.step = "idle"
BY DEF NoCommand, CommandLine

\* The server's handlers touch neither the daemon nor the command.
LEMMA ServerControl ==
  ASSUME ControlInv, Server
  PROVE  ControlInv'
<1>1. UNCHANGED <<daemon, cli>> /\ Replacing'
  BY DEF Server, RequestRefresh, RequestRestart, GoesOffline,
     FixCodex, Enqueue, LeaseExpires,
     ControlInv, Replacing
<1>2. row' \in Row
  <2>1. [row EXCEPT !.refresh = TRUE] \in Row /\ [row EXCEPT !.restart = TRUE] \in Row
        /\ [row EXCEPT !.seen = FALSE] \in Row
    BY DEF ControlInv, ControlTypeOK, Row
  <2> QED BY <2>1 DEF Server, RequestRefresh, RequestRestart,
     GoesOffline, FixCodex, Enqueue,
             LeaseExpires, ControlInv, ControlTypeOK
<1>3. /\ task' \in [Task -> {"absent", "queued", "claimed", "answered", "lost"}]
      /\ codex' \in Health /\ job' \in BOOLEAN /\ lostAck' \in BOOLEAN /\ faults' \in 0..MaxFaults
  BY DEF Server, RequestRefresh, RequestRestart, GoesOffline,
     FixCodex, Enqueue, LeaseExpires,
     ControlInv, ControlTypeOK, Health
<1> QED BY <1>1, <1>2, <1>3 DEF ControlInv, ControlTypeOK

\* A daemon that goes on, or ends, under the identifier it has changes nothing
\* for the command that awaits it.
LEMMA DaemonGoesOn ==
  ASSUME ControlInv, daemon' \in DaemonState, daemon'.pid = daemon.pid,
         daemon'.up => daemon.up, UNCHANGED <<codex, job, cli>>,
         row' \in Row, task' \in [Task -> {"absent", "queued", "claimed", "answered", "lost"}],
         faults' \in 0..MaxFaults, lostAck' \in BOOLEAN
  PROVE  ControlInv'
BY DEF ControlInv, ControlTypeOK, Replacing

\* What the polling coroutine is at.
DaemonLane == {"idle", "claiming", "claimed", "working"}

\* Another state of the same process.
SameProcess(d, e) == e \in DaemonState /\ e.pid = d.pid /\ e.up = d.up

\* Counting a fault keeps within the bound.
LEMMA FaultCounted ==
  ASSUME faults \in 0..MaxFaults,
         faults' = faults \/ (faults < MaxFaults /\ faults' = faults + 1)
  PROVE  faults' \in 0..MaxFaults
BY DaemonAssumption

\* The heartbeat coroutine is always that of one process.
LEMMA BeatControl ==
  ASSUME ControlInv,
         Probed \/ HeartbeatLands \/ AckLands \/ Replied \/ CallFails \/ NextBeat \/ BeatEnds
  PROVE  ControlInv'
<1>1. daemon \in DaemonState /\ row \in Row /\ faults \in 0..MaxFaults /\ lostAck \in BOOLEAN
      /\ codex \in Health /\ MaxFaults \in Nat
  BY DaemonAssumption DEF ControlInv, ControlTypeOK
<1>2. /\ UNCHANGED <<task, codex, job, cli>> /\ daemon.up
      /\ lostAck' = lostAck \/ lostAck' = (lostAck \/ daemon.beat = "ackedRestart")
      /\ faults' = faults \/ (faults < MaxFaults /\ faults' = faults + 1)
  BY Zenon DEF Probed, HeartbeatLands, AckLands, Replied,
     CallFails, NextBeat, BeatEnds
<1>3. lostAck' \in BOOLEAN
  BY <1>1, <1>2
<1>4. faults' \in 0..MaxFaults
  BY <1>1, <1>2, FaultCounted
<1>5. row' \in Row
  <2>2. daemon.pid \in Pid /\ daemon.error \in BOOLEAN
    BY <1>1 DEF DaemonState
  <2>3. Heartbeat(row) \in Row
    <3>1. PICK n \in 0..1 : n = IF daemon.lane = "idle" THEN 0 ELSE 1
      OBVIOUS
    <3>2. PICK t \in BOOLEAN : t = TRUE
      OBVIOUS
    <3>3. Heartbeat(row) = [row EXCEPT !.pid = daemon.pid, !.seen = t, !.error = daemon.error, !.count = n]
      BY <3>1, <3>2 DEF Heartbeat
    <3>4. [row EXCEPT !.pid = daemon.pid, !.seen = t, !.error = daemon.error, !.count = n] \in Row
      BY <1>1, <2>2, <3>1 DEF Row
    <3> QED BY <3>3, <3>4
  <2>4. Acknowledge("refresh") \in Row /\ Acknowledge("restart") \in Row
    <3>1. PICK f \in BOOLEAN : f = FALSE
      OBVIOUS
    <3>2. /\ Acknowledge("refresh") = [row EXCEPT !.refresh = f]
          /\ Acknowledge("restart") = [row EXCEPT !.restart = f]
      BY <3>1 DEF Acknowledge
    <3>3. [row EXCEPT !.refresh = f] \in Row /\ [row EXCEPT !.restart = f] \in Row
      BY <1>1, <3>1 DEF Row
    <3> QED BY <3>2, <3>3
  <2>5. row' \in {row, Heartbeat(row), Acknowledge("refresh"), Acknowledge("restart")}
    BY Zenon DEF Probed, HeartbeatLands, AckLands, Replied,
       CallFails, NextBeat, BeatEnds
  <2> QED BY <1>1, <2>3, <2>4, <2>5
<1>6. SameProcess(daemon, daemon')
  <2>0. PICK f \in BOOLEAN, t \in BOOLEAN : f = FALSE /\ t = TRUE
    OBVIOUS
  <2>1. CASE Probed
    <3>1. daemon.sampled \in Health /\ "error" \in Health
      BY <1>1 DEF DaemonState, Health
    <3>2. PICK b \in BeatStep : b = IF daemon.beat = "boot" THEN "post" ELSE "ackRefresh"
      BY DEF BeatStep
    <3>3. daemon' = [daemon EXCEPT !.report = daemon.sampled, !.sampled = "error", !.beat = b]
      BY <2>1, <3>2, <1>1 DEF Probed, DaemonState
    <3> HIDE DEF BeatStep
    <3>4. SameProcess(daemon, [daemon EXCEPT !.report = daemon.sampled, !.sampled = "error", !.beat = b])
      BY <1>1, <3>1, <3>2 DEF SameProcess, DaemonState
    <3> QED BY <3>3, <3>4
  <2>2. CASE HeartbeatLands
    <3>1. row.refresh \in BOOLEAN /\ row.restart \in BOOLEAN /\ "posted" \in BeatStep
      BY <1>1 DEF Row, BeatStep
    <3>2. daemon' = [daemon EXCEPT !.beat = "posted", !.refresh = row.refresh, !.restart = row.restart]
      BY <2>2 DEF HeartbeatLands
    <3>3. SameProcess(daemon, [daemon EXCEPT !.beat = "posted", !.refresh = row.refresh,
                                             !.restart = row.restart])
      BY <1>1, <3>1 DEF SameProcess, DaemonState
    <3> QED BY <3>2, <3>3
  <2>3. CASE AckLands
    <3>1. "ackedRefresh" \in BeatStep /\ "ackedRestart" \in BeatStep
      BY DEF BeatStep
    <3>2. \/ daemon' = [daemon EXCEPT !.beat = "ackedRefresh", !.refresh = f]
          \/ daemon' = [daemon EXCEPT !.beat = "ackedRestart", !.restart = f]
      BY <2>0, <2>3 DEF AckLands
    <3>3. /\ SameProcess(daemon, [daemon EXCEPT !.beat = "ackedRefresh", !.refresh = f])
          /\ SameProcess(daemon, [daemon EXCEPT !.beat = "ackedRestart", !.restart = f])
      BY <1>1, <3>1 DEF SameProcess, DaemonState
    <3> QED BY <3>2, <3>3
  <2>4. CASE Replied \/ CallFails
    <3>1. \/ daemon' = [daemon EXCEPT !.beat = "probe", !.sampled = codex]
          \/ daemon' = [daemon EXCEPT !.beat = "ackRestart"]
          \/ daemon' = Rested(daemon) \/ daemon' = [Rested(daemon) EXCEPT !.aborted = t]
          \/ daemon' = [Rested(daemon) EXCEPT !.error = t]
      BY <2>0, <2>4 DEF Replied, CallFails
    <3>2. SameProcess(daemon, Rested(daemon))
      BY <1>1, RestedType DEF SameProcess
    <3>3. /\ SameProcess(Rested(daemon), [Rested(daemon) EXCEPT !.aborted = t])
          /\ SameProcess(Rested(daemon), [Rested(daemon) EXCEPT !.error = t])
      <4> DEFINE e == Rested(daemon)
      <4>1. e \in DaemonState
        BY <1>1, RestedType
      <4> HIDE DEF e
      <4>2. SameProcess(e, [e EXCEPT !.aborted = t]) /\ SameProcess(e, [e EXCEPT !.error = t])
        BY <4>1 DEF DaemonState, SameProcess
      <4> QED BY <4>2 DEF e
    <3>4. /\ SameProcess(daemon, [Rested(daemon) EXCEPT !.aborted = t])
          /\ SameProcess(daemon, [Rested(daemon) EXCEPT !.error = t])
      BY <3>2, <3>3 DEF SameProcess
    <3>5. "probe" \in BeatStep /\ "ackRestart" \in BeatStep
      BY DEF BeatStep
    <3>6. /\ SameProcess(daemon, [daemon EXCEPT !.beat = "probe", !.sampled = codex])
          /\ SameProcess(daemon, [daemon EXCEPT !.beat = "ackRestart"])
      BY <1>1, <3>5 DEF SameProcess, DaemonState
    <3> QED BY <3>1, <3>2, <3>4, <3>6
  <2>5. CASE NextBeat \/ BeatEnds
    <3>1. "post" \in BeatStep /\ "ended" \in BeatStep
      BY DEF BeatStep
    <3>2. daemon' = [daemon EXCEPT !.beat = "post"] \/ daemon' = [daemon EXCEPT !.beat = "ended"]
      BY <2>5 DEF NextBeat, BeatEnds
    <3>3. /\ SameProcess(daemon, [daemon EXCEPT !.beat = "post"])
          /\ SameProcess(daemon, [daemon EXCEPT !.beat = "ended"])
      BY <1>1, <3>1 DEF SameProcess, DaemonState
    <3> QED BY <3>2, <3>3
  <2> QED BY <2>1, <2>2, <2>3, <2>4, <2>5
<1> QED BY <1>1, <1>2, <1>3, <1>4, <1>5, <1>6, DaemonGoesOn DEF ControlInv, ControlTypeOK,
   SameProcess

\* So is the polling coroutine.
LEMMA PollControl ==
  ASSUME ControlInv,
         Poll \/ ClaimLands \/ ClaimReplied \/ ClaimLost \/ TaskEnds
  PROVE  ControlInv'
<1>1. daemon \in DaemonState /\ faults \in 0..MaxFaults
      /\ task \in [Task -> {"absent", "queued", "claimed", "answered", "lost"}]
      /\ row \in Row /\ lostAck \in BOOLEAN
  BY DEF ControlInv, ControlTypeOK
<1>2. /\ UNCHANGED <<row, codex, job, cli, lostAck>> /\ daemon.up
      /\ faults' = faults \/ (faults < MaxFaults /\ faults' = faults + 1)
  BY Zenon DEF Poll, ClaimLands, ClaimReplied, ClaimLost,
     TaskEnds
<1>3. task' \in [Task -> {"absent", "queued", "claimed", "answered", "lost"}]
  <2>1. \/ task' = task \/ task' = [task EXCEPT ![daemon.work] = "answered"]
        \/ \E t \in Task : task' = [task EXCEPT ![t] = "claimed"]
    BY DEF Poll, ClaimLands, FirstQueued, ClaimReplied,
       ClaimLost, TaskEnds
  <2> QED BY ONLY <1>1, <2>1
<1>4. SameProcess(daemon, daemon')
  <2>0. PICK t \in BOOLEAN : t = TRUE
    OBVIOUS
  <2>1. CASE Poll \/ ClaimReplied
    <3>1. daemon' = [daemon EXCEPT !.lane = "claiming"] \/ daemon' = [daemon EXCEPT !.lane = "working"]
      BY <2>1 DEF Poll, ClaimReplied
    <3>2. "claiming" \in DaemonLane /\ "working" \in DaemonLane
      BY DEF DaemonLane
    <3>3. /\ SameProcess(daemon, [daemon EXCEPT !.lane = "claiming"])
          /\ SameProcess(daemon, [daemon EXCEPT !.lane = "working"])
      BY <1>1, <3>2 DEF SameProcess, DaemonState, DaemonLane
    <3> QED BY <3>1, <3>3
  <2>2. CASE ClaimLands
    <3>1. \/ daemon' = [daemon EXCEPT !.lane = "idle"]
          \/ \E u \in Task : daemon' = [daemon EXCEPT !.lane = "claimed", !.work = u]
      BY <2>2 DEF ClaimLands, FirstQueued
    <3>2. "idle" \in DaemonLane /\ "claimed" \in DaemonLane
      BY DEF DaemonLane
    <3>3. /\ SameProcess(daemon, [daemon EXCEPT !.lane = "idle"])
          /\ \A u \in Task : SameProcess(daemon, [daemon EXCEPT !.lane = "claimed", !.work = u])
      BY <1>1, <3>2 DEF SameProcess, DaemonState, DaemonLane
    <3> QED BY <3>1, <3>3
  <2>3. CASE ClaimLost
    <3>1. daemon' = [daemon EXCEPT !.lane = "idle", !.work = 0, !.error = t]
      BY <2>0, <2>3 DEF ClaimLost
    <3>2. "idle" \in DaemonLane /\ 0 \in Task \cup {0}
      BY DEF DaemonLane
    <3>3. SameProcess(daemon, [daemon EXCEPT !.lane = "idle", !.work = 0, !.error = t])
      BY <1>1, <3>2 DEF SameProcess, DaemonState, DaemonLane
    <3> QED BY <3>1, <3>3
  <2>4. CASE TaskEnds
    <3>1. PICK next \in DaemonLane : next = IF daemon.aborted THEN "idle" ELSE "claiming"
      BY DEF DaemonLane
    <3>2. \/ daemon' = [daemon EXCEPT !.work = 0, !.lane = next]
          \/ daemon' = [daemon EXCEPT !.work = 0, !.error = t, !.lane = next]
      BY <2>0, <2>4, <3>1 DEF TaskEnds
    <3>3. 0 \in Task \cup {0}
      OBVIOUS
    <3>4. /\ SameProcess(daemon, [daemon EXCEPT !.work = 0, !.lane = next])
          /\ SameProcess(daemon, [daemon EXCEPT !.work = 0, !.error = t, !.lane = next])
      BY <1>1, <3>1, <3>3 DEF SameProcess, DaemonState, DaemonLane
    <3> QED BY <3>2, <3>4
  <2> QED BY <2>1, <2>2, <2>3, <2>4
<1>5. faults' \in 0..MaxFaults
  BY <1>1, <1>2, FaultCounted
<1> QED BY <1>1, <1>2, <1>3, <1>4, <1>5, DaemonGoesOn DEF SameProcess

\* A launched process has an identifier no process had before.
LEMMA ProcessControl ==
  ASSUME ControlInv, Launch \/ Exit \/ Killed
  PROVE  ControlInv'
<1>1. daemon \in DaemonState /\ faults \in 0..MaxFaults /\ MaxFaults \in Nat /\ MaxPid \in Nat
      /\ row \in Row /\ lostAck \in BOOLEAN /\ codex \in Health /\ daemon.pid \in Pid
      /\ task \in [Task -> {"absent", "queued", "claimed", "answered", "lost"}]
  BY DaemonAssumption DEF ControlInv, ControlTypeOK, DaemonState
<1>2. CASE Exit \/ Killed
  <2>1. /\ daemon' = Down(daemon.pid) /\ faults' \in 0..MaxFaults
        /\ UNCHANGED <<row, task, codex, job, cli, lostAck>>
    BY <1>1, <1>2 DEF Exit, Killed
  <2> QED BY <1>1, <2>1, DownType, DaemonGoesOn
<1>3. CASE Launch
  <2> DEFINE p == daemon.pid + 1
  <2>1. p \in Pid /\ p > daemon.pid
    BY <1>1, <1>3 DEF Launch, Pid
  <2>2. daemon' = [Down(p) EXCEPT !.up = TRUE, !.beat = "boot", !.sampled = codex]
        /\ UNCHANGED <<row, task, codex, job, cli, faults, lostAck>>
    BY <1>3 DEF Launch
  <2> DEFINE d == Down(p)
  <2>3. d \in DaemonState /\ d.pid = p
    BY <2>1, DownType
  <2>4. daemon' \in DaemonState /\ daemon'.pid = p
    <3>1. PICK t \in BOOLEAN : t = TRUE
      OBVIOUS
    <3>2. daemon' = [d EXCEPT !.up = t, !.beat = "boot", !.sampled = codex]
      BY <2>2, <3>1
    <3>3. "boot" \in BeatStep
      BY DEF BeatStep
    <3> HIDE DEF d, p
    <3>4. ASSUME NEW b \in BeatStep
          PROVE  LET e == [d EXCEPT !.up = t, !.beat = b, !.sampled = codex]
                 IN  e \in DaemonState /\ e.pid = d.pid
      BY <1>1, <2>3, <3>1 DEF DaemonState
    <3> QED BY <2>3, <3>2, <3>3, <3>4
  <2> HIDE DEF d, p
  <2>5. cli.before \in Nat
    BY DEF ControlInv, ControlTypeOK, CommandLine, Pid
  <2> QED BY <1>1, <2>1, <2>2, <2>4, <2>5 DEF ControlInv, ControlTypeOK, Replacing, Pid
<1> QED BY <1>2, <1>3

\* What a command is at.
CommandStep == {"idle", "check", "bootout", "bootstrap", "kickstart", "launched", "wait"}

\* A command remembers the daemon it found, and reads the identifier of one
\* it launched itself after that daemon was gone.
LEMMA CommandControl ==
  ASSUME ControlInv, CommandSteps
  PROVE  ControlInv'
<1>1. /\ daemon \in DaemonState /\ daemon.pid \in Pid /\ Pid \subseteq Nat /\ 0 \in Pid
      /\ cli \in CommandLine /\ faults \in 0..MaxFaults /\ MaxFaults \in Nat
  BY PidsAreNumbers DEF ControlInv, ControlTypeOK, DaemonState
<1>2. /\ \A s \in CommandStep : /\ [cli EXCEPT !.step = s] \in CommandLine
                            /\ \A p \in Pid : [cli EXCEPT !.step = s, !.pid = p] \in CommandLine
      /\ NoCommand \in CommandLine
  BY <1>1, NoCommandType DEF CommandLine, CommandStep
<1>3. /\ UNCHANGED <<row, task, codex, lostAck>> /\ job' \in {job, TRUE, FALSE}
      /\ faults' = faults \/ (faults < MaxFaults /\ faults' = faults + 1)
  <2>1. ASSUME NEW c \in Commands, RunCommand(c)
        PROVE  UNCHANGED <<row, task, codex, lostAck, job, faults>>
    BY <2>1 DEF RunCommand
  <2> QED BY <2>1, Zenon
          DEF CommandSteps, AssertIdle, Bootout, Bootstrap, Kickstart, ReadPid, Ready,
              CommandTimesOut
<1>4. SameProcess(daemon, daemon')
  <2>1. CASE Bootout \/ Kickstart
    <3>1. PICK t \in BOOLEAN : t = TRUE
      OBVIOUS
    <3>2. daemon' = daemon \/ daemon' = [daemon EXCEPT !.aborted = t, !.term = t]
      BY <2>1, <3>1 DEF Bootout, Kickstart, ToldToEnd
    <3>3. SameProcess(daemon, daemon)
      BY <1>1 DEF SameProcess
    <3>4. SameProcess(daemon, [daemon EXCEPT !.aborted = t, !.term = t])
      BY <1>1, <3>1 DEF SameProcess, DaemonState
    <3> QED BY <3>2, <3>3, <3>4
  <2>2. CASE ~(Bootout \/ Kickstart)
    <3>1. daemon' = daemon
      BY <2>2 DEF CommandSteps, RunCommand, AssertIdle,
         Bootstrap, ReadPid, Ready, CommandTimesOut
    <3> QED BY <1>1, <3>1 DEF SameProcess
  <2> QED BY <2>1, <2>2
<1>5. cli' \in CommandLine /\ Replacing'
  <2> DEFINE Becomes(step) == cli' = [cli EXCEPT !.step = step]
  <2>0. /\ \A s \in CommandStep : [cli EXCEPT !.step = s].step = s /\ [cli EXCEPT !.step = s].before = cli.before
                              /\ [cli EXCEPT !.step = s].pid = cli.pid
        /\ cli.before \in Nat /\ cli.pid \in Nat
    BY <1>1 DEF CommandLine
  <2>1. ASSUME NEW c \in Commands, RunCommand(c)
        PROVE  cli' \in CommandLine /\ Replacing'
    <3>1. PICK step \in {"bootout", "check"} : step = IF c = "start" THEN "bootout" ELSE "check"
      OBVIOUS
    <3>2. cli' = [cmd |-> c, step |-> step, before |-> daemon.pid, pid |-> 0]
      BY <2>1, <3>1 DEF RunCommand
    <3>3. cli' \in CommandLine
      BY <1>1, <3>1, <3>2 DEF CommandLine
    <3>4. cli'.before = daemon.pid /\ cli'.step = step
      BY <3>2
    <3>5. daemon'.pid = daemon.pid /\ daemon.pid \in Nat
      BY <1>1, <1>4 DEF SameProcess
    <3> QED BY <3>1, <3>3, <3>4, <3>5 DEF Replacing
  <2>2. CASE cli' = NoCommand
    <3>1. cli' \in CommandLine /\ cli'.before = 0 /\ cli'.step = "idle"
      BY <1>1, <2>2, NoCommandType
    <3>2. daemon'.pid = daemon.pid /\ daemon.pid \in Nat
      BY <1>1, <1>4 DEF SameProcess
    <3> QED BY <3>1, <3>2 DEF Replacing
  <2>3. ASSUME NEW step \in {"bootout", "bootstrap"}, Becomes(step)
        PROVE  cli' \in CommandLine /\ Replacing'
    BY <1>1, <1>2, <1>4, <2>0, <2>3 DEF ControlInv, Replacing, SameProcess, CommandStep
  <2>4. CASE Bootstrap
    <3>1. Becomes("kickstart") /\ ~daemon.up
      BY <2>4 DEF Bootstrap
    <3> QED BY <1>1, <1>2, <1>4, <2>0, <3>1 DEF ControlInv, Replacing, SameProcess, CommandStep
  <2>7. CASE Kickstart
    <3>1. Becomes("launched") /\ cli.step = "kickstart"
      BY <2>7 DEF Kickstart
    <3> QED BY <1>1, <1>2, <1>4, <2>0, <3>1 DEF ControlInv, Replacing, SameProcess, CommandStep
  <2>5. CASE ReadPid
    <3>1. /\ cli' = [cli EXCEPT !.step = "wait", !.pid = daemon.pid]
          /\ cli.step = "launched" /\ daemon.up
      BY <2>5 DEF ReadPid
    <3>2. cli'.step = "wait" /\ cli'.pid = daemon.pid /\ cli'.before = cli.before
      BY <1>1, <3>1 DEF CommandLine
    <3> QED BY <1>1, <1>2, <1>4, <3>1, <3>2 DEF ControlInv, Replacing, SameProcess, CommandStep
  <2>6. \/ \E c \in Commands : RunCommand(c)
        \/ cli' = NoCommand \/ Bootstrap \/ Kickstart \/ ReadPid \/ \E step \in {"bootout", "bootstrap"} : Becomes(step)
    BY DEF CommandSteps, AssertIdle, Bootout, Ready,
       CommandTimesOut
  <2> QED BY <2>1, <2>2, <2>3, <2>4, <2>5, <2>6, <2>7
<1>6. faults' \in 0..MaxFaults
  BY <1>1, <1>3, FaultCounted
<1>7. job' \in BOOLEAN
  BY <1>3 DEF ControlInv, ControlTypeOK
<1> QED BY <1>3, <1>4, <1>5, <1>6, <1>7 DEF ControlInv, ControlTypeOK, SameProcess

\* No command runs and no daemon was ever launched at the beginning.
LEMMA InitControl ==
  ASSUME ControlInit
  PROVE  ControlInv
<1>1. 0 \in Pid /\ Pid \subseteq Nat /\ MaxFaults \in Nat
  BY PidsAreNumbers
<1>2. daemon \in DaemonState /\ daemon.pid = 0 /\ ~daemon.up
  BY <1>1, DownType DEF ControlInit
<1>3. cli \in CommandLine /\ cli.before = 0 /\ cli.step = "idle"
  BY <1>1, NoCommandType DEF ControlInit
<1>4. row \in Row
  <2>1. [pid |-> 0, seen |-> FALSE, error |-> FALSE, count |-> 0, refresh |-> FALSE, restart |-> FALSE]
          \in Row
    BY <1>1 DEF Row
  <2> QED BY <2>1 DEF ControlInit
<1>5. task \in [Task -> {"absent", "queued", "claimed", "answered", "lost"}]
  BY DEF ControlInit
<1>6. job \in BOOLEAN /\ lostAck \in BOOLEAN
  BY DEF ControlInit
<1>7. codex \in Health /\ faults \in 0..MaxFaults
  BY <1>1 DEF ControlInit
<1> QED BY <1>1, <1>2, <1>3, <1>4, <1>5, <1>6, <1>7 DEF ControlInv, ControlTypeOK, Replacing

\* Every step keeps the invariant.
LEMMA NextControl ==
  ASSUME ControlInv, [ControlNext]_controlVars
  PROVE  ControlInv'
<1>1. CASE UNCHANGED controlVars
  BY <1>1 DEF controlVars, ControlInv, ControlTypeOK, Replacing
<1> QED BY <1>1, ServerControl, BeatControl, PollControl, ProcessControl, CommandControl
        DEF ControlNext, Daemon

\* The pid a command waits for belongs to a process it launched, and it is
\* ready only when the heartbeat in the row names that pid.
LEMMA ReadyReplaces ==
  ASSUME ControlInv, Ready
  PROVE  row.pid > cli.before
BY PidsAreNumbers DEF ControlInv, ControlTypeOK, CommandLine, Replacing, Ready,
   IsReady

\* Rows, calls and processes keep their types, and a start or restart that
\* reports a ready daemon saw the heartbeat of a process it launched, never a
\* left-over one of the daemon it replaced (DaemonCliService.waitUntilReady).
THEOREM StartSoundCorrect ==
  ControlSpec => StartSound
<1>1. ControlInit => ControlInv
  BY InitControl
<1>2. ControlInv /\ [ControlNext]_controlVars => ControlInv'
  BY NextControl
<1>3. ControlInv /\ [ControlNext]_controlVars => [Ready => row.pid > cli.before]_controlVars
  BY ReadyReplaces
<1>4. ControlInv => ControlTypeOK
  BY DEF ControlInv
<1>5. ControlSpec => []ControlInv
  BY <1>1, <1>2, PTL DEF ControlSpec
<1> QED BY <1>3, <1>4, <1>5, PTL DEF ControlSpec, StartSound, StartReplaces
=============================================================================
