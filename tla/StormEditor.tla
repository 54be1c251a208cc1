----------------------------- MODULE StormEditor -----------------------------
(***************************************************************************)
(* The Event Storming workspace of a browser and the two files it edits.   *)
(*                                                                         *)
(* The workspace holds a store per file: the shown value, the baseline it  *)
(* was loaded from or last saved as, and whether it is dirty.  An edit     *)
(* arms a timer, the timer saves, a save names the baseline's hash and the *)
(* server refuses it when the file is another by then.  Every focus of the *)
(* window and every invalidation reads both files again.  Reads and saves  *)
(* are requests: they arrive late, out of order, or not at all, while the  *)
(* user types, undoes and discards, and while others write the same files. *)
(*                                                                         *)
(* The code fences an answer by counters of requests and of edits.  A      *)
(* later request makes the answer of an earlier read void, so a store has  *)
(* one read here, with whether the value was edited since (edited).        *)
(***************************************************************************)
EXTENDS ProjectDocuments, Sequences, SequencesExt

CONSTANTS
  Note,          \* notes the user may add: a fact and its placement
  Link,          \* facts the user adds or removes without a placement
  Move,          \* positions the user may give a card
  Foreign,       \* facts and placements only others write
  Invalid,       \* facts the schema refuses
  MaxEdits,      \* bound: edits and undos
  MaxEvents      \* bound: writes of others, broken files, Runs, lost requests

File == {"model", "layout"}

ASSUME EditorAssumption ==
  /\ Note \subseteq Fact \cap Placement
  /\ Link \cup Invalid \subseteq Fact /\ Move \subseteq Placement
  /\ Foreign \cap (Note \cup Link \cup Move) = {}
  /\ Note \cap (Link \cup Move) = {}
  /\ {MaxEdits, MaxEvents} \subseteq Nat

VARIABLES
  store,      \* the store of each file, with its reads and its save
  past,       \* what Undo takes back, oldest first
  future,     \* what Redo takes back
  coupled,    \* layoutDependsOnModel: the last edits changed both files
  waiting,    \* the Save button waits for the model before the layout
  locked,     \* the workspace shows a Run as active
  unlocked,   \* it is about to save what waited for the Run
  made,       \* the notes the user added (their ids are random), with the files
              \* in which every edit of them has been kept
  everModel,  \* every fact model.json ever held
  used        \* how much of each bound is used

history == <<past, future, coupled>>
vars == <<documents, store, past, future, coupled, waiting, locked, unlocked, made, everModel, used>>

(***************************************************************************)
(* Files, stores and requests.                                             *)
(***************************************************************************)
Content(f) == IF f = "model" THEN model.facts ELSE layout
Parses(f) == IF f = "model" THEN model.valid ELSE layoutValid

NoCall == [at |-> "none"]

\* A store: the shown value, the content it was read or saved from (a set of
\* at most one), dirty, conflict, error, the armed timer, the read whose
\* answer still counts, and the save under way.
NewStore == [value |-> {}, baseline |-> {}, dirty |-> FALSE, conflict |-> FALSE,
             error |-> FALSE, timer |-> FALSE, read |-> NoCall, call |-> NoCall]

Saving(st, f) == st[f].call # NoCall

Valid(f, value) == f = "model" => value \cap Invalid = {}

\* A layout edited together with the model waits for the model.
NeverDeferred(st, f) == FALSE
Deferred(st, f) ==
  /\ f = "layout" /\ coupled
  /\ st.model.dirty \/ Saving(st, "model")

TypeOK ==
  /\ \A f \in File : /\ DOMAIN store[f] = DOMAIN NewStore
                     /\ Cardinality(store[f].baseline) <= 1
  /\ {coupled, waiting, locked, unlocked, runActive} \subseteq BOOLEAN

Spend(kind, bound) ==
  /\ used[kind] < bound
  /\ used' = [used EXCEPT ![kind] = @ + 1]

Init ==
  /\ story = [s \in Story |-> NewStory([text |-> CHOOSE t \in Text : TRUE, adrs |-> {}])]
  /\ born = Story /\ adr = {} /\ runActive = FALSE
  /\ model = [facts |-> {}, valid |-> TRUE] /\ layout = {} /\ layoutValid = TRUE
  /\ looseFacts = {} /\ looseStories = {}
  /\ store = [f \in File |-> NewStore]
  /\ past = <<>> /\ future = <<>>
  /\ coupled = FALSE /\ waiting = FALSE /\ locked = FALSE /\ unlocked = FALSE
  /\ made = <<>> /\ everModel = {}
  /\ used = [k \in {"edits", "events"} |-> 0]

(***************************************************************************)
(* What the store's functions make of the stores st.                       *)
(***************************************************************************)
Savable(st, f) ==
  /\ ~locked /\ ~Saving(st, f) /\ ~st[f].conflict
  /\ st[f].dirty /\ st[f].baseline # {} /\ ~Deferred(st, f)

\* save(): names the hash of the baseline and voids the read under way.
Saved(st, f) ==
  LET quiet == [st EXCEPT ![f].timer = FALSE]
  IN  CASE ~Savable(st, f) -> quiet
        [] Savable(st, f) /\ ~Valid(f, st[f].value) -> [quiet EXCEPT ![f].error = TRUE]
        [] OTHER -> [quiet EXCEPT ![f].error = FALSE,
                                  ![f].read = NoCall,
                                  ![f].call = [at |-> "sent", value |-> st[f].value,
                                               hash |-> st[f].baseline, edited |-> FALSE]]

\* refresh() voids the read before it; a store that saves is not read.
Read(st, f, discard, refused) ==
  IF Saving(st, f) THEN st
  ELSE [st EXCEPT ![f].read =
          [at |-> "asked", content |-> {}, discard |-> discard, refused |-> refused,
           edited |-> FALSE]]

\* A store that publishes notifies the editor: once the model is clean, the
\* layout that waited for it is saved.
Unpublished(st, f) == st
Published(st, f) ==
  IF /\ f = "model" /\ ~st.model.dirty /\ ~Saving(st, "model")
     /\ st.layout.dirty /\ ~st.layout.error
  THEN Saved(st, "layout") ELSE st

\* set(): an edit of one file, refused while it is locked, in conflict or
\* was never read.
Editable(st, f) == ~locked /\ ~st[f].conflict /\ st[f].baseline # {}

Touched(call) == IF call = NoCall THEN call ELSE [call EXCEPT !.edited = TRUE]

SetTo(st, f, value) ==
  IF ~Editable(st, f) \/ value = st[f].value THEN st
  ELSE [st EXCEPT
          ![f].value = value, ![f].dirty = TRUE,
          ![f].error = ~Valid(f, value), ![f].timer = Valid(f, value),
          ![f].read = Touched(@), ![f].call = Touched(@)]

\* A read whose answer still counts: the file changed under a draft, the
\* draft is to be discarded, or nothing is at stake.
Answered(st, f, r) ==
  LET changed == st[f].baseline # {r.content}
      kept    == (st[f].dirty \/ r.edited) /\ ~r.discard
  IN  CASE kept /\ changed ->
             [st EXCEPT ![f].conflict = TRUE, ![f].error = TRUE, ![f].timer = FALSE]
        [] kept /\ ~changed -> [st EXCEPT ![f].conflict = FALSE]
        [] ~kept /\ (changed \/ r.discard) ->
             [st EXCEPT ![f].value = r.content, ![f].baseline = {r.content},
                        ![f].dirty = FALSE, ![f].conflict = FALSE, ![f].error = FALSE]
        [] OTHER -> [st EXCEPT ![f].error = FALSE]

Replaces(st, f, r) ==
  /\ r.at = "read"
  /\ r.discard \/ (~st[f].dirty /\ ~r.edited /\ st[f].baseline # {r.content})

\* A file that is replaced takes its edits out of Undo and Redo.
Kept(entries, f) == entries
Without(entries, f) ==
  LET kept == {i \in DOMAIN entries : f \notin DOMAIN entries[i].before}
  IN  [k \in 1..Cardinality(kept) |->
         entries[CHOOSE i \in kept : Cardinality({j \in kept : j <= i}) = k]]

(***************************************************************************)
(* Requests under way.                                                     *)
(***************************************************************************)
\* The window gets the focus, or an invalidation arrives.
Refresh ==
  /\ store' = Read(Read(store, "model", FALSE, FALSE), "layout", FALSE, FALSE)
  /\ UNCHANGED <<documents, history, waiting, locked, unlocked, made, everModel, used>>

\* The user gives a draft up, confirms, and has the file read again.
Discard(f) ==
  /\ store[f].dirty /\ (store[f].error \/ store[f].conflict)
  /\ ~Saving(store, f)
  /\ store' = Read(store, f, TRUE, FALSE)
  /\ UNCHANGED <<documents, history, waiting, locked, unlocked, made, everModel, used>>

\* The server reads the file for a request; one that does not parse is an
\* error.
ReadServed(f) ==
  /\ store[f].read.at = "asked"
  /\ store' = [store EXCEPT
       ![f].read.at = IF Parses(f) THEN "read" ELSE "failed",
       ![f].read.content = Content(f)]
  /\ UNCHANGED <<documents, history, waiting, locked, unlocked, made, everModel, used>>

ReadLost(f) ==
  /\ store[f].read.at = "asked"
  /\ Spend("events", MaxEvents)
  /\ store' = [store EXCEPT ![f].read.at = "failed"]
  /\ UNCHANGED <<documents, history, waiting, locked, unlocked, made, everModel>>

ReadReturns(f) ==
  LET r    == store[f].read
      rest == [store EXCEPT ![f].read = NoCall]
  IN  /\ r.at \in {"read", "failed"}
      /\ store' = Published(IF r.at = "failed" THEN [rest EXCEPT ![f].error = TRUE]
                            ELSE Answered(rest, f, r), f)
      /\ past' = IF Replaces(store, f, r) THEN Without(past, f) ELSE past
      /\ future' = IF Replaces(store, f, r) THEN Without(future, f) ELSE future
      /\ made' = IF Replaces(store, f, r) THEN [n \in DOMAIN made |-> {}] ELSE made
      /\ UNCHANGED <<documents, coupled, waiting, locked, unlocked, everModel, used>>

\* The server serves a save.
SaveServed(f) ==
  LET c    == store[f].call
      hash == CHOOSE h \in c.hash : TRUE
  IN  /\ c.at = "sent"
      /\ \E reply \in {"ok", "conflict", "missing"} :
           /\ IF f = "model" THEN SavesModel(c.value, hash, reply)
                             ELSE SavesLayout(c.value, hash, reply)
           /\ store' = [store EXCEPT ![f].call.at = reply]
      /\ everModel' = everModel \cup model'.facts
      /\ UNCHANGED <<history, waiting, locked, unlocked, made, used>>

\* The connection drops before the server saw the save, or before its answer.
SaveLost(f) ==
  /\ store[f].call.at \in {"sent", "ok"}
  /\ Spend("events", MaxEvents)
  /\ store' = [store EXCEPT ![f].call.at = "lost"]
  /\ UNCHANGED <<documents, history, waiting, locked, unlocked, made, everModel>>

SaveReturns(f) ==
  LET c    == store[f].call
      idle == [store EXCEPT ![f].call = NoCall]
  IN  /\ c.at \in {"ok", "conflict", "missing", "lost"}
      /\ store' =
           CASE c.at = "ok" ->
                  Published([idle EXCEPT ![f].baseline = {c.value}, ![f].dirty = c.edited,
                                         ![f].timer = @ \/ c.edited], f)
             [] c.at = "conflict" ->
                  Read([idle EXCEPT ![f].error = TRUE, ![f].conflict = TRUE], f, FALSE, TRUE)
             [] OTHER -> [idle EXCEPT ![f].error = TRUE]
      /\ UNCHANGED <<documents, history, waiting, locked, unlocked, made, everModel, used>>

(***************************************************************************)
(* The user.                                                               *)
(***************************************************************************)
\* Undo and redo entries hold whole values of the files an edit changed.
Applied(values) ==
  /\ coupled' = \/ DOMAIN values = File
                \/ coupled /\ (store.model.dirty \/ Saving(store, "model"))
  /\ store' = LET Set(st, f) == IF f \in DOMAIN values THEN SetTo(st, f, values[f]) ELSE st
              IN  Set(Set(store, "model"), "layout")

\* edit(): keeps what it changes of the files that may be edited, and puts
\* both values of those on the Undo stack.
Changed(after) == {f \in File : Editable(store, f) /\ after[f] # store[f].value}

Edits(after) ==
  LET changed == Changed(after)
  IN  /\ Editable(store, "model") /\ changed # {}
      /\ Spend("edits", MaxEdits)
      /\ past' = Append(past, [before |-> [f \in changed |-> store[f].value],
                               after  |-> Restrict(after, changed)])
      /\ future' = <<>>
      /\ Applied(Restrict(after, changed))
      /\ UNCHANGED <<documents, waiting, locked, unlocked, everModel>>

Toggle(set, x) == IF x \in set THEN set \ {x} ELSE set \cup {x}

\* A view is written as it is shown: with a placement for every note.
AddsNote(n) ==
  LET facts == store.model.value \cup {n}
      after == [model |-> facts, layout |-> store.layout.value \cup (facts \cap Note)]
  IN  /\ n \notin DOMAIN made
      /\ Edits(after)
      /\ made' = With(made, n, Changed(after))

RemovesNote(n) ==
  /\ n \in store.model.value
  /\ LET after == [model |-> store.model.value \ {n}, layout |-> store.layout.value \ {n}]
     IN  Edits(after) /\ made' = [made EXCEPT ![n] = @ \cap Changed(after)]

TogglesLink(x) ==
  /\ Edits([model |-> Toggle(store.model.value, x), layout |-> store.layout.value])
  /\ UNCHANGED made

MovesCard(m) ==
  /\ Edits([model  |-> store.model.value,
            layout |-> Toggle(store.layout.value, m) \cup (store.model.value \cap Note)])
  /\ UNCHANGED made

Travelable(entry) ==
  ~locked /\ \A f \in DOMAIN entry.before : ~store[f].conflict

Undo ==
  /\ past # <<>> /\ Travelable(Last(past))
  /\ Spend("edits", MaxEdits)
  /\ past' = Front(past) /\ future' = Append(future, Last(past))
  /\ Applied(Last(past).before)
  /\ UNCHANGED <<documents, waiting, locked, unlocked, made, everModel>>

Redo ==
  /\ future # <<>> /\ Travelable(Last(future))
  /\ future' = Front(future) /\ past' = Append(past, Last(future))
  /\ Applied(Last(future).after)
  /\ UNCHANGED <<documents, waiting, locked, unlocked, made, everModel, used>>

TimerFires(f) ==
  /\ store[f].timer
  /\ store' = Saved(store, f)
  /\ UNCHANGED <<documents, history, waiting, locked, unlocked, made, everModel, used>>

\* save() of the editor: the model, and when that has settled the layout.
SavesBoth ==
  LET first == Saved(store, "model")
  IN  IF Saving(first, "model") /\ ~Saving(store, "model")
      THEN store' = first /\ waiting' = TRUE
      ELSE store' = Saved(first, "layout") /\ UNCHANGED waiting

SaveButton ==
  /\ \E f \in File : store[f].dirty
  /\ Editable(store, "model")
  /\ SavesBoth
  /\ UNCHANGED <<documents, history, locked, unlocked, made, everModel, used>>

ThenLayout ==
  /\ waiting /\ ~Saving(store, "model")
  /\ store.model.read # NoCall => ~store.model.read.refused
  /\ waiting' = FALSE
  /\ store' = Saved(store, "layout")
  /\ UNCHANGED <<documents, history, locked, unlocked, made, everModel, used>>

\* The workspace learns that a Run started or ended.
SeesRun ==
  /\ locked # runActive
  /\ locked' = runActive
  /\ unlocked' = (unlocked \/ locked)
  /\ UNCHANGED <<documents, store, history, waiting, made, everModel, used>>

\* After a Run the workspace saves what was typed before it.
SavesUnlocked ==
  /\ unlocked
  /\ unlocked' = FALSE
  /\ IF locked THEN UNCHANGED <<store, waiting>> ELSE SavesBoth
  /\ UNCHANGED <<documents, history, locked, made, everModel, used>>

(***************************************************************************)
(* Everyone else: other windows, agents, hand edits and Runs.              *)
(***************************************************************************)
Removal(s) == [op |-> "remove", id |-> s, hash |-> story[s]]

Disturbs ==
  /\ Spend("events", MaxEvents)
  /\ \/ \E x \in Foreign \cap Fact : SavesModel(Toggle(model.facts, x), model.facts, "ok")
     \/ \E x \in Foreign \cap Placement : SavesLayout(Toggle(layout, x), layout, "ok")
     \/ \E s \in DOMAIN story : ServesStory(Removal(s), "ok")
     \/ \E x \in Foreign \cap Fact : HandEditsModel(Toggle(model.facts, x))
     \/ \E s \in DOMAIN story : HandRemovesStory(s)
     \/ \E s \in DOMAIN story : story[s].valid /\ BreaksOrRepairsStory(s)
     \/ model.valid /\ BreaksOrRepairsModel
     \/ layoutValid /\ BreaksOrRepairsLayout
     \/ ~runActive /\ RunStartsOrEnds

Mends ==
  /\ \/ \E s \in DOMAIN story : ~story[s].valid /\ BreaksOrRepairsStory(s)
     \/ ~model.valid /\ BreaksOrRepairsModel
     \/ ~layoutValid /\ BreaksOrRepairsLayout
     \/ runActive /\ RunStartsOrEnds
  /\ UNCHANGED used

Others ==
  /\ Disturbs \/ Mends
  /\ everModel' = everModel \cup model'.facts
  /\ UNCHANGED <<store, history, waiting, locked, unlocked, made>>

(***************************************************************************)
(* The workspace and its files.                                            *)
(***************************************************************************)
RequestSteps ==
  \E f \in File : \/ ReadServed(f) \/ ReadLost(f) \/ ReadReturns(f)
                  \/ SaveServed(f) \/ SaveLost(f) \/ SaveReturns(f)

UserSteps ==
  \/ Refresh
  \/ \E f \in File : Discard(f)
  \/ \E n \in Note : AddsNote(n) \/ RemovesNote(n)
  \/ \E x \in Link : TogglesLink(x)
  \/ \E m \in Move : MovesCard(m)
  \/ Undo \/ Redo \/ SaveButton

Next ==
  \/ RequestSteps
  \/ UserSteps
  \/ \E f \in File : TimerFires(f)
  \/ ThenLayout \/ SeesRun \/ SavesUnlocked
  \/ Others

Spec == Init /\ [][Next]_vars

\* Requests are served and answered, timers fire and the page notices Runs;
\* the user, the others and lost connections owe nothing.
Fairness ==
  /\ \A f \in File :
       /\ WF_vars(ReadServed(f)) /\ WF_vars(ReadReturns(f))
       /\ WF_vars(SaveServed(f)) /\ WF_vars(SaveReturns(f)) /\ WF_vars(TimerFires(f))
  /\ WF_vars(ThenLayout) /\ WF_vars(SeesRun) /\ WF_vars(SavesUnlocked)

FairSpec == Spec /\ Fairness

(***************************************************************************)
(* Properties.                                                             *)
(***************************************************************************)
\* No save of this workspace takes back what others wrote, or brings back
\* what they removed, whatever was undone, redone or answered late: their
\* part of the file stays as it is (StormFileStore.save with its baseline's
\* hash, StormDocumentStore.clearHistory).
ForeignKept ==
  [][\A f \in File :
       store[f].call.at = "sent" /\ store'[f].call.at = "ok"
         => Content(f)' \cap Foreign = Content(f) \cap Foreign]_vars

\* Semantic changes persist before their layout: the placement of a note that
\* one edit added to both files is not saved before model.json held the note,
\* however it was undone, redone, moved, refused and saved again, unless since
\* then a draft gave way to what its file holds, or the note was removed while
\* the layout was in conflict (StormDocumentStore's deferred layout).
LayoutAfterModel ==
  \A n \in DOMAIN made : made[n] = File /\ n \in layout => n \in everModel

\* The workspace never gets ahead of its files, nor out of its types.
StormSound == TypeOK /\ LayoutAfterModel

\* A draft never waits silently: it is saved, or the workspace says why not
\* (an error, a conflict, an active Run).
Noticed(f) ==
  \/ ~store[f].dirty
  \/ locked
  \/ \E g \in File : store[g].error \/ store[g].conflict

DraftSettles == \A f \in File : store[f].dirty ~> Noticed(f)
=============================================================================
