------------------------------ MODULE StoryDesk ------------------------------
(***************************************************************************)
(* The User Stories workspace of a browser.                                *)
(*                                                                         *)
(* The page shows the list of stories it last read.  Focus and             *)
(* invalidations make it read again; a later read, and an accepted answer  *)
(* of the editor, makes an earlier read void.  The editor keeps the        *)
(* document it was opened with, the draft typed over it, and sends the     *)
(* document's hash with every request; the approval dialog keeps the       *)
(* document it asked about.  Meanwhile other windows, agents and editors   *)
(* of the user change the same files, requests are lost and the server     *)
(* restarts.  Runs, which lock the files, are left to StormEditor.         *)
(***************************************************************************)
EXTENDS ProjectDocuments, InvalidationStream

CONSTANTS
  MaxDrafts,      \* bound: changes of a draft
  MaxSteps       \* bound: requests of the user, focuses of the window, changes
                 \* by others, losses and restarts

ASSUME DeskAssumption == Story # {} /\ {MaxDrafts, MaxSteps} \subseteq Nat

VARIABLES
  shown,         \* the stories the page shows
  error,         \* the last read of them failed
  read,          \* the read whose answer still counts
  editor,        \* the open editor
  call,          \* the open editor's request
  left,          \* what editors the user has left sent and the server has yet to serve
  decided,       \* the contents the user confirmed for approval, by story
  unannounced,   \* the stories changed in a way no event will tell of
  edits, steps   \* how much of each bound is used

page == <<shown, error, read>>
requests == <<call, left>>
desk == <<page, editor, requests, decided, unannounced>>
deskVars == <<documents, stream, desk, edits, steps>>

(***************************************************************************)
(* What the page shows.                                                    *)
(***************************************************************************)
\* The collection lists the stories that parse.
Listing == [s \in {t \in DOMAIN story : story[t].valid} |-> story[s]]

NoRead == [at |-> "none"]
Asked == [at |-> "asked"]

\* refresh(): the read under way no longer counts.
Reads == read' = Asked /\ UNCHANGED <<shown, error>>

NoEditor == [open |-> FALSE]
NoRequest == [at |-> "none"]
Pending == call # NoRequest

BlankInput == [text |-> CHOOSE t \in Text : TRUE, adrs |-> {}]
InputOf(file) == [text |-> file.text, adrs |-> file.adrs]

\* An editor of a story file, or of no file yet: base holds the document the
\* draft belongs to, asked the one the approval dialog asks about.
Editor(base, id) ==
  [open |-> TRUE, id |-> id, base |-> base, conflict |-> FALSE, asked |-> {},
   draft |-> IF base = {} THEN BlankInput ELSE InputOf(CHOOSE f \in base : TRUE)]

Base == CHOOSE f \in editor.base : TRUE
Creating == editor.base = {}
Dirty == editor.draft # IF Creating THEN BlankInput ELSE InputOf(Base)
Unavailable == error \/ (~Creating /\ editor.id \notin DOMAIN shown)
Stale == ~Creating /\ editor.id \in DOMAIN shown /\ shown[editor.id] # Base
Disabled == Unavailable \/ Pending

DeskTypeOK ==
  /\ StreamTypeOK
  /\ DOMAIN shown \subseteq Story
  /\ editor.open => editor.draft \in Input
  /\ {error, unannounced} \subseteq BOOLEAN

SpendStep == steps < MaxSteps /\ steps' = steps + 1 /\ UNCHANGED edits

(***************************************************************************)
(* Reads.                                                                  *)
(***************************************************************************)
Focus ==
  /\ SpendStep
  /\ Reads
  /\ UNCHANGED <<documents, stream, editor, requests, decided, unannounced>>

\* "Check current file" and "Try again"; the user waits for the answer.
TriesAgain ==
  /\ error \/ (editor.open /\ editor.conflict)
  /\ read = NoRead
  /\ Reads
  /\ UNCHANGED <<documents, stream, editor, requests, decided, unannounced, edits, steps>>

ListServed ==
  /\ read = Asked
  /\ read' = [at |-> "read", content |-> Listing]
  /\ unannounced' = FALSE
  /\ UNCHANGED <<documents, stream, shown, error, editor, requests, decided, edits, steps>>

ListLost ==
  /\ read = Asked
  /\ SpendStep
  /\ read' = [at |-> "failed"]
  /\ UNCHANGED <<documents, stream, shown, error, editor, requests, decided, unannounced>>

ListReturns ==
  /\ read.at \in {"read", "failed"}
  /\ read' = NoRead
  /\ error' = (read.at = "failed")
  /\ shown' = IF read.at = "read" THEN read.content ELSE shown
  /\ UNCHANGED <<documents, stream, editor, requests, decided, unannounced, edits, steps>>

(***************************************************************************)
(* The stream notifies the page.                                           *)
(***************************************************************************)
\* A connection that opens makes the page read again.
Ignored == UNCHANGED page
Caught == Reads

PageOpens ==
  /\ Opens /\ Caught
  /\ UNCHANGED <<documents, editor, requests, decided, unannounced, edits, steps>>

PageNotified ==
  /\ \E count \in DOMAIN wire :
       /\ Arrives(count)
       /\ IF Unseen(count) THEN Reads ELSE UNCHANGED page
  /\ UNCHANGED <<documents, editor, requests, decided, unannounced, edits, steps>>

PageConnects ==
  /\ Connects
  /\ UNCHANGED <<documents, desk, edits, steps>>

StreamFails ==
  /\ SpendStep
  /\ Drops
  /\ UNCHANGED <<documents, desk>>

\* A restart of the server loses the requests under way.
Restarts ==
  /\ SpendStep
  /\ ServerRestarts
  /\ read' = IF read = Asked THEN [at |-> "failed"] ELSE read
  /\ call' = IF call.at = "sent" THEN [call EXCEPT !.at = "lost"] ELSE call
  /\ left' = {}
  /\ UNCHANGED <<documents, shown, error, editor, decided, unannounced>>

(***************************************************************************)
(* The editor.                                                             *)
(***************************************************************************)
OpensStory(s) ==
  /\ ~editor.open /\ s \in DOMAIN shown
  /\ editor' = Editor({shown[s]}, s)
  /\ UNCHANGED <<documents, stream, page, requests, decided, unannounced, edits, steps>>

OpensNew ==
  /\ ~editor.open /\ ~error
  /\ editor' = Editor({}, "new")
  /\ UNCHANGED <<documents, stream, page, requests, decided, unannounced, edits, steps>>

\* The user leaves, and confirms it when the draft is dirty.  The request stays
\* under way; its answer changes nothing on the page, and the next editor may
\* send one of its own meanwhile.  Equal requests left behind count as one.
Leaves ==
  /\ editor.open
  /\ editor' = NoEditor
  /\ call' = NoRequest
  /\ left' = IF call.at = "sent" THEN left \cup {call} ELSE left
  /\ UNCHANGED <<documents, stream, page, decided, unannounced, edits, steps>>

Types(input) ==
  /\ editor.open /\ ~Disabled /\ input # editor.draft
  /\ edits < MaxDrafts /\ edits' = edits + 1
  /\ editor' = [editor EXCEPT !.draft = input]
  /\ UNCHANGED <<documents, stream, page, requests, decided, unannounced, steps>>

\* "Reload current file".
Resets ==
  /\ editor.open /\ Stale /\ ~Disabled
  /\ editor' = Editor({shown[editor.id]}, editor.id)
  /\ UNCHANGED <<documents, stream, page, requests, decided, unannounced, edits, steps>>

Sends(op, semantic) ==
  /\ call = NoRequest
  /\ SpendStep
  /\ call' = [op |-> op, at |-> "sent", id |-> editor.id, hash |-> editor.base,
              input |-> editor.draft, semantic |-> semantic, saved |-> {}]
  /\ UNCHANGED <<documents, stream, page, left, unannounced>>

Saves ==
  /\ editor.open /\ ~Disabled /\ Dirty /\ ~Stale
  /\ Sends(IF Creating THEN "create" ELSE "update", {})
  /\ editor' = [editor EXCEPT !.conflict = FALSE]
  /\ UNCHANGED decided

Removes ==
  /\ editor.open /\ ~Creating /\ ~Disabled /\ ~Stale
  /\ Sends("remove", {})
  /\ editor' = [editor EXCEPT !.conflict = FALSE]
  /\ UNCHANGED decided

Decidable ==
  /\ editor.open /\ ~Creating /\ ~Disabled
  /\ ~Dirty /\ ~Stale /\ ~editor.conflict

AsksApproval ==
  /\ Decidable /\ ~Approved(shown[editor.id])
  /\ editor' = [editor EXCEPT !.asked = {shown[editor.id]}]
  /\ UNCHANGED <<documents, stream, page, requests, decided, unannounced, edits, steps>>

\* The dialog shows the content it asked about; decide() sends the hashes of
\* the editor's document.
Approves ==
  /\ Decidable /\ editor.asked = {shown[editor.id]}
  /\ Sends("approve", {Semantic(Base)})
  /\ editor' = [editor EXCEPT !.asked = {}]
  /\ decided' = decided \cup {<<editor.id, Semantic(shown[editor.id])>>}

ReturnsToDraft ==
  /\ Decidable /\ Approved(shown[editor.id])
  /\ Sends("return", {})
  /\ UNCHANGED <<editor, decided>>

(***************************************************************************)
(* The server serves the request, and publishes what it changed.           *)
(***************************************************************************)
Request(c, id) ==
  [op |-> c.op, id |-> id, input |-> c.input,
   hash |-> IF c.hash = {} THEN {} ELSE CHOOSE f \in c.hash : TRUE,
   semantic |-> IF c.semantic = {} THEN {} ELSE CHOOSE i \in c.semantic : TRUE]

Ids(c) == IF c.op = "create" THEN Story \ born ELSE {c.id}

Serves(c, id, reply) ==
  /\ ServesStory(Request(c, id), reply)
  /\ IF reply = "ok" THEN Publishes ELSE UNCHANGED stream

CallServed ==
  /\ call.at = "sent"
  /\ \E id \in Ids(call), reply \in {"ok", "conflict", "missing"} :
       /\ Serves(call, id, reply)
       /\ call' = [call EXCEPT !.at = reply, !.id = id,
                     !.saved = IF reply = "ok" /\ call.op # "remove" THEN {story'[id]} ELSE {}]
  /\ UNCHANGED <<page, editor, left, decided, unannounced, edits, steps>>

LeftServed ==
  /\ \E c \in left :
       /\ \E id \in Ids(c), reply \in {"ok", "conflict", "missing"} : Serves(c, id, reply)
       /\ left' = left \ {c}
  /\ UNCHANGED <<page, editor, call, decided, unannounced, edits, steps>>

CallLost ==
  /\ call.at \in {"sent", "ok"}
  /\ SpendStep
  /\ call' = [call EXCEPT !.at = "lost"]
  /\ UNCHANGED <<documents, stream, page, editor, left, decided, unannounced>>

\* acceptSaved and acceptRemoved: the page shows the answer at once, and a
\* read under way is void.
Accepted ==
  IF call.op = "remove" THEN Restrict(shown, DOMAIN shown \ {call.id})
  ELSE With(shown, call.id, CHOOSE f \in call.saved : TRUE)

CallReturns ==
  /\ call.at \in {"ok", "conflict", "missing", "lost"}
  /\ call' = NoRequest
  /\ IF call.at = "ok"
     THEN /\ shown' = Accepted /\ error' = FALSE /\ read' = NoRead
          /\ unannounced' = (shown' # Listing)
          /\ editor' = IF call.op \in {"approve", "return"} THEN Editor(call.saved, call.id)
                                                            ELSE NoEditor
     ELSE /\ UNCHANGED <<page, unannounced>>
          /\ editor' = [editor EXCEPT !.conflict = call.at = "conflict"]
  /\ UNCHANGED <<documents, stream, left, decided, edits, steps>>

(***************************************************************************)
(* Everyone else.                                                          *)
(***************************************************************************)
\* Edits of the files themselves: no event tells of them.
EditsByHand ==
  /\ \/ \E s \in DOMAIN story, i \in Input : HandEditsStory(s, i) /\ SpendStep
     \/ \E s \in DOMAIN story : HandRemovesStory(s) /\ SpendStep
     \/ \E a \in adr : HandRemovesAdr(a) /\ SpendStep
     \/ \E s \in DOMAIN story : /\ BreaksOrRepairsStory(s)
                                /\ IF story[s].valid THEN SpendStep
                                                     ELSE UNCHANGED <<edits, steps>>
  /\ unannounced' = TRUE
  /\ UNCHANGED <<stream, page, editor, requests, decided>>

\* Other windows work with what they just read.
Fresh(op, s, input) == [op |-> op, id |-> s, input |-> input, hash |-> story[s], semantic |-> {}]

OtherWindow ==
  /\ SpendStep
  /\ \/ \E s \in DOMAIN story, i \in Input : ServesStory(Fresh("update", s, i), "ok")
     \/ \E s \in DOMAIN story : ServesStory(Fresh("remove", s, BlankInput), "ok")
     \/ \E a \in Adr : CreatesAdr(a) \/ RemovesAdr(a)
  /\ Publishes
  /\ UNCHANGED desk

(***************************************************************************)
(* The workspace.                                                          *)
(***************************************************************************)
DeskInit ==
  /\ LET first == CHOOSE s \in Story : TRUE
     IN  /\ story = [s \in {first} |-> NewStory([BlankInput EXCEPT !.adrs = Adr])]
         /\ born = {first}
  /\ adr = Adr /\ runActive = FALSE
  /\ model = [facts |-> {}, valid |-> TRUE] /\ layout = {} /\ layoutValid = TRUE
  /\ looseFacts = {} /\ looseStories = {}
  /\ StreamInit
  /\ shown = Listing /\ error = FALSE /\ read = NoRead
  /\ editor = NoEditor /\ call = NoRequest /\ left = {}
  /\ decided = {} /\ unannounced = FALSE
  /\ edits = 0 /\ steps = 0

User ==
  \/ Focus \/ TriesAgain \/ OpensNew \/ Leaves \/ Resets
  \/ \E s \in Story : OpensStory(s)
  \/ \E input \in Input : Types(input)
  \/ Saves \/ Removes \/ AsksApproval \/ Approves \/ ReturnsToDraft

DeskNext ==
  \/ User
  \/ ListServed \/ ListLost \/ ListReturns
  \/ PageConnects \/ PageOpens \/ PageNotified \/ StreamFails \/ Restarts
  \/ CallServed \/ LeftServed \/ CallLost \/ CallReturns
  \/ EditsByHand \/ OtherWindow

DeskSpec == DeskInit /\ [][DeskNext]_deskVars

\* Requests are answered, the stream moves and reconnects, and the server
\* publishes; the user and everyone else owe nothing.
DeskFairness ==
  /\ WF_deskVars(ListServed) /\ WF_deskVars(ListReturns)
  /\ WF_deskVars(CallServed) /\ WF_deskVars(CallReturns)
  /\ WF_deskVars(PageConnects) /\ WF_deskVars(PageOpens) /\ WF_deskVars(PageNotified)

DeskFairSpec == DeskSpec /\ DeskFairness

(***************************************************************************)
(* Properties.                                                             *)
(***************************************************************************)
\* A story counts as approved only with a content this user confirmed in the
\* approval dialog, whatever was typed, reloaded, edited by hand and answered
\* late in between (UserStoryApproval, useUserStoryDraft.decide,
\* UserStoryService.approve, invalidateStoryApproval).
ApprovedAsSeen ==
  \A s \in DOMAIN story :
    story[s].valid /\ Approved(story[s]) => <<s, Semantic(story[s])>> \in decided

\* The desk's approvals are the user's, and its state has its types.
DeskSound == DeskTypeOK /\ ApprovedAsSeen

\* An open page ends up showing the stories as they are, through lost
\* connections, replay limits and restarts of the server, unless it shows an
\* error or the change is one no event will tell of: an edit by hand, or what
\* the page missed when an accepted answer voided the read under way, or
\* replaced a story in a list that was newer than the answer
\* (invalidationStream, InvalidationBroadcaster, useUserStories).
PageCatchesUp == <>[](error \/ unannounced \/ shown = Listing)
=============================================================================
