-------------------------- MODULE ProjectDocuments --------------------------
(***************************************************************************)
(* The documents of a project: User Stories, ADRs and the Event Storming   *)
(* model and layout.  They are files of the user's checkout.  The server   *)
(* keeps nothing of them: every request reads the files it needs, checks   *)
(* them and replaces one, in one stretch of its event loop, so a request   *)
(* is one step here.  The user and the agents edit the same files by hand. *)
(*                                                                         *)
(* A content hash is the file's content: two files have the same hash when *)
(* they are equal.  The semantic hash of a story is its text and its ADRs. *)
(***************************************************************************)
EXTENDS Naturals, FiniteSets, Functions

CONSTANTS
  Story,         \* ids of User Stories
  Adr,           \* ids of ADRs
  Text,          \* role, goal, benefit, criteria and details of a story
  Fact,          \* what an Event Storming model may state
  Cites,         \* the stories a fact links
  Placement,     \* what a layout may place
  MaxRevision    \* bound: approvals of one story

ASSUME DocumentsAssumption ==
  /\ Cites \in [Fact -> SUBSET Story]
  /\ Text # {}
  /\ MaxRevision \in Nat

VARIABLES
  story,        \* the story files
  born,         \* story ids that were ever used: they are random
  adr,          \* the ADR files
  model,        \* model.json
  layout,       \* layout.json
  layoutValid,  \* it parses
  runActive,    \* an Environment Run is pending or running
  looseFacts,   \* history: facts whose story a hand edit removed or never had
  looseStories  \* history: stories a hand edit left with an ADR that is missing

onDisk == <<story, born, adr, model, layout, layoutValid>>
loose == <<looseFacts, looseStories>>
documents == <<onDisk, runActive, loose>>

Input == [text : Text, adrs : SUBSET Adr]

\* A story file.  approved holds the semantic content its approval names,
\* which a hand edit leaves in place; a file that does not parse is invalid.
StoryFile == [text : Text, adrs : SUBSET Adr, approved : {{}} \cup {{i} : i \in Input},
              revision : 0..MaxRevision, valid : BOOLEAN]

Semantic(file) == [text |-> file.text, adrs |-> file.adrs]

\* Reading a story withdraws an approval of other content.
AsWritten(file) == file
Parsed(file) ==
  IF file.approved = {Semantic(file)} THEN file ELSE [file EXCEPT !.approved = {}]

Approved(file) == Parsed(file).approved # {}

NewStory(input) ==
  [text |-> input.text, adrs |-> input.adrs, approved |-> {}, revision |-> 0, valid |-> TRUE]

\* A collection with one more member, or with one replaced.
With(files, id, file) ==
  [x \in DOMAIN files \cup {id} |-> IF x = id THEN file ELSE files[x]]

Readable(s) == s \in DOMAIN story /\ story[s].valid

\* Facts of the model that link a story keep it from being removed.
Linked(s) == \E fact \in model.facts : s \in Cites[fact]

(***************************************************************************)
(* Requests about one story: [op, id, input, hash, semantic].              *)
(***************************************************************************)
CreateReply(c) == IF c.input.adrs \subseteq adr THEN "ok" ELSE "missing"

UpdateReply(c) ==
  IF c.id \notin DOMAIN story THEN "missing"
  ELSE IF ~story[c.id].valid THEN "conflict"
  ELSE IF ~(c.input.adrs \subseteq adr) THEN "missing"
  ELSE IF c.hash # story[c.id] THEN "conflict" ELSE "ok"

ApproveReply(c) ==
  IF c.id \notin DOMAIN story THEN "missing"
  ELSE IF \/ ~story[c.id].valid
          \/ c.hash # story[c.id]
          \/ c.semantic # Semantic(story[c.id])
          \/ Approved(story[c.id]) THEN "conflict"
  ELSE IF ~(story[c.id].adrs \subseteq adr) THEN "missing" ELSE "ok"

ReturnReply(c) ==
  IF c.id \notin DOMAIN story THEN "missing"
  ELSE IF ~story[c.id].valid \/ c.hash # story[c.id] THEN "conflict" ELSE "ok"

\* The links are read first: a model that does not parse refuses the removal.
RemoveReply(c) ==
  IF ~model.valid THEN "conflict"
  ELSE IF c.id \notin DOMAIN story THEN "missing"
  ELSE IF c.hash # story[c.id] \/ Linked(c.id) THEN "conflict" ELSE "ok"

StoryReply(c) ==
  IF runActive THEN "conflict"
  ELSE CASE c.op = "create"  -> CreateReply(c)
         [] c.op = "update"  -> UpdateReply(c)
         [] c.op = "approve" -> ApproveReply(c)
         [] c.op = "return"  -> ReturnReply(c)
         [] c.op = "remove"  -> RemoveReply(c)

\* The story files after an accepted request.
Updated(file, input) == Parsed([Parsed(file) EXCEPT !.text = input.text, !.adrs = input.adrs])

StoryEffect(c) ==
  CASE c.op = "create"  -> With(story, c.id, NewStory(c.input))
    [] c.op = "update"  -> [story EXCEPT ![c.id] = Updated(@, c.input)]
    [] c.op = "approve" -> [story EXCEPT ![c.id].approved = {Semantic(story[c.id])},
                                         ![c.id].revision = @ + 1]
    [] c.op = "return"  -> [story EXCEPT ![c.id].approved = {}]
    [] c.op = "remove"  -> Restrict(story, DOMAIN story \ {c.id})

WithinRevisions(c) == c.op = "approve" => story[c.id].revision < MaxRevision

\* The server serves a request: it replaces, adds or removes one file, or
\* refuses and changes nothing.
ServesStory(c, reply) ==
  /\ reply = StoryReply(c)
  /\ reply = "ok" => WithinRevisions(c)
  /\ story' = IF reply = "ok" THEN StoryEffect(c) ELSE story
  /\ born' = IF reply = "ok" THEN born \cup {c.id} ELSE born
  /\ looseStories' = IF reply = "ok" /\ c.op # "return" THEN looseStories \ {c.id}
                                                       ELSE looseStories
  /\ UNCHANGED <<adr, model, layout, layoutValid, runActive, looseFacts>>

(***************************************************************************)
(* ADRs.  No Run locks them; a story keeps those it refers to, and a story *)
(* file that does not parse keeps all of them.                             *)
(***************************************************************************)
CreatesAdr(a) ==
  /\ a \notin adr
  /\ adr' = adr \cup {a}
  /\ looseStories' = {s \in looseStories : ~(story[s].adrs \subseteq adr')}
  /\ UNCHANGED <<story, born, model, layout, layoutValid, runActive, looseFacts>>

UncitedAdr(a) == \A s \in DOMAIN story : story[s].valid => a \notin story[s].adrs
AdrRemovable(a) ==
  /\ \A s \in DOMAIN story : story[s].valid
  /\ \A s \in DOMAIN story : a \notin story[s].adrs

RemovesAdr(a) ==
  /\ a \in adr /\ AdrRemovable(a)
  /\ adr' = adr \ {a}
  /\ UNCHANGED <<story, born, model, layout, layoutValid, runActive, loose>>

(***************************************************************************)
(* Event Storming.                                                         *)
(***************************************************************************)
\* Only links the stored model does not have are looked up.
UncheckedLinks(facts) == {}
NewLinks(facts) == UNION {Cites[fact] : fact \in facts \ model.facts}

ModelReply(facts, hash) ==
  IF runActive \/ ~model.valid THEN "conflict"
  ELSE IF ~(NewLinks(facts) \subseteq DOMAIN story) THEN "missing"
  ELSE IF \/ \E s \in NewLinks(facts) : ~story[s].valid
          \/ hash # model.facts THEN "conflict" ELSE "ok"

LayoutReply(hash) ==
  IF runActive \/ ~layoutValid \/ hash # layout THEN "conflict" ELSE "ok"

SavesModel(facts, hash, reply) ==
  /\ reply = ModelReply(facts, hash)
  /\ model' = IF reply = "ok" THEN [model EXCEPT !.facts = facts] ELSE model
  /\ looseFacts' = IF reply = "ok" THEN looseFacts \cap facts ELSE looseFacts
  /\ UNCHANGED <<story, born, adr, layout, layoutValid, runActive, looseStories>>

SavesLayout(places, hash, reply) ==
  /\ reply = LayoutReply(hash)
  /\ layout' = IF reply = "ok" THEN places ELSE layout
  /\ UNCHANGED <<story, born, adr, model, layoutValid, runActive, loose>>

(***************************************************************************)
(* What happens outside the server: hand edits in the checkout, by which   *)
(* files also change, break and disappear together with what they refer    *)
(* to, and Runs that lock it.  Nothing checks a hand edit.  Files written  *)
(* by hand under ids the server never gave are left out, and so are hand   *)
(* edits of an approval.                                                   *)
(***************************************************************************)
HandEditsStory(s, input) ==
  /\ Readable(s) /\ input # Semantic(story[s])
  /\ story' = [story EXCEPT ![s].text = input.text, ![s].adrs = input.adrs]
  /\ looseStories' = IF input.adrs \subseteq adr THEN looseStories \ {s}
                                                 ELSE looseStories \cup {s}
  /\ UNCHANGED <<born, adr, model, layout, layoutValid, runActive, looseFacts>>

HandRemovesStory(s) ==
  /\ s \in DOMAIN story
  /\ story' = Restrict(story, DOMAIN story \ {s})
  /\ looseFacts' = looseFacts \cup {fact \in model.facts : s \in Cites[fact]}
  /\ looseStories' = looseStories \ {s}
  /\ UNCHANGED <<born, adr, model, layout, layoutValid, runActive>>

HandRemovesAdr(a) ==
  /\ a \in adr
  /\ adr' = adr \ {a}
  /\ looseStories' = looseStories \cup {s \in DOMAIN story : a \in story[s].adrs}
  /\ UNCHANGED <<story, born, model, layout, layoutValid, runActive, looseFacts>>

HandEditsModel(facts) ==
  /\ model.valid /\ facts # model.facts
  /\ model' = [model EXCEPT !.facts = facts]
  /\ looseFacts' = (looseFacts \cap facts)
                     \cup {fact \in facts \ model.facts : ~(Cites[fact] \subseteq DOMAIN story)}
  /\ UNCHANGED <<story, born, adr, layout, layoutValid, runActive, looseStories>>

BreaksOrRepairsStory(s) ==
  /\ s \in DOMAIN story
  /\ story' = [story EXCEPT ![s].valid = ~@]
  /\ UNCHANGED <<born, adr, model, layout, layoutValid, runActive, loose>>

BreaksOrRepairsModel ==
  /\ model' = [model EXCEPT !.valid = ~@]
  /\ UNCHANGED <<story, born, adr, layout, layoutValid, runActive, loose>>

BreaksOrRepairsLayout ==
  /\ layoutValid' = ~layoutValid
  /\ UNCHANGED <<story, born, adr, model, layout, runActive, loose>>

RunStartsOrEnds ==
  /\ runActive' = ~runActive
  /\ UNCHANGED <<onDisk, loose>>

(***************************************************************************)
(* Properties of the files.                                                *)
(***************************************************************************)
\* No request leaves or adds a reference to an ADR that is missing: every one
\* a readable story has was left by a hand edit of the story or of the ADR
\* files since the story was last saved or approved, also after a story file
\* was broken by hand and repaired while ADRs were removed
\* (ProjectDocumentRepository.remove, UserStoryService.assertReferences).
NoDanglingAdr ==
  \A s \in DOMAIN story \ looseStories : Readable(s) => story[s].adrs \subseteq adr

\* No request leaves or adds a link to a story that is missing: every one a
\* readable Event Storming model has was left by a hand edit, which removed
\* the story or wrote the link, and has been in the model ever since, whatever
\* the order of saves, removals, broken files and repairs.  A model that lost
\* a story in Git stays editable, but gets no new link to it
\* (EventStormingService.save, UserStoryService.remove).
NoDanglingStory ==
  model.valid => \A fact \in model.facts \ looseFacts : Cites[fact] \subseteq DOMAIN story
=============================================================================
