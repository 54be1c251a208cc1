---------------------------- MODULE WorkspaceProofs ----------------------------
(***************************************************************************)
(* Proofs about the browser's workspaces: Event Storming (StormEditor) and *)
(* User Stories (StoryDesk), which share the documents.                    *)
(***************************************************************************)
EXTENDS StormEditor, StoryDesk, FiniteSetTheorems, SequenceTheorems, WellFoundedInduction, TLAPS

(***************************************************************************)
(* Event Storming: what is shown, sent and kept for Undo belongs to the    *)
(* content the workspace read or saved last (its baseline).                *)
(***************************************************************************)
Value == SUBSET (Fact \cup Placement)

\* The reads, requests, stores and entries of Undo.
ReadState ==
  {NoCall} \cup [at : {"asked", "read", "failed"}, content : Value, discard : BOOLEAN,
                 refused : BOOLEAN, edited : BOOLEAN]
CallState ==
  {NoCall} \cup [at : {"sent", "ok", "conflict", "missing", "lost"}, value : Value,
                 hash : SUBSET Value, edited : BOOLEAN]
StoreState ==
  [value : Value, baseline : {{}} \cup {{v} : v \in Value}, dirty : BOOLEAN, conflict : BOOLEAN,
   error : BOOLEAN, timer : BOOLEAN, read : ReadState, call : CallState]

Entry == [before : UNION {[D -> Value] : D \in SUBSET File},
          after : UNION {[D -> Value] : D \in SUBSET File}]

\* The workspace's state has its types.
StormTypes ==
  /\ store \in [File -> StoreState]
  /\ past \in Seq(Entry) /\ future \in Seq(Entry)
  /\ \A i \in DOMAIN past : DOMAIN past[i].before = DOMAIN past[i].after
  /\ \A i \in DOMAIN future : DOMAIN future[i].before = DOMAIN future[i].after
  /\ model \in [facts : Value, valid : BOOLEAN] /\ layout \in Value
  /\ {coupled, waiting, locked, unlocked, runActive} \subseteq BOOLEAN

\* Two contents agree in what only others write.
Agrees(v, w) == v \cap Foreign = w \cap Foreign

\* A store shows and sends nothing of others that its baseline has not, and
\* is clean only while it shows its baseline.
OwnStore(s) ==
  /\ \A h \in s.baseline : Agrees(s.value, h)
  /\ ~s.dirty => \A h \in s.baseline : h = s.value
  /\ s.baseline = {} => s.value = {}
  /\ s.call # NoCall =>
       /\ s.read = NoCall /\ s.dirty /\ s.baseline # {} /\ s.call.hash = s.baseline
       /\ \A h \in s.baseline : Agrees(s.call.value, h)
       /\ ~s.call.edited => s.call.value = s.value

\* The same for what Undo and Redo would write.
OwnEntry(e, st) ==
  \A f \in DOMAIN e.before :
    /\ st[f].baseline # {}
    /\ \A h \in st[f].baseline : Agrees(e.before[f], h) /\ Agrees(e.after[f], h)

\* Drafts and entries belong to their baselines.
Own ==
  /\ \A f \in File : OwnStore(store[f])
  /\ \A i \in DOMAIN past : OwnEntry(past[i], store)
  /\ \A i \in DOMAIN future : OwnEntry(future[i], store)

\* What the model's store read or saved was in model.json.
Known ==
  /\ model.facts \subseteq everModel
  /\ \A h \in store["model"].baseline : h \subseteq everModel
  /\ store["model"].read # NoCall => store["model"].read.content \subseteq everModel
  /\ store["model"].call.at = "ok" => store["model"].call.value \subseteq everModel

\* Some value has the note.
Holds(values, n) == \E f \in DOMAIN values : n \in values[f]

\* A note nobody added yet is nowhere.
Nowhere(n) ==
  /\ n \notin everModel /\ n \notin layout
  /\ \A f \in File : /\ n \notin store[f].value
                     /\ store[f].read # NoCall => n \notin store[f].read.content
                     /\ store[f].call # NoCall => n \notin store[f].call.value
  /\ \A i \in DOMAIN past : ~Holds(past[i].before, n) /\ ~Holds(past[i].after, n)
  /\ \A i \in DOMAIN future : ~Holds(future[i].before, n) /\ ~Holds(future[i].after, n)

\* Every value of an entry has the note or none, and only an entry of both
\* files adds or removes it.
OneBit(values, n) == \A f, g \in DOMAIN values : n \in values[f] => n \in values[g]
Plain(e, n) ==
  /\ OneBit(e.before, n) /\ OneBit(e.after, n)
  /\ (Holds(e.before, n) <=> Holds(e.after, n)) \/ DOMAIN e.before = File

\* Undo and Redo find the note as the entry left it.
Chained(n) ==
  /\ \A i \in DOMAIN past : Plain(past[i], n)
  /\ \A i \in DOMAIN future : Plain(future[i], n)
  /\ \A i \in DOMAIN past : i + 1 \in DOMAIN past =>
       (Holds(past[i].after, n) <=> Holds(past[i + 1].before, n))
  /\ \A i \in DOMAIN future : i + 1 \in DOMAIN future =>
       (Holds(future[i].before, n) <=> Holds(future[i + 1].after, n))
  /\ past # <<>> => (Holds(past[Len(past)].after, n) <=> n \in store["model"].value)
  /\ future # <<>> => (Holds(future[Len(future)].before, n) <=> n \in store["model"].value)

\* A note whose fact model.json never held is in both drafts or in none, its
\* fact is still to be saved, and its placement waits for that.
Waits(n) ==
  /\ n \in store["model"].value <=> n \in store["layout"].value
  /\ n \in store["model"].value =>
       coupled /\ (store["model"].dirty \/ store["model"].call # NoCall)
  /\ n \notin layout
  /\ store["layout"].call.at = "sent" => n \notin store["layout"].call.value
  /\ Chained(n)

\* A note is nowhere before the user adds it; then it waits for its fact.
NoteInv(n) ==
  /\ n \notin DOMAIN made => Nowhere(n)
  /\ n \in DOMAIN made /\ File \subseteq made[n] /\ n \notin everModel => Waits(n)

\* Links of the stored model lead to stories, readable or not, unless a hand
\* edit left them another.
Links == \A fact \in model.facts \ looseFacts : Cites[fact] \subseteq DOMAIN story

\* The inductive invariant of the workspace.
StormInv == StormTypes /\ Own /\ Known /\ Links /\ \A n \in Note : NoteInv(n)

-----------------------------------------------------------------------------
(* Sequences.                                                              *)

\* Numbers have a least one: induction for what follows.
Less == {ss \in Nat \X Nat : ss[1] < ss[2]}

\* So a least counterexample exists to anything said of all numbers.
LEMMA LessWellFounded == IsWellFoundedOn(Less, Nat)
  BY NatLessThanWellFounded, Zenon DEF OpToRel, Less

\* Every nonempty set of numbers has a least one.
LEMMA LeastNatural ==
  ASSUME NEW T, T \subseteq Nat, T # {}
  PROVE  \E x \in T : \A y \in T : x <= y
<1>1. PICK x \in T : \A y \in T : ~(<<y, x>> \in Less)
  BY LessWellFounded, WFMin
<1>2. \A y \in T : ~(y < x)
  BY <1>1 DEF Less
<1> QED BY <1>2

\* Every member of a set of places is the k-th for one k.
UpTo(kept, i) == {j \in kept : j <= i}

\* Of the places that are kept there is a k-th for every k up to their number.
LEMMA KthPlace ==
  ASSUME NEW len \in Nat, NEW kept, kept \subseteq 1..len, NEW k \in Nat, 0 < k, k <= Cardinality(kept)
  PROVE  \E i \in kept : Cardinality(UpTo(kept, i)) = k
<1>1. IsFiniteSet(kept) /\ Cardinality(kept) \in Nat
      /\ \A i : IsFiniteSet(UpTo(kept, i)) /\ Cardinality(UpTo(kept, i)) \in Nat
  <2>1. IsFiniteSet(1..len)
    BY FS_Interval
  <2>2. \A i : UpTo(kept, i) \subseteq 1..len
    BY DEF UpTo
  <2>3. IsFiniteSet(kept) /\ \A i : IsFiniteSet(UpTo(kept, i))
    BY <2>1, <2>2, FS_Subset
  <2> QED BY <2>3, FS_CardinalityType
<1>0. \A x : x \in kept => x \in Int /\ 1 <= x /\ x <= len
  OBVIOUS
<1>2. UpTo(kept, len) = kept
  <2>1. \A x : x \in UpTo(kept, len) <=> x \in kept
    BY <1>0 DEF UpTo
  <2> QED BY <2>1
<1>3. UpTo(kept, 0) = {}
  <2>1. \A x : x \notin UpTo(kept, 0)
    BY <1>0 DEF UpTo
  <2> QED BY <2>1
<1>4. \A i \in 1..len : i \notin kept => UpTo(kept, i) = UpTo(kept, i - 1)
  <2>1. \A i \in 1..len : \A x : i \notin kept =>
          (x \in UpTo(kept, i) <=> x \in UpTo(kept, i - 1))
    BY <1>0 DEF UpTo
  <2> QED BY <2>1
<1>5. \A i \in 1..len : i \in kept =>
        UpTo(kept, i) = UpTo(kept, i - 1) \cup {i} /\ i \notin UpTo(kept, i - 1)
  <2>1. \A i \in 1..len : \A x : i \in kept =>
          (x \in UpTo(kept, i) <=> x \in UpTo(kept, i - 1) \cup {i}) /\ i \notin UpTo(kept, i - 1)
    BY <1>0 DEF UpTo
  <2> QED BY <2>1
<1> DEFINE T == {i \in 0..len : Cardinality(UpTo(kept, i)) >= k}
<1>6. len \in T /\ T \subseteq Nat
  BY <1>1, <1>2
<1>7. PICK i \in T : \A y \in T : i <= y
  BY <1>6, LeastNatural
<1>8. i \in 0..len /\ Cardinality(UpTo(kept, i)) >= k
  BY <1>7
<1>9. Cardinality(UpTo(kept, 0)) = 0
  BY <1>3, FS_EmptySet
<1>10. i \in 1..len
  BY <1>8, <1>9
<1>11. i - 1 \in 0..len /\ i - 1 \notin T
  BY <1>7, <1>10
<1>12. Cardinality(UpTo(kept, i - 1)) < k
  BY <1>1, <1>11
<1>13. i \in kept
  BY <1>1, <1>4, <1>8, <1>10, <1>12
<1>14. Cardinality(UpTo(kept, i)) = Cardinality(UpTo(kept, i - 1)) + 1
  BY <1>1, <1>5, <1>10, <1>13, FS_AddElement
<1>15. Cardinality(UpTo(kept, i)) = k
  BY <1>1, <1>8, <1>12, <1>14
<1> QED BY <1>13, <1>15

\* Entries of a list stay where they are but for those of a file.
LEMMA WithoutEntries ==
  ASSUME NEW s \in Seq(Entry), NEW f, NEW r, r = Without(s, f)
  PROVE  /\ r \in Seq(Entry)
         /\ \A k \in DOMAIN r : \E i \in DOMAIN s : r[k] = s[i] /\ f \notin DOMAIN s[i].before
<1> DEFINE kept == {i \in DOMAIN s : f \notin DOMAIN s[i].before}
           place(k) == CHOOSE i \in kept : Cardinality(UpTo(kept, i)) = k
<1>1. r = [k \in 1..Cardinality(kept) |-> s[place(k)]]
  BY DEF Without, UpTo
<1>2. kept \subseteq 1..Len(s) /\ Len(s) \in Nat
  OBVIOUS
<1>3. Cardinality(kept) \in Nat
  <2>1. IsFiniteSet(1..Len(s))
    BY <1>2, FS_Interval
  <2> QED BY <1>2, <2>1, FS_Subset, FS_CardinalityType
<1>4. \A k \in 1..Cardinality(kept) : \E i \in kept : Cardinality(UpTo(kept, i)) = k
  <2>1. \A k \in 1..Cardinality(kept) : k \in Nat /\ 0 < k /\ k <= Cardinality(kept)
    BY <1>3
  <2> HIDE DEF kept
  <2> QED BY <1>2, <2>1, KthPlace
<1>5. \A k \in 1..Cardinality(kept) : place(k) \in kept
  BY <1>4
<1> HIDE DEF place
<1>6. \A k \in 1..Cardinality(kept) : s[place(k)] \in Entry
  BY <1>5
<1>7. r \in Seq(Entry) /\ DOMAIN r = 1..Cardinality(kept)
  BY <1>1, <1>3, <1>6
<1> QED BY <1>1, <1>5, <1>7

\* The last entry of a list, and the ones before it.
LEMMA LastAndFront ==
  ASSUME NEW S, NEW s \in Seq(S), s # <<>>
  PROVE  /\ Len(s) \in DOMAIN s /\ Last(s) = s[Len(s)] /\ Last(s) \in S
         /\ Front(s) \in Seq(S) /\ Len(Front(s)) = Len(s) - 1
         /\ DOMAIN Front(s) = 1..(Len(s) - 1)
         /\ \A i \in DOMAIN Front(s) : i \in DOMAIN s /\ i # Len(s) /\ Front(s)[i] = s[i]
<1>1. Len(s) \in Nat /\ Len(s) > 0 /\ \A i \in 1..Len(s) : s[i] \in S
  OBVIOUS
<1>2. Last(s) = s[Len(s)] /\ Last(s) \in S
  BY <1>1 DEF Last
<1>3. Front(s) = [i \in 1..(Len(s) - 1) |-> s[i]]
  BY <1>1 DEF Front
<1>4. Front(s) \in Seq(S) /\ Len(Front(s)) = Len(s) - 1
  BY <1>1, <1>3
<1> QED BY <1>1, <1>2, <1>3, <1>4

\* Both stores of the workspace.
Stores == [File -> StoreState]

\* What a step does to a store whose draft and baseline it leaves alone.
Sent(s) == [at |-> "sent", value |-> s.value, hash |-> s.baseline, edited |-> FALSE]
QuietStore(f, s, s2) ==
  /\ s2.value = s.value /\ s2.baseline = s.baseline /\ s2.dirty = s.dirty
  /\ \/ s2.call = s.call
     \/ s2.call = NoCall
     \/ s.call # NoCall /\ s2.call = [s.call EXCEPT !.at = "lost"]
     \/ s.call = NoCall /\ s.dirty /\ s.baseline # {} /\ s2.call = Sent(s)
  /\ s2.call # NoCall => s2.read = NoCall
  /\ s2.read # NoCall =>
       s2.read.content \in {{}, Content(f)} \/ (s.read # NoCall /\ s2.read.content = s.read.content)

\* save() sends the draft or only stops the timer.
LEMMA SavedShape ==
  ASSUME NEW st \in Stores, NEW f \in File, NEW r, r = Saved(st, f)
  PROVE  /\ r \in Stores /\ \A g \in File : g # f => r[g] = st[g]
         /\ r[f].value = st[f].value /\ r[f].baseline = st[f].baseline /\ r[f].dirty = st[f].dirty
         /\ \/ r[f].call = st[f].call /\ r[f].read = st[f].read
            \/ Savable(st, f) /\ r[f].call = Sent(st[f]) /\ r[f].read = NoCall
<1>0. st[f] \in StoreState
  BY DEF Stores
<1>1. Sent(st[f]) \in CallState /\ NoCall \in ReadState
  BY <1>0 DEF Sent, StoreState, CallState, ReadState
<1> DEFINE q == [st[f] EXCEPT !.timer = FALSE]
<1>2. q \in StoreState /\ q.value = st[f].value /\ q.baseline = st[f].baseline /\ q.dirty = st[f].dirty
      /\ q.call = st[f].call /\ q.read = st[f].read
  BY <1>0 DEF StoreState
<1>3. CASE ~Savable(st, f)
  <2>1. r = [st EXCEPT ![f] = q]
    BY <1>3 DEF Saved
  <2> QED BY <1>2, <2>1 DEF Stores
<1>4. CASE Savable(st, f) /\ ~Valid(f, st[f].value)
  <2> DEFINE e == [q EXCEPT !.error = TRUE]
  <2>1. r = [st EXCEPT ![f] = e]
    BY <1>4 DEF Saved, Stores
  <2>2. e \in StoreState /\ e.value = q.value /\ e.baseline = q.baseline /\ e.dirty = q.dirty
        /\ e.call = q.call /\ e.read = q.read
    BY <1>2 DEF StoreState
  <2> QED BY <1>2, <2>1, <2>2 DEF Stores
<1>5. CASE Savable(st, f) /\ Valid(f, st[f].value)
  <2> DEFINE e == [q EXCEPT !.error = FALSE, !.read = NoCall, !.call = Sent(st[f])]
  <2>1. r = [st EXCEPT ![f] = e]
    BY <1>5 DEF Saved, Stores, Sent
  <2>2. e \in StoreState /\ e.value = q.value /\ e.baseline = q.baseline /\ e.dirty = q.dirty
        /\ e.call = Sent(st[f]) /\ e.read = NoCall
    BY <1>1, <1>2 DEF StoreState
  <2> QED BY <1>2, <1>5, <2>1, <2>2 DEF Stores
<1> QED BY <1>3, <1>4, <1>5

\* A read asks unless the store saves.
LEMMA ReadShape ==
  ASSUME NEW st \in Stores, NEW f \in File, NEW d \in BOOLEAN, NEW k \in BOOLEAN,
         NEW r, r = Read(st, f, d, k)
  PROVE  /\ r \in Stores /\ \A g \in File : g # f => r[g] = st[g]
         /\ r[f].value = st[f].value /\ r[f].baseline = st[f].baseline /\ r[f].dirty = st[f].dirty
         /\ r[f].call = st[f].call
         /\ \/ st[f].call # NoCall /\ r[f].read = st[f].read
            \/ st[f].call = NoCall /\ r[f].read.content = {}
<1>1. st[f] \in StoreState
  BY DEF Stores
<1>2. CASE Saving(st, f)
  BY <1>2 DEF Read, Saving
<1>3. CASE ~Saving(st, f)
  <2> DEFINE a == [at |-> "asked", content |-> {}, discard |-> d, refused |-> k, edited |-> FALSE]
             e == [st[f] EXCEPT !.read = a]
  <2>1. r = [st EXCEPT ![f] = e]
    BY <1>3 DEF Read, Stores
  <2>2. a \in ReadState
    BY DEF ReadState, Value
  <2>3. e \in StoreState /\ e.value = st[f].value /\ e.baseline = st[f].baseline
        /\ e.dirty = st[f].dirty /\ e.call = st[f].call /\ e.read = a
    BY <1>1, <2>2 DEF StoreState
  <2> QED BY <1>3, <2>1, <2>3 DEF Stores, Saving
<1> QED BY <1>2, <1>3

\* What is under way when the draft is edited.
LEMMA TouchedCall ==
  ASSUME NEW c \in CallState
  PROVE  /\ Touched(c) \in CallState /\ (Touched(c) = NoCall <=> c = NoCall)
         /\ c # NoCall => /\ Touched(c).at = c.at /\ Touched(c).value = c.value
                          /\ Touched(c).hash = c.hash /\ Touched(c).edited
  BY DEF CallState, Touched, NoCall

\* An edit marks a read under way; what the read brings stays.
LEMMA TouchedRead ==
  ASSUME NEW r \in ReadState
  PROVE  /\ Touched(r) \in ReadState /\ (Touched(r) = NoCall <=> r = NoCall)
         /\ r # NoCall => Touched(r).content = r.content
  BY DEF ReadState, Touched, NoCall

\* An edit takes effect when the file may be edited and differs.
LEMMA SetShape ==
  ASSUME NEW st \in Stores, NEW f \in File, NEW v \in Value, NEW r, r = SetTo(st, f, v)
  PROVE  /\ r \in Stores /\ \A g \in File : g # f => r[g] = st[g]
         /\ \/ r = st /\ (~Editable(st, f) \/ v = st[f].value)
            \/ /\ Editable(st, f) /\ v # st[f].value
               /\ r[f].value = v /\ r[f].dirty /\ r[f].baseline = st[f].baseline
               /\ r[f].call = Touched(st[f].call) /\ r[f].read = Touched(st[f].read)
<1>1. st[f] \in StoreState
  BY DEF Stores
<1>2. CASE ~Editable(st, f) \/ v = st[f].value
  BY <1>2 DEF SetTo
<1>3. CASE Editable(st, f) /\ v # st[f].value
  <2>0. PICK x \in BOOLEAN : x = Valid(f, v)
    BY DEF Valid
  <2>1. PICK c \in CallState, a \in ReadState : c = Touched(st[f].call) /\ a = Touched(st[f].read)
    BY <1>1, TouchedCall, TouchedRead DEF StoreState
  <2> DEFINE e == [st[f] EXCEPT !.value = v, !.dirty = TRUE, !.error = ~x, !.timer = x,
                                !.read = a, !.call = c]
  <2>2. r = [st EXCEPT ![f] = e]
    BY <1>3, <2>0, <2>1 DEF SetTo, Stores, StoreState
  <2>3. e \in StoreState /\ e.value = v /\ e.baseline = st[f].baseline /\ e.dirty
        /\ e.call = c /\ e.read = a
    BY <1>1 DEF StoreState
  <2> QED BY <1>3, <2>1, <2>2, <2>3 DEF Stores
<1> QED BY <1>2, <1>3

\* An answer that counts replaces the draft or leaves it alone.
LEMMA AnsweredShape ==
  ASSUME NEW st \in Stores, NEW f \in File, NEW a \in ReadState, a # NoCall,
         NEW r, r = Answered(st, f, a)
  PROVE  /\ r \in Stores /\ \A g \in File : g # f => r[g] = st[g]
         /\ r[f].call = st[f].call /\ r[f].read = st[f].read
         /\ \/ /\ r[f].value = st[f].value /\ r[f].baseline = st[f].baseline
               /\ r[f].dirty = st[f].dirty /\ ~a.discard
               /\ st[f].dirty \/ a.edited \/ st[f].baseline = {a.content}
            \/ /\ r[f].value = a.content /\ r[f].baseline = {a.content} /\ ~r[f].dirty
               /\ a.discard \/ (~st[f].dirty /\ ~a.edited /\ st[f].baseline # {a.content})
<1>1. st[f] \in StoreState /\ a.content \in Value
  BY DEF Stores, ReadState, NoCall
<1> DEFINE changed == st[f].baseline # {a.content}
           kept == (st[f].dirty \/ a.edited) /\ ~a.discard
<1>2. CASE kept /\ changed
  <2> DEFINE e == [st[f] EXCEPT !.conflict = TRUE, !.error = TRUE, !.timer = FALSE]
  <2>1. r = [st EXCEPT ![f] = e]
    BY <1>2 DEF Answered, Stores
  <2>2. e \in StoreState /\ e.value = st[f].value /\ e.baseline = st[f].baseline
        /\ e.dirty = st[f].dirty /\ e.call = st[f].call /\ e.read = st[f].read
    BY <1>1 DEF StoreState
  <2> QED BY <1>2, <2>1, <2>2 DEF Stores
<1>3. CASE kept /\ ~changed
  <2> DEFINE e == [st[f] EXCEPT !.conflict = FALSE]
  <2>1. r = [st EXCEPT ![f] = e]
    BY <1>3 DEF Answered, Stores
  <2>2. e \in StoreState /\ e.value = st[f].value /\ e.baseline = st[f].baseline
        /\ e.dirty = st[f].dirty /\ e.call = st[f].call /\ e.read = st[f].read
    BY <1>1 DEF StoreState
  <2> QED BY <1>3, <2>1, <2>2 DEF Stores
<1>4. CASE ~kept /\ (changed \/ a.discard)
  <2> DEFINE e == [st[f] EXCEPT !.value = a.content, !.baseline = {a.content}, !.dirty = FALSE,
                                !.conflict = FALSE, !.error = FALSE]
  <2>1. r = [st EXCEPT ![f] = e]
    BY <1>4 DEF Answered, Stores
  <2>2. e \in StoreState /\ e.value = a.content /\ e.baseline = {a.content}
        /\ ~e.dirty /\ e.call = st[f].call /\ e.read = st[f].read
    BY <1>1 DEF StoreState
  <2> QED BY <1>4, <2>1, <2>2 DEF Stores
<1>5. CASE ~kept /\ ~(changed \/ a.discard)
  <2> DEFINE e == [st[f] EXCEPT !.error = FALSE]
  <2>1. r = [st EXCEPT ![f] = e]
    BY <1>5 DEF Answered, Stores
  <2>2. e \in StoreState /\ e.value = st[f].value /\ e.baseline = st[f].baseline
        /\ e.dirty = st[f].dirty /\ e.call = st[f].call /\ e.read = st[f].read
    BY <1>1 DEF StoreState
  <2> QED BY <1>5, <2>1, <2>2 DEF Stores
<1> QED BY <1>2, <1>3, <1>4, <1>5

-----------------------------------------------------------------------------
(* Requests: what they do to the stores.                                   *)

\* A save was accepted, or a file took the place of the draft.
OkStore(s, s2) ==
  /\ s.call # NoCall /\ s.call.at = "ok"
  /\ s2.value = s.value /\ s2.baseline = {s.call.value} /\ s2.dirty = s.call.edited
  /\ s2.call = NoCall /\ s2.read = NoCall
ReplacedStore(s, s2) ==
  /\ s.read # NoCall /\ s.call = NoCall
  /\ s2.value = s.read.content /\ s2.baseline = {s.read.content} /\ ~s2.dirty
  /\ s2.call = NoCall /\ s2.read = NoCall

\* A layout is sent only when it need not wait for the model.
SendsLayout(st, st2) ==
  st["layout"].call = NoCall /\ st2["layout"].call # NoCall =>
    ~(coupled /\ (st2["model"].dirty \/ st2["model"].call # NoCall))

\* A request step leaves the drafts and Undo, or one file replaces a draft.
Unreplaced ==
  /\ \A f \in File : QuietStore(f, store[f], store'[f]) \/ OkStore(store[f], store'[f])
  /\ UNCHANGED <<past, future, made>>
Replaced ==
  \E f \in File :
    /\ \A g \in File : \/ QuietStore(g, store[g], store'[g])
                       \/ g = f /\ ReplacedStore(store[g], store'[g])
    /\ past' = Without(past, f) /\ future' = Without(future, f)
    /\ made' = [n \in DOMAIN made |-> {}]

\* A step of the window's requests.
RequestStep ==
  /\ store' \in Stores
  /\ SendsLayout(store, store')
  /\ UNCHANGED <<documents, coupled, everModel>>
  /\ Unreplaced \/ Replaced
  /\ {waiting', locked', unlocked'} \subseteq BOOLEAN

\* A store that does not change at all is quiet.
LEMMA NoStep == \A f, s : (s.call # NoCall => s.read = NoCall) => QuietStore(f, s, s)
  BY DEF QuietStore

\* The stores as the invariant has them.
LEMMA StoreFacts ==
  ASSUME StormInv, NEW f \in File
  PROVE  /\ store \in Stores /\ store[f] \in StoreState /\ OwnStore(store[f])
         /\ store[f].call # NoCall => store[f].read = NoCall /\ store[f].dirty
         /\ store[f].read \in ReadState /\ store[f].call \in CallState
         /\ store[f].value \in Value
         /\ \A h \in store[f].baseline : h \in Value
  BY DEF StormInv, StormTypes, Own, OwnStore, Stores, StoreState

\* save() is a quiet step, and no layout goes out that must wait.
Settled(st) == st \in Stores /\ \A g \in File : st[g].call # NoCall => st[g].read = NoCall

\* In a state of the invariant no store both reads and saves.
LEMMA StoreSettled == ASSUME StormInv PROVE Settled(store)
  BY StoreFacts DEF Settled, File

\* save() of one file is a quiet step of every store.
LEMMA SavedStep ==
  ASSUME NEW st, Settled(st), NEW f \in File, NEW g \in File
  PROVE  QuietStore(g, st[g], Saved(st, f)[g])
<1>1. PICK r : r = Saved(st, f)
  OBVIOUS
<1>2. st \in Stores /\ (st[g].call # NoCall => st[g].read = NoCall)
  BY DEF Settled
<1>3. /\ g # f => r[g] = st[g]
      /\ r[f].value = st[f].value /\ r[f].baseline = st[f].baseline
      /\ r[f].dirty = st[f].dirty
      /\ \/ r[f].call = st[f].call /\ r[f].read = st[f].read
         \/ Savable(st, f) /\ r[f].call = Sent(st[f]) /\ r[f].read = NoCall
  BY <1>1, <1>2, SavedShape
<1>4. CASE g # f
  BY <1>1, <1>2, <1>3, <1>4, NoStep
<1>5. CASE g = f
  <2>1. CASE r[f].call = st[f].call /\ r[f].read = st[f].read
    BY <1>1, <1>2, <1>3, <1>5, <2>1 DEF QuietStore
  <2>2. CASE Savable(st, f) /\ r[f].call = Sent(st[f]) /\ r[f].read = NoCall
    BY <1>1, <1>3, <1>5, <2>2 DEF QuietStore, Savable, Saving
  <2> QED BY <1>3, <2>1, <2>2
<1> QED BY <1>4, <1>5

\* save() sends at most its own file, and a layout only when it may.
LEMMA SavedSends ==
  ASSUME NEW st, Settled(st), NEW f \in File
  PROVE  /\ Saved(st, f) \in Stores /\ SendsLayout(st, Saved(st, f)) /\ Settled(Saved(st, f))
         /\ \A g \in File : g # f => Saved(st, f)[g] = st[g]
<1>1. PICK r : r = Saved(st, f)
  OBVIOUS
<1>0. st \in Stores
  BY DEF Settled
<1>2. "model" \in File /\ "layout" \in File
  BY DEF File
<1>8. \A g \in File : g # f => r[g] = st[g]
  <2>1. SUFFICES ASSUME NEW g \in File PROVE g # f => r[g] = st[g]
    OBVIOUS
  <2> QED BY <1>0, <1>1, SavedShape
<1>3. /\ r \in Stores
      /\ \/ r[f].call = st[f].call /\ r[f].read = st[f].read
         \/ Savable(st, f) /\ r[f].call = Sent(st[f]) /\ r[f].read = NoCall
  BY <1>0, <1>1, SavedShape
<1>4. f # "layout" => r["layout"] = st["layout"]
  BY <1>2, <1>8
<1>5. f # "model" => r["model"] = st["model"]
  BY <1>2, <1>8
<1>6. SendsLayout(st, r)
  <2>1. CASE f = "layout"
    BY <1>3, <1>5, <2>1 DEF SendsLayout, Savable, Deferred, Saving
  <2>2. CASE f # "layout"
    BY <1>4, <2>2 DEF SendsLayout
  <2> QED BY <2>1, <2>2
<1>7. Settled(r)
  BY <1>3, <1>8 DEF Settled
<1> QED BY <1>1, <1>3, <1>6, <1>7, <1>8

\* A step that is quiet for every store.
LEMMA QuietRequest ==
  ASSUME store' \in Stores, \A f \in File : QuietStore(f, store[f], store'[f]),
         SendsLayout(store, store'),
         UNCHANGED <<documents, history, made, everModel>>,
         {waiting', locked', unlocked'} \subseteq BOOLEAN
  PROVE  RequestStep
  BY DEF RequestStep, Unreplaced, history, documents, onDisk, loose

\* The flags of the workspace are Boolean.
LEMMA Flags == ASSUME StormInv PROVE {waiting, locked, unlocked, coupled, runActive} \subseteq BOOLEAN
  BY DEF StormInv, StormTypes

\* The page reads both files again.
LEMMA RefreshRequest == ASSUME StormInv, Refresh PROVE RequestStep
<1>0. PICK no \in BOOLEAN : no = FALSE
  OBVIOUS
<1>1. PICK m : m = Read(store, "model", no, no)
  OBVIOUS
<1>2. store' = Read(m, "layout", no, no)
  BY <1>0, <1>1 DEF Refresh
<1>3. "model" \in File /\ "layout" \in File /\ store \in Stores
      /\ \A f \in File : f = "model" \/ f = "layout"
  BY StoreFacts DEF File
<1>4. /\ m \in Stores /\ m["layout"] = store["layout"]
      /\ m["model"].value = store["model"].value /\ m["model"].baseline = store["model"].baseline
      /\ m["model"].dirty = store["model"].dirty /\ m["model"].call = store["model"].call
      /\ \/ store["model"].call # NoCall /\ m["model"].read = store["model"].read
         \/ store["model"].call = NoCall /\ m["model"].read.content = {}
  BY <1>1, <1>3, ReadShape
<1>5. /\ store' \in Stores /\ store'["model"] = m["model"]
      /\ store'["layout"].value = m["layout"].value
      /\ store'["layout"].baseline = m["layout"].baseline
      /\ store'["layout"].dirty = m["layout"].dirty /\ store'["layout"].call = m["layout"].call
      /\ \/ m["layout"].call # NoCall /\ store'["layout"].read = m["layout"].read
         \/ m["layout"].call = NoCall /\ store'["layout"].read.content = {}
  BY <1>2, <1>3, <1>4, ReadShape
<1>6. \A f \in File : store[f].call # NoCall => store[f].read = NoCall
  BY StoreFacts
<1>7. QuietStore("model", store["model"], store'["model"])
  BY <1>3, <1>4, <1>5, <1>6 DEF QuietStore
<1>8. QuietStore("layout", store["layout"], store'["layout"])
  BY <1>3, <1>4, <1>5, <1>6 DEF QuietStore
<1>9. SendsLayout(store, store')
  BY <1>4, <1>5 DEF SendsLayout
<1>10. UNCHANGED <<documents, history, made, everModel, waiting, locked, unlocked>>
  BY DEF Refresh
<1> QED BY <1>3, <1>5, <1>7, <1>8, <1>9, <1>10, QuietRequest, Flags

\* The user discards a draft: the file is read to replace it.
LEMMA DiscardRequest == ASSUME StormInv, NEW f \in File, Discard(f) PROVE RequestStep
<1>0. PICK yes \in BOOLEAN, no \in BOOLEAN : yes = TRUE /\ no = FALSE
  OBVIOUS
<1>1. store' = Read(store, f, yes, no) /\ store \in Stores
  BY <1>0, StoreFacts DEF Discard
<1>2. /\ store' \in Stores /\ \A g \in File : g # f => store'[g] = store[g]
      /\ store'[f].value = store[f].value /\ store'[f].baseline = store[f].baseline
      /\ store'[f].dirty = store[f].dirty /\ store'[f].call = store[f].call
      /\ \/ store[f].call # NoCall /\ store'[f].read = store[f].read
         \/ store[f].call = NoCall /\ store'[f].read.content = {}
  BY <1>1, ReadShape
<1>3. \A g \in File : store[g].call # NoCall => store[g].read = NoCall
  BY StoreFacts
<1>4. QuietStore(f, store[f], store'[f])
  BY <1>2, <1>3 DEF QuietStore
<1>5. \A g \in File : QuietStore(g, store[g], store'[g])
  BY <1>2, <1>3, <1>4, NoStep
<1>6. SendsLayout(store, store')
  BY <1>2 DEF SendsLayout, File
<1>7. UNCHANGED <<documents, history, made, everModel, waiting, locked, unlocked>>
  BY DEF Discard
<1> QED BY <1>2, <1>5, <1>6, <1>7, QuietRequest, Flags

\* One store gets another read or another answer to its save.
LEMMA StoreRequest ==
  ASSUME StormInv, NEW f \in File, NEW s2 \in StoreState, store' = [store EXCEPT ![f] = s2],
         QuietStore(f, store[f], s2), s2.call = NoCall \/ store[f].call # NoCall,
         UNCHANGED <<documents, history, made, everModel, waiting, locked, unlocked>>
  PROVE  RequestStep
<1>1. store \in Stores /\ \A g \in File : store[g].call # NoCall => store[g].read = NoCall
  BY StoreFacts
<1>2. store' \in Stores /\ store'[f] = s2 /\ \A g \in File : g # f => store'[g] = store[g]
  BY <1>1 DEF Stores
<1>3. \A g \in File : QuietStore(g, store[g], store'[g])
  BY <1>1, <1>2, NoStep
<1>4. SendsLayout(store, store')
  BY <1>2 DEF SendsLayout, File
<1> QED BY <1>2, <1>3, <1>4, QuietRequest, Flags

\* A read takes the file as it is.
LEMMA ReadServedRequest == ASSUME StormInv, NEW f \in File, ReadServed(f) PROVE RequestStep
<1>1. store \in Stores /\ store[f] \in StoreState /\ store[f].read \in ReadState
      /\ (store[f].call # NoCall => store[f].read = NoCall) /\ store[f].read.at = "asked"
  BY StoreFacts DEF ReadServed
<1>2. store[f].read # NoCall /\ store[f].call = NoCall
  BY <1>1 DEF NoCall
<1>3. Content(f) \in Value
  BY DEF StormInv, StormTypes, Content, Value
<1>4. PICK at \in {"read", "failed"} : at = IF Parses(f) THEN "read" ELSE "failed"
  OBVIOUS
<1> DEFINE a == [store[f].read EXCEPT !.at = at, !.content = Content(f)]
           s2 == [store[f] EXCEPT !.read = a]
<1>5. a \in ReadState /\ a.content = Content(f)
  BY <1>1, <1>2, <1>3 DEF ReadState
<1>6. s2 \in StoreState /\ s2.value = store[f].value /\ s2.baseline = store[f].baseline
      /\ s2.dirty = store[f].dirty /\ s2.call = store[f].call /\ s2.read = a
  BY <1>1, <1>5 DEF StoreState
<1>7. store' = [store EXCEPT ![f] = s2]
  BY <1>1, <1>4 DEF ReadServed, Stores
<1>8. QuietStore(f, store[f], s2)
  BY <1>2, <1>5, <1>6 DEF QuietStore
<1>9. UNCHANGED <<documents, history, made, everModel, waiting, locked, unlocked>>
  BY DEF ReadServed
<1> HIDE DEF s2
<1> QED BY <1>2, <1>6, <1>7, <1>8, <1>9, StoreRequest

\* A read is lost.
LEMMA ReadLostRequest == ASSUME StormInv, NEW f \in File, ReadLost(f) PROVE RequestStep
<1>1. store \in Stores /\ store[f] \in StoreState /\ store[f].read \in ReadState
      /\ (store[f].call # NoCall => store[f].read = NoCall) /\ store[f].read.at = "asked"
  BY StoreFacts DEF ReadLost
<1>2. store[f].read # NoCall /\ store[f].call = NoCall
  BY <1>1 DEF NoCall
<1> DEFINE a == [store[f].read EXCEPT !.at = "failed"]
           s2 == [store[f] EXCEPT !.read = a]
<1>5. a \in ReadState /\ a.content = store[f].read.content
  BY <1>1, <1>2 DEF ReadState
<1>6. s2 \in StoreState /\ s2.value = store[f].value /\ s2.baseline = store[f].baseline
      /\ s2.dirty = store[f].dirty /\ s2.call = store[f].call /\ s2.read = a
  BY <1>1, <1>5 DEF StoreState
<1>7. store' = [store EXCEPT ![f] = s2]
  BY <1>1 DEF ReadLost, Stores
<1>8. QuietStore(f, store[f], s2)
  BY <1>2, <1>5, <1>6 DEF QuietStore
<1>9. UNCHANGED <<documents, history, made, everModel, waiting, locked, unlocked>>
  BY DEF ReadLost
<1> HIDE DEF s2
<1> QED BY <1>2, <1>6, <1>7, <1>8, <1>9, StoreRequest

\* A save, or its answer, is lost.
LEMMA SaveLostRequest == ASSUME StormInv, NEW f \in File, SaveLost(f) PROVE RequestStep
<1>1. store \in Stores /\ store[f] \in StoreState /\ store[f].call \in CallState
      /\ (store[f].call # NoCall => store[f].read = NoCall) /\ store[f].call.at \in {"sent", "ok"}
  BY StoreFacts DEF SaveLost
<1>2. store[f].call # NoCall /\ store[f].read = NoCall
  BY <1>1 DEF NoCall
<1> DEFINE c == [store[f].call EXCEPT !.at = "lost"]
           s2 == [store[f] EXCEPT !.call = c]
<1>5. c \in CallState
  BY <1>1, <1>2 DEF CallState
<1>6. s2 \in StoreState /\ s2.value = store[f].value /\ s2.baseline = store[f].baseline
      /\ s2.dirty = store[f].dirty /\ s2.call = c /\ s2.read = store[f].read
  BY <1>1, <1>5 DEF StoreState
<1>7. store' = [store EXCEPT ![f] = s2]
  BY <1>1 DEF SaveLost, Stores
<1>8. QuietStore(f, store[f], s2)
  BY <1>2, <1>6 DEF QuietStore
<1>9. UNCHANGED <<documents, history, made, everModel, waiting, locked, unlocked>>
  BY DEF SaveLost
<1> HIDE DEF s2
<1> QED BY <1>2, <1>6, <1>7, <1>8, <1>9, StoreRequest

\* The autosave timer of a file fires.
LEMMA TimerRequest == ASSUME StormInv, NEW f \in File, TimerFires(f) PROVE RequestStep
<1>1. store' = Saved(store, f)
      /\ UNCHANGED <<documents, history, made, everModel, waiting, locked, unlocked>>
  BY DEF TimerFires
<1>2. \A g \in File : QuietStore(g, store[g], store'[g])
  BY <1>1, SavedStep, StoreSettled
<1>3. store' \in Stores /\ SendsLayout(store, store')
  BY <1>1, SavedSends, StoreSettled
<1> QED BY <1>1, <1>2, <1>3, QuietRequest, Flags

\* The deferred layout follows the model.
LEMMA ThenLayoutRequest == ASSUME StormInv, ThenLayout PROVE RequestStep
<1>1. store' = Saved(store, "layout") /\ "layout" \in File
      /\ UNCHANGED <<documents, history, made, everModel, locked, unlocked>> /\ waiting' = FALSE
  BY DEF ThenLayout, File
<1>2. \A g \in File : QuietStore(g, store[g], store'[g])
  BY <1>1, SavedStep, StoreSettled
<1>3. store' \in Stores /\ SendsLayout(store, store')
  BY <1>1, SavedSends, StoreSettled
<1> QED BY <1>1, <1>2, <1>3, QuietRequest, Flags

\* The window learns that a Run locked or unlocked the files.
LEMMA SeesRunRequest == ASSUME StormInv, SeesRun PROVE RequestStep
<1>1. UNCHANGED <<documents, store, history, made, everModel, waiting>>
      /\ locked' = runActive /\ unlocked' = (unlocked \/ locked)
  BY DEF SeesRun
<1>2. store' \in Stores /\ \A g \in File : QuietStore(g, store[g], store'[g])
  BY <1>1, StoreFacts, NoStep DEF File
<1>3. SendsLayout(store, store')
  BY <1>1 DEF SendsLayout
<1>4. {waiting', locked', unlocked'} \subseteq BOOLEAN
  <2>1. runActive \in BOOLEAN /\ waiting \in BOOLEAN /\ unlocked' \in BOOLEAN
    BY <1>1, Flags
  <2> QED BY <1>1, <2>1
<1> QED BY <1>1, <1>2, <1>3, <1>4, QuietRequest

\* Publishing sends the layout that waited, or nothing.
LEMMA PublishedShape ==
  ASSUME NEW st, Settled(st), NEW f \in File, NEW r, r = Published(st, f)
  PROVE  /\ r \in Stores /\ SendsLayout(st, r)
         /\ f # "model" => r = st
         /\ r["model"] = st["model"]
         /\ QuietStore("layout", st["layout"], r["layout"])
<1>0. "layout" \in File /\ "model" \in File /\ st \in Stores
  BY DEF File, Settled
<1>1. CASE r = st
  <2>1. QuietStore("layout", st["layout"], r["layout"])
    BY <1>0, <1>1, NoStep DEF Settled
  <2>2. SendsLayout(st, r)
    BY <1>1 DEF SendsLayout
  <2> QED BY <1>0, <1>1, <2>1, <2>2
<1>2. CASE f = "model" /\ r = Saved(st, "layout")
  <2>1. QuietStore("layout", st["layout"], r["layout"])
    BY <1>0, <1>2, SavedStep
  <2>2. r \in Stores /\ SendsLayout(st, r)
    BY <1>0, <1>2, SavedSends
  <2>3. r["model"] = st["model"]
    BY <1>0, <1>2, SavedSends
  <2> QED BY <1>2, <2>1, <2>2, <2>3
<1> QED BY <1>1, <1>2 DEF Published

\* One store answers, and then the layout may go out.
LEMMA PublishedRequest ==
  ASSUME StormInv, NEW f \in File, NEW st, Settled(st),
         \A g \in File : g # f => st[g] = store[g],
         st[f].call = NoCall, store' = Published(st, f)
  PROVE  /\ store' \in Stores /\ SendsLayout(store, store')
         /\ \A g \in File : g # f => QuietStore(g, store[g], store'[g])
         /\ store'[f] = st[f]
<1>0. "layout" \in File /\ "model" \in File /\ (f = "model" \/ f = "layout")
  BY DEF File
<1>1. /\ store' \in Stores /\ SendsLayout(st, store')
      /\ f # "model" => store' = st
      /\ store'["model"] = st["model"]
      /\ QuietStore("layout", st["layout"], store'["layout"])
  BY PublishedShape
<1>2. \A g \in File : store[g].call # NoCall => store[g].read = NoCall
  BY StoreFacts
<1>3. CASE f = "model"
  <2>1. st["layout"] = store["layout"]
    BY <1>0, <1>3
  <2>2. QuietStore("layout", store["layout"], store'["layout"])
    BY <1>1, <2>1
  <2>3. SendsLayout(store, store')
    BY <1>1, <2>1 DEF SendsLayout
  <2>4. \A g \in File : g # f => g = "layout"
    BY <1>3 DEF File
  <2>5. \A g \in File : g # f => QuietStore(g, store[g], store'[g])
    BY <2>2, <2>4
  <2> QED BY <1>1, <1>3, <2>3, <2>5
<1>4. CASE f = "layout"
  <2>1. store' = st /\ store'["layout"].call = NoCall /\ store'["model"] = store["model"]
    BY <1>0, <1>1, <1>4
  <2>2. SendsLayout(store, store')
    BY <2>1 DEF SendsLayout
  <2>3. \A g \in File : g # f => g = "model"
    BY <1>4 DEF File
  <2>4. QuietStore("model", store["model"], store'["model"])
    BY <1>0, <1>2, <2>1, NoStep
  <2>5. \A g \in File : g # f => QuietStore(g, store[g], store'[g])
    BY <2>3, <2>4
  <2> QED BY <1>1, <2>1, <2>2, <2>5
<1> QED BY <1>0, <1>3, <1>4

\* The store of f after its read has been answered, before it publishes.
LEMMA ReadReturnsRequest == ASSUME StormInv, NEW f \in File, ReadReturns(f) PROVE RequestStep
<1> DEFINE a == store[f].read
           rest == [store EXCEPT ![f].read = NoCall]
<1>1. /\ store \in Stores /\ store[f] \in StoreState /\ a \in ReadState
      /\ (store[f].call # NoCall => a = NoCall) /\ a.at \in {"read", "failed"}
  BY StoreFacts DEF ReadReturns
<1>2. a # NoCall /\ store[f].call = NoCall
  BY <1>1 DEF NoCall
<1>3. PICK st : st = IF a.at = "failed" THEN [rest EXCEPT ![f].error = TRUE] ELSE Answered(rest, f, a)
  OBVIOUS
<1>4. /\ store' = Published(st, f)
      /\ past' = IF Replaces(store, f, a) THEN Without(past, f) ELSE past
      /\ future' = IF Replaces(store, f, a) THEN Without(future, f) ELSE future
      /\ made' = IF Replaces(store, f, a) THEN [n \in DOMAIN made |-> {}] ELSE made
      /\ UNCHANGED <<documents, coupled, waiting, locked, unlocked, everModel>>
  BY <1>3 DEF ReadReturns
<1> DEFINE s1 == [store[f] EXCEPT !.read = NoCall]
<1>5. NoCall \in ReadState
  BY DEF ReadState
<1>6. s1 \in StoreState /\ s1.value = store[f].value /\ s1.baseline = store[f].baseline
      /\ s1.dirty = store[f].dirty /\ s1.call = store[f].call /\ s1.read = NoCall
  BY <1>1, <1>5 DEF StoreState
<1>7. rest = [store EXCEPT ![f] = s1]
  BY <1>1 DEF Stores
<1> HIDE DEF s1
<1>8. rest \in Stores /\ rest[f] = s1 /\ \A g \in File : g # f => rest[g] = store[g]
  BY <1>1, <1>6, <1>7 DEF Stores
<1> HIDE DEF rest
<1>9. /\ st \in Stores /\ st[f].call = NoCall /\ st[f].read = NoCall
      /\ \A g \in File : g # f => st[g] = store[g]
      /\ \/ /\ st[f].value = store[f].value /\ st[f].baseline = store[f].baseline
            /\ st[f].dirty = store[f].dirty
            /\ ~Replaces(store, f, a)
         \/ ReplacedStore(store[f], st[f]) /\ Replaces(store, f, a)
  <2>1. CASE a.at = "failed"
    <3> DEFINE e == [s1 EXCEPT !.error = TRUE]
    <3>1. e \in StoreState /\ e.value = s1.value /\ e.baseline = s1.baseline /\ e.dirty = s1.dirty
          /\ e.call = s1.call /\ e.read = s1.read
      BY <1>6 DEF StoreState
    <3>2. st = [rest EXCEPT ![f] = e]
      BY <1>3, <1>8, <2>1 DEF Stores
    <3> HIDE DEF e
    <3>3. st \in Stores /\ st[f] = e /\ \A g \in File : g # f => st[g] = store[g]
      BY <1>8, <3>1, <3>2 DEF Stores
    <3>4. ~Replaces(store, f, a)
      BY <2>1 DEF Replaces
    <3> QED BY <1>2, <1>6, <3>1, <3>3, <3>4
  <2>2. CASE a.at = "read"
    <3>1. st = Answered(rest, f, a)
      BY <1>3, <2>2
    <3>2. /\ st \in Stores /\ \A g \in File : g # f => st[g] = rest[g]
          /\ st[f].call = rest[f].call /\ st[f].read = rest[f].read
      BY <1>1, <1>2, <1>8, <3>1, AnsweredShape
    <3>3. \/ /\ st[f].value = rest[f].value /\ st[f].baseline = rest[f].baseline
             /\ st[f].dirty = rest[f].dirty
             /\ ~a.discard /\ (rest[f].dirty \/ a.edited \/ rest[f].baseline = {a.content})
          \/ /\ st[f].value = a.content /\ st[f].baseline = {a.content} /\ ~st[f].dirty
             /\ a.discard \/ (~rest[f].dirty /\ ~a.edited /\ rest[f].baseline # {a.content})
      BY <1>1, <1>2, <1>8, <3>1, AnsweredShape
    <3>4. CASE /\ st[f].value = rest[f].value /\ st[f].baseline = rest[f].baseline
               /\ st[f].dirty = rest[f].dirty
               /\ ~a.discard /\ (rest[f].dirty \/ a.edited \/ rest[f].baseline = {a.content})
      <4>1. ~Replaces(store, f, a)
        BY <1>6, <1>8, <3>4 DEF Replaces
      <4> QED BY <1>2, <1>6, <1>8, <3>2, <3>4, <4>1
    <3>5. CASE /\ st[f].value = a.content /\ st[f].baseline = {a.content} /\ ~st[f].dirty
               /\ a.discard \/ (~rest[f].dirty /\ ~a.edited /\ rest[f].baseline # {a.content})
      <4>1. ReplacedStore(store[f], st[f])
        BY <1>2, <1>6, <1>8, <3>2, <3>5 DEF ReplacedStore
      <4>2. Replaces(store, f, a)
        BY <1>6, <1>8, <2>2, <3>5 DEF Replaces
      <4> QED BY <1>2, <1>6, <1>8, <3>2, <4>1, <4>2
    <3> QED BY <3>3, <3>4, <3>5
  <2> QED BY <1>1, <2>1, <2>2
<1>10. Settled(st)
  BY <1>1, <1>9, StoreFacts DEF Settled
<1>11. /\ store' \in Stores /\ SendsLayout(store, store')
       /\ \A g \in File : g # f => QuietStore(g, store[g], store'[g])
       /\ store'[f] = st[f]
  BY <1>4, <1>9, <1>10, PublishedRequest
<1>12. {waiting', locked', unlocked'} \subseteq BOOLEAN
  BY <1>4, Flags
<1>13. CASE Replaces(store, f, a)
  <2>1. ReplacedStore(store[f], store'[f])
    BY <1>9, <1>11, <1>13
  <2>2. Replaced
    BY <1>4, <1>11, <1>13, <2>1 DEF Replaced
  <2> QED BY <1>4, <1>11, <1>12, <2>2 DEF RequestStep
<1>14. CASE ~Replaces(store, f, a)
  <2>1. /\ store'[f].value = store[f].value /\ store'[f].baseline = store[f].baseline
        /\ store'[f].dirty = store[f].dirty
        /\ store'[f].call = store[f].call /\ store'[f].read = NoCall
    BY <1>2, <1>9, <1>11, <1>14
  <2>2. QuietStore(f, store[f], store'[f])
    BY <2>1 DEF QuietStore
  <2>3. Unreplaced
    BY <1>4, <1>11, <1>14, <2>2 DEF Unreplaced
  <2> QED BY <1>4, <1>11, <1>12, <2>3 DEF RequestStep
<1> QED BY <1>13, <1>14

\* The answer of a save arrives.
LEMMA SaveReturnsRequest == ASSUME StormInv, NEW f \in File, SaveReturns(f) PROVE RequestStep
<1> DEFINE c == store[f].call
           idle == [store EXCEPT ![f].call = NoCall]
           s1 == [store[f] EXCEPT !.call = NoCall]
<1>1. /\ store \in Stores /\ store[f] \in StoreState /\ c \in CallState
      /\ (store[f].call # NoCall => store[f].read = NoCall)
      /\ c.at \in {"ok", "conflict", "missing", "lost"}
  BY StoreFacts DEF SaveReturns
<1>2. c # NoCall /\ store[f].read = NoCall
  BY <1>1 DEF NoCall
<1>3. UNCHANGED <<documents, history, waiting, locked, unlocked, made, everModel>>
  BY DEF SaveReturns
<1>4. NoCall \in CallState
  BY DEF CallState
<1>5. s1 \in StoreState /\ s1.value = store[f].value /\ s1.baseline = store[f].baseline
      /\ s1.dirty = store[f].dirty /\ s1.call = NoCall /\ s1.read = NoCall
  BY <1>1, <1>2, <1>4 DEF StoreState
<1>6. idle = [store EXCEPT ![f] = s1]
  BY <1>1 DEF Stores
<1> HIDE DEF s1
<1>7. idle \in Stores /\ idle[f] = s1 /\ \A g \in File : g # f => idle[g] = store[g]
  BY <1>1, <1>5, <1>6 DEF Stores
<1>8. CASE c.at = "ok"
  <2> DEFINE e == [s1 EXCEPT !.baseline = {c.value}, !.dirty = c.edited, !.timer = @ \/ c.edited]
             st == [idle EXCEPT ![f].baseline = {c.value}, ![f].dirty = c.edited,
                                ![f].timer = @ \/ c.edited]
  <2>1. store' = Published(st, f)
    BY <1>8 DEF SaveReturns
  <2>2. c.value \in Value /\ c.edited \in BOOLEAN
    BY <1>1, <1>2 DEF CallState
  <2>3. e \in StoreState /\ e.value = s1.value /\ e.baseline = {c.value} /\ e.dirty = c.edited
        /\ e.call = NoCall /\ e.read = NoCall
    BY <1>5, <2>2 DEF StoreState
  <2>4. st = [idle EXCEPT ![f] = e]
    BY <1>7 DEF Stores
  <2> HIDE DEF e, idle
  <2>5. st \in Stores /\ st[f] = e /\ \A g \in File : g # f => st[g] = store[g]
    BY <1>7, <2>3, <2>4 DEF Stores
  <2> HIDE DEF st
  <2>6. Settled(st)
    BY <1>1, <2>3, <2>5, StoreFacts DEF Settled
  <2>7. /\ store' \in Stores /\ SendsLayout(store, store')
        /\ \A g \in File : g # f => QuietStore(g, store[g], store'[g])
        /\ store'[f] = st[f]
    BY <2>1, <2>3, <2>5, <2>6, PublishedRequest
  <2>8. OkStore(store[f], store'[f])
    BY <1>2, <1>5, <1>8, <2>3, <2>5, <2>7 DEF OkStore
  <2>9. Unreplaced
    BY <1>3, <2>7, <2>8 DEF Unreplaced, history
  <2> QED BY <1>3, <2>7, <2>9, Flags DEF RequestStep, history, documents, onDisk, loose
<1>9. CASE c.at = "conflict"
  <2>0. PICK yes \in BOOLEAN, no \in BOOLEAN : yes = TRUE /\ no = FALSE
    OBVIOUS
  <2> DEFINE e == [s1 EXCEPT !.error = TRUE, !.conflict = TRUE]
             st == [idle EXCEPT ![f].error = TRUE, ![f].conflict = TRUE]
  <2>1. store' = Read(st, f, no, yes)
    BY <1>9, <2>0 DEF SaveReturns
  <2>3. e \in StoreState /\ e.value = s1.value /\ e.baseline = s1.baseline /\ e.dirty = s1.dirty
        /\ e.call = NoCall /\ e.read = NoCall
    BY <1>5 DEF StoreState
  <2>4. st = [idle EXCEPT ![f] = e]
    BY <1>7 DEF Stores
  <2> HIDE DEF e, idle
  <2>5. st \in Stores /\ st[f] = e /\ \A g \in File : g # f => st[g] = store[g]
    BY <1>7, <2>3, <2>4 DEF Stores
  <2> HIDE DEF st
  <2>6. /\ store' \in Stores /\ \A g \in File : g # f => store'[g] = st[g]
        /\ store'[f].value = st[f].value /\ store'[f].baseline = st[f].baseline
        /\ store'[f].dirty = st[f].dirty /\ store'[f].call = st[f].call
        /\ \/ st[f].call # NoCall /\ store'[f].read = st[f].read
           \/ st[f].call = NoCall /\ store'[f].read.content = {}
    BY <2>1, <2>5, ReadShape
  <2>7. QuietStore(f, store[f], store'[f])
    BY <1>5, <2>3, <2>5, <2>6 DEF QuietStore
  <2>8. \A g \in File : QuietStore(g, store[g], store'[g])
    BY <1>1, <2>5, <2>6, <2>7, NoStep, StoreFacts
  <2>9. SendsLayout(store, store')
    BY <2>3, <2>5, <2>6 DEF SendsLayout, File
  <2> QED BY <1>3, <2>6, <2>8, <2>9, QuietRequest, Flags
<1>10. CASE c.at \notin {"ok", "conflict"}
  <2> DEFINE e == [s1 EXCEPT !.error = TRUE]
  <2>1. store' = [idle EXCEPT ![f].error = TRUE]
    BY <1>10 DEF SaveReturns
  <2>3. e \in StoreState /\ e.value = s1.value /\ e.baseline = s1.baseline /\ e.dirty = s1.dirty
        /\ e.call = NoCall /\ e.read = NoCall
    BY <1>5 DEF StoreState
  <2>4. store' = [idle EXCEPT ![f] = e]
    BY <1>7, <2>1 DEF Stores
  <2> HIDE DEF e, idle
  <2>5. store' \in Stores /\ store'[f] = e /\ \A g \in File : g # f => store'[g] = store[g]
    BY <1>7, <2>3, <2>4 DEF Stores
  <2>6. store' = [store EXCEPT ![f] = e]
    BY <1>1, <2>5 DEF Stores
  <2>7. QuietStore(f, store[f], e)
    BY <1>5, <2>3 DEF QuietStore
  <2> QED BY <1>3, <2>3, <2>6, <2>7, StoreRequest
<1> QED BY <1>8, <1>9, <1>10

\* The Save button saves the model, and the layout unless it must wait.
LEMMA SavesBothRequest ==
  ASSUME StormInv, SavesBoth
  PROVE  /\ store' \in Stores /\ SendsLayout(store, store') /\ waiting' \in BOOLEAN
         /\ \A g \in File : QuietStore(g, store[g], store'[g])
<1>0. "layout" \in File /\ "model" \in File /\ \A g \in File : g = "model" \/ g = "layout"
  BY DEF File
<1>1. PICK m : m = Saved(store, "model")
  OBVIOUS
<1>2. Settled(store) /\ store \in Stores /\ waiting \in BOOLEAN
  BY StoreSettled, StoreFacts, Flags, <1>0
<1>3. m \in Stores /\ SendsLayout(store, m) /\ Settled(m) /\ m["layout"] = store["layout"]
  BY <1>0, <1>1, <1>2, SavedSends
<1>4. \A g \in File : QuietStore(g, store[g], m[g])
  BY <1>0, <1>1, <1>2, SavedStep
<1>5. CASE store' = m /\ waiting' = TRUE
  BY <1>3, <1>4, <1>5
<1>6. CASE store' = Saved(m, "layout") /\ UNCHANGED waiting
  <2>1. store' \in Stores /\ SendsLayout(m, store') /\ store'["model"] = m["model"]
    BY <1>0, <1>3, <1>6, SavedSends
  <2>2. QuietStore("layout", m["layout"], store'["layout"])
    BY <1>0, <1>3, <1>6, SavedStep
  <2>3. QuietStore("layout", store["layout"], store'["layout"])
    BY <1>3, <2>2
  <2>4. QuietStore("model", store["model"], store'["model"])
    BY <1>0, <1>4, <2>1
  <2>5. SendsLayout(store, store')
    BY <1>3, <2>1 DEF SendsLayout
  <2> QED BY <1>0, <1>2, <1>6, <2>1, <2>3, <2>4, <2>5
<1> QED BY <1>1, <1>5, <1>6 DEF SavesBoth

\* The user saves at once.
LEMMA SaveButtonRequest == ASSUME StormInv, SaveButton PROVE RequestStep
<1>1. SavesBoth /\ UNCHANGED <<documents, history, locked, unlocked, made, everModel>>
  BY DEF SaveButton
<1>2. {waiting', locked', unlocked'} \subseteq BOOLEAN
  BY <1>1, SavesBothRequest, Flags
<1> QED BY <1>1, <1>2, SavesBothRequest, QuietRequest

\* Unlocked files are saved.
LEMMA SavesUnlockedRequest == ASSUME StormInv, SavesUnlocked PROVE RequestStep
<1>1. /\ unlocked' = FALSE /\ UNCHANGED <<documents, history, locked, made, everModel>>
      /\ (UNCHANGED <<store, waiting>>) \/ SavesBoth
  BY DEF SavesUnlocked
<1>2. CASE SavesBoth
  <2>1. {waiting', locked', unlocked'} \subseteq BOOLEAN
    BY <1>1, <1>2, SavesBothRequest, Flags
  <2> QED BY <1>1, <1>2, <2>1, SavesBothRequest, QuietRequest
<1>3. CASE UNCHANGED <<store, waiting>>
  <2>1. store' \in Stores /\ \A g \in File : QuietStore(g, store[g], store'[g])
    BY <1>3, StoreFacts, NoStep DEF File
  <2>2. SendsLayout(store, store')
    BY <1>3 DEF SendsLayout
  <2>3. {waiting', locked', unlocked'} \subseteq BOOLEAN
    BY <1>1, <1>3, Flags
  <2> QED BY <1>1, <2>1, <2>2, <2>3, QuietRequest
<1> QED BY <1>1, <1>2, <1>3

-----------------------------------------------------------------------------
(* Requests keep the invariant.                                            *)

\* A request step keeps the types.
LEMMA RequestTypes == ASSUME StormInv, RequestStep PROVE StormTypes'
<1>1. StormTypes /\ store' \in Stores /\ UNCHANGED <<documents, coupled>>
      /\ {waiting', locked', unlocked'} \subseteq BOOLEAN
  BY DEF RequestStep, StormInv
<1>2. store' \in [File -> StoreState] /\ model' \in [facts : Value, valid : BOOLEAN]
      /\ layout' \in Value
      /\ {coupled', waiting', locked', unlocked', runActive'} \subseteq BOOLEAN
  BY <1>1 DEF StormTypes, Stores, documents, onDisk, loose
<1>3. CASE Unreplaced
  BY <1>1, <1>2, <1>3 DEF StormTypes, Unreplaced
<1>4. CASE Replaced
  <2>1. PICK f \in File : past' = Without(past, f) /\ future' = Without(future, f)
    BY <1>4 DEF Replaced
  <2>2. /\ past' \in Seq(Entry)
        /\ \A k \in DOMAIN past' : \E i \in DOMAIN past : past'[k] = past[i]
    BY <1>1, <2>1, WithoutEntries DEF StormTypes
  <2>3. /\ future' \in Seq(Entry)
        /\ \A k \in DOMAIN future' : \E i \in DOMAIN future : future'[k] = future[i]
    BY <1>1, <2>1, WithoutEntries DEF StormTypes
  <2>4. /\ \A i \in DOMAIN past' : DOMAIN past'[i].before = DOMAIN past'[i].after
        /\ \A i \in DOMAIN future' : DOMAIN future'[i].before = DOMAIN future'[i].after
    BY <1>1, <2>2, <2>3 DEF StormTypes
  <2> QED BY <1>2, <2>2, <2>3, <2>4 DEF StormTypes
<1> QED BY <1>3, <1>4 DEF RequestStep

\* A quiet store keeps what it shows and sends its own.
LEMMA QuietKeepsOwn ==
  ASSUME NEW f \in File, NEW s \in StoreState, NEW s2 \in StoreState,
         OwnStore(s), QuietStore(f, s, s2)
  PROVE  OwnStore(s2)
<1>1. s2.value = s.value /\ s2.baseline = s.baseline /\ s2.dirty = s.dirty
  BY DEF QuietStore
<1>2. /\ \A h \in s2.baseline : Agrees(s2.value, h)
      /\ ~s2.dirty => \A h \in s2.baseline : h = s2.value
      /\ s2.baseline = {} => s2.value = {}
  BY <1>1 DEF OwnStore
<1>3. CASE s2.call = NoCall
  BY <1>2, <1>3 DEF OwnStore
<1>4. CASE s2.call # NoCall /\ s.call # NoCall
  <2>1. /\ s2.read = NoCall
        /\ s2.call = s.call \/ s2.call = [s.call EXCEPT !.at = "lost"]
    BY <1>4 DEF QuietStore
  <2>2. s.call \in CallState
    BY DEF StoreState
  <2>3. s2.call.value = s.call.value /\ s2.call.hash = s.call.hash /\ s2.call.edited = s.call.edited
    BY <1>4, <2>1, <2>2 DEF CallState, NoCall
  <2> QED BY <1>1, <1>2, <1>4, <2>1, <2>3 DEF OwnStore
<1>5. CASE s2.call # NoCall /\ s.call = NoCall
  <2>1. s2.read = NoCall /\ s.dirty /\ s.baseline # {} /\ s2.call = Sent(s)
    BY <1>4, <1>5 DEF QuietStore
  <2>2. s2.call.value = s.value /\ s2.call.hash = s.baseline
    BY <2>1 DEF Sent
  <2> QED BY <1>1, <1>2, <2>1, <2>2 DEF OwnStore
<1> QED BY <1>3, <1>4, <1>5

\* After an accepted save the baseline is what was sent.
LEMMA OkKeepsOwn ==
  ASSUME NEW s \in StoreState, NEW s2 \in StoreState, OwnStore(s), OkStore(s, s2)
  PROVE  OwnStore(s2)
<1>1. PICK h \in s.baseline : Agrees(s.value, h) /\ Agrees(s.call.value, h)
  BY DEF OwnStore, OkStore
<1>2. Agrees(s.value, s.call.value)
  BY <1>1 DEF Agrees
<1> QED BY <1>2 DEF OwnStore, OkStore

\* After a read replaced the draft the baseline is what was read.
LEMMA ReplacedKeepsOwn ==
  ASSUME NEW s \in StoreState, NEW s2 \in StoreState, ReplacedStore(s, s2)
  PROVE  OwnStore(s2)
  BY DEF OwnStore, ReplacedStore, Agrees

\* A baseline that stays, or becomes what was sent on it, suits the entries.
LEMMA EntryKept ==
  ASSUME NEW e, OwnEntry(e, store), \A f \in File : OwnStore(store[f]),
         DOMAIN e.before \subseteq File,
         \A f \in DOMAIN e.before :
           store'[f].baseline = store[f].baseline \/ OkStore(store[f], store'[f])
  PROVE  OwnEntry(e, store')
<1> SUFFICES ASSUME NEW f \in DOMAIN e.before
             PROVE  /\ store'[f].baseline # {}
                    /\ \A h \in store'[f].baseline :
                         Agrees(e.before[f], h) /\ Agrees(e.after[f], h)
  BY DEF OwnEntry
<1>1. /\ store[f].baseline # {} /\ OwnStore(store[f])
      /\ \A h \in store[f].baseline : Agrees(e.before[f], h) /\ Agrees(e.after[f], h)
  BY DEF OwnEntry
<1>2. CASE store'[f].baseline = store[f].baseline
  BY <1>1, <1>2
<1>3. CASE OkStore(store[f], store'[f])
  <2>1. store'[f].baseline = {store[f].call.value}
    BY <1>3 DEF OkStore
  <2>2. PICK h \in store[f].baseline : Agrees(store[f].call.value, h)
    BY <1>1, <1>3 DEF OwnStore, OkStore
  <2> QED BY <1>1, <2>1, <2>2 DEF Agrees
<1> QED BY <1>2, <1>3

\* What Undo and Redo keep are entries about files.
LEMMA EntryFiles ==
  ASSUME StormInv
  PROVE  /\ \A i \in DOMAIN past : past[i] \in Entry /\ DOMAIN past[i].before \subseteq File
                                   /\ DOMAIN past[i].after = DOMAIN past[i].before
         /\ \A i \in DOMAIN future : future[i] \in Entry /\ DOMAIN future[i].before \subseteq File
                                     /\ DOMAIN future[i].after = DOMAIN future[i].before
<1>1. \A e \in Entry : DOMAIN e.before \subseteq File
  <2> SUFFICES ASSUME NEW e \in Entry PROVE DOMAIN e.before \subseteq File
    OBVIOUS
  <2>1. PICK D \in SUBSET File : e.before \in [D -> Value]
    BY DEF Entry
  <2> QED BY <2>1
<1>2. past \in Seq(Entry) /\ future \in Seq(Entry)
  BY DEF StormInv, StormTypes
<1>3. (\A i \in DOMAIN past : past[i] \in Entry) /\ (\A i \in DOMAIN future : future[i] \in Entry)
  BY <1>2
<1> QED BY <1>1, <1>3 DEF StormInv, StormTypes

\* A request step leaves every draft and entry its baseline's.
LEMMA RequestOwn == ASSUME StormInv, RequestStep PROVE Own'
<1>1. /\ \A f \in File : store[f] \in StoreState /\ OwnStore(store[f])
      /\ \A f \in File : store'[f] \in StoreState
  BY StoreFacts DEF RequestStep, Stores
<1>2. /\ \A i \in DOMAIN past : OwnEntry(past[i], store)
      /\ \A i \in DOMAIN future : OwnEntry(future[i], store)
  BY DEF StormInv, Own
<1>3. CASE Unreplaced
  <2>1. \A f \in File : OwnStore(store'[f])
    BY <1>1, <1>3, QuietKeepsOwn, OkKeepsOwn DEF Unreplaced
  <2>2. \A f \in File : store'[f].baseline = store[f].baseline \/ OkStore(store[f], store'[f])
    BY <1>3 DEF Unreplaced, QuietStore
  <2>3. \A i \in DOMAIN past : OwnEntry(past[i], store')
    BY <1>1, <1>2, <2>2, EntryKept, EntryFiles
  <2>4. \A i \in DOMAIN future : OwnEntry(future[i], store')
    BY <1>1, <1>2, <2>2, EntryKept, EntryFiles
  <2> QED BY <1>3, <2>1, <2>3, <2>4 DEF Own, Unreplaced
<1>4. CASE Replaced
  <2>1. PICK f \in File :
          /\ \A g \in File : \/ QuietStore(g, store[g], store'[g])
                             \/ g = f /\ ReplacedStore(store[g], store'[g])
          /\ past' = Without(past, f) /\ future' = Without(future, f)
    BY <1>4 DEF Replaced
  <2>2. \A g \in File : OwnStore(store'[g])
    BY <1>1, <2>1, QuietKeepsOwn, ReplacedKeepsOwn
  <2>3. \A g \in File : g # f => store'[g].baseline = store[g].baseline
    BY <2>1 DEF QuietStore
  <2>4. past \in Seq(Entry) /\ future \in Seq(Entry)
    BY DEF StormInv, StormTypes
  <2>5. \A k \in DOMAIN past' : \E i \in DOMAIN past :
          past'[k] = past[i] /\ f \notin DOMAIN past[i].before
    BY <2>1, <2>4, WithoutEntries
  <2>6. \A k \in DOMAIN future' : \E i \in DOMAIN future :
          future'[k] = future[i] /\ f \notin DOMAIN future[i].before
    BY <2>1, <2>4, WithoutEntries
  <2>7. ASSUME NEW k \in DOMAIN past' PROVE OwnEntry(past'[k], store')
    <3>1. PICK i \in DOMAIN past : past'[k] = past[i] /\ f \notin DOMAIN past[i].before
      BY <2>5
    <3>2. OwnEntry(past[i], store')
      BY <1>1, <1>2, <2>3, <3>1, EntryKept, EntryFiles
    <3> QED BY <3>1, <3>2
  <2>8. ASSUME NEW k \in DOMAIN future' PROVE OwnEntry(future'[k], store')
    <3>1. PICK i \in DOMAIN future : future'[k] = future[i] /\ f \notin DOMAIN future[i].before
      BY <2>6
    <3>2. OwnEntry(future[i], store')
      BY <1>1, <1>2, <2>3, <3>1, EntryKept, EntryFiles
    <3> QED BY <3>1, <3>2
  <2> QED BY <2>2, <2>7, <2>8 DEF Own
<1> QED BY <1>3, <1>4 DEF RequestStep

\* A request step learns nothing model.json never held.
LEMMA RequestKnown == ASSUME StormInv, RequestStep PROVE Known'
<1>0. "model" \in File /\ Known
  BY DEF File, StormInv
<1>1. UNCHANGED <<model, everModel>> /\ store["model"] \in StoreState
      /\ store["model"].call \in CallState
  BY <1>0, StoreFacts DEF RequestStep, documents, onDisk, loose
<1>2. \/ QuietStore("model", store["model"], store'["model"])
      \/ OkStore(store["model"], store'["model"])
      \/ ReplacedStore(store["model"], store'["model"])
  BY <1>0 DEF RequestStep, Unreplaced, Replaced
<1>3. CASE QuietStore("model", store["model"], store'["model"])
  <2>1. store'["model"].baseline = store["model"].baseline
    BY <1>3 DEF QuietStore
  <2>2. store'["model"].read # NoCall => store'["model"].read.content \subseteq everModel
    BY <1>0, <1>3 DEF QuietStore, Known, Content
  <2>3. store'["model"].call.at = "ok" => store'["model"].call = store["model"].call
    BY <1>1, <1>3 DEF QuietStore, CallState, Sent, NoCall
  <2> QED BY <1>0, <1>1, <2>1, <2>2, <2>3 DEF Known
<1>4. CASE OkStore(store["model"], store'["model"])
  BY <1>0, <1>1, <1>4 DEF Known, OkStore, NoCall
<1>5. CASE ReplacedStore(store["model"], store'["model"])
  BY <1>0, <1>1, <1>5 DEF Known, ReplacedStore, NoCall
<1> QED BY <1>2, <1>3, <1>4, <1>5

\* A request step does not invent a note.
LEMMA RequestNowhere ==
  ASSUME StormInv, RequestStep, NEW n \in Note, Nowhere(n) PROVE Nowhere(n)'
<1>0. UNCHANGED <<model, layout, everModel>> /\ model.facts \subseteq everModel
      /\ n \notin everModel /\ n \notin layout
  BY DEF RequestStep, documents, onDisk, loose, Nowhere, StormInv, Known
<1>1. \A f \in File : n \notin Content(f)
  BY <1>0 DEF Content
<1>2. ASSUME NEW f \in File
      PROVE  /\ n \notin store'[f].value
             /\ store'[f].read # NoCall => n \notin store'[f].read.content
             /\ store'[f].call # NoCall => n \notin store'[f].call.value
  <2>1. /\ n \notin store[f].value
        /\ store[f].read # NoCall => n \notin store[f].read.content
        /\ store[f].call # NoCall => n \notin store[f].call.value
        /\ store[f].call \in CallState
    BY StoreFacts DEF Nowhere
  <2>2. \/ QuietStore(f, store[f], store'[f]) \/ OkStore(store[f], store'[f])
        \/ ReplacedStore(store[f], store'[f])
    BY DEF RequestStep, Unreplaced, Replaced
  <2>3. CASE QuietStore(f, store[f], store'[f])
    <3>1. n \notin store'[f].value
      BY <2>1, <2>3 DEF QuietStore
    <3>2. store'[f].read # NoCall => n \notin store'[f].read.content
      BY <1>1, <2>1, <2>3 DEF QuietStore
    <3>3. store'[f].call # NoCall => n \notin store'[f].call.value
      BY <2>1, <2>3 DEF QuietStore, CallState, Sent
    <3> QED BY <3>1, <3>2, <3>3
  <2>4. CASE OkStore(store[f], store'[f])
    BY <2>1, <2>4 DEF OkStore
  <2>5. CASE ReplacedStore(store[f], store'[f])
    BY <2>1, <2>5 DEF ReplacedStore
  <2> QED BY <2>2, <2>3, <2>4, <2>5
<1>3. /\ \A k \in DOMAIN past' : \E i \in DOMAIN past : past'[k] = past[i]
      /\ \A k \in DOMAIN future' : \E i \in DOMAIN future : future'[k] = future[i]
  <2>1. CASE Unreplaced
    BY <2>1 DEF Unreplaced
  <2>2. CASE Replaced
    <3>1. past \in Seq(Entry) /\ future \in Seq(Entry)
      BY DEF StormInv, StormTypes
    <3>2. PICK f \in File : past' = Without(past, f) /\ future' = Without(future, f)
      BY <2>2 DEF Replaced
    <3>3. \A k \in DOMAIN past' : \E i \in DOMAIN past : past'[k] = past[i]
      BY <3>1, <3>2, WithoutEntries
    <3>4. \A k \in DOMAIN future' : \E i \in DOMAIN future : future'[k] = future[i]
      BY <3>1, <3>2, WithoutEntries
    <3> QED BY <3>3, <3>4
  <2> QED BY <2>1, <2>2 DEF RequestStep
<1>4. /\ \A i \in DOMAIN past' : ~Holds(past'[i].before, n) /\ ~Holds(past'[i].after, n)
      /\ \A i \in DOMAIN future' : ~Holds(future'[i].before, n) /\ ~Holds(future'[i].after, n)
  BY <1>3 DEF Nowhere
<1> QED BY <1>0, <1>2, <1>4 DEF Nowhere

\* While no read replaces a draft, a note's placement goes on waiting.
LEMMA RequestWaits ==
  ASSUME StormInv, RequestStep, Unreplaced, NEW n \in Note, Waits(n), n \notin everModel
  PROVE  Waits(n)'
<1>0. "model" \in File /\ "layout" \in File
  BY DEF File
<1>1. /\ \A f \in File : QuietStore(f, store[f], store'[f]) \/ OkStore(store[f], store'[f])
      /\ UNCHANGED <<past, future, coupled, layout>>
  BY DEF RequestStep, Unreplaced, documents, onDisk, loose
<1>2. /\ store'["model"].value = store["model"].value
      /\ store'["layout"].value = store["layout"].value
  BY <1>0, <1>1 DEF QuietStore, OkStore
<1>3. Chained(n)'
  BY <1>1, <1>2 DEF Waits, Chained
<1>4. n \in store["model"].value =>
        coupled /\ (store'["model"].dirty \/ store'["model"].call # NoCall)
  <2>1. SUFFICES ASSUME n \in store["model"].value PROVE store'["model"].dirty
    BY DEF Waits
  <2>2. store["model"].dirty
    BY <1>0, <2>1, StoreFacts DEF Waits
  <2>3. CASE QuietStore("model", store["model"], store'["model"])
    BY <2>2, <2>3 DEF QuietStore
  <2>4. CASE OkStore(store["model"], store'["model"])
    <3>1. store["model"].call.value \subseteq everModel
      BY <2>4 DEF OkStore, StormInv, Known
    <3>2. store["model"].call.edited
      BY <1>0, <2>1, <2>4, <3>1, StoreFacts DEF OwnStore, OkStore
    <3> QED BY <2>4, <3>2 DEF OkStore
  <2> QED BY <1>0, <1>1, <2>3, <2>4
<1>5. store'["layout"].call.at = "sent" => n \notin store'["layout"].call.value
  <2>1. SUFFICES ASSUME store'["layout"].call.at = "sent"
                 PROVE  n \notin store'["layout"].call.value
    OBVIOUS
  <2>2. store["layout"].call \in CallState
    BY <1>0, StoreFacts
  <2>3. QuietStore("layout", store["layout"], store'["layout"])
    BY <1>0, <1>1, <2>1 DEF OkStore, NoCall
  <2>4. \/ store'["layout"].call = store["layout"].call
        \/ store["layout"].call = NoCall /\ store'["layout"].call = Sent(store["layout"])
    BY <2>1, <2>2, <2>3 DEF QuietStore, NoCall, CallState
  <2>5. CASE store'["layout"].call = store["layout"].call
    BY <2>1, <2>5 DEF Waits
  <2>6. CASE store["layout"].call = NoCall /\ store'["layout"].call = Sent(store["layout"])
    <3>1. store'["layout"].call # NoCall
      BY <2>1 DEF NoCall
    <3>2. ~(coupled /\ (store'["model"].dirty \/ store'["model"].call # NoCall))
      BY <2>6, <3>1 DEF RequestStep, SendsLayout
    <3>3. n \notin store["layout"].value
      BY <1>4, <3>2 DEF Waits
    <3> QED BY <2>6, <3>3 DEF Sent
  <2> QED BY <2>4, <2>5, <2>6
<1> QED BY <1>1, <1>2, <1>3, <1>4, <1>5 DEF Waits

\* A request step keeps the invariant.
LEMMA RequestKeeps == ASSUME StormInv, RequestStep PROVE StormInv'
<1>1. Links'
  BY DEF StormInv, Links, RequestStep, documents, onDisk, loose
<1>2. ASSUME NEW n \in Note PROVE NoteInv(n)'
  <2>1. NoteInv(n) /\ everModel' = everModel
    BY DEF StormInv, RequestStep
  <2>2. CASE Unreplaced
    <3>1. made' = made
      BY <2>2 DEF Unreplaced
    <3> QED BY <2>1, <2>2, <3>1, RequestNowhere, RequestWaits DEF NoteInv
  <2>3. CASE Replaced
    <3>1. made' = [m \in DOMAIN made |-> {}]
      BY <2>3 DEF Replaced
    <3>2. n \in DOMAIN made' => ~(File \subseteq made'[n])
      BY <3>1 DEF File
    <3>3. DOMAIN made' = DOMAIN made
      BY <3>1
    <3> QED BY <2>1, <3>2, <3>3, RequestNowhere DEF NoteInv
  <2> QED BY <2>2, <2>3 DEF RequestStep
<1> QED BY <1>1, <1>2, RequestTypes, RequestOwn, RequestKnown DEF StormInv

-----------------------------------------------------------------------------
(* The server serves a save.                                               *)

\* What it found and did.
LEMMA Served ==
  ASSUME StormInv, NEW f \in File, SaveServed(f)
  PROVE  /\ store[f] \in StoreState /\ store[f].call \in CallState
         /\ store[f].call # NoCall /\ store[f].call.at = "sent"
         /\ store' \in Stores /\ \A g \in File : g # f => store'[g] = store[g]
         /\ store'[f].value = store[f].value /\ store'[f].baseline = store[f].baseline
         /\ store'[f].dirty = store[f].dirty /\ store'[f].read = store[f].read
         /\ store'[f].call.value = store[f].call.value /\ store'[f].call # NoCall
         /\ store'[f].call.hash = store[f].call.hash
         /\ store'[f].call.edited = store[f].call.edited
         /\ store'[f].call.at # "sent"
         /\ UNCHANGED <<story, runActive, history, waiting, locked, unlocked, made>>
         /\ everModel' = everModel \cup model'.facts
<1>1. /\ store \in Stores /\ store[f] \in StoreState /\ store[f].call \in CallState
      /\ store[f].call.at = "sent"
  BY StoreFacts DEF SaveServed
<1>2. store[f].call # NoCall
  BY <1>1 DEF NoCall
<1>3. PICK reply \in {"ok", "conflict", "missing"} : store' = [store EXCEPT ![f].call.at = reply]
  BY DEF SaveServed
<1> DEFINE c == [store[f].call EXCEPT !.at = reply]
           s2 == [store[f] EXCEPT !.call = c]
<1>4. c \in CallState /\ c.value = store[f].call.value /\ c.hash = store[f].call.hash
      /\ c.edited = store[f].call.edited /\ c.at = reply
  BY <1>1, <1>2 DEF CallState
<1>5. c # NoCall
  BY <1>4 DEF NoCall
<1>6. s2 \in StoreState /\ s2.value = store[f].value /\ s2.baseline = store[f].baseline
      /\ s2.dirty = store[f].dirty /\ s2.read = store[f].read /\ s2.call = c
  BY <1>1, <1>4 DEF StoreState
<1>7. store' = [store EXCEPT ![f] = s2]
  BY <1>1, <1>3 DEF Stores
<1> HIDE DEF c, s2
<1>8. store' \in Stores /\ store'[f] = s2 /\ \A g \in File : g # f => store'[g] = store[g]
  BY <1>1, <1>6, <1>7 DEF Stores
<1>9. UNCHANGED <<story, runActive, history, waiting, locked, unlocked, made>>
      /\ everModel' = everModel \cup model'.facts
  BY DEF SaveServed, SavesModel, SavesLayout
<1> QED BY <1>1, <1>2, <1>4, <1>5, <1>6, <1>8, <1>9

\* The file it wrote was the baseline of the save.
LEMMA ServedFile ==
  ASSUME StormInv, NEW f \in File, SaveServed(f)
  PROVE  \/ UNCHANGED <<model, layout, looseFacts>> /\ store'[f].call.at # "ok"
         \/ /\ f = "model" /\ model.facts \in store[f].baseline
            /\ model' = [model EXCEPT !.facts = store[f].call.value] /\ layout' = layout
            /\ NewLinks(store[f].call.value) \subseteq DOMAIN story
            /\ looseFacts' = looseFacts \cap store[f].call.value
         \/ /\ f = "layout" /\ layout \in store[f].baseline
            /\ layout' = store[f].call.value /\ model' = model /\ looseFacts' = looseFacts
<1> DEFINE c == store[f].call
           hash == CHOOSE h \in c.hash : TRUE
<1>1. PICK reply \in {"ok", "conflict", "missing"} :
        /\ IF f = "model" THEN SavesModel(c.value, hash, reply)
                          ELSE SavesLayout(c.value, hash, reply)
        /\ store' = [store EXCEPT ![f].call.at = reply]
  BY DEF SaveServed
<1>2. /\ store \in Stores /\ store[f] \in StoreState /\ c \in CallState
      /\ c # NoCall /\ OwnStore(store[f])
  BY StoreFacts, Served
<1>3. hash \in store[f].baseline
  BY <1>2 DEF OwnStore
<1> HIDE DEF hash
<1>4. store'[f].call.at = reply
  BY <1>1, <1>2 DEF Stores, StoreState, CallState
<1>5. f = "model" \/ f = "layout"
  BY DEF File
<1>6. CASE reply # "ok"
  BY <1>1, <1>4, <1>6 DEF SavesModel, SavesLayout, loose
<1>7. CASE reply = "ok" /\ f = "model"
  <2>1. SavesModel(c.value, hash, "ok")
    BY <1>1, <1>7
  <2>2. model.facts = hash /\ NewLinks(c.value) \subseteq DOMAIN story
    BY <2>1 DEF SavesModel, ModelReply
  <2> QED BY <1>3, <1>7, <2>1, <2>2 DEF SavesModel
<1>8. CASE reply = "ok" /\ f = "layout"
  <2>1. SavesLayout(c.value, hash, "ok")
    BY <1>1, <1>8
  <2>2. layout = hash
    BY <2>1 DEF SavesLayout, LayoutReply
  <2> QED BY <1>3, <1>8, <2>1, <2>2 DEF SavesLayout, loose
<1> QED BY <1>5, <1>6, <1>7, <1>8

\* A served save adds only links to stories that exist.
LEMMA ServedLinks == ASSUME StormInv, NEW f \in File, SaveServed(f) PROVE Links'
<1>1. /\ story' = story
      /\ \A fact \in model.facts \ looseFacts : Cites[fact] \subseteq DOMAIN story
  BY Served DEF StormInv, Links
<1>2. CASE model' = model /\ looseFacts' = looseFacts
  BY <1>1, <1>2 DEF Links
<1>3. CASE /\ model' = [model EXCEPT !.facts = store[f].call.value]
           /\ NewLinks(store[f].call.value) \subseteq DOMAIN story
           /\ looseFacts' = looseFacts \cap store[f].call.value
  <2>1. model'.facts = store[f].call.value
    BY <1>3 DEF StormInv, StormTypes
  <2>2. SUFFICES ASSUME NEW fact \in store[f].call.value, fact \notin looseFacts
                 PROVE  Cites[fact] \subseteq DOMAIN story
    BY <1>1, <1>3, <2>1 DEF Links
  <2>3. CASE fact \in model.facts
    BY <1>1, <2>2, <2>3
  <2>4. CASE fact \notin model.facts
    BY <1>3, <2>2, <2>4 DEF NewLinks
  <2> QED BY <2>3, <2>4
<1> QED BY <1>2, <1>3, ServedFile

\* A served save keeps the types.
LEMMA ServedTypes == ASSUME StormInv, NEW f \in File, SaveServed(f) PROVE StormTypes'
<1>1. store[f].call.value \in Value
  BY Served DEF CallState, NoCall
<1>2. /\ model' \in [facts : Value, valid : BOOLEAN] /\ layout' \in Value
  BY <1>1, ServedFile DEF StormInv, StormTypes
<1>3. /\ store' \in [File -> StoreState]
      /\ UNCHANGED <<past, future, coupled, waiting, locked, unlocked, runActive>>
  BY Served DEF Stores, history
<1> QED BY <1>2, <1>3 DEF StormInv, StormTypes

\* A served save leaves drafts and entries their baseline's.
LEMMA ServedOwn == ASSUME StormInv, NEW f \in File, SaveServed(f) PROVE Own'
<1>1. OwnStore(store'[f])
  BY Served, StoreFacts DEF OwnStore
<1>2. \A g \in File : OwnStore(store'[g])
  BY <1>1, Served, StoreFacts
<1>3. \A g \in File : store'[g].baseline = store[g].baseline
  BY Served
<1>4. UNCHANGED <<past, future>>
  BY Served DEF history
<1>5. /\ \A i \in DOMAIN past : OwnEntry(past[i], store')
      /\ \A i \in DOMAIN future : OwnEntry(future[i], store')
  BY <1>3, EntryKept, EntryFiles DEF StormInv, Own
<1> QED BY <1>2, <1>4, <1>5 DEF Own

\* What a served save writes to model.json is recorded.
LEMMA ServedKnown == ASSUME StormInv, NEW f \in File, SaveServed(f) PROVE Known'
<1>0. "model" \in File /\ Known /\ everModel' = everModel \cup model'.facts
  BY Served DEF File, StormInv
<1>1. /\ store'["model"].baseline = store["model"].baseline
      /\ store'["model"].read = store["model"].read
  BY <1>0, Served
<1>2. store'["model"].call.at = "ok" => store'["model"].call.value \subseteq everModel'
  <2>1. SUFFICES ASSUME store'["model"].call.at = "ok"
                 PROVE  store'["model"].call.value \subseteq everModel'
    OBVIOUS
  <2>2. CASE f = "model"
    <3>1. model' = [model EXCEPT !.facts = store[f].call.value]
      BY <2>1, <2>2, ServedFile
    <3>2. model'.facts = store[f].call.value
      BY <3>1 DEF StormInv, StormTypes
    <3>3. store'[f].call.value = store[f].call.value
      BY Served
    <3> QED BY <1>0, <2>2, <3>2, <3>3
  <2>3. CASE f # "model"
    <3>1. store'["model"] = store["model"]
      BY <1>0, <2>3, Served
    <3> QED BY <1>0, <2>1, <3>1 DEF Known
  <2> QED BY <2>2, <2>3
<1> QED BY <1>0, <1>1, <1>2 DEF Known

\* A served save writes no placement whose fact still waits.
LEMMA ServedNote ==
  ASSUME StormInv, NEW f \in File, SaveServed(f), NEW n \in Note
  PROVE  NoteInv(n)'
<1>0. "model" \in File /\ "layout" \in File /\ NoteInv(n)
      /\ made' = made /\ everModel' = everModel \cup model'.facts
      /\ UNCHANGED <<past, future, coupled>>
  BY Served DEF File, StormInv, history
<1>1. \A g \in File : /\ store'[g].value = store[g].value /\ store'[g].dirty = store[g].dirty
                      /\ store'[g].read = store[g].read
  BY Served
<1>2. \A g \in File : /\ store'[g].call # NoCall <=> store[g].call # NoCall
                      /\ store'[g].call # NoCall => store'[g].call.value = store[g].call.value
                      /\ store'[g].call.at = "sent" => store[g].call.at = "sent"
  BY Served
<1>3. store[f].call # NoCall /\ store[f].call.at = "sent"
  BY Served
<1>4. model.facts \subseteq everModel /\ (model' = model \/ model'.facts = store[f].call.value)
  BY ServedFile DEF StormInv, Known, StormTypes
<1>5. layout' = layout \/ (layout' = store["layout"].call.value /\ f = "layout")
  BY ServedFile
<1>6. ASSUME n \notin DOMAIN made PROVE Nowhere(n)'
  <2>1. Nowhere(n)
    BY <1>0, <1>6 DEF NoteInv
  <2>2. n \notin everModel' /\ n \notin layout'
    BY <1>0, <1>3, <1>4, <1>5, <2>1 DEF Nowhere
  <2> QED BY <1>0, <1>1, <1>2, <2>1, <2>2 DEF Nowhere
<1>7. ASSUME n \in DOMAIN made, File \subseteq made[n], n \notin everModel' PROVE Waits(n)'
  <2>1. Waits(n)
    BY <1>0, <1>7 DEF NoteInv
  <2>2. n \notin layout'
    BY <1>3, <1>5, <2>1 DEF Waits
  <2>3. Chained(n)'
    BY <1>0, <1>1, <2>1 DEF Waits, Chained
  <2> QED BY <1>0, <1>1, <1>2, <2>1, <2>2, <2>3 DEF Waits
<1> QED BY <1>0, <1>6, <1>7 DEF NoteInv

\* A served save keeps the invariant.
LEMMA ServedKeeps == ASSUME StormInv, NEW f \in File, SaveServed(f) PROVE StormInv'
  BY ServedLinks, ServedTypes, ServedOwn, ServedKnown, ServedNote DEF StormInv

-----------------------------------------------------------------------------
(* Edits, Undo and Redo.                                                   *)

\* What an edit to the values does to the store of a file.
EditedStore(s, s2) ==
  /\ s2.dirty /\ s2.baseline = s.baseline
  /\ s2.call = Touched(s.call) /\ s2.read = Touched(s.read)
Edited(values) ==
  /\ store' \in Stores
  /\ \A f \in File : store'[f] = store[f] \/ EditedStore(store[f], store'[f])
  /\ \A f \in File : store'[f].value = IF f \in DOMAIN values THEN values[f] ELSE store[f].value
  /\ coupled' = \/ DOMAIN values = File
                \/ coupled /\ (store["model"].dirty \/ store["model"].call # NoCall)

\* Applying values to editable stores edits them.
LEMMA AppliedShape ==
  ASSUME StormInv, NEW D, D \subseteq File, NEW values \in [D -> Value],
         \A f \in D : Editable(store, f), Applied(values)
  PROVE  Edited(values)
<1>0. /\ "model" \in File /\ "layout" \in File /\ \A f \in File : f = "model" \/ f = "layout"
      /\ DOMAIN values = D
  BY DEF File
<1>1. store \in Stores
  BY <1>0, StoreFacts
<1>2. PICK m : m = IF "model" \in D THEN SetTo(store, "model", values["model"]) ELSE store
  OBVIOUS
<1>3. store' = IF "layout" \in D THEN SetTo(m, "layout", values["layout"]) ELSE m
  BY <1>0, <1>2 DEF Applied
<1>4. /\ m \in Stores /\ m["layout"] = store["layout"]
      /\ m["model"].value = IF "model" \in D THEN values["model"] ELSE store["model"].value
      /\ m["model"] = store["model"] \/ EditedStore(store["model"], m["model"])
  <2>1. CASE "model" \notin D
    BY <1>1, <1>2, <2>1
  <2>2. CASE "model" \in D
    <3>0. values["model"] \in Value /\ Editable(store, "model")
      BY <2>2
    <3>1. m \in Stores /\ m["layout"] = store["layout"]
      BY <1>0, <1>1, <1>2, <2>2, <3>0, SetShape
    <3>2. \/ m = store /\ values["model"] = store["model"].value
          \/ /\ m["model"].value = values["model"] /\ m["model"].dirty
             /\ m["model"].baseline = store["model"].baseline
             /\ m["model"].call = Touched(store["model"].call)
             /\ m["model"].read = Touched(store["model"].read)
      BY <1>0, <1>1, <1>2, <2>2, <3>0, SetShape
    <3> QED BY <2>2, <3>1, <3>2 DEF EditedStore
  <2> QED BY <2>1, <2>2
<1>5. /\ store' \in Stores /\ store'["model"] = m["model"]
      /\ store'["layout"].value = IF "layout" \in D THEN values["layout"] ELSE store["layout"].value
      /\ store'["layout"] = store["layout"] \/ EditedStore(store["layout"], store'["layout"])
  <2>1. CASE "layout" \notin D
    BY <1>3, <1>4, <2>1
  <2>2. CASE "layout" \in D
    <3>0. values["layout"] \in Value /\ Editable(m, "layout")
      BY <1>4, <2>2 DEF Editable
    <3>1. store' \in Stores /\ store'["model"] = m["model"]
      BY <1>0, <1>3, <1>4, <2>2, <3>0, SetShape
    <3>2. \/ store' = m /\ values["layout"] = m["layout"].value
          \/ /\ store'["layout"].value = values["layout"] /\ store'["layout"].dirty
             /\ store'["layout"].baseline = m["layout"].baseline
             /\ store'["layout"].call = Touched(m["layout"].call)
             /\ store'["layout"].read = Touched(m["layout"].read)
      BY <1>0, <1>3, <1>4, <2>2, <3>0, SetShape
    <3> QED BY <1>4, <2>2, <3>1, <3>2 DEF EditedStore
  <2> QED BY <2>1, <2>2
<1>6. coupled' = \/ DOMAIN values = File
                 \/ coupled /\ (store["model"].dirty \/ store["model"].call # NoCall)
  BY DEF Applied, Saving
<1> HIDE DEF Edited
<1>7. \A f \in File : store'[f] = store[f] \/ EditedStore(store[f], store'[f])
  BY <1>0, <1>4, <1>5
<1>8. \A f \in File : store'[f].value = IF f \in D THEN values[f] ELSE store[f].value
  BY <1>0, <1>4, <1>5
<1> QED BY <1>0, <1>5, <1>6, <1>7, <1>8 DEF Edited

\* What an edit leaves of the requests under way.
LEMMA EditedRequests ==
  ASSUME StormInv, NEW values, Edited(values), NEW f \in File
  PROVE  /\ store'[f].baseline = store[f].baseline
         /\ store[f].dirty => store'[f].dirty
         /\ (store'[f].call = NoCall <=> store[f].call = NoCall)
         /\ (store'[f].read = NoCall <=> store[f].read = NoCall)
         /\ store[f].read # NoCall => store'[f].read.content = store[f].read.content
         /\ store[f].call # NoCall => /\ store'[f].call.at = store[f].call.at
                                      /\ store'[f].call.value = store[f].call.value
                                      /\ store'[f].call.hash = store[f].call.hash
         /\ store'[f] # store[f] =>
              store'[f].dirty /\ (store[f].call # NoCall => store'[f].call.edited)
<1>1. store[f].read \in ReadState /\ store[f].call \in CallState
  BY StoreFacts
<1>2. CASE store'[f] = store[f]
  BY <1>2
<1>3. CASE EditedStore(store[f], store'[f])
  BY <1>1, <1>3, TouchedCall, TouchedRead DEF EditedStore
<1> QED BY <1>2, <1>3 DEF Edited

\* An edit answers no save.
CallsKept == \A f \in File : store'[f].call.at = store[f].call.at

\* An edit marks the requests under way and changes nothing else of them.
LEMMA EditedCalls == ASSUME StormInv, NEW values, Edited(values) PROVE CallsKept
<1> SUFFICES ASSUME NEW f \in File PROVE store'[f].call.at = store[f].call.at
  BY DEF CallsKept
<1>1. CASE store[f].call = NoCall
  BY <1>1, EditedRequests
<1>2. CASE store[f].call # NoCall
  BY <1>2, EditedRequests
<1> QED BY <1>1, <1>2

\* The values an edit writes are on the baselines, and the files can be edited.
Suits(values) ==
  \A f \in DOMAIN values :
    /\ store[f].baseline # {} /\ \A h \in store[f].baseline : Agrees(values[f], h)

\* Values that suit the baselines leave the drafts their baseline's.
LEMMA EditedOwn ==
  ASSUME StormInv, NEW values, Edited(values), Suits(values), DOMAIN values \subseteq File
  PROVE  \A f \in File : OwnStore(store'[f])
<1> SUFFICES ASSUME NEW f \in File PROVE OwnStore(store'[f])
  OBVIOUS
<1>1. OwnStore(store[f])
  BY StoreFacts
<1>2. CASE store'[f] = store[f]
  BY <1>1, <1>2
<1>3. CASE store'[f] # store[f]
  <2>1. store'[f].dirty /\ store'[f].baseline = store[f].baseline
    BY <1>3, EditedRequests
  <2>2. \/ f \in DOMAIN values /\ store'[f].value = values[f]
        \/ store'[f].value = store[f].value
    BY DEF Edited
  <2>3. (\A h \in store'[f].baseline : Agrees(store'[f].value, h))
        /\ (store'[f].baseline = {} => store'[f].value = {})
    BY <1>1, <2>1, <2>2 DEF Suits, OwnStore
  <2>4. store'[f].call # NoCall =>
          /\ store[f].call # NoCall
          /\ store'[f].read = NoCall /\ store'[f].call.hash = store[f].call.hash
          /\ store'[f].call.value = store[f].call.value /\ store'[f].call.edited
    BY <1>1, <1>3, EditedRequests DEF OwnStore
  <2> QED BY <1>1, <2>1, <2>3, <2>4 DEF OwnStore
<1> QED BY <1>2, <1>3

\* An edit teaches the workspace nothing of model.json.
LEMMA EditedKnown ==
  ASSUME StormInv, NEW values, Edited(values), UNCHANGED <<model, everModel>>
  PROVE  Known'
<1>1. "model" \in File /\ Known
  BY DEF File, StormInv
<1>2. store'["model"].baseline = store["model"].baseline
  BY <1>1, EditedRequests
<1>3. store'["model"].read # NoCall => store'["model"].read.content \subseteq everModel
  BY <1>1, EditedRequests DEF Known
<1>4. store'["model"].call.at = "ok" => store'["model"].call.value \subseteq everModel
  <2>1. store'["model"].call.at = "ok" => store'["model"].call # NoCall
    BY DEF NoCall
  <2> QED BY <1>1, <2>1, EditedRequests DEF Known
<1> QED BY <1>1, <1>2, <1>3, <1>4 DEF Known

\* A note that is in neither the values nor the stores stays away from them.
LEMMA EditedNowhere ==
  ASSUME StormInv, NEW values, Edited(values), NEW n \in Note, Nowhere(n),
         ~Holds(values, n), NEW f \in File
  PROVE  /\ n \notin store'[f].value
         /\ store'[f].read # NoCall => n \notin store'[f].read.content
         /\ store'[f].call # NoCall => n \notin store'[f].call.value
<1>1. n \notin store'[f].value
  BY DEF Edited, Nowhere, Holds
<1> QED BY <1>1, EditedRequests DEF Nowhere

\* A note that waits goes on waiting, when the values have it whole and an
\* edit of one file does not bring or take it.
LEMMA EditedWaits ==
  ASSUME StormInv, NEW values, Edited(values), DOMAIN values \subseteq File,
         NEW n \in Note, Waits(n), OneBit(values, n),
         DOMAIN values # File =>
           \A f \in DOMAIN values : n \in values[f] <=> n \in store["model"].value,
         layout' = layout, Chained(n)'
  PROVE  Waits(n)'
<1>0. "model" \in File /\ "layout" \in File
  BY DEF File
<1>1. /\ n \in store["model"].value <=> n \in store["layout"].value
      /\ n \in store["model"].value =>
           coupled /\ (store["model"].dirty \/ store["model"].call # NoCall)
      /\ n \notin layout
      /\ store["layout"].call.at = "sent" => n \notin store["layout"].call.value
  BY DEF Waits
<1>2. n \in store'["model"].value <=> n \in store'["layout"].value
  <2>1. CASE DOMAIN values = File
    BY <1>0, <2>1 DEF Edited, OneBit
  <2>2. CASE DOMAIN values # File
    BY <1>0, <1>1, <2>2 DEF Edited
  <2> QED BY <2>1, <2>2
<1>3. ASSUME n \in store'["model"].value
      PROVE  coupled' /\ (store'["model"].dirty \/ store'["model"].call # NoCall)
  <2>1. CASE store'["model"] # store["model"]
    <3>1. store'["model"].dirty
      BY <1>0, <2>1, EditedRequests
    <3>2. DOMAIN values = File \/ n \in store["model"].value
      BY <1>0, <1>3 DEF Edited
    <3> QED BY <1>1, <3>1, <3>2 DEF Edited
  <2>2. CASE store'["model"] = store["model"]
    BY <1>1, <1>3, <2>2 DEF Edited
  <2> QED BY <2>1, <2>2
<1>4. store'["layout"].call.at = "sent" => n \notin store'["layout"].call.value
  <2>1. store'["layout"].call.at = "sent" => store'["layout"].call # NoCall
    BY DEF NoCall
  <2> QED BY <1>0, <1>1, <2>1, EditedRequests
<1> QED BY <1>1, <1>2, <1>3, <1>4 DEF Waits

\* What edit() does when it takes effect.
Before(D) == [f \in D |-> store[f].value]

\* What edit() does: the changed files become an entry of Undo.
LEMMA EditsShape ==
  ASSUME StormInv, NEW result \in [File -> Value], Edits(result), NEW D, D = Changed(result),
         NEW values, values = Restrict(result, D)
  PROVE  /\ D \subseteq File /\ D # {} /\ values \in [D -> Value]
         /\ \A f \in D : values[f] = result[f] /\ Editable(store, f)
         /\ \A f \in File : result[f] = store[f].value \/ ~Editable(store, f) \/ f \in D
         /\ Editable(store, "model")
         /\ Edited(values)
         /\ past' = Append(past, [before |-> Before(D), after |-> values]) /\ future' = <<>>
         /\ UNCHANGED <<documents, waiting, locked, unlocked, everModel>>
<1>1. D \subseteq File /\ \A f \in D : Editable(store, f)
  BY DEF Changed
<1>2. values \in [D -> Value] /\ \A f \in D : values[f] = result[f]
  BY <1>1 DEF Restrict
<1>3. Applied(values) /\ D # {} /\ Editable(store, "model")
      /\ UNCHANGED <<documents, waiting, locked, unlocked, everModel>>
      /\ future' = <<>>
  BY DEF Edits
<1>4. past' = Append(past, [before |-> Before(D), after |-> values])
  BY DEF Edits, Before
<1>5. Edited(values)
  BY <1>1, <1>2, <1>3, AppliedShape
<1>6. \A f \in File : result[f] = store[f].value \/ ~Editable(store, f) \/ f \in D
  BY DEF Changed
<1> QED BY <1>1, <1>2, <1>3, <1>4, <1>5, <1>6

\* An edit that leaves what others wrote keeps all but the notes' part.
LEMMA EditsKeep ==
  ASSUME StormInv, NEW result \in [File -> Value], Edits(result),
         \A f \in File : Agrees(result[f], store[f].value)
  PROVE  StormTypes' /\ Own' /\ Known' /\ Links' /\ CallsKept
<1>1. PICK D, values : D = Changed(result) /\ values = Restrict(result, D)
  OBVIOUS
<1>2. /\ D \subseteq File /\ values \in [D -> Value]
      /\ \A f \in D : values[f] = result[f] /\ Editable(store, f)
      /\ Edited(values)
      /\ past' = Append(past, [before |-> Before(D), after |-> values]) /\ future' = <<>>
      /\ UNCHANGED <<documents, waiting, locked, unlocked, everModel>>
  BY <1>1, EditsShape
<1> DEFINE e == [before |-> Before(D), after |-> values]
<1>3. Before(D) \in [D -> Value]
  BY <1>2, StoreFacts DEF Before
<1>4. e \in Entry /\ e.before = Before(D) /\ e.after = values
  BY <1>2, <1>3 DEF Entry
<1>5. DOMAIN e.before = D /\ DOMAIN e.after = D
  BY <1>2, <1>3, <1>4
<1>6. past \in Seq(Entry)
  BY DEF StormInv, StormTypes
<1> HIDE DEF e
<1>7. /\ past' = Append(past, e) /\ past' \in Seq(Entry)
      /\ \A i \in DOMAIN past' : (i \in DOMAIN past /\ past'[i] = past[i]) \/ past'[i] = e
      /\ future' \in Seq(Entry) /\ DOMAIN future' = {}
  BY <1>2, <1>4, <1>6 DEF e
<1>8. Suits(values)
  <2> SUFFICES ASSUME NEW f \in D
               PROVE  /\ store[f].baseline # {}
                      /\ \A h \in store[f].baseline : Agrees(values[f], h)
    BY <1>2 DEF Suits
  <2>1. store[f].baseline # {}
    BY <1>2 DEF Editable
  <2>2. \A h \in store[f].baseline : Agrees(store[f].value, h)
    BY <1>2, StoreFacts DEF OwnStore
  <2>3. Agrees(values[f], store[f].value)
    BY <1>2
  <2> QED BY <2>1, <2>2, <2>3 DEF Agrees
<1>9. \A f \in File : OwnStore(store'[f])
  BY <1>2, <1>8, EditedOwn
<1>10. \A f \in File : store'[f].baseline = store[f].baseline
  BY <1>2, EditedRequests
<1>11. OwnEntry(e, store')
  <2> SUFFICES ASSUME NEW f \in D
               PROVE  /\ store'[f].baseline # {}
                      /\ \A h \in store'[f].baseline : Agrees(e.before[f], h) /\ Agrees(e.after[f], h)
    BY <1>5 DEF OwnEntry
  <2>1. e.before[f] = store[f].value /\ e.after[f] = values[f]
    BY <1>4 DEF Before
  <2>2. /\ store[f].baseline # {}
        /\ \A h \in store[f].baseline : Agrees(values[f], h) /\ Agrees(store[f].value, h)
    BY <1>2, <1>8, StoreFacts DEF Suits, OwnStore
  <2> QED BY <1>2, <1>10, <2>1, <2>2
<1>12. \A i \in DOMAIN past : OwnEntry(past[i], store')
  BY <1>10, EntryKept, EntryFiles DEF StormInv, Own
<1>13. \A i \in DOMAIN past' : OwnEntry(past'[i], store')
  BY <1>7, <1>11, <1>12
<1>14. Own'
  BY <1>7, <1>9, <1>13 DEF Own
<1>15. Known'
  BY <1>2, EditedKnown DEF documents, onDisk, loose
<1>16. Links'
  BY <1>2 DEF StormInv, Links, documents, onDisk, loose
<1>17. StormTypes'
  <2>1. coupled' \in BOOLEAN
    BY <1>2 DEF Edited
  <2>2. store' \in [File -> StoreState]
    BY <1>2 DEF Edited, Stores
  <2>3. \A i \in DOMAIN past' : DOMAIN past'[i].before = DOMAIN past'[i].after
    BY <1>5, <1>7 DEF StormInv, StormTypes
  <2>4. model' \in [facts : Value, valid : BOOLEAN] /\ layout' \in Value
        /\ {waiting', locked', unlocked', runActive'} \subseteq BOOLEAN
    BY <1>2, Flags DEF StormInv, StormTypes, documents, onDisk, loose
  <2> QED BY <1>7, <2>1, <2>2, <2>3, <2>4 DEF StormTypes
<1>18. CallsKept
  BY <1>2, EditedCalls
<1> QED BY <1>14, <1>15, <1>16, <1>17, <1>18

\* A note nobody added waits: it is in no draft.
LEMMA NowhereWaits == ASSUME NEW n \in Note, Nowhere(n), StormInv PROVE Waits(n)
<1>1. "model" \in File /\ "layout" \in File
  BY DEF File
<1>2. n \notin store["model"].value /\ n \notin store["layout"].value /\ n \notin layout
      /\ (store["layout"].call # NoCall => n \notin store["layout"].call.value)
  BY <1>1 DEF Nowhere
<1>3. store["layout"].call.at = "sent" => store["layout"].call # NoCall
  BY DEF NoCall
<1>4. /\ \A i \in DOMAIN past : ~Holds(past[i].before, n) /\ ~Holds(past[i].after, n)
      /\ \A i \in DOMAIN future : ~Holds(future[i].before, n) /\ ~Holds(future[i].after, n)
  BY DEF Nowhere
<1>5. \A values : ~Holds(values, n) => OneBit(values, n)
  BY DEF Holds, OneBit
<1>6. past \in Seq(Entry) /\ future \in Seq(Entry)
  BY DEF StormInv, StormTypes
<1>7. (past # <<>> => Len(past) \in DOMAIN past) /\ (future # <<>> => Len(future) \in DOMAIN future)
  BY <1>6
<1>8. Chained(n)
  BY <1>2, <1>4, <1>5, <1>7 DEF Chained, Plain
<1> QED BY <1>2, <1>3, <1>8 DEF Waits

\* An edit without a note leaves it nowhere.
LEMMA EditsNowhere ==
  ASSUME StormInv, NEW result \in [File -> Value], Edits(result), NEW n \in Note, Nowhere(n),
         \A f \in File : n \notin result[f]
  PROVE  Nowhere(n)'
<1>1. PICK D, values : D = Changed(result) /\ values = Restrict(result, D)
  OBVIOUS
<1>2. /\ D \subseteq File /\ values \in [D -> Value]
      /\ \A f \in D : values[f] = result[f]
      /\ Edited(values)
      /\ past' = Append(past, [before |-> Before(D), after |-> values]) /\ future' = <<>>
      /\ UNCHANGED <<documents, everModel>>
  BY <1>1, EditsShape
<1>3. ~Holds(values, n) /\ ~Holds(Before(D), n)
  BY <1>2 DEF Holds, Before, Nowhere
<1>4. past \in Seq(Entry)
  BY DEF StormInv, StormTypes
<1>5. \A i \in DOMAIN past' :
        \/ i \in DOMAIN past /\ past'[i] = past[i]
        \/ past'[i].before = Before(D) /\ past'[i].after = values
  BY <1>2, <1>4
<1>6. \A i \in DOMAIN past' : ~Holds(past'[i].before, n) /\ ~Holds(past'[i].after, n)
  BY <1>3, <1>5 DEF Nowhere
<1>7. DOMAIN future' = {}
  BY <1>2
<1>8. n \notin everModel' /\ n \notin layout'
  BY <1>2 DEF Nowhere, documents, onDisk, loose
<1> QED BY <1>2, <1>3, <1>6, <1>7, <1>8, EditedNowhere DEF Nowhere

\* An edit that treats both files alike keeps a note waiting.
LEMMA EditsWaits ==
  ASSUME StormInv, NEW result \in [File -> Value], Edits(result), NEW n \in Note, Waits(n),
         n \in result["model"] <=> n \in result["layout"],
         Changed(result) # File => (n \in result["model"] <=> n \in store["model"].value)
  PROVE  Waits(n)'
<1>0. "model" \in File /\ "layout" \in File /\ \A f \in File : f = "model" \/ f = "layout"
  BY DEF File
<1>1. PICK D, values : D = Changed(result) /\ values = Restrict(result, D)
  OBVIOUS
<1>2. /\ D \subseteq File /\ D # {} /\ values \in [D -> Value]
      /\ \A f \in D : values[f] = result[f]
      /\ Edited(values)
      /\ past' = Append(past, [before |-> Before(D), after |-> values]) /\ future' = <<>>
      /\ UNCHANGED <<documents, everModel>>
  BY <1>1, EditsShape
<1>3. n \in store["model"].value <=> n \in store["layout"].value
  BY DEF Waits
<1>4. /\ \A f \in D : n \in values[f] <=> n \in result["model"]
      /\ \A f \in D : n \in Before(D)[f] <=> n \in store["model"].value
  BY <1>0, <1>2, <1>3 DEF Before
<1>5. DOMAIN values = D /\ DOMAIN Before(D) = D
  BY <1>2 DEF Before
<1>6. /\ Holds(values, n) <=> n \in result["model"]
      /\ Holds(Before(D), n) <=> n \in store["model"].value
      /\ OneBit(values, n) /\ OneBit(Before(D), n)
  BY <1>2, <1>4, <1>5 DEF Holds, OneBit
<1>7. n \in store'["model"].value <=> n \in result["model"]
  <2>1. CASE "model" \in D
    BY <1>0, <1>2, <1>5, <2>1 DEF Edited
  <2>2. CASE "model" \notin D
    BY <1>0, <1>1, <1>2, <1>5, <2>2 DEF Edited
  <2> QED BY <2>1, <2>2
<1> DEFINE e == [before |-> Before(D), after |-> values]
<1>8. e.before = Before(D) /\ e.after = values
  OBVIOUS
<1>9. Plain(e, n)
  <2>1. D # File => (Holds(e.before, n) <=> Holds(e.after, n))
    BY <1>1, <1>6, <1>8
  <2> QED BY <1>5, <1>6, <1>8, <2>1 DEF Plain
<1>10. past \in Seq(Entry)
  BY DEF StormInv, StormTypes
<1> HIDE DEF e
<1>11. /\ Len(past) \in Nat /\ DOMAIN past = 1..Len(past)
       /\ DOMAIN past' = 1..(Len(past) + 1) /\ Len(past') = Len(past) + 1
       /\ past'[Len(past) + 1] = e
       /\ \A i \in 1..Len(past) : past'[i] = past[i]
       /\ past # <<>> <=> Len(past) # 0
  BY <1>2, <1>10 DEF e
<1>12. Chained(n)'
  <2>1. \A i \in DOMAIN past' : Plain(past'[i], n)
    BY <1>9, <1>11 DEF Waits, Chained
  <2>2. ASSUME NEW i \in DOMAIN past', i + 1 \in DOMAIN past'
        PROVE  Holds(past'[i].after, n) <=> Holds(past'[i + 1].before, n)
    <3>1. CASE i + 1 \in 1..Len(past)
      BY <1>11, <2>2, <3>1 DEF Waits, Chained
    <3>2. CASE i + 1 = Len(past) + 1
      <4>1. i = Len(past) /\ past # <<>>
        BY <1>11, <2>2, <3>2
      <4>2. Holds(past[Len(past)].after, n) <=> n \in store["model"].value
        BY <4>1 DEF Waits, Chained
      <4>3. past'[i] = past[Len(past)] /\ past'[i + 1] = e
        BY <1>11, <2>2, <4>1
      <4> QED BY <1>6, <1>8, <4>2, <4>3
    <3> QED BY <1>11, <2>2, <3>1, <3>2
  <2>3. Holds(past'[Len(past')].after, n) <=> n \in store'["model"].value
    BY <1>6, <1>7, <1>8, <1>11
  <2>4. DOMAIN future' = {}
    BY <1>2
  <2> QED BY <1>2, <2>1, <2>2, <2>3, <2>4 DEF Chained
<1>13. D # File => \A f \in DOMAIN values : n \in values[f] <=> n \in store["model"].value
  BY <1>1, <1>4, <1>5
<1> QED BY <1>2, <1>5, <1>6, <1>12, <1>13, EditedWaits DEF documents, onDisk, loose

\* What the user's edits write.
LEMMA EditNotes ==
  ASSUME StormInv, NEW result \in [File -> Value], Edits(result), made' = made,
         \A n \in Note : /\ n \in result["model"] <=> n \in store["model"].value
                         /\ \/ result["layout"] = store["layout"].value
                            \/ n \in result["layout"] <=>
                                 n \in store["layout"].value \/ n \in store["model"].value
  PROVE  \A n \in Note : NoteInv(n)'
<1> SUFFICES ASSUME NEW n \in Note PROVE NoteInv(n)'
  OBVIOUS
<1>0. "model" \in File /\ "layout" \in File /\ \A f \in File : f = "model" \/ f = "layout"
  BY DEF File
<1>1. NoteInv(n) /\ everModel' = everModel
  BY DEF StormInv, Edits
<1>2. /\ n \in result["model"] <=> n \in store["model"].value
      /\ \/ n \in result["layout"] <=> n \in store["layout"].value
         \/ n \in result["layout"] <=> n \in store["layout"].value \/ n \in store["model"].value
  OBVIOUS
<1>3. ASSUME Nowhere(n) PROVE Nowhere(n)'
  <2>1. n \notin result["model"] /\ n \notin result["layout"]
    BY <1>0, <1>2, <1>3 DEF Nowhere
  <2>2. \A f \in File : n \notin result[f]
    BY <1>0, <2>1
  <2> QED BY <1>3, <2>2, EditsNowhere
<1>4. ASSUME Waits(n) PROVE Waits(n)'
  <2>1. n \in store["model"].value <=> n \in store["layout"].value
    BY <1>4 DEF Waits
  <2>2. n \in result["model"] <=> n \in result["layout"]
    BY <1>2, <2>1
  <2> QED BY <1>2, <1>4, <2>2, EditsWaits
<1> QED BY <1>1, <1>3, <1>4 DEF NoteInv

\* The drafts are values, and notes, links, moves and what others write differ.
LEMMA NoteValues ==
  ASSUME StormInv
  PROVE  /\ store["model"].value \in Value /\ store["layout"].value \in Value
         /\ \A n \in Note : n \in Fact /\ n \in Placement /\ n \notin Foreign
                            /\ n \notin Link /\ n \notin Move
         /\ \A x \in Link : x \in Fact /\ x \notin Foreign
         /\ \A m \in Move : m \in Placement /\ m \notin Foreign
<1>1. "model" \in File /\ "layout" \in File
  BY DEF File
<1> QED BY <1>1, StoreFacts, EditorAssumption

\* A link goes into the model's draft or out of it.
LEMMA TogglesLinkKeeps ==
  ASSUME StormInv, NEW x \in Link, TogglesLink(x)
  PROVE  StormInv' /\ CallsKept
<1> DEFINE facts == Toggle(store["model"].value, x)
<1>1. PICK result : result = [model |-> facts, layout |-> store["layout"].value]
  OBVIOUS
<1>2. Edits(result) /\ made' = made
  BY <1>1 DEF TogglesLink
<1>3. /\ \A y : y # x => (y \in facts <=> y \in store["model"].value)
      /\ facts \subseteq store["model"].value \cup {x}
  BY DEF Toggle
<1> HIDE DEF facts
<1>4. facts \in Value
  BY <1>3, NoteValues DEF Value
<1>5. result \in [File -> Value] /\ result["model"] = facts /\ result["layout"] = store["layout"].value
  BY <1>1, <1>4, NoteValues DEF File
<1>6. Agrees(facts, store["model"].value)
  BY <1>3, NoteValues DEF Agrees
<1>7. \A f \in File : Agrees(result[f], store[f].value)
  BY <1>5, <1>6 DEF Agrees, File
<1>8. \A n \in Note : n \in result["model"] <=> n \in store["model"].value
  BY <1>3, <1>5, NoteValues
<1>9. \A n \in Note : NoteInv(n)'
  BY <1>2, <1>5, <1>8, EditNotes
<1> QED BY <1>2, <1>5, <1>7, <1>9, EditsKeep DEF StormInv

\* A card moves in the layout's draft alone.
LEMMA MovesCardKeeps ==
  ASSUME StormInv, NEW m \in Move, MovesCard(m)
  PROVE  StormInv' /\ CallsKept
<1> DEFINE places == Toggle(store["layout"].value, m) \cup (store["model"].value \cap Note)
<1>1. PICK result : result = [model |-> store["model"].value, layout |-> places]
  OBVIOUS
<1>2. Edits(result) /\ made' = made
  BY <1>1 DEF MovesCard
<1>3. /\ \A y : y # m /\ y \notin Note => (y \in places <=> y \in store["layout"].value)
      /\ \A n \in Note : n # m =>
           (n \in places <=> n \in store["layout"].value \/ n \in store["model"].value)
      /\ places \subseteq store["layout"].value \cup {m} \cup Note
  BY DEF Toggle
<1> HIDE DEF places
<1>4. places \in Value
  BY <1>3, NoteValues DEF Value
<1>5. result \in [File -> Value] /\ result["model"] = store["model"].value /\ result["layout"] = places
  BY <1>1, <1>4, NoteValues DEF File
<1>6. Agrees(places, store["layout"].value)
  BY <1>3, NoteValues DEF Agrees
<1>7. \A f \in File : Agrees(result[f], store[f].value)
  BY <1>5, <1>6 DEF Agrees, File
<1>8. \A n \in Note :
        n \in result["layout"] <=> n \in store["layout"].value \/ n \in store["model"].value
  BY <1>3, <1>5, NoteValues
<1>9. \A n \in Note : NoteInv(n)'
  BY <1>2, <1>5, <1>8, EditNotes
<1> QED BY <1>2, <1>5, <1>7, <1>9, EditsKeep DEF StormInv

\* A new note enters both drafts, and its history begins.
LEMMA AddsNoteKeeps ==
  ASSUME StormInv, NEW k \in Note, AddsNote(k)
  PROVE  StormInv' /\ CallsKept
<1> DEFINE facts == store["model"].value \cup {k}
           places == store["layout"].value \cup (facts \cap Note)
<1>0. "model" \in File /\ "layout" \in File /\ \A f \in File : f = "model" \/ f = "layout"
  BY DEF File
<1>1. PICK result : result = [model |-> facts, layout |-> places]
  OBVIOUS
<1>2. Edits(result) /\ k \notin DOMAIN made /\ made' = With(made, k, Changed(result))
  BY <1>1 DEF AddsNote
<1>3. /\ \A y : y # k => (y \in facts <=> y \in store["model"].value)
      /\ \A y : y \notin Note => (y \in places <=> y \in store["layout"].value)
      /\ \A n \in Note : n # k =>
           (n \in places <=> n \in store["layout"].value \/ n \in store["model"].value)
      /\ k \in facts /\ k \in places
  OBVIOUS
<1>4. facts \in Value /\ places \in Value
  BY NoteValues DEF Value
<1> HIDE DEF facts, places
<1>5. result \in [File -> Value] /\ result["model"] = facts /\ result["layout"] = places
  BY <1>1, <1>4 DEF File
<1>6. Agrees(facts, store["model"].value) /\ Agrees(places, store["layout"].value)
  BY <1>3, NoteValues DEF Agrees
<1>7. \A f \in File : Agrees(result[f], store[f].value)
  BY <1>0, <1>5, <1>6
<1>8. Nowhere(k)
  BY <1>2 DEF StormInv, NoteInv
<1>9. /\ DOMAIN made' = DOMAIN made \cup {k} /\ made'[k] = Changed(result)
      /\ \A n \in DOMAIN made : made'[n] = made[n]
      /\ everModel' = everModel
  BY <1>2 DEF With, Edits
<1>10. ASSUME NEW n \in Note PROVE NoteInv(n)'
  <2>0. NoteInv(n)
    BY DEF StormInv
  <2>1. CASE n = k
    <3>1. File \subseteq Changed(result) => Waits(k)'
      <4>0. Changed(result) \subseteq File
        BY DEF Changed
      <4>1. Waits(k)
        BY <1>8, NowhereWaits
      <4>2. k \in result["model"] /\ k \in result["layout"]
        BY <1>3, <1>5
      <4> QED BY <1>2, <1>5, <4>0, <4>1, <4>2, EditsWaits
    <3> QED BY <1>9, <2>1, <3>1 DEF NoteInv
  <2>2. CASE n # k
    <3>1. /\ n \in result["model"] <=> n \in store["model"].value
          /\ n \in result["layout"] <=> n \in store["layout"].value \/ n \in store["model"].value
      BY <1>3, <1>5, <2>2
    <3>2. ASSUME Nowhere(n) PROVE Nowhere(n)'
      <4>1. \A f \in File : n \notin result[f]
        BY <1>0, <3>1, <3>2 DEF Nowhere
      <4> QED BY <1>2, <1>5, <3>2, <4>1, EditsNowhere
    <3>3. ASSUME Waits(n) PROVE Waits(n)'
      <4>1. n \in result["model"] <=> n \in result["layout"]
        BY <3>1, <3>3 DEF Waits
      <4> QED BY <1>2, <1>5, <3>1, <3>3, <4>1, EditsWaits
    <3> QED BY <1>9, <2>0, <2>2, <3>2, <3>3 DEF NoteInv
  <2> QED BY <2>1, <2>2
<1> QED BY <1>2, <1>5, <1>7, <1>10, EditsKeep DEF StormInv

\* A note leaves the drafts that can be edited.
LEMMA RemovesNoteKeeps ==
  ASSUME StormInv, NEW k \in Note, RemovesNote(k)
  PROVE  StormInv' /\ CallsKept
<1> DEFINE facts == store["model"].value \ {k}
           places == store["layout"].value \ {k}
<1>0. "model" \in File /\ "layout" \in File /\ \A f \in File : f = "model" \/ f = "layout"
  BY DEF File
<1>1. PICK result : result = [model |-> facts, layout |-> places]
  OBVIOUS
<1>2. Edits(result) /\ k \in store["model"].value
      /\ made' = [made EXCEPT ![k] = @ \cap Changed(result)]
  BY <1>1 DEF RemovesNote
<1>3. /\ \A y : y # k => (y \in facts <=> y \in store["model"].value)
      /\ \A y : y # k => (y \in places <=> y \in store["layout"].value)
      /\ k \notin facts /\ k \notin places
  OBVIOUS
<1>4. facts \in Value /\ places \in Value
  BY NoteValues DEF Value
<1> HIDE DEF facts, places
<1>5. result \in [File -> Value] /\ result["model"] = facts /\ result["layout"] = places
  BY <1>1, <1>4 DEF File
<1>6. Agrees(facts, store["model"].value) /\ Agrees(places, store["layout"].value)
  BY <1>3, NoteValues DEF Agrees
<1>7. \A f \in File : Agrees(result[f], store[f].value)
  BY <1>0, <1>5, <1>6
<1>9. /\ DOMAIN made' = DOMAIN made
      /\ k \in DOMAIN made => made'[k] = made[k] \cap Changed(result)
      /\ \A n \in DOMAIN made : n # k => made'[n] = made[n]
      /\ everModel' = everModel /\ Changed(result) \subseteq File
  BY <1>2 DEF Edits, Changed
<1>10. ASSUME NEW n \in Note PROVE NoteInv(n)'
  <2>0. NoteInv(n)
    BY DEF StormInv
  <2>1. CASE n = k
    <3>1. k \in DOMAIN made
      BY <1>0, <1>2, <2>0, <2>1 DEF NoteInv, Nowhere
    <3>2. ASSUME File \subseteq made'[k] PROVE File \subseteq made[k] /\ Changed(result) = File
      BY <1>9, <3>1, <3>2
    <3>3. ASSUME Changed(result) = File, Waits(k) PROVE Waits(k)'
      BY <1>2, <1>3, <1>5, <3>3, EditsWaits
    <3> QED BY <1>9, <2>0, <2>1, <3>1, <3>2, <3>3 DEF NoteInv
  <2>2. CASE n # k
    <3>1. /\ n \in result["model"] <=> n \in store["model"].value
          /\ n \in result["layout"] <=> n \in store["layout"].value
      BY <1>3, <1>5, <2>2
    <3>2. ASSUME Nowhere(n) PROVE Nowhere(n)'
      <4>1. \A f \in File : n \notin result[f]
        BY <1>0, <3>1, <3>2 DEF Nowhere
      <4> QED BY <1>2, <1>5, <3>2, <4>1, EditsNowhere
    <3>3. ASSUME Waits(n) PROVE Waits(n)'
      <4>1. n \in result["model"] <=> n \in result["layout"]
        BY <3>1, <3>3 DEF Waits
      <4> QED BY <1>2, <1>5, <3>1, <3>3, <4>1, EditsWaits
    <3> QED BY <1>9, <2>0, <2>2, <3>2, <3>3 DEF NoteInv
  <2> QED BY <2>1, <2>2
<1> QED BY <1>2, <1>5, <1>7, <1>10, EditsKeep DEF StormInv

\* Undo puts the last entry back, and finds its notes as it left them.
LEMMA UndoKeeps == ASSUME StormInv, Undo PROVE StormInv' /\ CallsKept
<1>1. PICK e : e = Last(past)
  OBVIOUS
<1>2. /\ past # <<>> /\ Applied(e.before) /\ past' = Front(past) /\ future' = Append(future, e)
      /\ ~locked /\ \A f \in DOMAIN e.before : ~store[f].conflict
      /\ UNCHANGED <<documents, waiting, locked, unlocked, made, everModel>>
  BY <1>1, EntryFiles, LastAndFront DEF Undo, Travelable, StormInv, StormTypes
<1>3. past \in Seq(Entry) /\ future \in Seq(Entry)
  BY DEF StormInv, StormTypes
<1>4. /\ Len(past) \in DOMAIN past /\ e = past[Len(past)]
      /\ past' \in Seq(Entry) /\ Len(past') = Len(past) - 1
      /\ DOMAIN past' = 1..(Len(past) - 1)
      /\ \A i \in DOMAIN past' : i \in DOMAIN past /\ i # Len(past) /\ past'[i] = past[i]
  BY <1>1, <1>2, <1>3, LastAndFront
<1>5. /\ e \in Entry /\ DOMAIN e.before \subseteq File /\ DOMAIN e.after = DOMAIN e.before
      /\ OwnEntry(e, store)
  BY <1>4, EntryFiles DEF StormInv, Own
<1>6. e.before \in [DOMAIN e.before -> Value]
  <2>1. PICK D \in SUBSET File : e.before \in [D -> Value]
    BY <1>5 DEF Entry
  <2> QED BY <2>1
<1>7. \A f \in DOMAIN e.before : Editable(store, f)
  BY <1>2, <1>5 DEF Editable, OwnEntry
<1>8. Edited(e.before) /\ Suits(e.before)
  <2>1. Suits(e.before)
    BY <1>5 DEF OwnEntry, Suits
  <2> QED BY <1>2, <1>5, <1>6, <1>7, <2>1, AppliedShape
<1>9. /\ future' \in Seq(Entry) /\ Len(future) \in Nat /\ DOMAIN future = 1..Len(future)
      /\ DOMAIN future' = 1..(Len(future) + 1) /\ Len(future') = Len(future) + 1
      /\ future'[Len(future) + 1] = e /\ (future # <<>> <=> Len(future) # 0)
      /\ \A i \in 1..Len(future) : future'[i] = future[i]
  BY <1>2, <1>3, <1>5
<1>10. \A f \in File : store'[f].baseline = store[f].baseline
  BY <1>8, EditedRequests
<1>11. OwnEntry(e, store')
  BY <1>5, <1>10, StoreFacts, EntryKept
<1>12. /\ \A i \in DOMAIN past : OwnEntry(past[i], store')
       /\ \A i \in DOMAIN future : OwnEntry(future[i], store')
  BY <1>10, EntryKept, EntryFiles DEF StormInv, Own
<1>13. Own'
  <2>1. \A f \in File : OwnStore(store'[f])
    BY <1>5, <1>8, EditedOwn
  <2>2. \A i \in DOMAIN past' : OwnEntry(past'[i], store')
    BY <1>4, <1>12
  <2>3. \A i \in DOMAIN future' : OwnEntry(future'[i], store')
    BY <1>9, <1>11, <1>12
  <2> QED BY <2>1, <2>2, <2>3 DEF Own
<1>14. Known'
  BY <1>2, <1>8, EditedKnown DEF documents, onDisk, loose
<1>15. Links'
  BY <1>2 DEF StormInv, Links, documents, onDisk, loose
<1>16. StormTypes'
  <2>1. coupled' \in BOOLEAN /\ store' \in [File -> StoreState]
    BY <1>8 DEF Edited, Stores
  <2>2. \A i \in DOMAIN past' : DOMAIN past'[i].before = DOMAIN past'[i].after
    BY <1>4 DEF StormInv, StormTypes
  <2>3. \A i \in DOMAIN future' : DOMAIN future'[i].before = DOMAIN future'[i].after
    BY <1>5, <1>9 DEF StormInv, StormTypes
  <2>4. model' \in [facts : Value, valid : BOOLEAN] /\ layout' \in Value
        /\ {waiting', locked', unlocked', runActive'} \subseteq BOOLEAN
    BY <1>2, Flags DEF StormInv, StormTypes, documents, onDisk, loose
  <2> QED BY <1>4, <1>9, <2>1, <2>2, <2>3, <2>4 DEF StormTypes
<1>17. ASSUME NEW n \in Note, Nowhere(n) PROVE Nowhere(n)'
  <2>1. ~Holds(e.before, n) /\ ~Holds(e.after, n)
    BY <1>4, <1>17 DEF Nowhere
  <2>2. /\ \A i \in DOMAIN past' : ~Holds(past'[i].before, n) /\ ~Holds(past'[i].after, n)
        /\ \A i \in DOMAIN future' : ~Holds(future'[i].before, n) /\ ~Holds(future'[i].after, n)
    <3>1. \A i \in DOMAIN past' : ~Holds(past'[i].before, n) /\ ~Holds(past'[i].after, n)
      BY <1>4, <1>17 DEF Nowhere
    <3>2. \A i \in DOMAIN future' : i \in DOMAIN future \/ future'[i] = e
      BY <1>9
    <3>3. \A i \in DOMAIN future : ~Holds(future[i].before, n) /\ ~Holds(future[i].after, n)
      BY <1>17 DEF Nowhere
    <3>4. \A i \in DOMAIN future : future'[i] = future[i]
      BY <1>9
    <3> QED BY <2>1, <3>1, <3>2, <3>3, <3>4
  <2>3. n \notin everModel' /\ n \notin layout'
    BY <1>2, <1>17 DEF Nowhere, documents, onDisk, loose
  <2> QED BY <1>8, <1>17, <2>1, <2>2, <2>3, EditedNowhere DEF Nowhere
<1>18. ASSUME NEW n \in Note, Waits(n) PROVE Waits(n)'
  <2>1. Chained(n) /\ Plain(e, n) /\ (Holds(e.after, n) <=> n \in store["model"].value)
        /\ (n \in store["model"].value <=> n \in store["layout"].value)
    BY <1>2, <1>4, <1>18 DEF Waits, Chained
  <2>2. OneBit(e.before, n)
    BY <2>1 DEF Plain
  <2>3. DOMAIN e.before # File => (Holds(e.before, n) <=> n \in store["model"].value)
    BY <1>5, <2>1 DEF Plain
  <2>4. \A f \in DOMAIN e.before : n \in e.before[f] <=> Holds(e.before, n)
    BY <2>2 DEF OneBit, Holds
  <2>5. n \in store'["model"].value <=> Holds(e.before, n)
    <3>0. "model" \in File
      BY DEF File
    <3>1. CASE "model" \in DOMAIN e.before
      BY <1>8, <2>4, <3>0, <3>1 DEF Edited
    <3>2. CASE "model" \notin DOMAIN e.before
      BY <1>8, <2>3, <3>0, <3>2 DEF Edited
    <3> QED BY <3>1, <3>2
  <2>6. Chained(n)'
    <3>1. \A i \in DOMAIN past' : Plain(past'[i], n)
      BY <1>4, <2>1 DEF Chained
    <3>2. \A i \in DOMAIN future' : Plain(future'[i], n)
      BY <1>9, <2>1 DEF Chained
    <3>3. \A i \in DOMAIN past' : i + 1 \in DOMAIN past' =>
            (Holds(past'[i].after, n) <=> Holds(past'[i + 1].before, n))
      BY <1>4, <2>1 DEF Chained
    <3>4. ASSUME NEW i \in DOMAIN future', i + 1 \in DOMAIN future'
          PROVE  Holds(future'[i].before, n) <=> Holds(future'[i + 1].after, n)
      <4>1. CASE i + 1 \in 1..Len(future)
        <5>1. i \in 1..Len(future)
          BY <1>9, <3>4, <4>1
        <5> QED BY <1>9, <2>1, <4>1, <5>1 DEF Chained
      <4>2. CASE i + 1 = Len(future) + 1
        <5>1. i = Len(future) /\ future # <<>> /\ i \in 1..Len(future)
          BY <1>9, <3>4, <4>2
        <5>2. Holds(future[Len(future)].before, n) <=> n \in store["model"].value
          BY <2>1, <5>1 DEF Chained
        <5>3. future'[i] = future[Len(future)] /\ future'[i + 1] = e
          BY <1>9, <5>1
        <5> QED BY <2>1, <5>2, <5>3
      <4> QED BY <1>9, <3>4, <4>1, <4>2
    <3>5. past' # <<>> =>
            (Holds(past'[Len(past')].after, n) <=> n \in store'["model"].value)
      <4>1. SUFFICES ASSUME past' # <<>>
                     PROVE  Holds(past'[Len(past')].after, n) <=> Holds(e.before, n)
        BY <2>5
      <4>2. Len(past') \in DOMAIN past' /\ Len(past') + 1 = Len(past)
        BY <1>3, <1>4, <4>1
      <4>3. Len(past') \in DOMAIN past /\ past'[Len(past')] = past[Len(past')]
        BY <1>4, <4>2
      <4> QED BY <1>4, <2>1, <4>2, <4>3 DEF Chained
    <3>6. Holds(future'[Len(future')].before, n) <=> n \in store'["model"].value
      BY <1>9, <2>5
    <3> QED BY <3>1, <3>2, <3>3, <3>4, <3>5, <3>6 DEF Chained
  <2>7. DOMAIN e.before # File =>
          \A f \in DOMAIN e.before : n \in e.before[f] <=> n \in store["model"].value
    BY <2>3, <2>4
  <2> QED BY <1>2, <1>5, <1>8, <1>18, <2>2, <2>6, <2>7, EditedWaits DEF documents, onDisk, loose
<1>19. \A n \in Note : NoteInv(n)'
  BY <1>2, <1>17, <1>18 DEF StormInv, NoteInv
<1>20. CallsKept
  BY <1>8, EditedCalls
<1> QED BY <1>13, <1>14, <1>15, <1>16, <1>19, <1>20 DEF StormInv

\* Redo does the same the other way round.
LEMMA RedoKeeps == ASSUME StormInv, Redo PROVE StormInv' /\ CallsKept
<1>1. PICK e : e = Last(future)
  OBVIOUS
<1>2. /\ future # <<>> /\ Applied(e.after) /\ future' = Front(future) /\ past' = Append(past, e)
      /\ ~locked /\ \A f \in DOMAIN e.before : ~store[f].conflict
      /\ UNCHANGED <<documents, waiting, locked, unlocked, made, everModel>>
  BY <1>1, EntryFiles, LastAndFront DEF Redo, Travelable, StormInv, StormTypes
<1>3. future \in Seq(Entry) /\ past \in Seq(Entry)
  BY DEF StormInv, StormTypes
<1>4. /\ Len(future) \in DOMAIN future /\ e = future[Len(future)]
      /\ future' \in Seq(Entry) /\ Len(future') = Len(future) - 1
      /\ DOMAIN future' = 1..(Len(future) - 1)
      /\ \A i \in DOMAIN future' : i \in DOMAIN future /\ i # Len(future) /\ future'[i] = future[i]
  BY <1>1, <1>2, <1>3, LastAndFront
<1>5. /\ e \in Entry /\ DOMAIN e.after \subseteq File /\ DOMAIN e.before = DOMAIN e.after
      /\ OwnEntry(e, store)
  BY <1>4, EntryFiles DEF StormInv, Own
<1>6. e.after \in [DOMAIN e.after -> Value]
  <2>1. PICK D \in SUBSET File : e.after \in [D -> Value]
    BY <1>5 DEF Entry
  <2> QED BY <2>1
<1>7. \A f \in DOMAIN e.after : Editable(store, f)
  BY <1>2, <1>5 DEF Editable, OwnEntry
<1>8. Edited(e.after) /\ Suits(e.after)
  <2>1. Suits(e.after)
    BY <1>5 DEF OwnEntry, Suits
  <2> QED BY <1>2, <1>5, <1>6, <1>7, <2>1, AppliedShape
<1>9. /\ past' \in Seq(Entry) /\ Len(past) \in Nat /\ DOMAIN past = 1..Len(past)
      /\ DOMAIN past' = 1..(Len(past) + 1) /\ Len(past') = Len(past) + 1
      /\ past'[Len(past) + 1] = e /\ (past # <<>> <=> Len(past) # 0)
      /\ \A i \in 1..Len(past) : past'[i] = past[i]
  BY <1>2, <1>3, <1>5
<1>10. \A f \in File : store'[f].baseline = store[f].baseline
  BY <1>8, EditedRequests
<1>11. OwnEntry(e, store')
  BY <1>5, <1>10, StoreFacts, EntryKept
<1>12. /\ \A i \in DOMAIN future : OwnEntry(future[i], store')
       /\ \A i \in DOMAIN past : OwnEntry(past[i], store')
  BY <1>10, EntryKept, EntryFiles DEF StormInv, Own
<1>13. Own'
  <2>1. \A f \in File : OwnStore(store'[f])
    BY <1>5, <1>8, EditedOwn
  <2>2. \A i \in DOMAIN future' : OwnEntry(future'[i], store')
    BY <1>4, <1>12
  <2>3. \A i \in DOMAIN past' : OwnEntry(past'[i], store')
    BY <1>9, <1>11, <1>12
  <2> QED BY <2>1, <2>2, <2>3 DEF Own
<1>14. Known'
  BY <1>2, <1>8, EditedKnown DEF documents, onDisk, loose
<1>15. Links'
  BY <1>2 DEF StormInv, Links, documents, onDisk, loose
<1>16. StormTypes'
  <2>1. coupled' \in BOOLEAN /\ store' \in [File -> StoreState]
    BY <1>8 DEF Edited, Stores
  <2>2. \A i \in DOMAIN future' : DOMAIN future'[i].after = DOMAIN future'[i].before
    BY <1>4 DEF StormInv, StormTypes
  <2>3. \A i \in DOMAIN past' : DOMAIN past'[i].after = DOMAIN past'[i].before
    BY <1>5, <1>9 DEF StormInv, StormTypes
  <2>4. model' \in [facts : Value, valid : BOOLEAN] /\ layout' \in Value
        /\ {waiting', locked', unlocked', runActive'} \subseteq BOOLEAN
    BY <1>2, Flags DEF StormInv, StormTypes, documents, onDisk, loose
  <2> QED BY <1>4, <1>9, <2>1, <2>2, <2>3, <2>4 DEF StormTypes
<1>17. ASSUME NEW n \in Note, Nowhere(n) PROVE Nowhere(n)'
  <2>1. ~Holds(e.after, n) /\ ~Holds(e.before, n)
    BY <1>4, <1>17 DEF Nowhere
  <2>2. /\ \A i \in DOMAIN future' : ~Holds(future'[i].after, n) /\ ~Holds(future'[i].before, n)
        /\ \A i \in DOMAIN past' : ~Holds(past'[i].after, n) /\ ~Holds(past'[i].before, n)
    <3>1. \A i \in DOMAIN future' : ~Holds(future'[i].after, n) /\ ~Holds(future'[i].before, n)
      BY <1>4, <1>17 DEF Nowhere
    <3>2. \A i \in DOMAIN past' : i \in DOMAIN past \/ past'[i] = e
      BY <1>9
    <3>3. \A i \in DOMAIN past : ~Holds(past[i].after, n) /\ ~Holds(past[i].before, n)
      BY <1>17 DEF Nowhere
    <3>4. \A i \in DOMAIN past : past'[i] = past[i]
      BY <1>9
    <3> QED BY <2>1, <3>1, <3>2, <3>3, <3>4
  <2>3. n \notin everModel' /\ n \notin layout'
    BY <1>2, <1>17 DEF Nowhere, documents, onDisk, loose
  <2> QED BY <1>8, <1>17, <2>1, <2>2, <2>3, EditedNowhere DEF Nowhere
<1>18. ASSUME NEW n \in Note, Waits(n) PROVE Waits(n)'
  <2>1. Chained(n) /\ Plain(e, n) /\ (Holds(e.before, n) <=> n \in store["model"].value)
        /\ (n \in store["model"].value <=> n \in store["layout"].value)
    BY <1>2, <1>4, <1>18 DEF Waits, Chained
  <2>2. OneBit(e.after, n)
    BY <2>1 DEF Plain
  <2>3. DOMAIN e.after # File => (Holds(e.after, n) <=> n \in store["model"].value)
    BY <1>5, <2>1 DEF Plain
  <2>4. \A f \in DOMAIN e.after : n \in e.after[f] <=> Holds(e.after, n)
    BY <2>2 DEF OneBit, Holds
  <2>5. n \in store'["model"].value <=> Holds(e.after, n)
    <3>0. "model" \in File
      BY DEF File
    <3>1. CASE "model" \in DOMAIN e.after
      BY <1>8, <2>4, <3>0, <3>1 DEF Edited
    <3>2. CASE "model" \notin DOMAIN e.after
      BY <1>8, <2>3, <3>0, <3>2 DEF Edited
    <3> QED BY <3>1, <3>2
  <2>6. Chained(n)'
    <3>1. \A i \in DOMAIN future' : Plain(future'[i], n)
      BY <1>4, <2>1 DEF Chained
    <3>2. \A i \in DOMAIN past' : Plain(past'[i], n)
      BY <1>9, <2>1 DEF Chained
    <3>3. \A i \in DOMAIN future' : i + 1 \in DOMAIN future' =>
            (Holds(future'[i].before, n) <=> Holds(future'[i + 1].after, n))
      BY <1>4, <2>1 DEF Chained
    <3>4. ASSUME NEW i \in DOMAIN past', i + 1 \in DOMAIN past'
          PROVE  Holds(past'[i].after, n) <=> Holds(past'[i + 1].before, n)
      <4>1. CASE i + 1 \in 1..Len(past)
        <5>1. i \in 1..Len(past)
          BY <1>9, <3>4, <4>1
        <5> QED BY <1>9, <2>1, <4>1, <5>1 DEF Chained
      <4>2. CASE i + 1 = Len(past) + 1
        <5>1. i = Len(past) /\ past # <<>> /\ i \in 1..Len(past)
          BY <1>9, <3>4, <4>2
        <5>2. Holds(past[Len(past)].after, n) <=> n \in store["model"].value
          BY <2>1, <5>1 DEF Chained
        <5>3. past'[i] = past[Len(past)] /\ past'[i + 1] = e
          BY <1>9, <5>1
        <5> QED BY <2>1, <5>2, <5>3
      <4> QED BY <1>9, <3>4, <4>1, <4>2
    <3>5. future' # <<>> =>
            (Holds(future'[Len(future')].before, n) <=> n \in store'["model"].value)
      <4>1. SUFFICES ASSUME future' # <<>>
                     PROVE  Holds(future'[Len(future')].before, n) <=> Holds(e.after, n)
        BY <2>5
      <4>2. Len(future') \in DOMAIN future' /\ Len(future') + 1 = Len(future)
        BY <1>3, <1>4, <4>1
      <4>3. Len(future') \in DOMAIN future /\ future'[Len(future')] = future[Len(future')]
        BY <1>4, <4>2
      <4> QED BY <1>4, <2>1, <4>2, <4>3 DEF Chained
    <3>6. Holds(past'[Len(past')].after, n) <=> n \in store'["model"].value
      BY <1>9, <2>5
    <3> QED BY <3>1, <3>2, <3>3, <3>4, <3>5, <3>6 DEF Chained
  <2>7. DOMAIN e.after # File =>
          \A f \in DOMAIN e.after : n \in e.after[f] <=> n \in store["model"].value
    BY <2>3, <2>4
  <2> QED BY <1>2, <1>5, <1>8, <1>18, <2>2, <2>6, <2>7, EditedWaits DEF documents, onDisk, loose
<1>19. \A n \in Note : NoteInv(n)'
  BY <1>2, <1>17, <1>18 DEF StormInv, NoteInv
<1>20. CallsKept
  BY <1>8, EditedCalls
<1> QED BY <1>13, <1>14, <1>15, <1>16, <1>19, <1>20 DEF StormInv

-----------------------------------------------------------------------------
(* Everyone else.                                                          *)

\* A file of the others gets or loses what only they write, as far as notes
\* and links go.
OthersStep ==
  /\ model' \in [facts : Value, valid : BOOLEAN] /\ layout' \in Value /\ runActive' \in BOOLEAN
  /\ \A n \in Note : n \in model'.facts => n \in model.facts
  /\ \A n \in Note : n \in layout' => n \in layout
  /\ Links'

\* Broken and repaired files, other writers, Runs and restarts.
LEMMA DisturbsShape == ASSUME StormInv, Disturbs \/ Mends PROVE OthersStep
<1>1. /\ model \in [facts : Value, valid : BOOLEAN] /\ layout \in Value /\ runActive \in BOOLEAN
      /\ \A fact \in model.facts \ looseFacts : Cites[fact] \subseteq DOMAIN story
  BY DEF StormInv, StormTypes, Links
<1>2. CASE \E x \in Foreign \cap Fact : SavesModel(Toggle(model.facts, x), model.facts, "ok")
  <2>1. PICK x \in Foreign \cap Fact : SavesModel(Toggle(model.facts, x), model.facts, "ok")
    BY <1>2
  <2> DEFINE facts == Toggle(model.facts, x)
  <2>2. /\ facts \subseteq model.facts \cup {x}
        /\ x \notin Note /\ x \in Fact
    BY EditorAssumption DEF Toggle
  <2> HIDE DEF facts
  <2>3. /\ model' = [model EXCEPT !.facts = facts] /\ NewLinks(facts) \subseteq DOMAIN story
        /\ looseFacts' = looseFacts \cap facts /\ UNCHANGED <<story, layout, runActive>>
    BY <2>1 DEF SavesModel, ModelReply, facts
  <2>4. model'.facts = facts /\ model' \in [facts : Value, valid : BOOLEAN]
    BY <1>1, <2>2, <2>3 DEF Value
  <2>5. \A n \in Note : n \in model'.facts => n \in model.facts
    BY <2>2, <2>4
  <2>6. \A fact \in model'.facts \ looseFacts' : Cites[fact] \subseteq DOMAIN story
    <3>1. SUFFICES ASSUME NEW fact \in facts, fact \notin looseFacts
                   PROVE  Cites[fact] \subseteq DOMAIN story
      BY <2>3, <2>4
    <3>2. CASE fact \in model.facts
      BY <1>1, <3>1, <3>2
    <3>3. CASE fact \notin model.facts
      BY <2>3, <3>1, <3>3 DEF NewLinks
    <3> QED BY <3>2, <3>3
  <2> QED BY <1>1, <2>3, <2>4, <2>5, <2>6 DEF OthersStep, Links
<1>3. CASE \E x \in Foreign \cap Placement : SavesLayout(Toggle(layout, x), layout, "ok")
  <2>1. PICK x \in Foreign \cap Placement : SavesLayout(Toggle(layout, x), layout, "ok")
    BY <1>3
  <2>2. layout' = Toggle(layout, x) /\ UNCHANGED <<story, model, runActive, looseFacts>>
    BY <2>1 DEF SavesLayout, loose
  <2>3. layout' \subseteq layout \cup {x} /\ x \notin Note /\ x \in Placement
    BY <2>2, EditorAssumption DEF Toggle
  <2>4. layout' \in Value /\ \A n \in Note : n \in layout' => n \in layout
    BY <1>1, <2>3 DEF Value
  <2> QED BY <1>1, <2>2, <2>4 DEF OthersStep, Links
<1>4. CASE \E s \in DOMAIN story : ServesStory(Removal(s), "ok")
  <2>1. PICK s \in DOMAIN story : ServesStory(Removal(s), "ok")
    BY <1>4
  <2>2. /\ Removal(s).op = "remove" /\ Removal(s).id = s
    BY DEF Removal
  <2>3. StoryReply(Removal(s)) = "ok" /\ story' = StoryEffect(Removal(s))
        /\ UNCHANGED <<model, layout, runActive, looseFacts>>
    BY <2>1 DEF ServesStory
  <2>4. story' = Restrict(story, DOMAIN story \ {s})
    BY <2>2, <2>3 DEF StoryEffect
  <2>5. RemoveReply(Removal(s)) = "ok"
    BY <2>2, <2>3 DEF StoryReply
  <2>6. ~Linked(s)
    BY <2>2, <2>5 DEF RemoveReply
  <2>7. DOMAIN story' = DOMAIN story \ {s}
    BY <2>4 DEF Restrict
  <2> QED BY <1>1, <2>3, <2>6, <2>7 DEF OthersStep, Links, Linked
<1>5. CASE \E s \in DOMAIN story : BreaksOrRepairsStory(s)
  <2>1. DOMAIN story' = DOMAIN story /\ UNCHANGED <<model, layout, runActive, looseFacts>>
    BY <1>5 DEF BreaksOrRepairsStory, loose
  <2> QED BY <1>1, <2>1 DEF OthersStep, Links
<1>6. CASE BreaksOrRepairsModel
  <2>1. /\ model' = [model EXCEPT !.valid = ~model.valid]
        /\ UNCHANGED <<story, layout, runActive, looseFacts>>
    BY <1>6 DEF BreaksOrRepairsModel, loose
  <2>2. model'.facts = model.facts /\ model' \in [facts : Value, valid : BOOLEAN]
    BY <1>1, <2>1
  <2> QED BY <1>1, <2>1, <2>2 DEF OthersStep, Links
<1>7. CASE RunStartsOrEnds \/ BreaksOrRepairsLayout
  <2>1. runActive' \in BOOLEAN /\ UNCHANGED <<story, model, layout, looseFacts>>
    BY <1>1, <1>7 DEF RunStartsOrEnds, BreaksOrRepairsLayout, onDisk, loose
  <2> QED BY <1>1, <2>1 DEF OthersStep, Links
<1>8. CASE \E x \in Foreign \cap Fact : HandEditsModel(Toggle(model.facts, x))
  <2>1. PICK x \in Foreign \cap Fact : HandEditsModel(Toggle(model.facts, x))
    BY <1>8
  <2> DEFINE facts == Toggle(model.facts, x)
  <2>2. /\ facts \subseteq model.facts \cup {x}
        /\ x \notin Note /\ x \in Fact
    BY EditorAssumption DEF Toggle
  <2>3. /\ model' = [model EXCEPT !.facts = facts] /\ UNCHANGED <<story, layout, runActive>>
        /\ looseFacts' = (looseFacts \cap facts)
             \cup {fact \in facts \ model.facts : ~(Cites[fact] \subseteq DOMAIN story)}
    BY <2>1 DEF HandEditsModel
  <2> HIDE DEF facts
  <2>4. model'.facts = facts /\ model' \in [facts : Value, valid : BOOLEAN]
    BY <1>1, <2>2, <2>3 DEF Value
  <2>5. \A n \in Note : n \in model'.facts => n \in model.facts
    BY <2>2, <2>4
  <2>6. \A fact \in model'.facts \ looseFacts' : Cites[fact] \subseteq DOMAIN story
    BY <1>1, <2>3, <2>4
  <2> QED BY <1>1, <2>3, <2>4, <2>5, <2>6 DEF OthersStep, Links
<1>9. CASE \E s \in DOMAIN story : HandRemovesStory(s)
  <2>1. PICK s \in DOMAIN story : HandRemovesStory(s)
    BY <1>9
  <2>2. /\ story' = Restrict(story, DOMAIN story \ {s}) /\ UNCHANGED <<model, layout, runActive>>
        /\ looseFacts' = looseFacts \cup {fact \in model.facts : s \in Cites[fact]}
    BY <2>1 DEF HandRemovesStory
  <2>3. DOMAIN story' = DOMAIN story \ {s}
    BY <2>2 DEF Restrict
  <2> QED BY <1>1, <2>2, <2>3 DEF OthersStep, Links
<1> QED BY <1>2, <1>3, <1>4, <1>5, <1>6, <1>7, <1>8, <1>9 DEF Disturbs, Mends

\* What others do leaves the workspace's own state as it was.
LEMMA OthersKeeps == ASSUME StormInv, Others PROVE StormInv'
<1>1. OthersStep
  BY DisturbsShape DEF Others
<1>2. /\ everModel' = everModel \cup model'.facts
      /\ UNCHANGED <<store, past, future, coupled, waiting, locked, unlocked, made>>
  BY DEF Others, history
<1>3. StormTypes'
  BY <1>1, <1>2 DEF StormInv, StormTypes, OthersStep
<1>4. Own'
  BY <1>2 DEF StormInv, Own
<1>5. Known'
  BY <1>2 DEF StormInv, Known
<1>6. ASSUME NEW n \in Note PROVE NoteInv(n)'
  <2>0. NoteInv(n) /\ model.facts \subseteq everModel
    BY DEF StormInv, Known
  <2>1. (n \in model'.facts => n \in model.facts) /\ (n \in layout' => n \in layout)
    BY <1>1 DEF OthersStep
  <2>2. n \notin everModel => n \notin everModel'
    BY <1>2, <2>0, <2>1
  <2>3. n \notin everModel' => n \notin everModel
    BY <1>2
  <2>4. ASSUME Nowhere(n) PROVE Nowhere(n)'
    BY <1>2, <2>1, <2>2, <2>4 DEF Nowhere
  <2>5. ASSUME Waits(n) PROVE Waits(n)'
    BY <1>2, <2>1, <2>5 DEF Waits, Chained
  <2> QED BY <1>2, <2>0, <2>3, <2>4, <2>5 DEF NoteInv
<1> QED BY <1>1, <1>3, <1>4, <1>5, <1>6 DEF StormInv, OthersStep

-----------------------------------------------------------------------------
(* The theorems.                                                           *)

\* The workspace opens with nothing read and nothing drafted.
LEMMA StormInit == Init => StormInv
<1> SUFFICES ASSUME Init PROVE StormInv
  OBVIOUS
<1>1. NewStore \in StoreState
  BY DEF NewStore, StoreState, Value, ReadState, CallState
<1>2. /\ store = [f \in File |-> NewStore] /\ past = <<>> /\ future = <<>>
      /\ model = [facts |-> {}, valid |-> TRUE] /\ layout = {} /\ everModel = {}
      /\ made = <<>> /\ runActive = FALSE /\ looseFacts = {}
      /\ coupled = FALSE /\ waiting = FALSE /\ locked = FALSE /\ unlocked = FALSE
  BY DEF Init
<1>3. StormTypes
  <2>1. store \in [File -> StoreState] /\ model \in [facts : Value, valid : BOOLEAN]
        /\ layout \in Value
    BY <1>1, <1>2 DEF Value
  <2>2. past \in Seq(Entry) /\ future \in Seq(Entry) /\ DOMAIN past = {} /\ DOMAIN future = {}
    BY <1>2
  <2>3. {coupled, waiting, locked, unlocked, runActive} \subseteq BOOLEAN
    BY <1>2
  <2> QED BY <2>1, <2>2, <2>3 DEF StormTypes
<1>4. \A f \in File : store[f] = NewStore
  BY <1>2
<1>5. NewStore.value = {} /\ NewStore.baseline = {} /\ NewStore.read = NoCall /\ NewStore.call = NoCall
  BY DEF NewStore
<1>6. Own
  BY <1>2, <1>4, <1>5 DEF Own, OwnStore
<1>7. "model" \in File
  BY DEF File
<1>8. Known
  BY <1>2, <1>4, <1>5, <1>7 DEF Known, NoCall
<1>9. Links
  BY <1>2 DEF Links
<1>10. \A n \in Note : NoteInv(n)
  BY <1>2, <1>4, <1>5 DEF NoteInv, Nowhere
<1> QED BY <1>3, <1>6, <1>8, <1>9, <1>10 DEF StormInv

\* A step of the workspace alone: a request, its answer, or a timer.
WindowStep ==
  \/ Refresh \/ SaveButton \/ ThenLayout \/ SeesRun \/ SavesUnlocked
  \/ \E f \in File : \/ Discard(f) \/ ReadServed(f) \/ ReadLost(f) \/ ReadReturns(f)
                     \/ SaveLost(f) \/ SaveReturns(f) \/ TimerFires(f)

\* Every step of the window that is not an edit is a request step.
LEMMA WindowRequest == ASSUME StormInv, WindowStep PROVE RequestStep
  BY RefreshRequest, SaveButtonRequest, ThenLayoutRequest, SeesRunRequest, SavesUnlockedRequest,
     DiscardRequest, ReadServedRequest, ReadLostRequest, ReadReturnsRequest, SaveLostRequest,
     SaveReturnsRequest, TimerRequest DEF WindowStep

\* The user's edits.
EditStep ==
  \/ \E n \in Note : AddsNote(n) \/ RemovesNote(n)
  \/ \E x \in Link : TogglesLink(x)
  \/ \E m \in Move : MovesCard(m)
  \/ Undo \/ Redo

\* Every edit keeps the invariant and leaves the requests under way.
LEMMA EditStepKeeps == ASSUME StormInv, EditStep PROVE StormInv' /\ CallsKept
  BY AddsNoteKeeps, RemovesNoteKeeps, TogglesLinkKeeps, MovesCardKeeps, UndoKeeps, RedoKeeps
  DEF EditStep

\* There are no other steps.
LEMMA NextSteps ==
  Next => WindowStep \/ EditStep \/ Others \/ \E f \in File : SaveServed(f)
  BY DEF Next, RequestSteps, UserSteps, WindowStep, EditStep

\* Every step of the workspace keeps the invariant.
LEMMA StormStep == StormInv /\ [Next]_vars => StormInv'
<1> SUFFICES ASSUME StormInv, [Next]_vars PROVE StormInv'
  OBVIOUS
<1>1. CASE WindowStep
  BY <1>1, WindowRequest, RequestKeeps
<1>2. CASE EditStep
  BY <1>2, EditStepKeeps
<1>3. CASE Others
  BY <1>3, OthersKeeps
<1>4. CASE \E f \in File : SaveServed(f)
  BY <1>4, ServedKeeps
<1>5. CASE UNCHANGED vars
  BY <1>5 DEF vars, documents, onDisk, loose, history, StormInv, StormTypes, Own, Known, Links, NoteInv, Nowhere, Waits, Chained
<1> QED BY <1>1, <1>2, <1>3, <1>4, <1>5, NextSteps

\* So it holds in every state the workspace reaches.
LEMMA StormInvariant == Spec => []StormInv
<1>1. Init => StormInv
  BY StormInit
<1>2. StormInv /\ [Next]_vars => StormInv'
  BY StormStep
<1> QED BY <1>1, <1>2, PTL DEF Spec

\* What the user added are notes.
Named == DOMAIN made \subseteq Note

\* Only notes are recorded as added.
LEMMA NamedInvariant == Spec => []Named
<1>1. Init => Named
  BY DEF Init, Named
<1>2. Named /\ [Next]_vars => Named'
  <2> SUFFICES ASSUME Named, [Next]_vars PROVE Named'
    OBVIOUS
  <2>1. CASE \E f \in File : ReadReturns(f)
    <3>1. made' = made \/ made' = [n \in DOMAIN made |-> {}]
      BY <2>1 DEF ReadReturns
    <3> QED BY <3>1 DEF Named
  <2>2. CASE \E n \in Note : AddsNote(n)
    BY <2>2 DEF AddsNote, With, Named
  <2>3. CASE \E n \in Note : RemovesNote(n)
    BY <2>3 DEF RemovesNote, Named
  <2>4. CASE \/ \E f \in File : SaveServed(f) \/ ReadServed(f) \/ ReadLost(f) \/ SaveLost(f)
                              \/ SaveReturns(f) \/ TimerFires(f) \/ Discard(f)
             \/ Refresh \/ SaveButton \/ ThenLayout \/ SeesRun \/ SavesUnlocked
    BY <2>4 DEF Named, SaveServed, ReadServed, ReadLost, SaveLost, SaveReturns, TimerFires,
                Discard, Refresh, SaveButton, ThenLayout, SeesRun, SavesUnlocked
  <2>5. CASE \/ \E x \in Link : TogglesLink(x)
             \/ \E m \in Move : MovesCard(m)
             \/ Undo \/ Redo \/ Others \/ UNCHANGED vars
    BY <2>5 DEF Named, TogglesLink, MovesCard, Undo, Redo, Others, vars
  <2> QED BY <2>1, <2>2, <2>3, <2>4, <2>5, NextSteps DEF WindowStep, EditStep
<1> QED BY <1>1, <1>2, PTL DEF Spec

\* Every story a readable Event Storming model links exists, or the link was
\* left dangling by a hand edit and has been in the model since, whatever the
\* order of saves, removals, broken files and repairs: no request adds a link
\* to a missing story or removes a linked one (EventStormingService.save,
\* UserStoryService.remove).
THEOREM LinksCorrect == Spec => []NoDanglingStory
<1>1. StormInv => NoDanglingStory
  BY DEF StormInv, Links, NoDanglingStory
<1> QED BY <1>1, StormInvariant, PTL

\* The workspace keeps its types and a baseline is one content; the placement
\* of a note waits for the note's fact however it was undone, redone, moved,
\* refused and saved again (StormDocumentStore's deferred layout).
THEOREM StormSoundCorrect == Spec => []StormSound
<1>1. StormInv => TypeOK
  <2> SUFFICES ASSUME StormInv PROVE TypeOK
    OBVIOUS
  <2>1. ASSUME NEW f \in File
        PROVE  DOMAIN store[f] = DOMAIN NewStore /\ Cardinality(store[f].baseline) <= 1
    <3>1. store[f] \in StoreState
      BY StoreFacts
    <3>2. DOMAIN store[f] = DOMAIN NewStore
      BY <3>1 DEF StoreState, NewStore
    <3>3. store[f].baseline = {} \/ \E v : store[f].baseline = {v}
      BY <3>1 DEF StoreState
    <3>4. Cardinality(store[f].baseline) \in {0, 1}
      BY <3>3, FS_EmptySet, FS_Singleton
    <3> QED BY <3>2, <3>4
  <2> QED BY <2>1, Flags DEF TypeOK
<1>2. StormInv /\ Named => LayoutAfterModel
  <2> SUFFICES ASSUME StormInv, Named, NEW n \in DOMAIN made, made[n] = File, n \in layout
               PROVE  n \in everModel
    BY DEF LayoutAfterModel
  <2> QED BY DEF Named, StormInv, NoteInv, Waits
<1> QED BY <1>1, <1>2, StormInvariant, NamedInvariant, PTL DEF StormSound

\* What others wrote stays in a file that a save of the workspace replaces
\* (StormFileStore.save with its baseline's hash).
THEOREM ForeignKeptCorrect == Spec => ForeignKept
<1>1. ASSUME StormInv, [Next]_vars, NEW f \in File,
             store[f].call.at = "sent", store'[f].call.at = "ok"
      PROVE  Content(f)' \cap Foreign = Content(f) \cap Foreign
  <2>0. store[f].call \in CallState /\ store[f].call # NoCall /\ store'[f].call # NoCall
    BY <1>1, StoreFacts DEF NoCall
  <2>1. CASE WindowStep
    <3>1. \/ QuietStore(f, store[f], store'[f]) \/ OkStore(store[f], store'[f])
          \/ ReplacedStore(store[f], store'[f])
      BY <1>1, <2>1, WindowRequest DEF RequestStep, Unreplaced, Replaced
    <3> QED BY <1>1, <2>0, <3>1 DEF QuietStore, OkStore, ReplacedStore, CallState
  <2>2. CASE EditStep
    BY <1>1, <2>2, EditStepKeeps DEF CallsKept
  <2>3. CASE Others \/ UNCHANGED vars
    BY <1>1, <2>3 DEF Others, vars
  <2>4. CASE \E g \in File : SaveServed(g)
    <3>1. PICK g \in File : SaveServed(g)
      BY <2>4
    <3>2. g = f
      BY <1>1, <3>1, Served
    <3>3. \A h \in store[f].baseline : Agrees(store[f].call.value, h)
      BY <1>1, <2>0, StoreFacts DEF OwnStore
    <3>4. \/ /\ f = "model" /\ model.facts \in store[f].baseline
             /\ model' = [model EXCEPT !.facts = store[f].call.value]
          \/ /\ f = "layout" /\ layout \in store[f].baseline /\ layout' = store[f].call.value
      BY <1>1, <3>1, <3>2, ServedFile
    <3>5. CASE /\ f = "model" /\ model.facts \in store[f].baseline
               /\ model' = [model EXCEPT !.facts = store[f].call.value]
      <4>1. Content(f) = model.facts /\ Content(f)' = store[f].call.value
        BY <1>1, <3>5 DEF Content, StormInv, StormTypes
      <4> QED BY <3>3, <3>5, <4>1 DEF Agrees
    <3>6. CASE f = "layout" /\ layout \in store[f].baseline /\ layout' = store[f].call.value
      <4>1. Content(f) = layout /\ Content(f)' = store[f].call.value
        BY <3>6 DEF Content
      <4> QED BY <3>3, <3>6, <4>1 DEF Agrees
    <3> QED BY <3>4, <3>5, <3>6
  <2> QED BY <1>1, <2>1, <2>2, <2>3, <2>4, NextSteps
<1> DEFINE Kept2 == \A f \in File :
             store[f].call.at = "sent" /\ store'[f].call.at = "ok"
               => Content(f)' \cap Foreign = Content(f) \cap Foreign
<1>2. StormInv /\ [Next]_vars => [Kept2]_vars
  BY <1>1
<1> QED BY <1>2, StormInvariant, PTL DEF Spec, ForeignKept

(***************************************************************************)
(* User Stories, on the same documents.                                    *)
(***************************************************************************)
\* Story files, lists of them, and the document of an editor, if any.
FileState == [text : Text, adrs : SUBSET Adr, approved : SUBSET Input, revision : Nat,
              valid : BOOLEAN]
Stories == UNION {[S -> FileState] : S \in SUBSET Story}
Document == {{}} \cup {{f} : f \in FileState}

\* Reads, editors and requests of the desk.
DeskRead ==
  {NoRead, Asked, [at |-> "failed"]} \cup [at : {"read"}, content : Stories]
DeskEditor ==
  {NoEditor} \cup
  [open : {TRUE}, id : Story \cup {"new"}, base : Document, conflict : BOOLEAN,
   asked : SUBSET FileState, draft : Input]
DeskCall ==
  {NoRequest} \cup
  [op : {"create", "update", "approve", "return", "remove"},
   at : {"sent", "ok", "conflict", "missing", "lost"},
   id : Story \cup {"new"}, hash : Document, input : Input, semantic : SUBSET Input,
   saved : Document]

\* The page's state has its types.
PageTypes ==
  /\ shown \in Stories /\ read \in DeskRead /\ editor \in DeskEditor
  /\ {error, unannounced} \subseteq BOOLEAN

\* The editor of a story file names a story.
EditorNames == editor.open /\ editor.base # {} => editor.id \in Story

\* What a request approves the user has confirmed.
Asks(c) ==
  /\ c.op # "create" => c.id \in Story
  /\ c.at = "ok" /\ c.op # "remove" => c.id \in Story /\ c.saved # {}
  /\ c.op = "approve" => c.semantic # {} /\ \A i \in c.semantic : <<c.id, i>> \in decided

\* The requests under way: the open editor's, and those of editors the user
\* has left.
CallInv ==
  /\ call \in DeskCall
  /\ call # NoRequest => editor.open /\ Asks(call)
  /\ \A c \in left : c \in DeskCall /\ c.at = "sent" /\ Asks(c)

\* Readable or not, a story file names contents the user has confirmed, and
\* ADRs that exist unless a hand edit left it another.
FilesInv ==
  /\ story \in Stories
  /\ \A s \in DOMAIN story \ looseStories : story[s].adrs \subseteq adr
  /\ \A s \in DOMAIN story : \A i \in story[s].approved : <<s, i>> \in decided

\* The inductive invariant of the desk.
DeskInv == PageTypes /\ EditorNames /\ CallInv /\ FilesInv

-----------------------------------------------------------------------------
(* What a request does to the files.                                       *)

\* A list of stories, with one more or one replaced, and with one taken away.
LEMMA StoriesShape ==
  ASSUME NEW files \in Stories
  PROVE  DOMAIN files \subseteq Story /\ \A s \in DOMAIN files : files[s] \in FileState
<1>1. PICK S \in SUBSET Story : files \in [S -> FileState]
  BY DEF Stories
<1> QED BY <1>1

\* One more story, or one replaced.
LEMMA StoriesWith ==
  ASSUME NEW files \in Stories, NEW s \in Story, NEW f \in FileState,
         NEW r, r = With(files, s, f)
  PROVE  /\ r \in Stories /\ DOMAIN r = DOMAIN files \cup {s} /\ r[s] = f
         /\ \A t \in DOMAIN files : t # s => r[t] = files[t]
<1>1. r = [x \in DOMAIN files \cup {s} |-> IF x = s THEN f ELSE files[x]]
  BY DEF With
<1>2. r \in [DOMAIN files \cup {s} -> FileState] /\ DOMAIN files \cup {s} \in SUBSET Story
  BY <1>1, StoriesShape
<1> QED BY <1>1, <1>2 DEF Stories

\* Some of the stories.
LEMMA StoriesRestrict ==
  ASSUME NEW files \in Stories, NEW T, T \subseteq DOMAIN files, NEW r, r = Restrict(files, T)
  PROVE  r \in Stories /\ DOMAIN r = T /\ \A t \in T : r[t] = files[t]
<1>1. r = [x \in T |-> files[x]]
  BY DEF Restrict
<1>2. r \in [T -> FileState] /\ T \in SUBSET Story
  BY <1>1, StoriesShape
<1> QED BY <1>1, <1>2 DEF Stories

\* One story file takes the place of another.
LEMMA StoriesExcept ==
  ASSUME NEW files \in Stories, NEW s \in DOMAIN files, NEW f \in FileState,
         NEW r, r = [files EXCEPT ![s] = f]
  PROVE  /\ r \in Stories /\ DOMAIN r = DOMAIN files /\ r[s] = f
         /\ \A t \in DOMAIN files : t # s => r[t] = files[t]
<1>1. PICK S \in SUBSET Story : files \in [S -> FileState]
  BY DEF Stories
<1>2. r \in [S -> FileState]
  BY <1>1
<1> QED BY <1>1, <1>2 DEF Stories

\* Parsing a file withdraws an approval of other content, and no more.
LEMMA ParsedShape ==
  ASSUME NEW f \in FileState
  PROVE  /\ Parsed(f) \in FileState /\ Parsed(f).adrs = f.adrs
         /\ Parsed(f).text = f.text
         /\ Parsed(f).approved \subseteq f.approved
         /\ Approved(f) => f.approved = {Semantic(f)}
  BY DEF Parsed, Approved, FileState

\* An update writes the input and grants nothing.
LEMMA UpdatedShape ==
  ASSUME NEW f \in FileState, NEW input \in Input
  PROVE  /\ Updated(f, input) \in FileState /\ Updated(f, input).adrs = input.adrs
         /\ Updated(f, input).approved \subseteq f.approved
<1>1. PICK p \in FileState : p = Parsed(f) /\ p.approved \subseteq f.approved
  BY ParsedShape
<1>2. input.text \in Text /\ input.adrs \in SUBSET Adr
  BY DEF Input
<1> DEFINE q == [p EXCEPT !.text = input.text, !.adrs = input.adrs]
<1>3. q \in FileState /\ q.adrs = input.adrs /\ q.approved = p.approved
  BY <1>2 DEF FileState
<1>4. Updated(f, input) = Parsed(q)
  BY <1>1 DEF Updated
<1> HIDE DEF q
<1> QED BY <1>1, <1>3, <1>4, ParsedShape

\* An accepted request keeps files whose ADRs exist, and approves only what
\* it names.
Grants(c) ==
  /\ story' \in Stories
  /\ \A s \in DOMAIN story' \ looseStories' :
       \/ s \in DOMAIN story \ looseStories /\ story'[s].adrs = story[s].adrs
       \/ story'[s].adrs \subseteq adr
  /\ \A s \in DOMAIN story' : \A i \in story'[s].approved :
       \/ s \in DOMAIN story /\ i \in story[s].approved
       \/ c.op = "approve" /\ s = c.id /\ i = c.semantic

\* A served request grants no more than that.
LEMMA ServesGrants ==
  ASSUME NEW c, c.op \in {"create", "update", "approve", "return", "remove"}, c.id \in Story,
         c.input \in Input, story \in Stories, NEW reply, ServesStory(c, reply)
  PROVE  /\ Grants(c) /\ adr' = adr
         /\ reply = "ok" /\ c.op # "remove" => c.id \in DOMAIN story'
<1>0. adr' = adr
  BY DEF ServesStory
<1>1. DOMAIN story \subseteq Story /\ \A s \in DOMAIN story : story[s] \in FileState
  BY StoriesShape
<1>2. CASE reply # "ok"
  <2>1. story' = story /\ looseStories' = looseStories
    BY <1>2 DEF ServesStory
  <2> QED BY <1>0, <1>2, <2>1 DEF Grants
<1>3. CASE reply = "ok"
  <2>0. /\ StoryReply(c) = "ok" /\ story' = StoryEffect(c)
        /\ looseStories' = IF c.op # "return" THEN looseStories \ {c.id} ELSE looseStories
    BY <1>3 DEF ServesStory
  <2>1. CASE c.op = "create"
    <3>8. NewStory(c.input) \in FileState /\ NewStory(c.input).adrs = c.input.adrs
          /\ NewStory(c.input).approved = {}
      BY DEF NewStory, FileState, Input
    <3>1. PICK f \in FileState :
            f = NewStory(c.input) /\ f.adrs = c.input.adrs /\ f.approved = {}
      BY <3>8
    <3>2. c.input.adrs \subseteq adr
      BY <2>0, <2>1 DEF StoryReply, CreateReply
    <3>6. PICK r : r = story'
      OBVIOUS
    <3>9. r = With(story, c.id, f)
      BY <2>0, <2>1, <3>1, <3>6 DEF StoryEffect
    <3>7. /\ r \in Stories /\ DOMAIN r = DOMAIN story \cup {c.id} /\ r[c.id] = f
          /\ \A t \in DOMAIN story : t # c.id => r[t] = story[t]
      <4>1. PICK s \in Story : s = c.id
        OBVIOUS
      <4>2. r = With(story, s, f)
        BY <3>9, <4>1
      <4>3. r = [x \in DOMAIN story \cup {s} |-> IF x = s THEN f ELSE story[x]]
        BY <4>2 DEF With
      <4>4. r \in [DOMAIN story \cup {s} -> FileState] /\ DOMAIN story \cup {s} \in SUBSET Story
        BY <4>3, <1>0, StoriesShape
      <4>5. r \in Stories
        BY <4>4 DEF Stories
      <4> QED BY <4>1, <4>3, <4>5
    <3>4. /\ story' \in Stories /\ DOMAIN story' = DOMAIN story \cup {c.id} /\ story'[c.id] = f
          /\ \A t \in DOMAIN story : t # c.id => story'[t] = story[t]
      BY <3>6, <3>7
    <3>5. ASSUME NEW s \in DOMAIN story'
          PROVE  \/ s \in DOMAIN story /\ s # c.id /\ story'[s] = story[s]
                 \/ story'[s] = f
      BY <3>4, <3>5
    <3> QED BY <1>0, <2>0, <2>1, <3>1, <3>2, <3>4, <3>5 DEF Grants
  <2>2. CASE c.op = "update"
    <3>1. UpdateReply(c) = "ok"
      BY <2>0, <2>2 DEF StoryReply
    <3>2. c.id \in DOMAIN story /\ c.input.adrs \subseteq adr
      BY <3>1 DEF UpdateReply
    <3> DEFINE f == Updated(story[c.id], c.input)
    <3>3. f \in FileState /\ f.adrs = c.input.adrs /\ f.approved \subseteq story[c.id].approved
      BY <1>1, <3>2, UpdatedShape
    <3>4. story' = [story EXCEPT ![c.id] = f]
      BY <2>0, <2>2 DEF StoryEffect
    <3> HIDE DEF f
    <3>5. /\ story' \in Stories /\ DOMAIN story' = DOMAIN story /\ story'[c.id] = f
          /\ \A t \in DOMAIN story : t # c.id => story'[t] = story[t]
      BY <3>2, <3>3, <3>4, StoriesExcept
    <3> QED BY <1>0, <2>0, <2>2, <3>2, <3>3, <3>5 DEF Grants
  <2>3. CASE c.op = "approve"
    <3>1. ApproveReply(c) = "ok"
      BY <2>0, <2>3 DEF StoryReply
    <3>2. /\ c.id \in DOMAIN story /\ c.semantic = Semantic(story[c.id])
          /\ story[c.id].adrs \subseteq adr
      BY <3>1 DEF ApproveReply
    <3>7. PICK old \in FileState : old = story[c.id]
      BY <1>1, <3>2
    <3>8. c.semantic \in Input
      BY <3>2, <3>7 DEF FileState, Semantic, Input
    <3> DEFINE f == [old EXCEPT !.approved = {c.semantic}, !.revision = old.revision + 1]
    <3>9. old.revision + 1 \in Nat /\ {c.semantic} \in SUBSET Input
      BY <3>7, <3>8 DEF FileState
    <3>3. f \in FileState /\ f.adrs = story[c.id].adrs /\ f.approved = {c.semantic}
      BY <3>7, <3>9 DEF FileState
    <3>4. story' = [story EXCEPT ![c.id].approved = {Semantic(story[c.id])},
                                 ![c.id].revision = @ + 1]
      BY <2>0, <2>3 DEF StoryEffect
    <3>5. story' = [story EXCEPT ![c.id] = f]
      <4>1. PICK S \in SUBSET Story : story \in [S -> FileState]
        BY DEF Stories
      <4> QED BY <3>2, <3>4, <3>7, <4>1
    <3> HIDE DEF f
    <3>6. /\ story' \in Stories /\ DOMAIN story' = DOMAIN story /\ story'[c.id] = f
          /\ \A t \in DOMAIN story : t # c.id => story'[t] = story[t]
      BY <3>2, <3>3, <3>5, StoriesExcept
    <3> QED BY <1>0, <2>0, <2>3, <3>2, <3>3, <3>6 DEF Grants
  <2>4. CASE c.op = "return"
    <3>1. ReturnReply(c) = "ok"
      BY <2>0, <2>4 DEF StoryReply
    <3>2. c.id \in DOMAIN story
      BY <3>1 DEF ReturnReply
    <3> DEFINE f == [story[c.id] EXCEPT !.approved = {}]
    <3>3. f \in FileState /\ f.adrs = story[c.id].adrs /\ f.approved = {}
      BY <1>1, <3>2 DEF FileState
    <3>4. story' = [story EXCEPT ![c.id] = f]
      BY <2>0, <2>4 DEF StoryEffect
    <3> HIDE DEF f
    <3>5. /\ story' \in Stories /\ DOMAIN story' = DOMAIN story /\ story'[c.id] = f
          /\ \A t \in DOMAIN story : t # c.id => story'[t] = story[t]
      BY <3>2, <3>3, <3>4, StoriesExcept
    <3> QED BY <1>0, <2>0, <2>4, <3>2, <3>3, <3>5 DEF Grants
  <2>5. CASE c.op = "remove"
    <3>1. story' = Restrict(story, DOMAIN story \ {c.id})
      BY <2>0, <2>5 DEF StoryEffect
    <3>2. DOMAIN story \ {c.id} \subseteq DOMAIN story
      OBVIOUS
    <3>3. /\ story' \in Stories /\ DOMAIN story' = DOMAIN story \ {c.id}
          /\ \A t \in DOMAIN story' : story'[t] = story[t]
      BY <3>1, <3>2, StoriesRestrict
    <3> QED BY <1>0, <2>0, <2>5, <3>3 DEF Grants
  <2> QED BY <2>1, <2>2, <2>3, <2>4, <2>5
<1> QED BY <1>2, <1>3

-----------------------------------------------------------------------------
(* The page and its editor.                                                *)

\* The stories shown, stored and listed have their types.
LEMMA DeskFacts ==
  ASSUME DeskInv
  PROVE  /\ shown \in Stories /\ DOMAIN shown \subseteq Story
         /\ \A s \in DOMAIN shown : shown[s] \in FileState
         /\ story \in Stories /\ DOMAIN story \subseteq Story
         /\ \A s \in DOMAIN story : story[s] \in FileState
         /\ Listing \in Stories
<1>1. shown \in Stories /\ story \in Stories
  BY DEF DeskInv, PageTypes, FilesInv
<1>2. DOMAIN story \subseteq Story /\ \A s \in DOMAIN story : story[s] \in FileState
  BY <1>1, StoriesShape
<1>3. Listing \in [{t \in DOMAIN story : story[t].valid} -> FileState]
  BY <1>2 DEF Listing
<1>4. {t \in DOMAIN story : story[t].valid} \in SUBSET Story
  BY <1>2
<1> QED BY <1>1, <1>2, <1>3, <1>4, StoriesShape DEF Stories

\* The files stay, and so does what the user confirmed.
LEMMA DeskQuiet ==
  ASSUME DeskInv, UNCHANGED <<documents, decided>>, PageTypes', EditorNames', CallInv'
  PROVE  DeskInv'
  BY DEF DeskInv, FilesInv, documents, onDisk, loose

\* Steps of the connection and of reads.
ReadsStep ==
  /\ UNCHANGED <<documents, decided, editor, call>>
  /\ left' \subseteq left
  /\ read' \in DeskRead /\ shown' \in Stories /\ {error', unannounced'} \subseteq BOOLEAN

\* Such a step keeps the invariant.
LEMMA ReadsKeep == ASSUME DeskInv, ReadsStep PROVE DeskInv'
<1>1. PageTypes' /\ EditorNames' /\ CallInv'
  BY DEF DeskInv, ReadsStep, PageTypes, EditorNames, CallInv, Asks
<1> QED BY <1>1, DeskQuiet DEF ReadsStep

\* The page's state has its types.
LEMMA DeskFlags ==
  ASSUME DeskInv
  PROVE  /\ error \in BOOLEAN /\ unannounced \in BOOLEAN /\ read \in DeskRead /\ shown \in Stories
         /\ Asked \in DeskRead /\ NoRead \in DeskRead /\ [at |-> "failed"] \in DeskRead
         /\ editor \in DeskEditor /\ call \in DeskCall
  BY DEF DeskInv, PageTypes, CallInv, DeskRead

\* The steps of the connection and of reads are such steps.
LEMMA ReadsSteps ==
  ASSUME DeskInv,
         \/ Focus \/ TriesAgain \/ PageOpens \/ PageNotified
         \/ PageConnects \/ StreamFails \/ ListLost \/ ListServed
         \/ ListReturns
  PROVE  ReadsStep
<1>1. CASE Focus \/ TriesAgain \/ PageOpens \/ PageNotified
  <2>1. /\ UNCHANGED <<documents, decided, editor, call, left, unannounced, shown, error>>
        /\ read' = Asked \/ read' = read
    BY <1>1 DEF Focus, TriesAgain, PageOpens, PageNotified, Caught,
                Reads, page, requests
  <2> QED BY <2>1, DeskFlags DEF ReadsStep
<1>2. CASE PageConnects \/ StreamFails
  <2>1. UNCHANGED <<documents, decided, editor, call, left, unannounced, shown, error, read>>
    BY <1>2 DEF PageConnects, StreamFails, desk, page, requests
  <2> QED BY <2>1, DeskFlags DEF ReadsStep
<1>3. CASE ListLost
  <2>1. /\ UNCHANGED <<documents, decided, editor, call, left, unannounced, shown, error>>
        /\ read' = [at |-> "failed"]
    BY <1>3 DEF ListLost, requests
  <2> QED BY <2>1, DeskFlags DEF ReadsStep
<1>4. CASE ListServed
  <2>1. /\ UNCHANGED <<documents, decided, editor, call, left, shown, error>>
        /\ read' = [at |-> "read", content |-> Listing] /\ unannounced' = FALSE
    BY <1>4 DEF ListServed, requests
  <2>2. read' \in DeskRead
    BY <2>1, DeskFacts DEF DeskRead
  <2> QED BY <2>1, <2>2, DeskFlags DEF ReadsStep
<1>5. CASE ListReturns
  <2>1. /\ UNCHANGED <<documents, decided, editor, call, left, unannounced>>
        /\ read' = NoRead /\ error' = (read.at = "failed")
        /\ shown' = IF read.at = "read" THEN read.content ELSE shown
    BY <1>5 DEF ListReturns, requests
  <2>2. read.at = "read" => read.content \in Stories
    BY DeskFlags DEF DeskRead, NoRead, Asked
  <2>3. error' \in BOOLEAN
    BY <2>1
  <2> QED BY <2>1, <2>2, <2>3, DeskFlags DEF ReadsStep
<1> QED BY <1>1, <1>2, <1>3, <1>4, <1>5

\* An editor that opens on a document.
LEMMA EditorShape ==
  ASSUME NEW base \in Document, NEW id \in Story \cup {"new"}, NEW e, e = Editor(base, id)
  PROVE  e \in DeskEditor /\ e.open /\ e.base = base /\ e.id = id
<1>1. BlankInput \in Input
  BY DocumentsAssumption DEF BlankInput, Input
<1>2. \A f \in FileState : InputOf(f) \in Input
  BY DEF FileState, InputOf, Input
<1>3. PICK d \in Input :
        d = IF base = {} THEN BlankInput ELSE InputOf(CHOOSE f \in base : TRUE)
  <2>1. CASE base = {}
    BY <1>1, <2>1
  <2>2. CASE base # {}
    <3>1. (CHOOSE f \in base : TRUE) \in FileState
      BY <2>2 DEF Document
    <3> QED BY <1>2, <2>2, <3>1
  <2> QED BY <2>1, <2>2
<1>4. e = [open |-> TRUE, id |-> id, base |-> base, conflict |-> FALSE, asked |-> {}, draft |-> d]
  BY <1>3 DEF Editor
<1> QED BY <1>4 DEF DeskEditor

\* What an open editor is.
LEMMA OpenEditor ==
  ASSUME DeskInv, editor.open
  PROVE  /\ editor \in [open : {TRUE}, id : Story \cup {"new"}, base : Document,
                        conflict : BOOLEAN, asked : SUBSET FileState, draft : Input]
         /\ editor.base \in Document /\ editor.draft \in Input
         /\ editor.base # {} => editor.id \in Story /\ Base \in FileState
<1>1. editor \in DeskEditor /\ editor # NoEditor
  BY DEF DeskInv, PageTypes, NoEditor
<1>2. editor \in [open : {TRUE}, id : Story \cup {"new"}, base : Document,
                  conflict : BOOLEAN, asked : SUBSET FileState, draft : Input]
  BY <1>1 DEF DeskEditor
<1>3. editor.base \in Document /\ editor.draft \in Input
  BY <1>2
<1>4. editor.base # {} => Base \in FileState
  BY <1>3 DEF Document, Base
<1> QED BY <1>2, <1>3, <1>4 DEF DeskInv, EditorNames

\* Steps of the editor alone: the request stays with an editor that is open,
\* or is left behind.
EditorStep ==
  /\ UNCHANGED <<documents, decided, shown, read, error, unannounced>>
  /\ editor' \in DeskEditor /\ EditorNames'
  /\ \/ call' = call /\ left' = left /\ (call = NoRequest \/ (editor.open => editor'.open))
     \/ call' = NoRequest /\ left' = IF call.at = "sent" THEN left \cup {call} ELSE left

\* Such a step keeps the invariant.
LEMMA EditorKeeps == ASSUME DeskInv, EditorStep PROVE DeskInv'
<1>1. PageTypes' /\ EditorNames'
  BY DEF DeskInv, EditorStep, PageTypes
<1>2. CASE call' = call /\ left' = left /\ (call = NoRequest \/ (editor.open => editor'.open))
  <2>1. CallInv'
    BY <1>2 DEF DeskInv, CallInv, Asks, EditorStep
  <2> QED BY <1>1, <2>1, DeskQuiet DEF EditorStep
<1>3. CASE call' = NoRequest /\ left' = IF call.at = "sent" THEN left \cup {call} ELSE left
  <2>1. call.at = "sent" => call # NoRequest
    BY DEF NoRequest
  <2>2. call' \in DeskCall /\ UNCHANGED decided
    BY <1>3 DEF DeskCall, EditorStep
  <2>3. \A c \in left' : c \in DeskCall /\ c.at = "sent" /\ Asks(c)
    BY <1>3, <2>1 DEF DeskInv, CallInv
  <2>4. CallInv'
    BY <1>3, <2>2, <2>3 DEF CallInv, Asks
  <2> QED BY <1>1, <2>4, DeskQuiet DEF EditorStep
<1> QED BY <1>2, <1>3 DEF EditorStep

\* Opening, leaving, typing, resetting and the dialog are such steps.
LEMMA EditorSteps ==
  ASSUME DeskInv,
         \/ \E s \in Story : OpensStory(s)
         \/ OpensNew \/ Leaves \/ Resets \/ AsksApproval
         \/ \E input \in Input : Types(input)
  PROVE  EditorStep
<1>0. \A f \in FileState : {f} \in Document
  BY DEF Document
<1>1. CASE \E s \in Story : OpensStory(s)
  <2>1. PICK s \in Story : OpensStory(s)
    BY <1>1
  <2>2. s \in DOMAIN shown /\ editor' = Editor({shown[s]}, s) /\ ~editor.open
        /\ UNCHANGED <<documents, decided, shown, read, error, unannounced, call, left>>
    BY <2>1 DEF OpensStory, page, requests
  <2>3. {shown[s]} \in Document
    BY <1>0, <2>2, DeskFacts
  <2>4. editor' \in DeskEditor /\ editor'.open /\ editor'.id = s
    BY <2>2, <2>3, EditorShape
  <2> QED BY <2>2, <2>4 DEF EditorStep, EditorNames
<1>2. CASE OpensNew
  <2>1. editor' = Editor({}, "new") /\ ~editor.open
        /\ UNCHANGED <<documents, decided, shown, read, error, unannounced, call, left>>
    BY <1>2 DEF OpensNew, page, requests
  <2>2. {} \in Document
    BY DEF Document
  <2>3. editor' \in DeskEditor /\ editor'.open /\ editor'.base = {}
    BY <2>1, <2>2, EditorShape
  <2> QED BY <2>1, <2>3 DEF EditorStep, EditorNames
<1>3. CASE Leaves
  <2>1. editor' = NoEditor
        /\ UNCHANGED <<documents, decided, shown, read, error, unannounced>>
        /\ call' = NoRequest
        /\ left' = IF call.at = "sent" THEN left \cup {call} ELSE left
    BY <1>3 DEF Leaves, page
  <2>2. editor' \in DeskEditor /\ EditorNames'
    BY <2>1 DEF DeskEditor, EditorNames, NoEditor
  <2> QED BY <2>1, <2>2 DEF EditorStep
<1>4. CASE Resets
  <2>1. editor.open /\ Stale /\ editor' = Editor({shown[editor.id]}, editor.id)
        /\ UNCHANGED <<documents, decided, shown, read, error, unannounced, call, left>>
    BY <1>4 DEF Resets, page, requests
  <2>2. editor.id \in DOMAIN shown /\ editor.id \in Story
    BY <2>1, DeskFacts DEF Stale
  <2>3. {shown[editor.id]} \in Document
    BY <1>0, <2>2, DeskFacts
  <2>4. editor' \in DeskEditor /\ editor'.open /\ editor'.id = editor.id
    BY <2>1, <2>2, <2>3, EditorShape
  <2> QED BY <2>1, <2>2, <2>4 DEF EditorStep, EditorNames
<1>5. CASE AsksApproval
  <2>1. editor.open /\ ~Creating /\ ~Unavailable
        /\ editor' = [editor EXCEPT !.asked = {shown[editor.id]}]
        /\ UNCHANGED <<documents, decided, shown, read, error, unannounced, call, left>>
    BY <1>5 DEF AsksApproval, Decidable, Disabled, page, requests
  <2>2. shown[editor.id] \in FileState
    BY <2>1, DeskFacts DEF Unavailable
  <2>3. editor' \in DeskEditor /\ editor'.open /\ editor'.id = editor.id
        /\ editor'.base = editor.base
    BY <2>1, <2>2, OpenEditor DEF DeskEditor
  <2> QED BY <2>1, <2>3, OpenEditor DEF EditorStep, EditorNames
<1>6. CASE \E input \in Input : Types(input)
  <2>1. PICK input \in Input : Types(input)
    BY <1>6
  <2>2. editor.open /\ editor' = [editor EXCEPT !.draft = input]
        /\ UNCHANGED <<documents, decided, shown, read, error, unannounced, call, left>>
    BY <2>1 DEF Types, page, requests
  <2>3. editor' \in DeskEditor /\ editor'.open /\ editor'.id = editor.id
        /\ editor'.base = editor.base
    BY <2>2, OpenEditor DEF DeskEditor
  <2> QED BY <2>2, <2>3, OpenEditor DEF EditorStep, EditorNames
<1> QED BY <1>1, <1>2, <1>3, <1>4, <1>5, <1>6

-----------------------------------------------------------------------------
(* Requests of the editor.                                                 *)

\* What a request carries.
LEMMA SendsShape ==
  ASSUME DeskInv, editor.open, NEW op \in {"create", "update", "approve", "return", "remove"},
         NEW semantic \in SUBSET Input, Sends(op, semantic)
  PROVE  /\ call' \in DeskCall /\ call' # NoRequest
         /\ call'.op = op /\ call'.at = "sent" /\ call'.id = editor.id
         /\ call'.semantic = semantic
         /\ UNCHANGED <<documents, shown, read, error, unannounced, left>>
<1>1. /\ call' = [op |-> op, at |-> "sent", id |-> editor.id,
                  hash |-> editor.base, input |-> editor.draft, semantic |-> semantic,
                  saved |-> {}]
      /\ UNCHANGED <<documents, shown, read, error, unannounced, left>>
  BY DEF Sends, page
<1>2. editor.base \in Document /\ editor.draft \in Input /\ editor.id \in Story \cup {"new"}
      /\ {} \in Document
  BY OpenEditor DEF Document
<1>3. call' \in DeskCall
  BY <1>1, <1>2 DEF DeskCall
<1>4. call' # NoRequest
  BY <1>1 DEF NoRequest
<1> QED BY <1>1, <1>3, <1>4

\* The editor after it sent something stays the editor it was.
LEMMA SameEditor ==
  ASSUME DeskInv, editor.open,
         \/ editor' = editor
         \/ \E no \in BOOLEAN : editor' = [editor EXCEPT !.conflict = no]
         \/ editor' = [editor EXCEPT !.asked = {}]
  PROVE  editor' \in DeskEditor /\ editor'.open /\ EditorNames'
<1>1. /\ editor' \in [open : {TRUE}, id : Story \cup {"new"}, base : Document,
                      conflict : BOOLEAN, asked : SUBSET FileState, draft : Input]
      /\ editor'.base = editor.base /\ editor'.id = editor.id
  BY OpenEditor
<1>2. editor' \in DeskEditor /\ editor'.open
  BY <1>1 DEF DeskEditor
<1> QED BY <1>1, <1>2, OpenEditor DEF EditorNames

\* Saving, removing and returning to draft ask for no approval.
LEMMA PlainSends ==
  ASSUME DeskInv, Saves \/ Removes \/ ReturnsToDraft
  PROVE  DeskInv'
<1>1. PICK op \in {"create", "update", "return", "remove"} :
        /\ Sends(op, {}) /\ (op # "create" => editor.base # {}) /\ editor.open
        /\ editor' = editor \/ \E no \in BOOLEAN : editor' = [editor EXCEPT !.conflict = no]
        /\ UNCHANGED decided
  <2>1. CASE Saves
    BY <2>1 DEF Saves, Creating
  <2>2. CASE Removes
    BY <2>2 DEF Removes, Creating
  <2>3. CASE ReturnsToDraft
    BY <2>3 DEF ReturnsToDraft, Decidable, Creating
  <2> QED BY <2>1, <2>2, <2>3
<1>2. /\ call' \in DeskCall /\ call' # NoRequest
      /\ call'.op = op /\ call'.at = "sent" /\ call'.id = editor.id
      /\ UNCHANGED <<documents, shown, read, error, unannounced, left>>
  BY <1>1, SendsShape
<1>3. editor' \in DeskEditor /\ editor'.open /\ EditorNames'
  BY <1>1, SameEditor
<1>4. PageTypes'
  BY <1>2, <1>3 DEF DeskInv, PageTypes
<1>5. CallInv'
  <2>1. op # "create" => editor.id \in Story
    BY <1>1, OpenEditor
  <2> QED BY <1>1, <1>2, <1>3, <2>1 DEF DeskInv, CallInv, Asks
<1> QED BY <1>1, <1>2, <1>3, <1>4, <1>5, DeskQuiet

\* What the dialog showed is the editor's document: no reload came between.
LEMMA ApprovesKeeps == ASSUME DeskInv, Approves PROVE DeskInv'
<1>1. /\ Decidable /\ Sends("approve", {Semantic(Base)})
      /\ editor' = [editor EXCEPT !.asked = {}]
      /\ decided' = decided \cup {<<editor.id, Semantic(shown[editor.id])>>}
  BY DEF Approves
<1>2. editor.open /\ editor.base # {} /\ shown[editor.id] = Base
  BY <1>1 DEF Decidable, Creating, Stale, Disabled, Unavailable
<1>3. Base \in FileState /\ editor.id \in Story
  BY <1>2, OpenEditor
<1>4. PICK i \in Input : i = Semantic(Base)
  BY <1>3 DEF Semantic, Input, FileState
<1>5. /\ call' \in DeskCall /\ call' # NoRequest
      /\ call'.op = "approve" /\ call'.at = "sent" /\ call'.id = editor.id
      /\ call'.semantic = {i}
      /\ UNCHANGED <<documents, shown, read, error, unannounced, left>>
  <2>1. Sends("approve", {i}) /\ {i} \in SUBSET Input
    BY <1>1, <1>4
  <2> QED BY <1>2, <2>1, SendsShape
<1>6. editor' \in DeskEditor /\ editor'.open /\ EditorNames'
  BY <1>1, <1>2, SameEditor
<1>7. decided' = decided \cup {<<editor.id, i>>}
  BY <1>1, <1>2, <1>4
<1>8. PageTypes'
  BY <1>5, <1>6 DEF DeskInv, PageTypes
<1>9. CallInv'
  <2>1. call' \in DeskCall /\ Asks(call)' /\ editor'.open
    BY <1>3, <1>5, <1>6, <1>7 DEF Asks
  <2>2. \A c \in left' : c \in DeskCall /\ c.at = "sent" /\ Asks(c)'
    BY <1>5, <1>7 DEF DeskInv, CallInv, Asks
  <2> QED BY <2>1, <2>2 DEF CallInv
<1>10. FilesInv'
  BY <1>5, <1>7 DEF DeskInv, FilesInv, documents, onDisk, loose
<1> QED BY <1>6, <1>8, <1>9, <1>10 DEF DeskInv

\* Only the answer of a request changes.
LEMMA AnswerKeeps ==
  ASSUME DeskInv, call # NoRequest, call' = [call EXCEPT !.at = "lost"],
         left' \subseteq left, UNCHANGED <<documents, decided, editor>>,
         PageTypes'
  PROVE  DeskInv'
<1>1. call \in DeskCall /\ Asks(call) /\ editor.open
  BY DEF DeskInv, CallInv
<1>2. /\ call' \in DeskCall /\ call'.at = "lost"
      /\ call'.op = call.op /\ call'.id = call.id /\ call'.semantic = call.semantic
  BY <1>1 DEF DeskCall
<1>3. CallInv'
  BY <1>1, <1>2 DEF DeskInv, CallInv, Asks
<1>4. EditorNames'
  BY DEF DeskInv, EditorNames
<1> QED BY <1>3, <1>4, DeskQuiet

\* A request or its answer is lost.
LEMMA CallLostKeeps == ASSUME DeskInv, CallLost PROVE DeskInv'
<1>1. /\ call.at \in {"sent", "ok"} /\ call' = [call EXCEPT !.at = "lost"]
      /\ UNCHANGED <<documents, decided, editor, left, shown, read, error, unannounced>>
  BY DEF CallLost, page
<1>2. call # NoRequest
  BY <1>1 DEF NoRequest
<1>3. PageTypes'
  BY <1>1 DEF DeskInv, PageTypes
<1> QED BY <1>1, <1>2, <1>3, AnswerKeeps

\* A restart of the server loses the requests under way.
LEMMA RestartsKeeps == ASSUME DeskInv, Restarts PROVE DeskInv'
<1>1. /\ call' = IF call.at = "sent" THEN [call EXCEPT !.at = "lost"] ELSE call
      /\ read' = IF read = Asked THEN [at |-> "failed"] ELSE read
      /\ left' = {} /\ UNCHANGED <<documents, decided, editor, shown, error, unannounced>>
  BY DEF Restarts
<1>2. read' \in DeskRead
  BY <1>1, DeskFlags
<1>3. PageTypes'
  BY <1>1, <1>2 DEF DeskInv, PageTypes
<1>4. CASE call.at = "sent"
  BY <1>1, <1>3, <1>4, AnswerKeeps DEF NoRequest
<1>5. CASE call.at # "sent"
  <2>1. ReadsStep
    BY <1>1, <1>2, <1>5, DeskFlags DEF ReadsStep
  <2> QED BY <2>1, ReadsKeep
<1> QED BY <1>4, <1>5

\* The server approves what a request names: the user confirmed it.
LEMMA ServesKeeps ==
  ASSUME DeskInv, NEW q \in DeskCall, q.at = "sent", Asks(q), NEW id \in Ids(q),
         NEW reply \in {"ok", "conflict", "missing"}, Serves(q, id, reply), UNCHANGED decided
  PROVE  /\ FilesInv' /\ id \in Story
         /\ q.op # "create" => id = q.id
         /\ reply = "ok" /\ q.op # "remove" => story'[id] \in FileState
<1>2. q # NoRequest
  BY DEF NoRequest
<1>0. q.op # "create" => id = q.id
  BY DEF Ids
<1>3. id \in Story
  BY DEF Asks, Ids
<1> DEFINE c == Request(q, id)
<1>4. /\ c.op = q.op /\ c.id = id /\ c.input = q.input
      /\ c.semantic = IF q.semantic = {} THEN {} ELSE CHOOSE i \in q.semantic : TRUE
  BY DEF Request
<1>5. /\ q.op \in {"create", "update", "approve", "return", "remove"}
      /\ q.input \in Input /\ story \in Stories
  BY <1>2 DEF DeskCall, DeskInv, FilesInv
<1>9. ServesStory(c, reply)
  BY DEF Serves
<1> HIDE DEF c
<1>6. /\ Grants(c) /\ adr' = adr
      /\ reply = "ok" /\ c.op # "remove" => c.id \in DOMAIN story'
  BY <1>3, <1>4, <1>5, <1>9, ServesGrants
<1>7. q.op = "approve" => <<id, c.semantic>> \in decided
  BY <1>0, <1>4 DEF Asks
<1>8. FilesInv'
  <2>1. ASSUME NEW s \in DOMAIN story' \ looseStories' PROVE story'[s].adrs \subseteq adr'
    BY <1>6, <2>1 DEF Grants, DeskInv, FilesInv
  <2>2. ASSUME NEW s \in DOMAIN story', NEW i \in story'[s].approved PROVE <<s, i>> \in decided'
    <3>1. CASE s \in DOMAIN story /\ i \in story[s].approved
      BY <3>1 DEF DeskInv, FilesInv
    <3>2. CASE c.op = "approve" /\ s = c.id /\ i = c.semantic
      BY <1>4, <1>7, <3>2
    <3> QED BY <1>6, <2>2, <3>1, <3>2 DEF Grants
  <2>3. story' \in Stories
    BY <1>6 DEF Grants
  <2> QED BY <2>1, <2>2, <2>3 DEF FilesInv
<1>10. reply = "ok" /\ q.op # "remove" => story'[id] \in FileState
  BY <1>4, <1>6, StoriesShape DEF Grants
<1> QED BY <1>0, <1>3, <1>8, <1>10

\* The open editor's request is served.
LEMMA CallServedKeeps == ASSUME DeskInv, CallServed PROVE DeskInv'
<1>1. PICK id \in Ids(call), reply \in {"ok", "conflict", "missing"} :
        /\ Serves(call, id, reply)
        /\ call' = [call EXCEPT !.at = reply, !.id = id,
                      !.saved = IF reply = "ok" /\ call.op # "remove" THEN {story'[id]} ELSE {}]
        /\ call.at = "sent"
        /\ UNCHANGED <<shown, error, read, editor, left, decided, unannounced>>
  BY DEF CallServed, page
<1>2. call \in DeskCall /\ call # NoRequest /\ Asks(call) /\ editor.open
  BY <1>1 DEF DeskInv, CallInv, NoRequest
<1>3. /\ FilesInv' /\ id \in Story
      /\ call.op # "create" => id = call.id
      /\ reply = "ok" /\ call.op # "remove" => story'[id] \in FileState
  BY <1>1, <1>2, ServesKeeps
<1>9. PICK saved \in Document :
        saved = IF reply = "ok" /\ call.op # "remove" THEN {story'[id]} ELSE {}
  BY <1>3 DEF Document
<1>10. /\ call' \in DeskCall /\ call'.at = reply /\ call'.id = id /\ call'.saved = saved
       /\ call'.op = call.op /\ call'.semantic = call.semantic
  BY <1>1, <1>2, <1>3, <1>9 DEF DeskCall
<1>11. CallInv'
  <2>1. call.op = "approve" => call.semantic # {} /\ \A i \in call.semantic : <<id, i>> \in decided
    BY <1>2, <1>3 DEF Asks
  <2>2. Asks(call)'
    BY <1>1, <1>3, <1>9, <1>10, <2>1 DEF Asks
  <2>3. \A c \in left' : c \in DeskCall /\ c.at = "sent" /\ Asks(c)'
    BY <1>1 DEF DeskInv, CallInv, Asks
  <2> QED BY <1>1, <1>2, <1>10, <2>2, <2>3 DEF CallInv
<1>12. PageTypes' /\ EditorNames'
  BY <1>1 DEF DeskInv, PageTypes, EditorNames
<1> QED BY <1>3, <1>11, <1>12 DEF DeskInv

\* A request of an editor the user has left is served.
LEMMA LeftServedKeeps == ASSUME DeskInv, LeftServed PROVE DeskInv'
<1>1. PICK c \in left :
        /\ \E id \in Ids(c), reply \in {"ok", "conflict", "missing"} : Serves(c, id, reply)
        /\ left' = left \ {c}
        /\ UNCHANGED <<shown, error, read, editor, call, decided, unannounced>>
  BY DEF LeftServed, page
<1>2. PICK id \in Ids(c), reply \in {"ok", "conflict", "missing"} : Serves(c, id, reply)
  BY <1>1
<1>3. c \in DeskCall /\ c.at = "sent" /\ Asks(c)
  BY DEF DeskInv, CallInv
<1>4. FilesInv'
  BY <1>1, <1>2, <1>3, ServesKeeps
<1>5. PageTypes' /\ EditorNames' /\ CallInv'
  BY <1>1 DEF DeskInv, PageTypes, EditorNames, CallInv, Asks
<1> QED BY <1>4, <1>5 DEF DeskInv

\* The answer of a request arrives.
LEMMA CallReturnsKeeps == ASSUME DeskInv, CallReturns PROVE DeskInv'
<1>1. /\ call' = NoRequest /\ call.at \in {"ok", "conflict", "missing", "lost"}
      /\ UNCHANGED <<documents, decided, left>>
  BY DEF CallReturns
<1>2. call \in DeskCall /\ call # NoRequest /\ Asks(call) /\ editor.open
  BY <1>1 DEF DeskInv, CallInv, NoRequest
<1>3. CallInv'
  BY <1>1 DEF DeskInv, CallInv, DeskCall, Asks
<1>4. CASE call.at = "ok"
  <2>1. /\ shown' = Accepted /\ error' = FALSE /\ read' = NoRead
        /\ unannounced' = (shown' # Listing)
        /\ editor' = IF call.op \in {"approve", "return"} THEN Editor(call.saved, call.id)
                                                          ELSE NoEditor
    BY <1>4 DEF CallReturns
  <2>2. unannounced' \in BOOLEAN
    BY <2>1
  <2>3. shown' \in Stories
    <3>1. CASE call.op = "remove"
      <4>1. shown' = Restrict(shown, DOMAIN shown \ {call.id})
        BY <2>1, <3>1 DEF Accepted
      <4> QED BY <4>1, DeskFacts, StoriesRestrict
    <3>2. CASE call.op # "remove"
      <4>1. PICK f \in FileState : f = CHOOSE g \in call.saved : TRUE
        BY <1>2, <1>4, <3>2 DEF Asks, DeskCall, Document
      <4>2. shown' = With(shown, call.id, f)
        BY <2>1, <3>2, <4>1 DEF Accepted
      <4>3. call.id \in Story
        BY <1>2, <1>4, <3>2 DEF Asks
      <4> QED BY <4>2, <4>3, DeskFacts, StoriesWith
    <3> QED BY <3>1, <3>2
  <2>4. editor' \in DeskEditor /\ EditorNames'
    <3>1. CASE call.op \in {"approve", "return"}
      <4>1. call.saved \in Document /\ call.id \in Story
        BY <1>2, <1>4, <3>1 DEF Asks, DeskCall
      <4>2. editor' = Editor(call.saved, call.id)
        BY <2>1, <3>1
      <4>3. editor' \in DeskEditor /\ editor'.id = call.id
        BY <4>1, <4>2, EditorShape
      <4> QED BY <4>1, <4>3 DEF EditorNames
    <3>2. CASE call.op \notin {"approve", "return"}
      BY <2>1, <3>2 DEF DeskEditor, EditorNames, NoEditor
    <3> QED BY <3>1, <3>2
  <2>5. PageTypes'
    BY <2>1, <2>2, <2>3, <2>4, DeskFlags DEF PageTypes
  <2> QED BY <1>1, <1>3, <2>4, <2>5, DeskQuiet
<1>5. CASE call.at # "ok"
  <2>1. /\ UNCHANGED <<shown, error, read, unannounced>>
        /\ editor' = [editor EXCEPT !.conflict = call.at = "conflict"]
    BY <1>5 DEF CallReturns, page
  <2>2. editor' \in DeskEditor /\ EditorNames'
    <3>1. editor.open /\ \E no \in BOOLEAN : editor' = [editor EXCEPT !.conflict = no]
      BY <1>2, <2>1
    <3> QED BY <3>1, SameEditor
  <2>3. PageTypes'
    BY <2>1, <2>2 DEF DeskInv, PageTypes
  <2> QED BY <1>1, <1>3, <2>2, <2>3, DeskQuiet
<1> QED BY <1>4, <1>5

-----------------------------------------------------------------------------
(* Everyone else.                                                          *)

\* Others approve nothing, and keep a story's ADRs existing unless they edit by
\* hand.
DeskOthers ==
  /\ story' \in Stories /\ UNCHANGED decided
  /\ \A s \in DOMAIN story' \ looseStories' : story'[s].adrs \subseteq adr'
  /\ \A s \in DOMAIN story' : \A i \in story'[s].approved :
       s \in DOMAIN story /\ i \in story[s].approved
  /\ UNCHANGED <<shown, error, read, editor, call, left>> /\ unannounced' \in BOOLEAN

\* Such a step keeps the invariant.
LEMMA DeskOthersKeep == ASSUME DeskInv, DeskOthers PROVE DeskInv'
<1>1. PageTypes' /\ EditorNames' /\ CallInv'
  BY DEF DeskInv, DeskOthers, PageTypes, EditorNames, CallInv, Asks
<1>2. FilesInv'
  BY DEF DeskInv, DeskOthers, FilesInv
<1> QED BY <1>1, <1>2 DEF DeskInv

\* One story file written by hand.
LEMMA WrittenByHand ==
  ASSUME DeskInv, NEW s \in DOMAIN story, NEW f \in FileState, story' = [story EXCEPT ![s] = f],
         f.approved = story[s].approved, adr' = adr,
         \/ f.adrs = story[s].adrs /\ looseStories' = looseStories
         \/ f.adrs \subseteq adr /\ looseStories' = looseStories \ {s}
         \/ looseStories' = looseStories \cup {s}
  PROVE  /\ story' \in Stories
         /\ \A x \in DOMAIN story' \ looseStories' : story'[x].adrs \subseteq adr'
         /\ \A x \in DOMAIN story' : \A i \in story'[x].approved :
              x \in DOMAIN story /\ i \in story[x].approved
<1>1. /\ story' \in Stories /\ DOMAIN story' = DOMAIN story /\ story'[s] = f
      /\ \A t \in DOMAIN story : t # s => story'[t] = story[t]
  BY DeskFacts, StoriesExcept
<1>2. \A x \in DOMAIN story \ looseStories : story[x].adrs \subseteq adr
  BY DEF DeskInv, FilesInv
<1>3. ASSUME NEW x \in DOMAIN story' \ looseStories' PROVE story'[x].adrs \subseteq adr'
  <2>1. CASE x = s
    BY <1>1, <1>2, <1>3, <2>1
  <2>2. CASE x # s
    BY <1>1, <1>2, <1>3, <2>2
  <2> QED BY <2>1, <2>2
<1>4. ASSUME NEW x \in DOMAIN story', NEW i \in story'[x].approved
      PROVE  x \in DOMAIN story /\ i \in story[x].approved
  <2>1. CASE x = s
    BY <1>1, <2>1, <1>4
  <2>2. CASE x # s
    BY <1>1, <2>2, <1>4
  <2> QED BY <2>1, <2>2
<1> QED BY <1>1, <1>3, <1>4

\* A hand edit leaves approvals in place, and a story with a missing ADR only
\* as a loose one.
LEMMA EditsByHandSteps == ASSUME DeskInv, EditsByHand PROVE DeskOthers
<1>1. /\ UNCHANGED <<shown, error, read, editor, call, left, decided>> /\ unannounced' = TRUE
      /\ \/ \E s \in DOMAIN story, i \in Input : HandEditsStory(s, i)
         \/ \E s \in DOMAIN story : HandRemovesStory(s)
         \/ \E a \in adr : HandRemovesAdr(a)
         \/ \E s \in DOMAIN story : BreaksOrRepairsStory(s)
  BY DEF EditsByHand, page, requests
<1>2. \A x \in DOMAIN story : story[x] \in FileState
  BY DeskFacts
<1>3. CASE \E s \in DOMAIN story, i \in Input : HandEditsStory(s, i)
  <2>1. PICK s \in DOMAIN story, i \in Input : HandEditsStory(s, i)
    BY <1>3
  <2>2. PICK old \in FileState : old = story[s]
    BY <1>2
  <2>3. PICK text \in Text, adrs \in SUBSET Adr : text = i.text /\ adrs = i.adrs
    BY DEF Input
  <2> DEFINE edited == [old EXCEPT !.text = text, !.adrs = adrs]
  <2>9. edited \in FileState /\ edited.adrs = adrs /\ edited.approved = old.approved
    BY DEF FileState
  <2>4. PICK f \in FileState : f = edited /\ f.adrs = adrs /\ f.approved = old.approved
    BY <2>9
  <2>5. /\ story' = [story EXCEPT ![s].text = text, ![s].adrs = adrs] /\ adr' = adr
        /\ looseStories' = IF adrs \subseteq adr THEN looseStories \ {s}
                                                 ELSE looseStories \cup {s}
    BY <2>1, <2>3 DEF HandEditsStory
  <2>6. story' = [story EXCEPT ![s] = f]
    <3>1. PICK S \in SUBSET Story : story \in [S -> FileState]
      BY DeskFacts DEF Stories
    <3> QED BY <2>2, <2>4, <2>5, <3>1
  <2>7. f.approved = story[s].approved
    BY <2>2, <2>4
  <2>8. \/ f.adrs \subseteq adr /\ looseStories' = looseStories \ {s}
        \/ looseStories' = looseStories \cup {s}
    BY <2>4, <2>5
  <2> QED BY <1>1, <2>5, <2>6, <2>7, <2>8, WrittenByHand DEF DeskOthers
<1>4. CASE \E s \in DOMAIN story : BreaksOrRepairsStory(s)
  <2>1. PICK s \in DOMAIN story : BreaksOrRepairsStory(s)
    BY <1>4
  <2>2. PICK v \in BOOLEAN : v = ~story[s].valid
    BY <1>2 DEF FileState
  <2> DEFINE edited == [story[s] EXCEPT !.valid = v]
  <2>6. /\ edited \in FileState /\ edited.adrs = story[s].adrs
        /\ edited.approved = story[s].approved
    BY <1>2 DEF FileState
  <2>3. PICK f \in FileState :
          f = edited /\ f.adrs = story[s].adrs /\ f.approved = story[s].approved
    BY <2>6
  <2>4. story' = [story EXCEPT ![s].valid = ~@] /\ adr' = adr /\ looseStories' = looseStories
    BY <2>1 DEF BreaksOrRepairsStory, loose
  <2>5. story' = [story EXCEPT ![s] = f]
    BY <2>2, <2>3, <2>4
  <2> QED BY <1>1, <2>3, <2>4, <2>5, WrittenByHand DEF DeskOthers
<1>5. CASE \E s \in DOMAIN story : HandRemovesStory(s)
  <2>1. PICK s \in DOMAIN story : HandRemovesStory(s)
    BY <1>5
  <2>2. /\ story' = Restrict(story, DOMAIN story \ {s}) /\ adr' = adr
        /\ looseStories' = looseStories \ {s}
    BY <2>1 DEF HandRemovesStory
  <2>3. DOMAIN story \ {s} \subseteq DOMAIN story
    OBVIOUS
  <2>4. /\ story' \in Stories /\ DOMAIN story' = DOMAIN story \ {s}
        /\ \A t \in DOMAIN story' : story'[t] = story[t]
    BY <2>2, <2>3, DeskFacts, StoriesRestrict
  <2>5. \A x \in DOMAIN story' \ looseStories' : story'[x].adrs \subseteq adr'
    BY <2>2, <2>4 DEF DeskInv, FilesInv
  <2> QED BY <1>1, <2>4, <2>5 DEF DeskOthers
<1>6. CASE \E a \in adr : HandRemovesAdr(a)
  <2>1. PICK a \in adr : HandRemovesAdr(a)
    BY <1>6
  <2>2. /\ story' = story /\ adr' = adr \ {a}
        /\ looseStories' = looseStories \cup {s \in DOMAIN story : a \in story[s].adrs}
    BY <2>1 DEF HandRemovesAdr
  <2>3. ASSUME NEW x \in DOMAIN story' \ looseStories' PROVE story'[x].adrs \subseteq adr'
    <3>1. x \in DOMAIN story \ looseStories /\ a \notin story[x].adrs
      BY <2>2
    <3>2. story[x].adrs \subseteq adr
      BY <3>1 DEF DeskInv, FilesInv
    <3> QED BY <2>2, <3>1, <3>2
  <2>4. story \in Stories
    BY DeskFacts
  <2> QED BY <1>1, <2>2, <2>3, <2>4 DEF DeskOthers
<1> QED BY <1>1, <1>3, <1>4, <1>5, <1>6

\* Another window's update or removal of a story is a request like any other.
LEMMA FreshSteps ==
  ASSUME DeskInv, NEW op \in {"update", "remove"}, NEW s \in DOMAIN story, NEW i \in Input,
         ServesStory(Fresh(op, s, i), "ok"), UNCHANGED <<decided, desk>>
  PROVE  DeskOthers
<1>1. PICK c : c = Fresh(op, s, i)
  OBVIOUS
<1>2. c.op = op /\ c.id = s /\ c.input = i /\ s \in Story /\ story \in Stories
  BY <1>1, DeskFacts DEF Fresh
<1>3. c.op \in {"create", "update", "approve", "return", "remove"} /\ c.id \in Story
      /\ c.input \in Input /\ c.op # "approve"
  BY <1>2
<1>4. ServesStory(c, "ok")
  BY <1>1
<1>5. Grants(c) /\ adr' = adr
  BY <1>2, <1>3, <1>4, ServesGrants
<1>6. \A x \in DOMAIN story' \ looseStories' : story'[x].adrs \subseteq adr'
  BY <1>5 DEF Grants, DeskInv, FilesInv
<1>7. UNCHANGED <<shown, error, read, editor, call, left>> /\ unannounced' \in BOOLEAN
  BY DeskFlags DEF desk, page, requests
<1> QED BY <1>3, <1>5, <1>6, <1>7 DEF Grants, DeskOthers

\* An ADR goes only when no story file refers to it, readable or not.
LEMMA OtherWindowSteps == ASSUME DeskInv, OtherWindow PROVE DeskOthers
<1>1. UNCHANGED <<desk, decided>>
      /\ \/ \E s \in DOMAIN story, i \in Input :
              ServesStory(Fresh("update", s, i), "ok")
         \/ \E s \in DOMAIN story : ServesStory(Fresh("remove", s, BlankInput), "ok")
         \/ \E a \in Adr : CreatesAdr(a) \/ RemovesAdr(a)
  BY DEF OtherWindow, desk
<1>2. CASE \E s \in DOMAIN story, i \in Input :
             ServesStory(Fresh("update", s, i), "ok")
  BY <1>1, <1>2, FreshSteps
<1>3. CASE \E s \in DOMAIN story :
             ServesStory(Fresh("remove", s, BlankInput), "ok")
  <2>1. BlankInput \in Input
    BY DocumentsAssumption DEF BlankInput, Input
  <2> QED BY <1>1, <1>3, <2>1, FreshSteps
<1>4. CASE \E a \in Adr : CreatesAdr(a) \/ RemovesAdr(a)
  <2>1. UNCHANGED <<shown, error, read, editor, call, left>> /\ unannounced' \in BOOLEAN
    BY <1>1, DeskFlags DEF desk, page, requests
  <2>3. PICK a \in Adr : CreatesAdr(a) \/ RemovesAdr(a)
    BY <1>4
  <2>4. \A s \in DOMAIN story \ looseStories : story[s].adrs \subseteq adr
    BY DEF DeskInv, FilesInv
  <2>5. ASSUME CreatesAdr(a)
        PROVE  story' = story /\ \A s \in DOMAIN story \ looseStories' : story[s].adrs \subseteq adr'
    <3>1. /\ story' = story /\ adr' = adr \cup {a}
          /\ looseStories' = {s \in looseStories : ~(story[s].adrs \subseteq adr')}
      BY <2>5 DEF CreatesAdr
    <3> QED BY <2>4, <3>1
  <2>6. ASSUME RemovesAdr(a)
        PROVE  story' = story /\ \A s \in DOMAIN story \ looseStories' : story[s].adrs \subseteq adr'
    <3>1. /\ story' = story /\ adr' = adr \ {a} /\ looseStories' = looseStories
          /\ \A s \in DOMAIN story : a \notin story[s].adrs
      BY <2>6 DEF RemovesAdr, AdrRemovable, loose
    <3> QED BY <2>4, <3>1
  <2>2. story' = story /\ \A s \in DOMAIN story \ looseStories' : story[s].adrs \subseteq adr'
    BY <2>3, <2>5, <2>6
  <2> QED BY <1>1, <2>1, <2>2 DEF DeskOthers, DeskInv, FilesInv
<1> QED BY <1>1, <1>2, <1>3, <1>4

-----------------------------------------------------------------------------
(* The desk's invariant.                                                   *)

\* The first story refers to ADRs that exist and is not approved.
LEMMA InitDesk == DeskInit => DeskInv
<1> SUFFICES ASSUME DeskInit PROVE DeskInv
  OBVIOUS
<1>1. PICK first \in Story : first = CHOOSE s \in Story : TRUE
  BY DeskAssumption
<1> DEFINE file == NewStory([BlankInput EXCEPT !.adrs = Adr])
<1>2. file \in FileState /\ file.adrs = Adr /\ file.approved = {}
  BY DocumentsAssumption DEF NewStory, BlankInput, FileState
<1>3. /\ story = [s \in {first} |-> file] /\ adr = Adr /\ shown = Listing
      /\ error = FALSE /\ read = NoRead /\ editor = NoEditor /\ call = NoRequest /\ left = {}
      /\ decided = {} /\ unannounced = FALSE
  BY <1>1 DEF DeskInit
<1> HIDE DEF file
<1>4. story \in [{first} -> FileState] /\ {first} \in SUBSET Story
  BY <1>2, <1>3
<1>5. FilesInv
  BY <1>2, <1>3, <1>4 DEF FilesInv, Stories
<1>6. shown \in Stories
  <2>1. DOMAIN story \subseteq Story /\ \A s \in DOMAIN story : story[s] \in FileState
    BY <1>4
  <2>2. shown \in [{t \in DOMAIN story : story[t].valid} -> FileState]
        /\ {t \in DOMAIN story : story[t].valid} \in SUBSET Story
    BY <1>3, <2>1 DEF Listing
  <2> QED BY <2>2 DEF Stories
<1>7. PageTypes /\ EditorNames /\ CallInv
  BY <1>3, <1>6 DEF PageTypes, EditorNames, CallInv, DeskRead, DeskEditor, DeskCall, NoEditor
<1> QED BY <1>5, <1>7 DEF DeskInv

\* Every step of the workspace keeps the invariant.
LEMMA DeskStep == ASSUME DeskInv, [DeskNext]_deskVars PROVE DeskInv'
<1>1. CASE User
  <2>1. CASE Focus \/ TriesAgain
    BY <2>1, ReadsSteps, ReadsKeep
  <2>2. CASE \/ OpensNew \/ Leaves \/ Resets \/ AsksApproval
             \/ \E s \in Story : OpensStory(s)
             \/ \E input \in Input : Types(input)
    BY <2>2, EditorSteps, EditorKeeps
  <2>3. CASE Saves \/ Removes \/ ReturnsToDraft
    BY <2>3, PlainSends
  <2>4. CASE Approves
    BY <2>4, ApprovesKeeps
  <2>5. \/ Focus \/ TriesAgain \/ OpensNew \/ Leaves \/ Resets
        \/ \E s \in Story : OpensStory(s)
        \/ \E input \in Input : Types(input)
        \/ Saves \/ Removes \/ AsksApproval \/ Approves
        \/ ReturnsToDraft
    BY <1>1, Zenon DEF User
  <2> QED BY <2>1, <2>2, <2>3, <2>4, <2>5, Zenon
<1>2. CASE \/ ListServed \/ ListLost \/ ListReturns
           \/ PageConnects \/ PageOpens \/ PageNotified \/ StreamFails
  BY <1>2, ReadsSteps, ReadsKeep
<1>3. CASE Restarts
  BY <1>3, RestartsKeeps
<1>4. CASE CallServed
  BY <1>4, CallServedKeeps
<1>5. CASE CallLost
  BY <1>5, CallLostKeeps
<1>9. CASE LeftServed
  BY <1>9, LeftServedKeeps
<1>6. CASE CallReturns
  BY <1>6, CallReturnsKeeps
<1>7. CASE EditsByHand \/ OtherWindow
  BY <1>7, EditsByHandSteps, OtherWindowSteps, DeskOthersKeep
<1>8. CASE UNCHANGED deskVars
  <2>1. UNCHANGED <<documents, shown, error, read, editor, call, left, decided, unannounced>>
    BY <1>8 DEF deskVars, desk, page, requests
  <2> QED BY <2>1, DeskFlags, ReadsKeep DEF ReadsStep
<1> QED BY <1>1, <1>2, <1>3, <1>4, <1>5, <1>6, <1>7, <1>8, <1>9 DEF DeskNext

\* So it holds in every state the workspace reaches.
LEMMA DeskInvariant == DeskSpec => []DeskInv
<1>1. DeskInit => DeskInv
  BY InitDesk
<1>2. DeskInv /\ [DeskNext]_deskVars => DeskInv'
  BY DeskStep
<1> QED BY <1>1, <1>2, PTL DEF DeskSpec

\* Every ADR a readable story refers to exists, or was left missing by a hand
\* edit since the story was last saved or approved, also after a story file was
\* broken by hand and repaired while ADRs were removed
\* (UserStoryService.assertReferences, ProjectDocumentRepository.remove).
THEOREM AdrsCorrect == DeskSpec => []NoDanglingAdr
<1>1. DeskInv => NoDanglingAdr
  BY DEF DeskInv, FilesInv, NoDanglingAdr
<1> QED BY <1>1, DeskInvariant, PTL

-----------------------------------------------------------------------------
(* The stream, and what the desk promises.                                 *)

\* A set of numbers with a bound has a greatest one.
LEMMA GreatestNatural ==
  ASSUME NEW M, M \subseteq Nat, M # {}, NEW bound \in Nat, \A m \in M : m <= bound,
         NEW top, top = Max(M)
  PROVE  top \in M
<1> DEFINE U == {u \in Nat : \A m \in M : m <= u}
<1>1. U \subseteq Nat /\ U # {}
  OBVIOUS
<1>2. PICK u \in U : \A v \in U : u <= v
  <2> HIDE DEF U
  <2> QED BY <1>1, LeastNatural
<1>3. u \in M
  <2> SUFFICES ASSUME u \notin M PROVE FALSE
    OBVIOUS
  <2>1. u \in Nat /\ \A m \in M : m <= u
    BY <1>2
  <2>2. \A m \in M : m < u
    BY <2>1
  <2>3. PICK less : less = u - 1 /\ less \in Nat /\ \A m \in M : m <= less
    <3>1. PICK m \in M : m \in Nat /\ m < u
      BY <2>2
    <3> QED BY <2>1, <2>2, <3>1
  <2>4. less \in U
    BY <2>3
  <2>5. u <= less
    BY <1>2, <2>4
  <2> QED BY <2>1, <2>3, <2>5
<1>4. \E x \in M : \A y \in M : x >= y
  BY <1>2, <1>3
<1> QED BY <1>4 DEF Max

\* The numbers on the wire are of events the server published.
LEMMA StreamStep ==
  ASSUME StreamTypeOK,
         \/ Publishes \/ Connects \/ Opens \/ Drops \/ ServerRestarts
         \/ \E count \in DOMAIN wire : Arrives(count)
         \/ UNCHANGED stream
  PROVE  StreamTypeOK'
<1>0. sequence \in Nat /\ after \in Nat /\ link \in {"down", "accepted", "open"}
      /\ wire \in Seq(1..sequence)
  BY DEF StreamTypeOK
<1>1. CASE Publishes
  <2>1. sequence' = sequence + 1 /\ link' = link /\ after' = after
    BY <1>1 DEF Publishes
  <2>2. PICK next \in Nat : next = sequence + 1
    BY <1>0
  <2>5. wire \in Seq(1..next) /\ next \in 1..next
    BY <1>0, <2>2
  <2>3. wire' = wire \/ wire' = Append(wire, next)
    BY <1>1, <2>2 DEF Publishes
  <2>6. Append(wire, next) \in Seq(1..next)
    BY <2>5
  <2>4. wire' \in Seq(1..(sequence + 1))
    BY <2>2, <2>3, <2>5, <2>6
  <2> QED BY <1>0, <2>1, <2>4 DEF StreamTypeOK
<1>2. CASE Connects
  <2>1. UNCHANGED <<sequence, after>> /\ link' = "accepted" /\ wire' = Replayed
    BY <1>2 DEF Connects
  <2>2. Keep \in Nat \ {0} /\ Replay \in Nat \ {0}
    BY StreamAssumption
  <2>3. PICK first \in Nat : first = Max({0, sequence - Keep}) /\ first <= sequence
    <3>1. PICK a \in Int : a = sequence - Keep /\ a <= sequence
      BY <1>0, <2>2
    <3>2. Max({0, a}) \in {0, a} /\ \A y \in {0, a} : Max({0, a}) >= y
      <4>1. \E x \in {0, a} : \A y \in {0, a} : x >= y
        BY <3>1
      <4> QED BY <4>1, Zenon DEF Max
    <3>3. Max({0, a}) \in Nat /\ Max({0, a}) <= sequence
      BY <1>0, <3>1, <3>2
    <3> QED BY <3>1, <3>3
  <2>4. PICK n \in Nat : n = Min({Replay, sequence - first}) /\ n <= sequence - first
    <3>1. PICK a \in Nat : a = sequence - first
      BY <1>0, <2>3
    <3>2. Min({Replay, a}) \in {Replay, a} /\ \A y \in {Replay, a} : Min({Replay, a}) <= y
      <4>1. \E x \in {Replay, a} : \A y \in {Replay, a} : x <= y
        BY <2>2, <3>1
      <4> QED BY <4>1, Zenon DEF Min
    <3>3. Min({Replay, a}) \in Nat /\ Min({Replay, a}) <= a
      BY <2>2, <3>1, <3>2
    <3> QED BY <3>1, <3>3
  <2>5. wire' = [i \in 1..n |-> first + i]
    BY <2>1, <2>3, <2>4 DEF Replayed
  <2>6. ASSUME NEW i \in 1..n PROVE first + i \in 1..sequence
    <3>1. /\ first \in Nat /\ n \in Nat /\ sequence \in Nat /\ n <= sequence - first
          /\ i \in Nat /\ 1 <= i /\ i <= n
      BY <1>0, <2>3, <2>4
    <3> QED BY ONLY <3>1
  <2>7. wire' \in Seq(1..sequence)
    BY <2>5, <2>6
  <2> QED BY <1>0, <2>1, <2>7 DEF StreamTypeOK
<1>3. CASE Opens
  BY <1>0, <1>3 DEF Opens, StreamTypeOK
<1>4. CASE Drops \/ ServerRestarts
  <2>1. sequence' \in Nat /\ link' = "down" /\ wire' = <<>> /\ after' = 0
    BY <1>0, <1>4 DEF Drops, ServerRestarts, FirstCursor
  <2> QED BY <2>1 DEF StreamTypeOK
<1>5. CASE \E count \in DOMAIN wire : Arrives(count)
  <2>1. PICK count \in DOMAIN wire : Arrives(count)
    BY <1>5
  <2>2. /\ wire' = SubSeq(wire, count + 1, Len(wire))
        /\ after' = Max({after} \cup {wire[i] : i \in 1..count})
        /\ UNCHANGED <<sequence, link>>
    BY <2>1 DEF Arrives
  <2>3. count \in 1..Len(wire) /\ Len(wire) \in Nat /\ \A i \in 1..Len(wire) : wire[i] \in 1..sequence
    BY <1>0
  <2>4. wire' \in Seq(1..sequence)
    <3>1. \A i \in (count + 1)..Len(wire) : wire[i] \in 1..sequence
      BY <2>3
    <3>2. count + 1 \in Int /\ Len(wire) \in Int
      BY <2>3
    <3>3. SubSeq(wire, count + 1, Len(wire)) \in Seq(1..sequence)
      BY <3>1, <3>2, SubSeqProperties
    <3> QED BY <2>2, <3>3
  <2>5. after' \in Nat
    <3> DEFINE M == {after} \cup {wire[i] : i \in 1..count}
    <3>4. \A i \in 1..count : wire[i] \in Nat /\ wire[i] <= sequence
      BY <1>0, <2>3
    <3>5. ASSUME NEW m \in M PROVE m \in Nat /\ m <= sequence + after
      BY <1>0, <3>4
    <3>1. M \subseteq Nat /\ M # {} /\ sequence + after \in Nat /\ \A m \in M : m <= sequence + after
      BY <1>0, <3>5
    <3>2. after' = Max(M)
      BY <2>2
    <3> HIDE DEF M
    <3>3. after' \in M
      BY <3>1, <3>2, GreatestNatural
    <3> QED BY <3>1, <3>3
  <2> QED BY <1>0, <2>2, <2>4, <2>5 DEF StreamTypeOK
<1>6. CASE UNCHANGED stream
  BY <1>0, <1>6 DEF stream, StreamTypeOK
<1> QED BY <1>1, <1>2, <1>3, <1>4, <1>5, <1>6

\* Every step of the workspace is one of the stream, or none.
LEMMA DeskStreams ==
  ASSUME [DeskNext]_deskVars
  PROVE  \/ Publishes \/ Connects \/ Opens \/ Drops \/ ServerRestarts
         \/ \E count \in DOMAIN wire : Arrives(count)
         \/ UNCHANGED stream
<1>1. CASE User
  <2>1. UNCHANGED stream
    BY <1>1 DEF User, Focus, TriesAgain, OpensNew, Leaves, Resets,
                OpensStory, Types, Saves, Removes, AsksApproval,
                Approves, ReturnsToDraft, Sends
  <2> QED BY <2>1
<1>2. CASE ListServed \/ ListLost \/ ListReturns \/ CallLost
           \/ CallReturns \/ EditsByHand \/ UNCHANGED deskVars
  BY <1>2 DEF ListServed, ListLost, ListReturns, CallLost,
              CallReturns, EditsByHand, deskVars
<1>3. CASE PageConnects \/ PageOpens \/ StreamFails \/ Restarts
           \/ OtherWindow
  BY <1>3 DEF PageConnects, PageOpens, StreamFails, Restarts,
              OtherWindow
<1>4. CASE PageNotified
  BY <1>4 DEF PageNotified
<1>5. CASE CallServed \/ LeftServed
  <2>1. Publishes \/ UNCHANGED stream
    BY <1>5 DEF CallServed, LeftServed, Serves
  <2> QED BY <2>1
<1> QED BY <1>1, <1>2, <1>3, <1>4, <1>5 DEF DeskNext

\* The stream's types hold in every state the workspace reaches.
LEMMA StreamInvariant == DeskSpec => []StreamTypeOK
<1>1. DeskInit => StreamTypeOK
  BY DEF DeskInit, StreamInit, StreamTypeOK
<1>2. StreamTypeOK /\ [DeskNext]_deskVars => StreamTypeOK'
  BY DeskStreams, StreamStep
<1> QED BY <1>1, <1>2, PTL DEF DeskSpec

\* The desk keeps its types, and a story counts as approved only with a
\* content this user confirmed in the approval dialog, whatever was typed,
\* reloaded, edited by hand and answered late in between (UserStoryApproval,
\* useUserStoryDraft.decide, UserStoryService.approve).
THEOREM DeskSoundCorrect == DeskSpec => []DeskSound
<1>1. DeskInv /\ StreamTypeOK => DeskTypeOK
  <2> SUFFICES ASSUME DeskInv, StreamTypeOK PROVE DeskTypeOK
    OBVIOUS
  <2>1. editor.open => editor.draft \in Input
    BY OpenEditor
  <2> QED BY <2>1, DeskFacts, DeskFlags DEF DeskTypeOK
<1>2. DeskInv => ApprovedAsSeen
  <2> SUFFICES ASSUME DeskInv, NEW s \in DOMAIN story, Approved(story[s])
               PROVE  <<s, Semantic(story[s])>> \in decided
    BY DEF ApprovedAsSeen
  <2>1. PICK f \in FileState : f = story[s]
    BY DeskFacts
  <2>2. f.approved = {Semantic(f)}
    BY <2>1, ParsedShape
  <2> QED BY <2>1, <2>2 DEF DeskInv, FilesInv
<1> QED BY <1>1, <1>2, DeskInvariant, StreamInvariant, PTL DEF DeskSound
=============================================================================
