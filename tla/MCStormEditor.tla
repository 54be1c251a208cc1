--------------------------- MODULE MCStormEditor ---------------------------
(***************************************************************************)
(* A model of two own facts, a note and a link of a story, and a link of   *)
(* somebody else; a layout with the note's placement, a move of a card and *)
(* a placement of somebody else.                                           *)
(***************************************************************************)
EXTENDS StormEditor

MCFact == {"note", "link", "theirs"}
MCCites == [x \in MCFact |-> IF x = "note" THEN {} ELSE Story]
MCPlacement == {"note", "move", "others"}
MCForeign == {"theirs", "others"}
=============================================================================
