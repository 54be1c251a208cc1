----------------------------- MODULE MCStoryDesk -----------------------------
(***************************************************************************)
(* One story that refers to an ADR; no Event Storming model links it.      *)
(***************************************************************************)
EXTENDS StoryDesk

MCCites == <<>>
=============================================================================
