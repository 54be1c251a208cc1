--------------------------- MODULE MCRunPlanning ---------------------------
(* Instances of RunPlanning for TLC. *)
EXTENDS RunPlanning

TwoActions == {"a", "b"}
OneSkill == {"skill"}
TwoTexts == {<<"short">>, <<"long">>}
Long == {<<"long">>}
OneStart == {1}
First == "a"
=============================================================================
