---------------------------- MODULE MCKeyHandoff ----------------------------
(* KeyHandoff for TLC: a letter, a modifier with or without its twin.      *)
EXTENDS KeyHandoff

OnlyLeft     == [r \in {} |-> "ctrl"]
LeftAndRight == [r \in {"rctrl"} |-> "ctrl"]
=============================================================================
