----------------------------- MODULE MCSession -----------------------------
(* Session for TLC.                                                        *)
EXTENDS Session, TLC

Symmetry == Permutations(Slaves) \cup Permutations(Keys)
=============================================================================
