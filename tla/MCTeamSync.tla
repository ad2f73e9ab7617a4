----------------------------- MODULE MCTeamSync -----------------------------
(* Model values and symmetry for checking TeamSync with TLC.               *)
EXTENDS TeamSync, TLC

Symmetry == Permutations(Files) \cup Permutations(Contents)
=============================================================================
