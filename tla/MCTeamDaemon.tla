---------------------------- MODULE MCTeamDaemon ----------------------------
(***************************************************************************)
(* Instances of TeamDaemon for TLC.                                        *)
(***************************************************************************)
EXTENDS TeamDaemon, TLC

CONSTANTS a, c, t1, t2, q1, q2

Symmetry == Permutations(Tasks)
=============================================================================
