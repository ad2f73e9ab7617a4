---------------------------- MODULE MCConflicts ----------------------------
(***************************************************************************)
(* Conflicts and ThreeWayMerge in one run.  They share no variable, so it  *)
(* is enough to explore each while the other is at rest.                   *)
(***************************************************************************)
EXTENDS Conflicts, ThreeWayMerge

QueueAtRest ==
    svnTree = {} /\ svnLog = <<>> /\ gitLog = <<>> /\ cycles = 0

MergeAtRest == step = "start" /\ base = <<>> /\ ours = <<>> /\ theirs = <<>>

MCInit == Init /\ MergeInit /\ (QueueAtRest \/ MergeAtRest)

MCNext ==
    \/ Next /\ MergeAtRest /\ UNCHANGED mergeVars
    \/ MergeNext /\ QueueAtRest /\ UNCHANGED vars

MCSpec == MCInit /\ [][MCNext]_<<vars, mergeVars>>
=============================================================================
