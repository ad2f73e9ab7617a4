----------------------------- MODULE Replication -----------------------------
(***************************************************************************)
(* What synchronising two repositories promises, without the engine: two   *)
(* append-only histories in which every entry is either a user's commit or *)
(* a copy of a user's commit of the other history.  An entry is 0 for a    *)
(* user's commit and otherwise the position of the commit it copies.       *)
(*                                                                         *)
(* Spec lets a commit be copied again and in any order; OrderedSpec only   *)
(* lets copies be made in the order of the originals, a commit being       *)
(* copied again only before the next one is copied.                        *)
(***************************************************************************)
EXTENDS Naturals, Sequences

VARIABLES svn, git

Init == svn = <<0>> /\ git \in {<<0>>, <<1>>}

UserCommit ==
    \/ svn' = Append(svn, 0) /\ UNCHANGED git
    \/ git' = Append(git, 0) /\ UNCHANGED svn

CopyToGit(r) ==
    /\ svn[r] = 0
    /\ git' = Append(git, r) /\ UNCHANGED svn

CopyToSvn(s) ==
    /\ git[s] = 0
    /\ svn' = Append(svn, s) /\ UNCHANGED git

Next == \/ UserCommit
        \/ \E r \in DOMAIN svn : CopyToGit(r)
        \/ \E s \in DOMAIN git : CopyToSvn(s)

NoneNewer(log, i) == \A j \in DOMAIN log : log[j] <= i

OrderedNext == \/ UserCommit
               \/ \E r \in DOMAIN svn : NoneNewer(git, r) /\ CopyToGit(r)
               \/ \E s \in DOMAIN git : NoneNewer(svn, s) /\ CopyToSvn(s)

Spec == Init /\ [][Next]_<<svn, git>>

OrderedSpec == Init /\ [][OrderedNext]_<<svn, git>>
=============================================================================
