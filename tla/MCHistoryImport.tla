--------------------------- MODULE MCHistoryImport ---------------------------
(***************************************************************************)
(* Instances of HistoryImport for TLC: two files, a small, a large and an  *)
(* oversize content, and a short history of two authors.                   *)
(***************************************************************************)
EXTENDS HistoryImport

CONSTANTS f, g, s, l, h

Sizes == s :> 1 @@ l :> 2 @@ h :> 3

Rev(x, y, who) == [tree |-> f :> x @@ g :> y, author |-> who]

\* f grows over the threshold and g over the limit; then g goes.
Short == {<<Rev(s, s, "amy"), Rev(l, h, "bob"), Rev(l, Absent, "amy")>>}

\* Three revisions that change less, the last one nothing that counts.
Still == {<<Rev(l, s, "amy"), Rev(l, Absent, "amy"), Rev(l, Absent, "bob")>>}

\* Histories of one revision and of none, and a file that grows over the
\* limit, shrinks below it, or does both.
Odd == {<<>>, <<Rev(l, s, "amy")>>,
        <<Rev(l, s, "amy"), Rev(h, s, "amy")>>,
        <<Rev(h, s, "amy"), Rev(l, s, "amy")>>,
        <<Rev(l, s, "amy"), Rev(h, s, "amy"), Rev(l, s, "amy")>>}

All == Short \cup Still \cup Odd
=============================================================================
