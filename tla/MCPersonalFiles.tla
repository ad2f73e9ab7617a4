--------------------------- MODULE MCPersonalFiles ---------------------------
(***************************************************************************)
(* An instance of PersonalFiles for TLC: one ordinary path, one whose file *)
(* may be large or oversize, and one dotfile.                              *)
(***************************************************************************)
EXTENDS PersonalFiles

Sizes == [b \in Blobs |-> IF b = "huge" THEN 3 ELSE IF b = "large" THEN 2 ELSE 1]

Start == [p \in Paths |-> IF p = "b" THEN Missing ELSE Plain("x")]

SvnEdits == {<<"a", Missing>>, <<"b", Plain("large")>>, <<"b", Plain("huge")>>}

GitEdits == {{<<"a", Plain("z")>>, <<"b", Plain("x")>>}, {<<"b", Missing>>}}
=============================================================================
