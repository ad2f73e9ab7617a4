--------------------------- MODULE MCPersonalSync ---------------------------
(* Pull requests for checking PersonalSync with TLC.                       *)
EXTENDS PersonalSync

Shapes == {<<"work", "echo", "work">>, <<"noop">>}
=============================================================================
