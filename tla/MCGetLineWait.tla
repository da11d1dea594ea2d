--------------------------- MODULE MCGetLineWait ----------------------------
(***************************************************************************)
(* A line that arrives in two pieces, the job server's timeout of 0, and a *)
(* clock that goes on between the two.                                     *)
(***************************************************************************)
EXTENDS GetLine

mcStreams == {<<"c", "\n">>}
=============================================================================
