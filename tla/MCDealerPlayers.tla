--------------------------- MODULE MCDealerPlayers --------------------------
(***************************************************************************)
(* Two clients and a dealer that is killed once, anywhere, and started     *)
(* again.  One line more than the answers may be written anywhere: an old  *)
(* answer once more, a comment or a malformed line.  The game is a limit   *)
(* game with two raises, the second of which is cut to an all-in.          *)
(***************************************************************************)
EXTENDS DealerPlayers

mcStack == [p \in 0 .. 1 |-> 5]
mcBlind == [p \in 0 .. 1 |-> 2 - p]
mcRaiseSize == [r \in 0 .. 0 |-> 2]
mcFirstPlayer == [r \in 0 .. 0 |-> 1]
mcMaxRaises == [r \in 0 .. 0 |-> 2]
mcStrength == [h \in 0 .. 1 |-> [p \in 0 .. 1 |-> IF p = h THEN 1 ELSE 0]]
mcAnswers == {}
=============================================================================
