------------------------------ MODULE MCHands -------------------------------
(***************************************************************************)
(* Three-player no-limit (holdem.nolimit.3p.game): three different stacks, *)
(* so that there are a main pot and up to two side pots, folds in the      *)
(* middle of a bet, all-in raises below the minimum, and rounds that reach *)
(* the end of an action array that is this short.  Everybody has two hole  *)
(* cards, and the second round two cards on the board.                     *)
(***************************************************************************)
EXTENDS Showdown, Replay

mcStack == [p \in 0 .. 2 |-> <<16, 11, 7>>[p + 1]]
mcBlind == [p \in 0 .. 2 |-> <<0, 1, 2>>[p + 1]]
mcRaiseSize == [r \in 0 .. 1 |-> 0]
mcFirstPlayer == [r \in 0 .. 1 |-> IF r = 0 THEN 0 ELSE 1]
mcNumBoardCards == [r \in 0 .. 1 |-> 2 * r]
mcMaxRaises == [r \in 0 .. 1 |-> 255]
=============================================================================
