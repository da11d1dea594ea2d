----------------------------- MODULE MCBlueprint ----------------------------
(***************************************************************************)
(* leduc.game, scaled down: eight antes of two chips, so that a bet is of  *)
(* whole antes or half an ante above; two hands, one in each position, and *)
(* showdowns that split the pot.                                           *)
(***************************************************************************)
EXTENDS BlueprintPlayer

mcStack == [p \in 0 .. 1 |-> 16]
mcBlind == [p \in 0 .. 1 |-> 2]
mcRaiseSize == [r \in 0 .. 1 |-> 0]
mcFirstPlayer == [r \in 0 .. 1 |-> 0]
mcMaxRaises == [r \in 0 .. 1 |-> 255]
mcStrength == [h \in 0 .. 1 |-> [p \in 0 .. 1 |-> 1]]
=============================================================================
