------------------------------ MODULE MCDealer ------------------------------
(***************************************************************************)
(* Two seats and two hands of a one-round no-limit game in which a hand    *)
(* may end by a fold, by a showdown and by an all-in.  An answer of 9 is a *)
(* raise that isValidAction must repair, and one it refuses after an       *)
(* all-in.                                                                 *)
(***************************************************************************)
EXTENDS Dealer

mcStack == [p \in 0 .. 1 |-> 3]
mcBlind == [p \in 0 .. 1 |-> 2 - p]
mcRaiseSize == [r \in 0 .. 0 |-> 0]
mcFirstPlayer == [r \in 0 .. 0 |-> 1]
mcMaxRaises == [r \in 0 .. 0 |-> 255]
mcStrength == [h \in 0 .. 1 |-> [p \in 0 .. 1 |-> IF p = h THEN 1 ELSE 0]]

mcCall == [type |-> "call", size |-> 0]
mcFold == [type |-> "fold", size |-> 0]
mcRaise == [type |-> "raise", size |-> 9]

\* The answers of MCDealerCrash and MCDealerLostHand.
mcFoldOrRaise == {mcFold, mcRaise}
mcCallOnly == {mcCall}
=============================================================================
