---------------------------- MODULE MCDeepStack -----------------------------
(***************************************************************************)
(* Leduc hold'em at the scale of its files (twelve antes in a stack, all   *)
(* bets the dealer allows for the opponent), with half-pot and pot bets    *)
(* for DeepStack; two hands, one in each position.                         *)
(***************************************************************************)
EXTENDS DeepStack

mcArguments == [ante |-> 1, stack |-> 12, bet_sizing |-> <<1, 2>>]
mcStack == [p \in 0 .. 1 |-> 12]
mcBlind == [p \in 0 .. 1 |-> 1]
mcZero == [r \in 0 .. 1 |-> 0]
mcMaxRaises == [r \in 0 .. 1 |-> 255]
=============================================================================
