-------------------------- MODULE MCHandLimitShort --------------------------
(***************************************************************************)
(* Two-player limit with one short stack: readGame takes any stacks in a   *)
(* limit game, and raiseIsValid looks at no stack there.                   *)
(***************************************************************************)
EXTENDS Hand

mcStack == [p \in 0 .. 1 |-> IF p = 0 THEN 3 ELSE 12]
mcBlind == [p \in 0 .. 1 |-> p + 1]
mcRaiseSize == [r \in 0 .. 1 |-> 2]
mcFirstPlayer == [r \in 0 .. 1 |-> 1 - r]
mcMaxRaises == [r \in 0 .. 1 |-> 3]
=============================================================================
