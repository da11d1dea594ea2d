------------------------------- MODULE Match -------------------------------
(***************************************************************************)
(* The match of AbstractMatch, played with the tables of Table.            *)
(***************************************************************************)
EXTENDS Table

VARIABLE match

INSTANCE AbstractMatch

-----------------------------------------------------------------------------
\* Every seat gets every position in turn: the button is where the number of
\* hands puts it (or stays, with -f), and a hand under way is not finished.
ButtonFollowsHand ==
    /\ match.player0Seat = IF fixedSeats THEN 0 ELSE match.handId % numPlayers
    /\ ~match.state.finished

=============================================================================
