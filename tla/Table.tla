------------------------------- MODULE Table -------------------------------
(***************************************************************************)
(* The part of a match that dealer.c computes the same way when it plays a *)
(* hand and when it replays the transaction file: seats, players, totals   *)
(* and the move to the next hand.  A table is what gameLoop keeps in       *)
(* handId, player0Seat, state and totalValue.                              *)
(*                                                                         *)
(* Cards are dealt by a generator seeded from the command line, once per   *)
(* hand and in the order of the hands, so that the hand's number           *)
(* determines them; strength[h][p] is what rankHand makes of player p's.   *)
(***************************************************************************)
EXTENDS Payoff

CONSTANTS
    numHands,        \* hands in the match
    fixedSeats,      \* option -f: the button does not move
    strength         \* strength[h][p]: rank of player p's cards in hand h

ASSUME TableAssumption ==
    /\ numHands \in Nat \ {0}
    /\ fixedSeats \in BOOLEAN
    /\ strength \in [0 .. numHands - 1 -> [Players -> Nat]]

Seats == Players

seatToPlayer(player0Seat, seat) == (seat + numPlayers - player0Seat) % numPlayers

playerToSeat(player0Seat, player) == (player + player0Seat) % numPlayers

\* The seat that is asked next.
currentSeat(t) == playerToSeat(t.player0Seat, currentPlayer(t.state))

\* The actions there are: a raise is to a size in a no-limit game only, which readAction
\* reads with its sign.
Actions == [type : {"fold", "call"}, size : {0}]
           \cup [type : {"raise"},
                 size : IF noLimit THEN -(INT32_MAX + 1) .. Max({stack[p] : p \in Players})
                         ELSE {0}]

\* The first hand of a match, before the transaction file is looked at.
firstHand == [handId |-> 0, player0Seat |-> 0, state |-> initState,
              totalValue |-> [s \in Seats |-> 0]]

setUpNewHand_KeepsButton(t) == [t EXCEPT !.handId = @ + 1, !.state = initState]
setUpNewHand_SameHand(t) == [t EXCEPT !.state = initState]
setUpNewHand(t) ==
    [t EXCEPT !.handId = @ + 1,
              !.player0Seat = IF fixedSeats THEN @ ELSE (@ + 1) % numPlayers,
              !.state = initState]

\* value[p] of the finished hand.
values(t) == [p \in Players |-> valueOfState(t.state, strength[t.handId], p)]

addValues_ByPlayer(t) == [s \in Seats |-> t.totalValue[s] + values(t)[s]]
addValues(t) ==
    [s \in Seats |-> t.totalValue[s] + values(t)[seatToPlayer(t.player0Seat, s)]]

act(t, a) == [t EXCEPT !.state = doAction(t.state, a)]

transact_ForgetsValues(t, a) ==
    LET after == act(t, a)
    IN IF stateFinished(after.state) THEN setUpNewHand(after) ELSE after

\* One transaction as processTransactionFile replays it: the action, and when
\* it ends the hand the totals and the next hand.
transact(t, a) ==
    LET after == act(t, a)
    IN IF stateFinished(after.state)
       THEN setUpNewHand([after EXCEPT !.totalValue = addValues(after)])
       ELSE after

=============================================================================
