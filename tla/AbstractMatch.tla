---------------------------- MODULE AbstractMatch ----------------------------
(***************************************************************************)
(* What dealer.c promises: numHands hands are played, one valid action     *)
(* after the other, and every action counts exactly once.  There are no    *)
(* sockets, clocks, files or crashes here, and what a table is and what an *)
(* action does to it are parameters: Match gives them those of Table, and  *)
(* Dealer implements the match that results.                               *)
(***************************************************************************)
EXTENDS Naturals

CONSTANTS numHands, firstHand, Actions, isValidAction(_, _, _), transact(_, _)

VARIABLE match

Init == match = firstHand

Play ==
    /\ match.handId < numHands
    /\ \E a \in Actions : /\ isValidAction(match.state, FALSE, a)
                          /\ match' = transact(match, a)

Over == match.handId = numHands /\ UNCHANGED match

Next == Play \/ Over

Spec == Init /\ [][Next]_match

=============================================================================
