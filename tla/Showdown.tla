------------------------------ MODULE Showdown ------------------------------
(***************************************************************************)
(* What valueOfState pays at the end of every hand, for every order the    *)
(* cards may put the players in.                                           *)
(***************************************************************************)
EXTENDS Hand, Payoff

CONSTANT Ranks          \* the strengths rankHand may give

ASSUME RanksAssumption == Ranks \subseteq Nat

\* What the n-th chip of a player should win or lose: the n-th chips of all who
\* have that many form a pot, split among the best hands that have not folded.
ChipShare(s, rank, player, n) ==
    LET in == {p \in Players : s.spent[p] >= n}
        live == {p \in in : ~s.playerFolded[p]}
        best == {p \in live : \A q \in live : rank[q] <= rank[p]}
    IN (IF player \in best THEN (Cardinality(in) * Shares) \div Cardinality(best) ELSE 0)
       - Shares

\* What the hand should pay, chip by chip.
FairValue(s, rank, player) ==
    SumTo([n \in 1 .. s.spent[player] |-> ChipShare(s, rank, player, n)], s.spent[player])

\* The walk through the side pots pays what the rules say, chip by chip: an
\* all-in player wins only chips it matched, ties share, folded hands lose.  At a
\* showdown the list of those who have put chips in, which the walk starts with,
\* has more than one player: "assert( numPlayers > 1 )" (game.c:1099).
SidePotsAreFair ==
    state.finished =>
        /\ \A rank \in [Players -> Ranks], p \in Players :
              valueOfState(state, rank, p) = FairValue(state, rank, p)
        /\ numFolded(state) + 1 < numPlayers => Cardinality(InPot(state, 0)) > 1

-----------------------------------------------------------------------------
(***************************************************************************)
(* What HandProofs needs besides the invariants of Hand, in a game with a  *)
(* blind: a player with the largest bet has not folded, and at a showdown  *)
(* everybody left has matched it or is all-in.                             *)
(***************************************************************************)
PotInv ==
    /\ state.maxSpent > 0
    /\ \A p \in Players : state.playerFolded[p] => state.spent[p] < state.maxSpent
    /\ state.finished /\ numFolded(state) + 1 < numPlayers =>
          \A p \in Players : ~state.playerFolded[p] =>
              state.spent[p] = state.maxSpent \/ state.spent[p] = stack[p]

=============================================================================
