------------------------------- MODULE Payoff -------------------------------
(***************************************************************************)
(* What a finished hand pays: valueOfState of game.c, the walk through the *)
(* side pots.  The strength of a hand is a number, given by `rank': every  *)
(* property is about all of them, so no card is needed.  The code divides  *)
(* doubles; the model counts in fractions of a chip fine enough to be      *)
(* exact, one chip being Shares of them.                                   *)
(***************************************************************************)
EXTENDS Game

Shares == 2520          \* divisible by every number of winners, 1..MAX_PLAYERS

-----------------------------------------------------------------------------
\* The list of players: who has put in more than `paid', what the earlier
\* side pots took from each.
InPot(s, paid) == {p \in Players : s.spent[p] > paid}

\* rank[]: folding players lose to every real hand.
PotRank_OfCards(s, rank, p) == rank[p]
PotRank(s, rank, p) == IF s.playerFolded[p] THEN -1 ELSE rank[p]

\* One pass of the loop: the smallest remaining side pot, and what it pays
\* the player: a share of the others' chips, or its own chips lost.
SidePot(s, rank, player, paid) ==
    LET in == InPot(s, paid)
        size == Min({s.spent[p] - paid : p \in in})
        winRank == Max({0} \cup {PotRank(s, rank, p) : p \in in})
        winners == {p \in in : PotRank(s, rank, p) = winRank}
        lost == Cardinality(in) - Cardinality(winners)
    IN [size |-> size,
        pays |-> IF PotRank(s, rank, player) = winRank
                 THEN (Int32(size * lost) * Shares) \div Cardinality(winners)
                 ELSE 0 - size * Shares]

\* The while loop: on to the next side pot until the player's chips are used up.
ShowdownValue(s, rank, player) ==
    LET from[paid \in 0 .. s.spent[player] - 1] ==
            LET pot == SidePot(s, rank, player, paid)
            IN IF paid + pot.size = s.spent[player] THEN pot.pays
               ELSE pot.pays + from[paid + pot.size]
    IN from[0]

\* Everyone else folded: the chips of all the others, added up seat by seat.
OthersSpent(s, player) ==
    SumTo([i \in 1 .. numPlayers |-> IF i - 1 = player THEN 0 ELSE s.spent[i - 1]], numPlayers)

valueOfState(s, rank, player) ==
    IF s.playerFolded[player] THEN 0 - s.spent[player] * Shares
    ELSE IF numFolded(s) + 1 = numPlayers
         THEN OthersSpent(s, player) * Shares
         ELSE ShowdownValue(s, rank, player)

=============================================================================
