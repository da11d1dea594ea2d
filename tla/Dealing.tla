------------------------------ MODULE Dealing ------------------------------
(***************************************************************************)
(* dealCards of ACPCServer/game.c: the deck is an array whose first cards  *)
(* are still there, and a card that is drawn from its middle gives its     *)
(* entry to the last of them.  The generator may draw any of them.         *)
(***************************************************************************)
EXTENDS CardTexts

CONSTANTS
    MAX_SUITS, MAX_RANKS,   \* those that there are names for
    numSuits, numRanks      \* those of the game

\* How many cards a hand has: the players' first, then those of the board.
numPlaces == numHoleCards * numPlayers + sumBoardCards(numRounds - 1)

\* readGame refuses a deck that has too few cards.
ASSUME DeckAssumption ==
    /\ MAX_SUITS \in Nat /\ MAX_RANKS \in Nat
    /\ numSuits \in 1 .. MAX_SUITS /\ numRanks \in 1 .. MAX_RANKS
    /\ numPlaces \in 0 .. numSuits * numRanks

makeCard(rank, suit) == rank * MAX_SUITS + suit

\* The deck has the highest suits and ranks, one suit after the other.
numCardsOfDeck == numSuits * numRanks
newDeck ==
    [k \in 0 .. numCardsOfDeck - 1 |->
        makeCard(MAX_RANKS - numRanks + (k % numRanks), MAX_SUITS - numSuits + (k \div numRanks))]

Cards == {newDeck[k] : k \in DOMAIN newDeck}

VARIABLES
    deck,        \* the array
    dealt        \* the cards of the hand, in the order of their places

deal == <<deck, dealt>>

\* What is left of the deck.
numLeft == numCardsOfDeck - Len(dealt)
left == 0 .. numLeft - 1

DealInit == deck = newDeck /\ dealt = << >>

\* dealCard: the last card that is left takes the entry of the one drawn.
afterDrawing_NotMoved(i) == deck
afterDrawing(i) == [deck EXCEPT ![i] = deck[numLeft - 1]]

dealCard ==
    /\ Len(dealt) < numPlaces
    /\ \E i \in left :
          /\ dealt' = Append(dealt, deck[i])
          /\ deck' = afterDrawing(i)

Dealt == Len(dealt) = numPlaces /\ UNCHANGED deal

DealNext == dealCard \/ Dealt

DealSpec == DealInit /\ [][DealNext]_deal

-----------------------------------------------------------------------------
\* No card is dealt twice and none gets lost: every card of the game is in
\* exactly one place, of the hand or of what is left of the deck, so that each
\* of those left can still come (dealCards keeps no other account of them).
EveryCardOnce ==
    /\ IsInjective(dealt)
    /\ \A i, j \in left : deck[i] = deck[j] => i = j
    /\ \A i \in left : deck[i] \notin Range(dealt)
    /\ Range(dealt) \cup {deck[i] : i \in left} = Cards

=============================================================================
