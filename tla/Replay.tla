------------------------------- MODULE Replay -------------------------------
(***************************************************************************)
(* What a reader of the protocol makes of the states of a hand.  Texts and *)
(* their readers only copy cards, so one deal stands for all: a card is    *)
(* known by the place dealCards has put it in.                             *)
(***************************************************************************)
EXTENDS Hand, CardTexts

cardAt(place) == [kind |-> "card", place |-> place]

cards == [hole |-> [p \in Players |-> [i \in 1 .. numHoleCards |-> cardAt(<<p, i>>)]],
          board |-> [i \in 1 .. sumBoardCards(numRounds - 1) |-> cardAt(<<i>>)]]

\* What the dealer sends to player p, and what it writes to its log.
cardsSent(p) == printPlayerHoleCards(state, p, cards) \o printBoardCards(state, cards)
cardsLogged == printAllHoleCards(cards) \o printBoardCards(state, cards)

-----------------------------------------------------------------------------
IsShowdown == state.finished /\ Cardinality({p \in Players : ~state.playerFolded[p]}) > 1

\* The sides of the protocol agree: of every state, printed for any player,
\* readMatchState makes that very state, what is not in the text included, as
\* "spent, maxSpent, actingPlayer, finished, and playerFolded are all determined
\* by the betting taken" (game.c, statesEqualCommon), with the board so far, the
\* player's own cards and at a showdown those of all who are in it; that state is
\* the one matchStatesEqual takes for the one printed, and the state in the log
\* is equal in all cards.
ReadsBack ==
    \A p \in Players :
        LET m == [viewingPlayer |-> p, handId |-> 0, state |-> state]
            read == readMatchState(printMatchState(m))
            board == SubSeq(cards.board, 1, sumBoardCards(state.round))
            told == {p} \cup {q \in Players : IsShowdown /\ ~state.playerFolded[q]}
        IN /\ read = {m}
           /\ readCardsOf(cardsSent(p), state) =
                 {[hole |-> [q \in Players |-> IF q \in told THEN cards.hole[q] ELSE << >>],
                   board |-> board]}
           /\ \A n \in read, c \in readCardsOf(cardsSent(p), state) :
                 matchStatesEqual(m, n) /\ sameBoard(state, cards, c) /\ c.hole[p] = cards.hole[p]
           /\ readCardsOf(cardsLogged, state) = {[hole |-> cards.hole, board |-> board]}
           /\ \A c \in readCardsOf(cardsLogged, state) :
                 sameBoard(state, cards, c) /\ sameHoleCards(cards, c)

\* "don't print other player's cards unless there was a showdown and they didn't
\* fold" (game.c): a seat is never sent a card of another who has folded or whom
\* nobody has called, nor a card of the board before its round.
NothingHiddenIsTold ==
    \A p, q \in Players : \A card \in Range(cardsSent(p)) :
        /\ card \in Range(cards.hole[q]) =>
              p = q \/ (IsShowdown /\ ~state.playerFolded[q])
        /\ card \in Range(cards.board) =>
              card \in Range(SubSeq(cards.board, 1, sumBoardCards(state.round)))

=============================================================================
