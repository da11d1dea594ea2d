----------------------------- MODULE CardTexts -----------------------------
(***************************************************************************)
(* The cards in the text of a state (ACPCServer/game.c): behind the        *)
(* betting come the hole cards, with a "|" between two players, and the    *)
(* board, with a "/" before every later round.  Nothing separates the hole *)
(* cards from the board, and a player whose cards are not printed leaves   *)
(* no trace: the reader finds its way by what is a card and what is not.   *)
(*                                                                         *)
(* `cards' is what dealCards has made: the hole cards of every player and  *)
(* the board.  A text is a sequence of tokens; a card is one of them.      *)
(***************************************************************************)
EXTENDS Protocol, Sums

CONSTANTS
    numHoleCards,
    numBoardCards    \* of every round

\* All games of the repository have no board in the first round.
ASSUME CardsAssumption ==
    /\ numHoleCards \in 1 .. 3
    /\ numBoardCards \in [Rounds -> Nat] /\ numBoardCards[0] = 0

sign(char) == [kind |-> char]
isCard(token) == token.kind = "card"

sumBoardCards(round) == SumTo([i \in 1 .. numRounds |-> numBoardCards[i - 1]], round + 1)
bcStart(round) == sumBoardCards(round) - numBoardCards[round]

boardOfRound(cards, r) == SubSeq(cards.board, bcStart(r) + 1, sumBoardCards(r))

-----------------------------------------------------------------------------
(* Printing.                                                               *)

\* The parts for 0, 1, ... with a separator between them.
separated(char, parts, last) ==
    parts[0] \o FlattenSeq([i \in 1 .. last |-> <<sign(char)>> \o parts[i]])

printAllHoleCards(cards) == separated("|", cards.hole, numPlayers - 1)

\* The cards of another are printed if there was a showdown and it did not fold.
prints_Finished(s, player, p) == p = player \/ (s.finished /\ ~s.playerFolded[p])
prints(s, player, p) ==
    \/ p = player
    \/ s.finished /\ ~s.playerFolded[p] /\ numFolded(s) + 1 # numPlayers

printPlayerHoleCards(s, player, cards) ==
    separated("|", [p \in Players |-> IF prints(s, player, p) THEN cards.hole[p] ELSE << >>],
              numPlayers - 1)

printBoardCards(s, cards) ==
    separated("/", [r \in 0 .. s.round |-> boardOfRound(cards, r)], s.round)

-----------------------------------------------------------------------------
(* Reading.  `at' is the place in the text of what is read next.           *)

charAt(text, at, char) == at \in DOMAIN text /\ text[at] = sign(char)

\* How many cards readCards finds there, of those it is asked for.
found(text, at, maxCards) ==
    Max({n \in 0 .. maxCards : \A i \in at .. at + n - 1 : i \in DOMAIN text /\ isCard(text[i])})

readCards(text, at, maxCards) == SubSeq(text, at, at + found(text, at, maxCards) - 1)

\* The loop of both readers: part i, behind its separator if there is one, up to
\* maxCards[i] of it.
readPart(text, char, maxCards, r, i) ==
    LET at == IF i # 0 /\ charAt(text, r.at, char) THEN r.at + 1 ELSE r.at
        part == readCards(text, at, maxCards[i])
    IN [at |-> at + Len(part), parts |-> Append(r.parts, part)]
partsRead(text, from, char, maxCards, last) ==
    LET after[i \in 0 .. last + 1] ==
            IF i = 0 THEN [at |-> from, parts |-> << >>]
            ELSE readPart(text, char, maxCards, after[i - 1], i - 1)
    IN after

\* A player without cards is passed over, one without enough is an error.
readHoleCards(text) ==
    LET r == partsRead(text, 1, "|", [p \in Players |-> numHoleCards], numPlayers - 1)[numPlayers]
    IN [at |-> r.at, hole |-> [p \in Players |-> r.parts[p + 1]],
        ok |-> \A p \in Players : Len(r.parts[p + 1]) \in {0, numHoleCards}]

readBoardCards(text, from, s) ==
    LET b == partsRead(text, from, "/", numBoardCards, s.round)[s.round + 1]
    IN [at |-> b.at, board |-> FlattenSeq(b.parts),
        ok |-> \A r \in 0 .. s.round : Len(b.parts[r + 1]) = numBoardCards[r]]

\* The cards in a text of state s, or nothing when it returns -1.
readCardsOf(text, s) ==
    LET h == readHoleCards(text)
        b == readBoardCards(text, h.at, s)
    IN {[hole |-> h.hole, board |-> b.board] : ok \in {h.ok /\ b.ok} \cap {TRUE}}

-----------------------------------------------------------------------------
\* The cards that statesEqualCommon, statesEqual and matchStatesEqual compare.
sameBoard(s, a, b) ==
    \A i \in 1 .. sumBoardCards(s.round) : a.board[i] = b.board[i]
sameHoleCards(a, b) == \A p \in Players : a.hole[p] = b.hole[p]

=============================================================================
