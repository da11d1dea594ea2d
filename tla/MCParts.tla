------------------------------ MODULE MCParts -------------------------------
(***************************************************************************)
(* Parts of the programs that share nothing, each by itself: a process     *)
(* reads lines, uses a pool, builds a lookahead, counts through boards,    *)
(* reads a game, deals cards, computes equities, or plays from a table.    *)
(*                                                                         *)
(* The lines are of one, two and five characters, and a last one without a *)
(* newline, cut everywhere into packets, through a buffer of three bytes   *)
(* and lines of at most four, by calls that wait for ever and calls that   *)
(* give up.  The pool has up to four entries: first, middle and last       *)
(* entries are removed, and entries are used again.  The lookaheads are    *)
(* those of all roots of Leduc hold'em with 24 antes in a stack and two    *)
(* bet sizes, so that the nodes of a layer have up to three bets and some  *)
(* have fewer.  The boards have up to four cards of up to seven.  Two hole *)
(* cards each and a board of two are dealt, which is the whole deck.  The  *)
(* game file is of a no-limit game of two or a limit game of five, with up *)
(* to three lines lost, wrong or too many.  The table is that of           *)
(* leduc.game, scaled down: eight antes of two chips, so that a bet is of  *)
(* whole antes or half an ante above; two hands, one in each position, and *)
(* showdowns that split the pot.  Equities are those of Leduc hold'em, with *)
(* a fourth rank, and with a second card on the board.                     *)
(***************************************************************************)
EXTENDS BlueprintPlayer, Dealing, AllInBoards, GetLine, GameFile, LLPool

CONSTANTS
    arguments, MaxDepth,
    Variants

VARIABLES
    uses,
    tree, lookahead, calls, placed, empty_action_mask,
    game_settings, board, equity_matrix, divisor, fold_matrix, _range_matrix

cells == <<tree, lookahead, calls, placed, empty_action_mask>>
matrices == <<game_settings, board, equity_matrix, divisor, fold_matrix, _range_matrix>>

L == INSTANCE Lookahead WITH todo <- calls
E == INSTANCE LeducCards

mcStreams == {<<"c", "c", "\n", "\n", "c", "\n">>, <<"c", "\n", "c", "c", "c", "c", "\n">>,
              <<"c", "c", "\n", "c">>, << >>}
mcTimeouts == {-1, 1}
mcArguments == [ante |-> 1, stack |-> 24, bet_sizing |-> <<1, 2>>]
mcStack == [p \in 0 .. 1 |-> 16]
mcBlind == [p \in 0 .. 1 |-> 2]
mcRaiseSize == [r \in 0 .. 1 |-> 0]
mcFirstPlayer == [r \in 0 .. 1 |-> 0]
mcMaxRaises == [r \in 0 .. 1 |-> 255]
mcNumBoardCards == [r \in 0 .. 1 |-> 2 * r]
mcStrength == [h \in 0 .. 1 |-> [p \in 0 .. 1 |-> 1]]

leducOf(suits, ranks, onBoard) ==
    [suit_count |-> suits, rank_count |-> ranks, board_card_count |-> onBoard]
mcVariants == {leducOf(2, 3, 1), leducOf(2, 4, 1), leducOf(2, 3, 2)}

gameLine(f, numbers) == [field |-> f, values |-> numbers]
mcFiles ==
    {<<gameLine("nolimit", << >>), gameLine("numPlayers", <<2>>), gameLine("numRounds", <<2>>),
       gameLine("stack", <<8, 9>>), gameLine("blind", <<2, 1>>), gameLine("firstPlayer", <<2, 1>>),
       gameLine("numSuits", <<2>>), gameLine("numRanks", <<3>>), gameLine("numHoleCards", <<2>>),
       gameLine("numBoardCards", <<0, 2>>)>>,
     <<gameLine("limit", << >>), gameLine("numPlayers", <<5>>), gameLine("numRounds", <<1>>),
       gameLine("stack", <<INT32_MAX, INT32_MAX, INT32_MAX, INT32_MAX, 7>>),
       gameLine("blind", <<1, 2, 0, 0, 0>>), gameLine("raiseSize", <<2>>), gameLine("maxRaises", <<3>>),
       gameLine("numSuits", <<3>>), gameLine("numRanks", <<5>>), gameLine("numHoleCards", <<3>>),
       gameLine("numBoardCards", <<0>>)>>}
mcOddLines ==
    {gameLine("limit", << >>), gameLine("nolimit", << >>),
     gameLine("numPlayers", <<3>>), gameLine("numPlayers", <<258>>), gameLine("numPlayers", << >>),
     gameLine("numRounds", <<1>>), gameLine("numRounds", <<5>>),
     gameLine("stack", <<3>>), gameLine("stack", [p \in 1 .. 11 |-> INT32_MAX]),
     gameLine("blind", <<9, 0>>), gameLine("blind", <<1>>),
     gameLine("raiseSize", <<3>>), gameLine("raiseSize", <<1, 2>>),
     gameLine("raiseSize", <<1, 2, 3, 4, 1>>), gameLine("raiseSize", <<1, 2, 3, 4, 9>>),
     gameLine("raiseSize", <<1, 2, 3, 4, 0, 33620226, 50528513, 67305986, 258, 7, 7>>),
     gameLine("firstPlayer", <<2, 3>>), gameLine("firstPlayer", <<256>>), gameLine("maxRaises", <<3, 4>>),
     gameLine("numSuits", <<1>>), gameLine("numRanks", <<14>>), gameLine("numHoleCards", <<1>>),
     gameLine("numBoardCards", <<3, 3>>), gameLine("numBoardCards", <<0>>)}

\* The parts that are not used: lines, pool, game and table as they begin, the others empty.
noLines == ReaderInit /\ stream = << >>
noCells ==
    /\ tree = << >> /\ lookahead = << >> /\ calls = << >> /\ placed = << >>
    /\ empty_action_mask = {}
noBoards ==
    /\ numCards = 0 /\ deckSize = 0 /\ used = << >> /\ numBoards = 0 /\ boards = {}
    /\ done = FALSE
noTable == BlueprintInit /\ opponent = "anyone"
noEquity ==
    /\ game_settings = << >> /\ board = << >> /\ equity_matrix = << >> /\ divisor = 1
    /\ fold_matrix = << >> /\ _range_matrix = << >>
noFile == unread = << >> /\ game = noGame /\ mistakes = 0

Parts == {"lines", "pool", "cells", "boards", "game", "deal", "equity", "table"}

mcInit ==
    /\ uses \in Parts
    /\ IF uses = "lines" THEN ReaderInit ELSE noLines
    /\ LinksInit
    /\ IF uses = "cells" THEN L!Init ELSE noCells
    /\ IF uses = "boards" THEN BoardsInit ELSE noBoards
    /\ IF uses = "game" THEN FileInit ELSE noFile
    /\ DealInit
    /\ IF uses = "equity" THEN E!CardsInit ELSE noEquity
    /\ IF uses = "table" THEN BlueprintInit ELSE noTable

mcNext ==
    /\ UNCHANGED uses
    /\ \/ uses = "lines" /\ ReaderNext /\ UNCHANGED <<links, cells, counter, definition, deal, matrices, vars>>
       \/ uses = "pool" /\ LinksNext /\ UNCHANGED <<reader, cells, counter, definition, deal, matrices, vars>>
       \/ uses = "cells" /\ L!Next /\ UNCHANGED <<reader, links, counter, definition, deal, matrices, vars>>
       \/ uses = "boards" /\ BoardsNext /\ UNCHANGED <<reader, links, cells, definition, deal, matrices, vars>>
       \/ uses = "game" /\ FileNext /\ UNCHANGED <<reader, links, cells, counter, deal, matrices, vars>>
       \/ uses = "deal" /\ DealNext /\ UNCHANGED <<reader, links, cells, counter, definition, matrices, vars>>
       \/ uses = "equity" /\ E!CardsNext /\ UNCHANGED <<reader, links, cells, counter, definition, deal, vars>>
       \/ uses = "table" /\ BlueprintNext /\ UNCHANGED <<reader, links, cells, counter, definition, deal, matrices>>

mcSpec ==
    mcInit /\ [][mcNext]_<<uses, reader, links, cells, counter, definition, deal, matrices, vars>>

\* The properties of Lookahead and LeducCards.
CellsFollowTheTree == uses = "cells" => L!CellsFollowTheTree /\ L!MaskIsThePadding
CellsAreEvaluated == uses = "cells" => L!CellsAreEvaluated /\ L!ChanceCellIsTheCall
BucketsAreHands == uses = "equity" => E!BucketsAreHands

\* DeepStack and the dealer have the same cards, by their names, and equities are
\* what the dealer would pay.
EquityIsShowdown ==
    uses = "equity" =>
        /\ E!EquityIsShowdown
        /\ (E!suit_count = numSuits /\ E!rank_count = numRanks) =>
              {makeCard(n.rank, n.suit) : n \in E!namedCards} = Cards
=============================================================================
