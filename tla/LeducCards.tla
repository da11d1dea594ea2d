----------------------------- MODULE LeducCards -----------------------------
(***************************************************************************)
(* The cards of DeepStack: Source/Game/card_tools.lua and                  *)
(* card_to_string_conversion.lua, the strength of hands                    *)
(* (Game/Evaluation/evaluator.lua), what a hand wins at the end of a game  *)
(* (TerminalEquity/terminal_equity.lua), and the buckets that are the      *)
(* inputs of the neural net (Nn/bucketer.lua, bucket_conversion.lua).      *)
(*                                                                         *)
(* Cards are numbers, the best rank first.  A matrix is a function of two  *)
(* cards; as it multiplies ranges, its entry [o, h] is what h wins from o. *)
(* Ranges themselves, which are real vectors, are left out: what holds of  *)
(* every two hands holds of every two ranges.                              *)
(***************************************************************************)
EXTENDS Integers, Sequences, FiniteSets, SequencesExt

CONSTANT Variants     \* the values that Settings/game_settings.lua may have

VARIABLES
    game_settings,    \* one of them
    board,            \* the cards of the board that was set last
    equity_matrix,    \* of TerminalEquity; all entries are divided by
    divisor,          \* this number, 1 / weight_constant
    fold_matrix,
    _range_matrix     \* of BucketConversion: the buckets of every hand

matrices == <<game_settings, board, equity_matrix, divisor, fold_matrix, _range_matrix>>

suit_count == game_settings.suit_count
rank_count == game_settings.rank_count
board_card_count == game_settings.board_card_count
card_count == suit_count * rank_count
Cards == 1 .. card_count

-----------------------------------------------------------------------------
(* Ranks, suits and names.                                                 *)

suit_table == <<"h", "s", "c", "d">>
rank_table == <<"A", "K", "Q", "J", "T", "9", "8", "7", "6", "5", "4", "3", "2">>

card_to_suit_SuitBySuit(card) == (card - 1) \div rank_count + 1
card_to_suit(card) == (card % suit_count) + 1
card_to_rank(card) == (card - 1) \div suit_count + 1
card_to_string(card) == <<rank_table[card_to_rank(card)], suit_table[card_to_suit(card)]>>

\* The dealer's names (game.c), and the card, as rank and suit, it has for one.
rankChars == <<"2", "3", "4", "5", "6", "7", "8", "9", "T", "J", "Q", "K", "A">>
suitChars == <<"c", "d", "h", "s">>
position(c, chars) == (CHOOSE i \in DOMAIN chars : chars[i] = c) - 1
readCard(name) == [rank |-> position(name[1], rankChars), suit |-> position(name[2], suitChars)]

-----------------------------------------------------------------------------
(* Sets of cards.                                                          *)

hand_is_possible(hand) == IsInjective(hand)

\* The hands that share no card with the board.
get_possible_hand_indexes(b) == {card \in Cards : hand_is_possible(Append(b, card))}

board_to_street(b) == IF b = << >> THEN 1 ELSE 2

\* The boards of the second round, in the order of their cards, and the index
\* that the table of boards has for one, whatever the order of its cards.
get_boards_count ==
    IF board_card_count = 1 THEN card_count ELSE (card_count * (card_count - 1)) \div 2

get_second_round_boards ==
    IF board_card_count = 1
    THEN [card \in Cards |-> <<card>>]
    ELSE FlattenSeq([card_1 \in Cards |->
                        [i \in 1 .. card_count - card_1 |-> <<card_1, card_1 + i>>]])

get_board_index(b) ==
    CHOOSE i \in DOMAIN get_second_round_boards : ToSet(get_second_round_boards[i]) = ToSet(b)

-----------------------------------------------------------------------------
(* The strength of a hand: the less, the better.                           *)

ranksOf(hand) == SortSeq([i \in DOMAIN hand |-> card_to_rank(hand[i])], LAMBDA r, s : r < s)

evaluate_two_card_hand(ranks) ==
    IF ranks[1] = ranks[2] THEN ranks[1] ELSE ranks[1] * rank_count + ranks[2]

kicker_Third(ranks) == ranks[3]
kicker(ranks) == IF ranks[1] = ranks[2] THEN ranks[3] ELSE ranks[1]

evaluate_three_card_hand(ranks) ==
    IF ranks[1] = ranks[2] \/ ranks[2] = ranks[3]
    THEN ranks[2] * rank_count + kicker(ranks)
    ELSE ranks[1] * rank_count * rank_count + ranks[2] * rank_count + ranks[3]

evaluate(hand) ==
    IF ~hand_is_possible(hand) THEN -1
    ELSE IF Len(hand) = 2 THEN evaluate_two_card_hand(ranksOf(hand))
    ELSE evaluate_three_card_hand(ranksOf(hand))

batch_eval(b) == [card \in Cards |-> evaluate(Append(b, card))]

-----------------------------------------------------------------------------
(* The matrices of TerminalEquity.                                         *)

\* An impossible hand has strength -1; _handle_blocking_cards takes it out.
get_last_round_call_matrix(b) ==
    LET strengths == batch_eval(b)
        possible == get_possible_hand_indexes(b)
    IN [m \in Cards \X Cards |->
           IF m[1] \notin possible \/ m[2] \notin possible \/ strengths[m[1]] = strengths[m[2]] THEN 0
           ELSE IF strengths[m[1]] > strengths[m[2]] THEN 1
           ELSE -1]

sumOf(ms) == FoldSeq(LAMBDA m, s : [x \in Cards \X Cards |-> m[x] + s[x]],
                     [x \in Cards \X Cards |-> 0], ms)

_set_call_matrix(b) ==
    IF board_to_street(b) = 1
    THEN LET boards == get_second_round_boards
         IN sumOf([i \in DOMAIN boards |-> get_last_round_call_matrix(boards[i])])
    ELSE get_last_round_call_matrix(b)

\* 1 / weight_constant.
boardsPerPair_OfCards == get_boards_count
boardsPerPair ==
    IF board_card_count = 1 THEN card_count - 2 ELSE ((card_count - 2) * (card_count - 3)) \div 2

_set_fold_matrix(b) ==
    LET possible == get_possible_hand_indexes(b)
    IN [m \in Cards \X Cards |->
           IF m[1] # m[2] /\ m[1] \in possible /\ m[2] \in possible THEN 1 ELSE 0]

\* tree_node_call_value and tree_node_fold_value, of one hand each: what player
\* p wins with hands, before it is divided; the ranges of the other player are
\* on the left of the matrix.
tree_node_call_value(hands, p) == equity_matrix[hands[3 - p], hands[p]]
tree_node_fold_value(hands, p, folding_player) ==
    (IF p = folding_player THEN -1 ELSE 1) * fold_matrix[hands[3 - p], hands[p]]

-----------------------------------------------------------------------------
(* Buckets.                                                                *)

get_bucket_count == card_count * get_boards_count

shift_OfIndex(b) == get_board_index(b) * card_count
shift(b) == (get_board_index(b) - 1) * card_count

\* Hands that are impossible have bucket -1.
compute_buckets(b) == [card \in Cards |-> IF card \in ToSet(b) THEN -1 ELSE card + shift(b)]

\* The entries of the matrix that are 1: those of buckets there are.
bucketsOf(b) == [card \in Cards |-> {compute_buckets(b)[card]} \cap (1 .. get_bucket_count)]

-----------------------------------------------------------------------------
\* TerminalEquity is made with an empty board, BucketConversion with none.
CardsInit ==
    /\ game_settings \in Variants
    /\ board = << >>
    /\ equity_matrix = _set_call_matrix(<< >>) /\ divisor = boardsPerPair
    /\ fold_matrix = _set_fold_matrix(<< >>)
    /\ _range_matrix = [card \in Cards |-> {}]

\* set_board of both, with the cards of a board in any order.
set_board ==
    /\ UNCHANGED game_settings
    /\ board' \in {b \in [1 .. board_card_count -> Cards] : hand_is_possible(b)}
    /\ equity_matrix' = _set_call_matrix(board') /\ divisor' = 1
    /\ fold_matrix' = _set_fold_matrix(board')
    /\ _range_matrix' = bucketsOf(board')

CardsNext == set_board

-----------------------------------------------------------------------------
\* The dealer's cards that have the names of DeepStack's.
namedCards == {readCard(card_to_string(card)) : card \in Cards}

\* The rules of the game: a pair beats a hand without one, then the higher rank
\* counts, then the next; ranks are the dealer's, of the card with that name.
rankOfCard(card) == readCard(card_to_string(card)).rank
worth(cards) ==
    LET ranks == SortSeq([i \in DOMAIN cards |-> rankOfCard(cards[i])], LAMBDA r, s : r > s)
        pairs == {ranks[i] : i \in {j \in 2 .. Len(ranks) : ranks[j] = ranks[j - 1]}}
    IN <<IF pairs = {} THEN -1 ELSE CHOOSE r \in pairs : TRUE>> \o ranks
beats(v, w) == \E i \in DOMAIN v : v[i] > w[i] /\ \A j \in 1 .. i - 1 : v[j] = w[j]
wins(h, o, b) ==
    LET mine == worth(Append(b, h))
        others == worth(Append(b, o))
    IN IF beats(mine, others) THEN 1 ELSE IF beats(others, mine) THEN -1 ELSE 0

\* The boards the game may end with when the players have these hands.
boardsFor(hands) ==
    {b \in (IF board = << >> THEN ToSet(get_second_round_boards) ELSE {board}) :
        hand_is_possible(b \o hands)}

\* What the solver takes for the end of a game is what the dealer pays: for any
\* two hands there can be, a showdown gives the pot to the better one, on
\* average over the boards there can be when the board is still to come, and the
\* other player loses as much; who folds loses the pot.  Two hands there cannot
\* be win nothing.
EquityIsShowdown ==
    \A hands \in Cards \X Cards, p \in 1 .. 2 :
        LET boards == boardsFor(hands)
            won == FoldSet(LAMBDA b, s : s + wins(hands[p], hands[3 - p], b), 0, boards)
        IN /\ tree_node_call_value(hands, p) = won
           /\ boards # {} => divisor = Cardinality(boards)
           /\ \A folding \in 1 .. 2 :
                 tree_node_fold_value(hands, p, folding) =
                     IF boards = {} THEN 0 ELSE IF p = folding THEN -1 ELSE 1

\* The neural net tells apart what the players see: every hand on a board has one
\* bucket, which no other hand has on that board and none on another board, and
\* a hand that shares a card with the board has none.
BucketsAreHands ==
    board # << >> =>
        \A card \in Cards :
            /\ Cardinality(_range_matrix[card]) = IF card \in ToSet(board) THEN 0 ELSE 1
            /\ \A b \in ToSet(get_second_round_boards), other \in Cards :
                  (_range_matrix[card] \cap bucketsOf(b)[other] # {}) =>
                      other = card /\ ToSet(b) = ToSet(board)

=============================================================================
