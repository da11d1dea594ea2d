------------------------------ MODULE LeducTree ------------------------------
(***************************************************************************)
(* Source/Tree/tree_builder.lua and Source/Game/bet_sizing.lua: the public *)
(* tree DeepStack solves, which has the rules of the game a second time,   *)
(* with the bets cut down to fractions of the pot.                         *)
(*                                                                         *)
(* A node has the fields the builder reads; its board is left out.  `kind' *)
(* is what node.type and node.terminal say: a chance node has player 0.    *)
(***************************************************************************)
EXTENDS Integers, Sequences, SequencesExt

\* Settings/arguments.lua.  bet_sizing has fractions of half the pot, so that
\* they are whole: <<2>> is the pot, the {1} of the code.
CONSTANT arguments

ASSUME ArgumentsAssumption ==
    /\ arguments.ante \in Nat \ {0} /\ arguments.stack \in Nat
    /\ arguments.ante < arguments.stack
    /\ arguments.bet_sizing \in Seq(Nat)

P1 == 1
P2 == 2
chance == 0
fold == -2
ccall == -1

min(a, b) == IF a < b THEN a ELSE b
max(a, b) == IF a > b THEN a ELSE b
most(bets) == max(bets[1], bets[2])
isEven(node) == node.bets[1] = node.bets[2]
isTerminal(node) == node.kind \in {"fold", "call"}

first_node == [kind |-> "inner", street |-> 1, current_player |-> P1,
               bets |-> <<arguments.ante, arguments.ante>>]

-----------------------------------------------------------------------------
(* BetSizing.                                                              *)

own_bet(node) == node.bets[node.current_player]
opponent_bet(node) == node.bets[3 - node.current_player]

max_raise_size(node) == arguments.stack - opponent_bet(node)
min_raise_size(node) ==
    min(max_raise_size(node), max(opponent_bet(node) - own_bet(node), arguments.ante))

\* The levels a player may bet to: the fractions that are possible, and all-in.
get_possible_bets(node) ==
    LET raise_size(i) == opponent_bet(node) * arguments.bet_sizing[i]
        possible(i) == /\ raise_size(i) >= min_raise_size(node)
                       /\ raise_size(i) < max_raise_size(node)
        fractions[i \in 0 .. Len(arguments.bet_sizing)] ==
            IF i = 0 THEN << >>
            ELSE fractions[i - 1]
                 \o IF possible(i) THEN <<opponent_bet(node) + raise_size(i)>> ELSE << >>
    IN IF min_raise_size(node) = 0 THEN << >>
       ELSE Append(fractions[Len(arguments.bet_sizing)], arguments.stack)

-----------------------------------------------------------------------------
(* PokerTreeBuilder.                                                       *)

opponentActs(node) == [node EXCEPT !.current_player = 3 - @]
called(node) == [node EXCEPT !.bets = <<most(@), most(@)>>]

\* A call, or a check behind, after which the board is dealt.
isTransition_EveryCall(node) == node.street = 1 /\ (node.current_player = P2 \/ ~isEven(node))
isTransition(node) ==
    /\ node.street = 1
    /\ \/ node.current_player = P2 /\ isEven(node)
       \/ ~isEven(node) /\ most(node.bets) < arguments.stack

ccallChild(node) ==
    IF node.current_player = P1 /\ isEven(node)
    THEN [opponentActs(node) EXCEPT !.kind = "check"]
    ELSE IF isTransition(node)
    THEN [called(node) EXCEPT !.kind = "chance", !.current_player = chance]
    ELSE [called(opponentActs(node)) EXCEPT !.kind = "call"]

betChild(node, level) ==
    [opponentActs(node) EXCEPT !.kind = "inner", !.bets[node.current_player] = level,
                               !.bets[3 - node.current_player] = opponent_bet(node)]

\* The children of a node of a player.  Chance nodes have none: every tree
\* that is solved is limited to its street.
_get_children_player_node(node) ==
    LET levels == get_possible_bets(node)
    IN <<[opponentActs(node) EXCEPT !.kind = "fold"], ccallChild(node)>>
       \o [i \in DOMAIN levels |-> betChild(node, levels[i])]

children(node) ==
    IF isTerminal(node) \/ node.current_player = chance THEN << >>
    ELSE _get_children_player_node(node)

\* node.actions: what DeepStack calls the way to each child.
actions(node) ==
    [i \in DOMAIN children(node) |->
        IF i = 1 THEN fold ELSE IF i = 2 THEN ccall ELSE most(children(node)[i].bets)]

\* node.pot, half of the pot.
pot(node) == min(node.bets[1], node.bets[2])

=============================================================================
