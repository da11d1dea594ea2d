---------------------------- MODULE ProtocolNode ----------------------------
(***************************************************************************)
(* Source/ACPC/protocol_to_node.lua: how DeepStack reads the line of a     *)
(* dealer.  It never plays the game through: street, acting player and     *)
(* bets are guessed from the board and the last few actions.               *)
(*                                                                         *)
(* A line is the record [position, hand_id, actions, board]: the actions   *)
(* of both streets, each [action, raise_amount], and whether there is a    *)
(* board.  Cards are left out.                                             *)
(***************************************************************************)
EXTENDS LeducTree

nobody == -1

lastOf(seq) == seq[Len(seq)]

\* The player of every action is told by its place in its street.
_convert_actions(streets) ==
    LET played(s) == [i \in DOMAIN streets[s] |->
                         [action |-> streets[s][i].action,
                          raise_amount |-> streets[s][i].raise_amount,
                          player |-> IF i % 2 = 1 THEN P1 ELSE P2, street |-> s]]
    IN played(1) \o played(2)

current_street(line) == IF line.board THEN 2 ELSE 1

\* Nobody acts after a fold, or after the call that ends the second street.
isOver(line, last) ==
    \/ last.action = "fold"
    \/ current_street(line) = 2 /\ Len(line.actions[2]) >= 2 /\ last.action = "ccall"

_get_acting_player(line) ==
    LET all_actions == _convert_actions(line.actions)
        last == lastOf(all_actions)
    IN IF all_actions = << >> \/ last.street # current_street(line) THEN P1
       ELSE IF isOver(line, last) THEN nobody
       ELSE 3 - last.player

-----------------------------------------------------------------------------
(* _compute_bets: from the last two actions, of which the antes count as   *)
(* raises, and the last raise before them.                                 *)

anteOf(player) == [action |-> "raise", raise_amount |-> arguments.ante, player |-> player]

prev_last_bet_Any(all_actions) ==
    LET raises == {i \in DOMAIN all_actions : all_actions[i].action = "raise"}
    IN IF raises = {} THEN arguments.ante ELSE all_actions[Max(raises)].raise_amount
prev_last_bet(all_actions) ==
    LET raises == {i \in 1 .. Len(all_actions) - 2 : all_actions[i].action = "raise"}
    IN IF raises = {} THEN arguments.ante ELSE all_actions[Max(raises)].raise_amount

\* The bet of the player to act and that of the other.
_compute_bets(line) ==
    LET all_actions == _convert_actions(line.actions)
        played == <<anteOf(P2), anteOf(P1)>> \o all_actions
        last == lastOf(played)
        prev == played[Len(played) - 1]
    IN IF _get_acting_player(line) = nobody THEN <<-1, -1>>
       ELSE CASE prev.action = "raise" /\ last.action = "raise" ->
                   <<prev.raise_amount, last.raise_amount>>
              [] prev.action = "raise" /\ last.action = "ccall" ->
                   <<prev.raise_amount, prev.raise_amount>>
              [] prev.action = "ccall" /\ last.action = "ccall" ->
                   <<prev_last_bet(all_actions), prev_last_bet(all_actions)>>
              [] prev.action = "ccall" /\ last.action = "raise" ->
                   <<prev_last_bet(all_actions), last.raise_amount>>

\* The bets, that of the player to act taken for the viewer's own.
parse_state(line) ==
    LET bets == _compute_bets(line)
    IN [position |-> line.position + 1,
        current_street |-> current_street(line),
        hand_number |-> line.hand_id,
        acting_player |-> _get_acting_player(line),
        bets |-> IF line.position + 1 = P1 THEN bets ELSE <<bets[2], bets[1]>>]

\* The asserts on the way.
parseAsserts(line) ==
    /\ line.actions = << << >>, << >> >> => current_street(line) = 1
    /\ _compute_bets(line)[1] <= _compute_bets(line)[2]

parsed_state_to_node(state) ==
    [kind |-> "inner", street |-> state.current_street,
     current_player |-> state.acting_player, bets |-> state.bets]

=============================================================================
