--------------------------- MODULE BlueprintPlayer --------------------------
(***************************************************************************)
(* ACPCServer/tcc_ai_player.c and matchstate_to_action.py: a client for    *)
(* two-player Leduc that looks its action up in a strategy table.  The     *)
(* table knows bets in whole antes; the opponent may bet anything, or be   *)
(* the second such client, tcc_ai_player_2.c, with a table of its own: the *)
(* two programs differ in nothing else.                                    *)
(*                                                                         *)
(* client rewrites the betting of the state it is sent to the key of a row *)
(* of the table, draws an action of the row, and asserts that it is valid. *)
(*                                                                         *)
(* A table is a file of blueprints/, written by a trainer that is not in   *)
(* the repository.  Follow and rowOf are the rule its rows obey.           *)
(***************************************************************************)
EXTENDS Match, Protocol

CONSTANTS
    mySeat,          \* the seat of the client
    ante             \* chips of an ante; 100 in leduc.game and in the script

Antes == stack[0] \div ante

ASSUME BlueprintAssumption ==
    /\ numPlayers = 2 /\ noLimit
    /\ mySeat \in Seats
    /\ ante \in Nat \ {0}
    /\ \A p \in Players : stack[p] = Antes * ante /\ blind[p] = ante
    /\ ChipsFit

VARIABLES
    opponent,        \* in the other seat: "anyone", or the "second client"
    client           \* "running", or "aborted" by an assert

vars == <<match, opponent, client>>

-----------------------------------------------------------------------------
(* transform_matchstate: from the betting to the key of a row, a sequence  *)
(* of "check", "call" and "raise" (in antes), "/" and the padding "-".     *)

token(t) == [type |-> t, size |-> 0]

roundedToAntes(size) == (size + ante - 1) \div ante

\* A call is a check before a raise, beside another call, and alone.
transform_action(part) ==
    LET isCall(i) == i \in DOMAIN part /\ part[i].type = "call"
        beforeRaise(i) == isCall(i) /\ i + 1 \in DOMAIN part /\ part[i + 1].type = "raise"
        isCheck(i) == \/ beforeRaise(i)
                      \/ isCall(i) /\ (isCall(i - 1) \/ isCall(i + 1) \/ Len(part) = 1)
    IN [i \in DOMAIN part |->
           IF isCheck(i) THEN token("check")
           ELSE IF part[i].type = "raise" THEN [part[i] EXCEPT !.size = roundedToAntes(@)]
           ELSE part[i]]

\* An odd number of actions before the board is padded.
padding_Never(rounds) == << >>
padding(rounds) ==
    IF Len(rounds) > 1 /\ Len(rounds[1]) % 2 = 1 THEN <<token("-")>> ELSE << >>

transform_matchstate(text) ==
    LET rounds == [i \in DOMAIN text.betting |-> transform_action(text.betting[i])]
    IN rounds[1] \o padding(rounds)
       \o FlattenSeq([i \in 1 .. Len(rounds) - 1 |-> <<token("/")>> \o rounds[i + 1]])

-----------------------------------------------------------------------------
(* The table.                                                              *)

\* The place of a row in the tree of the table's own game.
Root == [bet |-> 1, min |-> 2, facing |-> FALSE, length |-> 0, closed |-> FALSE]

leastRaise(n) == IF n.bet = Antes THEN Antes + 1 ELSE IF n.min > Antes THEN Antes ELSE n.min
TableRaises(n) == leastRaise(n) .. Antes

\* The places that a token leads to: one, or none when no row has such a key.
Follow(n, t) ==
    LET longer == [n EXCEPT !.length = @ + 1]
    IN CASE t.type = "check" /\ ~n.closed /\ ~n.facing /\ n.bet < Antes ->
                {[longer EXCEPT !.closed = n.length > 0]}
         [] t.type = "call" /\ ~n.closed /\ n.facing -> {[longer EXCEPT !.closed = TRUE]}
         [] t.type = "raise" /\ ~n.closed /\ t.size \in TableRaises(n) ->
                {[longer EXCEPT !.bet = t.size, !.facing = TRUE,
                                !.min = Larger(@, t.size + t.size - n.bet)]}
         [] t.type = "-" /\ n.closed /\ n.length % 2 = 1 -> {longer}
         [] t.type = "/" /\ n.closed /\ n.length % 2 = 0 ->
                {[Root EXCEPT !.bet = n.bet, !.min = n.bet + 1]}
         [] OTHER -> {}

\* The actions of a row: 0, the bet when there is one to call, and the raises.
rowOf(n) ==
    <<0>> \o (IF n.facing THEN <<n.bet>> ELSE << >>)
    \o [i \in 1 .. Antes + 1 - leastRaise(n) |-> leastRaise(n) + i - 1]

rows(key) ==
    {rowOf(n) : n \in {m \in FoldLeft(LAMBDA at, t : UNION {Follow(n, t) : n \in at}, {Root}, key) :
                          ~m.closed}}

-----------------------------------------------------------------------------
(* decide_next_action and the client's loop.                               *)

last_action_is_digit_Never(key) == FALSE
last_action_is_digit(key) == key # << >> /\ Last(key).type = "raise"

action_from_code(code, index, key) ==
    IF index = 0
    THEN [type |-> IF last_action_is_digit(key) THEN "fold" ELSE "call", size |-> 0]
    ELSE IF index = 1 /\ last_action_is_digit(key) THEN [type |-> "call", size |-> 0]
    ELSE [type |-> "raise", size |-> code * ante]

\* random.choices may draw any action of the row; without a row it is a call.
decide_next_action(key) ==
    IF rows(key) = {} THEN {[type |-> "call", size |-> 0]}
    ELSE UNION {{action_from_code(row[i], i - 1, key) : i \in DOMAIN row} : row \in rows(key)}

isAskedToAct(seat) == match.handId < numHands /\ currentSeat(match) = seat

keyOf(seat) ==
    transform_matchstate(printMatchState(
        [handId |-> match.handId, state |-> match.state,
         viewingPlayer |-> seatToPlayer(match.player0Seat, seat)]))

\* One turn of a client, whose assert ends the process.
TakesTurn(seat) ==
    /\ isAskedToAct(seat) /\ client = "running"
    /\ \E a \in decide_next_action(keyOf(seat)) :
          IF isValidAction(match.state, FALSE, a)
          THEN match' = transact(match, a) /\ UNCHANGED client
          ELSE client' = "aborted" /\ UNCHANGED match
    /\ UNCHANGED opponent

ClientActs == TakesTurn(mySeat)

SecondClientActs ==
    opponent = "second client" /\ \E seat \in Seats \ {mySeat} : TakesTurn(seat)

\* Any of Actions but a raise below zero, which is not valid where the chips fit.
OpponentActs ==
    /\ opponent = "anyone" /\ ~isAskedToAct(mySeat) /\ match.handId < numHands
    /\ \E a \in [type : {"fold", "call"}, size : {0}] \cup [type : {"raise"}, size : 0 .. stack[0]] :
          isValidAction(match.state, FALSE, a) /\ match' = transact(match, a)
    /\ UNCHANGED <<opponent, client>>

Stays == (Over \/ client = "aborted") /\ UNCHANGED vars

BlueprintInit == Init /\ client = "running" /\ opponent \in {"anyone", "second client"}
BlueprintNext == ClientActs \/ SecondClientActs \/ OpponentActs \/ Stays
BlueprintSpec == BlueprintInit /\ [][BlueprintNext]_vars

-----------------------------------------------------------------------------
\* "assert( isValidAction( game, &state.state, 0, &action ) )": whatever the
\* opponent bets, an action drawn from the table is valid (tcc_ai_player.c).
AssertHolds == client = "running"

raisesOf(r) == {i \in DOMAIN match.state.action[r] : match.state.action[r][i].type = "raise"}

\* Rounding the bets up costs no validity within a round: the assert can fail
\* only in the second round, of a hand whose first round was bet in part of an
\* ante (the table then believes in a smaller raise than the one it answers).
\* Against each other the two clients never abort, whatever their tables hold.
OnlyCarriedBetsAbort ==
    client = "aborted" =>
        /\ opponent = "anyone"
        /\ match.state.round > 0
        /\ \E i \in raisesOf(0) : /\ \A j \in raisesOf(0) : j <= i
                                  /\ match.state.action[0][i].size % ante # 0

\* "If we don't have data for this match_state, default to 'c'" is not how the
\* client plays: whatever the opponent bets, its key has a row with the action
\* that is asked for, unless rounding up made an all-in of a bet that was none.
RowsAreKnown ==
    \A seat \in IF opponent = "anyone" THEN {mySeat} ELSE Seats :
        \/ ~isAskedToAct(seat)
        \/ rows(keyOf(seat)) # {}
        \/ \E r \in Rounds : \E i \in raisesOf(r) :
              LET e == match.state.action[r][i]
              IN e.size < stack[e.player] /\ roundedToAntes(e.size) = Antes

\* The strategy table has a row for every key, and what is drawn from the row is
\* valid but for one kind of state.
TableFits == OnlyCarriedBetsAbort /\ RowsAreKnown
=============================================================================
