----------------------------- MODULE DeepStack ------------------------------
(***************************************************************************)
(* Source/Player: DeepStack plays a match against anybody.  The dealer     *)
(* (external here: Dealer has it) keeps the state of game.c and writes a   *)
(* line after every action; DeepStack reads the lines when it comes to it, *)
(* guesses from each whether it is asked, solves its own tree of the game  *)
(* and answers.                                                            *)
(*                                                                         *)
(* Ranges and values are vectors that only the solver computes.  What is   *)
(* kept of them is where they come from: a range is the sequence of the    *)
(* strategies it was multiplied by, each a node and an action; a bound is  *)
(* the node and the action whose values it has.                            *)
(***************************************************************************)
EXTENDS Game, ProtocolNode

CONSTANTS
    mySeat,          \* DeepStack's seat at the dealer
    matchHands       \* hands in the match

ASSUME SettingsAgree ==
    /\ numPlayers = 2 /\ numRounds = 2 /\ noLimit
    /\ \A p \in Players : stack[p] = arguments.stack /\ blind[p] = arguments.ante
    /\ \A r \in Rounds : firstPlayer[r] = 0
    /\ mySeat \in Players /\ matchHands \in Nat \ {0}
    /\ ChipsFit

\* A round has room for all the raises the stacks allow: leduc.game sets no
\* maxRaises (255 then), and its stacks are twelve antes.  The tree of DeepStack
\* knows no limit of raises.
ASSUME RaisesFit ==
    /\ \A r \in Rounds : arguments.stack <= maxRaises[r] * arguments.ante
    /\ arguments.stack <= (MaxNumActions - 1) * arguments.ante

VARIABLES
    handId, state,   \* the dealer's
    inbox,           \* lines DeepStack has not read
    reply,           \* its answer, until the dealer reads it: one or none
    last,            \* last_state.hand_number and last_node.street
    starting_player_range,
    resolver         \* the fields of ContinualResolving

dealer == <<handId, state>>
player == <<last, starting_player_range, resolver>>
vars == <<dealer, inbox, reply, player>>

nil == "nil"
noSituation == [hand_number |-> -1, street |-> 0]
noNode == [street |-> 0]

\* Which player my seat is: the button moves after every hand.
viewingPlayer(hand) == (mySeat + numPlayers - (hand % numPlayers)) % numPlayers

\* printMatchState: the actions of every round so far, and the board from the
\* second round on.
printed(hand, s) ==
    LET entry(e) == [action |-> IF e.type = "call" THEN "ccall" ELSE e.type,
                     raise_amount |-> e.size]
        betting(r) == [i \in DOMAIN s.action[r] |-> entry(s.action[r][i])]
    IN [position |-> viewingPlayer(hand), hand_id |-> hand,
        actions |-> <<betting(0), betting(1)>>, board |-> s.round > 0]

Init ==
    /\ handId = 0 /\ state = initState
    /\ inbox = <<printed(0, initState)>> /\ reply = << >>
    /\ last = noSituation /\ starting_player_range = << >>
    /\ resolver = [decision_id |-> nil, position |-> nil, last_node |-> noNode, last_bet |-> nil,
                   resolving |-> nil, range |-> nil, bound |-> nil]

-----------------------------------------------------------------------------
(* The dealer and the other player.                                        *)

\* The state after an action is written; after the last one of a hand, so is
\* the first of the next.
Deal(a) ==
    LET after == doAction(state, a)
        over == stateFinished(after)
        lines == <<printed(handId, after)>>
                 \o IF over /\ handId + 1 < matchHands
                    THEN <<printed(handId + 1, initState)>> ELSE << >>
    IN /\ handId' = IF over THEN handId + 1 ELSE handId
       /\ state' = IF over THEN initState ELSE after
       /\ inbox' = inbox \o lines

playing == handId < matchHands
myTurn == playing /\ currentPlayer(state) = viewingPlayer(handId)

Others == [type : {"fold", "call"}, size : {0}]
          \cup [type : {"raise"}, size : 1 .. arguments.stack]

OtherActs ==
    /\ playing /\ ~myTurn
    /\ \E a \in Others : isValidAction(state, FALSE, a) /\ Deal(a)
    /\ UNCHANGED <<reply, player>>

\* readPlayerResponse and isValidAction, which mends what can be mended; a bad
\* action is played as a call.
TakesReply ==
    /\ reply # << >> /\ myTurn
    /\ reply[1].line = printed(handId, state)
    /\ Deal(IF isValidAction(state, TRUE, reply[1].action)
            THEN fixedAction(state, reply[1].action) ELSE [type |-> "call", size |-> 0])
    /\ reply' = << >>
    /\ UNCHANGED player

-----------------------------------------------------------------------------
(* get_next_situation.                                                     *)

isAllIn(s) == s.bets[1] = s.bets[2] /\ s.bets[1] = arguments.stack

isMyTurn(line) ==
    LET s == parse_state(line) IN s.acting_player = s.position /\ ~isAllIn(s)

NotOurTurn ==
    /\ inbox # << >> /\ parseAsserts(Head(inbox)) /\ ~isMyTurn(Head(inbox))
    /\ inbox' = Tail(inbox)
    /\ UNCHANGED <<dealer, reply, player>>

-----------------------------------------------------------------------------
(* ContinualResolving.                                                     *)

isNewHand(s) ==
    \/ last = noSituation
    \/ last.hand_number # s.hand_number
    \/ s.current_street < last.street

start_new_hand_KeepsNode(cr, s) == [cr EXCEPT !.decision_id = 0, !.position = s.position]
start_new_hand(cr, s) ==
    [cr EXCEPT !.last_node = noNode, !.decision_id = 0, !.position = s.position]

\* The values of the opponent after action bet at the root of a tree, and
\* after that and the board: on the way there the opponent only called.
action_cfv(node, bet) == [node |-> node, bet |-> bet, board |-> FALSE]
chance_action_cfv(node, bet) == [node |-> node, bet |-> bet, board |-> TRUE]
starting_cfvs_p1 == [node |-> first_node, bet |-> nil, board |-> FALSE]

_update_invariant_KeepsBound(cr, node) ==
    IF cr.last_node # noNode /\ cr.last_node.street # node.street THEN cr
    ELSE IF cr.decision_id = 0
    THEN [cr EXCEPT !.range = starting_player_range, !.bound = starting_cfvs_p1]
    ELSE cr
_update_invariant(cr, node) ==
    IF cr.last_node # noNode /\ cr.last_node.street # node.street
    THEN [cr EXCEPT !.bound = chance_action_cfv(cr.resolving, cr.last_bet)]
    ELSE IF cr.decision_id = 0
    THEN [cr EXCEPT !.range = starting_player_range, !.bound = starting_cfvs_p1]
    ELSE cr

isFirstDecision(cr) == cr.decision_id = 0 /\ cr.position = P1

_resolve_node(cr, node) ==
    IF isFirstDecision(cr)
    THEN [cr EXCEPT !.range = starting_player_range, !.resolving = first_node]
    ELSE [_update_invariant(cr, node) EXCEPT !.resolving = node]

\* The asserts of _resolve_node, _update_invariant and get_chance_action_cfv.
resolveAsserts(cr, node) ==
    isFirstDecision(cr) \/
    /\ node.current_player = cr.position
    /\ IF cr.last_node # noNode /\ cr.last_node.street # node.street
       THEN /\ cr.last_node.street + 1 = node.street
            /\ \E i \in DOMAIN actions(cr.resolving) :
                  /\ actions(cr.resolving)[i] = cr.last_bet
                  /\ ~(i = 2 /\ isTerminal(children(cr.resolving)[2]))
       ELSE IF cr.decision_id = 0 THEN cr.position = P2 /\ node.street = 1
       ELSE cr.last_node # noNode

\* What the strategy may play: the builder of the lookahead masks a fold where
\* a check is free, and regret matching leaves every other action a chance.
playable_Folds(root) == Range(actions(root))
playable(root) == Range(actions(root)) \ (IF isEven(root) THEN {fold} ELSE {})

\* _sample_bet and the rest of compute_action, for the action that was sampled.
sampled(cr, node, bet) ==
    [cr EXCEPT !.bound = action_cfv(cr.resolving, bet),
               !.range = Append(@, [node |-> cr.resolving, bet |-> bet]),
               !.decision_id = @ + 1, !.last_bet = bet, !.last_node = node]

\* current_player_range is a clone, so that it may be multiplied in place.
startAfter_NotCloned(cr, bet) ==
    IF isFirstDecision(cr) THEN Append(starting_player_range, [node |-> first_node, bet |-> bet])
    ELSE starting_player_range
startAfter(cr, bet) == starting_player_range

_bet_to_action(bet) ==
    CASE bet = fold -> [type |-> "fold", size |-> 0]
      [] bet = ccall -> [type |-> "call", size |-> 0]
      [] OTHER -> [type |-> "raise", size |-> bet]

\* The resolver once it knows that it is asked, and in which hand.
asked(s) == IF isNewHand(s) THEN start_new_hand(resolver, s) ELSE resolver

OurTurn ==
    LET line == Head(inbox)
        s == parse_state(line)
        node == parsed_state_to_node(s)
        resolved == _resolve_node(asked(s), node)
    IN /\ inbox # << >> /\ reply = << >>
       /\ parseAsserts(line) /\ isMyTurn(line) /\ resolveAsserts(asked(s), node)
       /\ \E bet \in playable(resolved.resolving) :
             /\ resolver' = sampled(resolved, node, bet)
             /\ starting_player_range' = startAfter(asked(s), bet)
             /\ reply' = <<[line |-> line, action |-> _bet_to_action(bet)]>>
       /\ last' = [hand_number |-> s.hand_number, street |-> node.street]
       /\ inbox' = Tail(inbox)
       /\ UNCHANGED dealer

Plays == NotOurTurn \/ OurTurn
Over == ~playing /\ inbox = << >> /\ UNCHANGED vars

Next == OtherActs \/ TakesReply \/ Plays \/ Over

Spec == Init /\ [][Next]_vars

-----------------------------------------------------------------------------
\* The node of the tree that a state of the dealer is.
nodeOf(s) == [kind |-> "inner", street |-> s.round + 1, current_player |-> currentPlayer(s) + 1,
              bets |-> <<s.spent[0], s.spent[1]>>]

\* The dealer has nothing more to write: the last line is the state it is in.
upToDate == playing /\ Len(inbox) = 1

\* get_next_situation finds that it is asked exactly when the dealer asks it:
\* not after a fold, not after the last call, not when everybody is all-in.
\* Then the guesses are right: the street, who acts and what both have bet.  A
\* line that is not the dealer's last word is never taken for a question.
ReadsTheState ==
    /\ upToDate =>
          /\ isMyTurn(Head(inbox)) <=> myTurn
          /\ myTurn => parsed_state_to_node(parse_state(Head(inbox))) = nodeOf(state)
    /\ \A i \in 1 .. Len(inbox) - 1 : ~isMyTurn(inbox[i])

\* What DeepStack sends is a valid action in the state the dealer is in: the
\* dealer mends nothing ("prob of free fold is zero because ACPC dealer changes
\* such action to check"), and what is played is what the tree says.
AnswersAreValid ==
    reply # << >> =>
        /\ myTurn /\ reply[1].line = printed(handId, state)
        /\ isValidAction(state, FALSE, reply[1].action)

\* The second game agrees with the first: at every state, whoever acts, each
\* child of its node is where the dealer goes with a valid action (but for the
\* free fold, which the tree has and no strategy plays).
TreeIsTheGame ==
    playing =>
        LET node == nodeOf(state)
        IN \A i \in DOMAIN children(node) : (i = 1 => ~isEven(node)) =>
            LET child == children(node)[i]
                a == _bet_to_action(actions(node)[i])
                after == doAction(state, a)
            IN /\ isValidAction(state, FALSE, a)
               /\ isTerminal(child) <=> after.finished
               /\ child.kind = "fold" <=> numFolded(after) = 1
               /\ child.current_player = chance <=> ~after.finished /\ after.round > state.round
               /\ child.kind # "fold" => child.bets = <<after.spent[0], after.spent[1]>>
               /\ child.kind \in {"inner", "check"} => child.current_player = currentPlayer(after) + 1

\* No assert of the parser or of the resolver ends DeepStack.
AssertsHold ==
    inbox # << >> => LET s == parse_state(Head(inbox))
             IN /\ parseAsserts(Head(inbox))
                /\ isMyTurn(Head(inbox)) =>
                      resolveAsserts(asked(s), parsed_state_to_node(s))

\* The actions of a hand so far as the dealer has them, those of them that are
\* mine, and what DeepStack calls one.
entriesOf(s) == s.action[0] \o s.action[1]
myEntries(hand, s) == {i \in DOMAIN entriesOf(s) : entriesOf(s)[i].player = viewingPlayer(hand)}
betOf(e) == IF e.type = "fold" THEN fold ELSE IF e.type = "call" THEN ccall ELSE e.size

\* The range is the starting range multiplied by the strategies of my actions in
\* this hand, each once, in order and no other: nothing is left of the hands before.
RangeIsMyHistory ==
    playing /\ last.hand_number = handId /\ reply = << >> =>
        LET mine == myEntries(handId, state)
            place(i) == Cardinality({j \in mine : j <= i})
        IN /\ Len(resolver.range) = Cardinality(mine)
           /\ \A i \in mine : resolver.range[place(i)].bet = betOf(entriesOf(state)[i])

\* What was bet before the board, as the dealer has it.
betBeforeBoard(s) ==
    LET raises == {i \in DOMAIN s.action[0] : s.action[0][i].type = "raise"}
    IN IF raises = {} THEN arguments.ante ELSE s.action[0][Max(raises)].size

\* The board is dealt after the action bet at a node, or after that and a call.
leadsToBoard(node, bet, size) ==
    \E i \in DOMAIN children(node) :
        LET child == children(node)[i]
            end == IF child.current_player = chance THEN child ELSE ccallChild(child)
        IN /\ actions(node)[i] = bet
           /\ end.current_player = chance /\ end.bets = <<size, size>>

\* A node is solved with the values the opponent was left with: those of my last
\* action in this hand, carried over the board if that action, and no more than
\* a call of the opponent, led to the board.
BoundIsMyLastAction ==
    upToDate /\ myTurn =>
        LET s == parse_state(Head(inbox))
            cr == _resolve_node(asked(s), nodeOf(state))
            root == cr.bound.node
            mine == myEntries(handId, state)
        IN ~isFirstDecision(asked(s)) =>
           IF mine = {} THEN cr.bound = starting_cfvs_p1 /\ state.round = 0
           ELSE /\ cr.bound.bet = betOf(entriesOf(state)[Max(mine)])
                /\ cr.bound.board <=> root.street = 1 /\ state.round = 1
                /\ cr.bound.board => leadsToBoard(root, cr.bound.bet, betBeforeBoard(state))

=============================================================================
