-------------------------------- MODULE Hand --------------------------------
(***************************************************************************)
(* One hand: the state of game.c under every sequence of valid actions.    *)
(* This is the loop of the dealer (and of every program that replays a     *)
(* betting string): the current player chooses, isValidAction judges,      *)
(* doAction changes the state, until stateFinished.                        *)
(***************************************************************************)
EXTENDS Game

VARIABLE state

Init == state = initState

\* The sizes a raise may be given: any up to the largest stack in no-limit.
Sizes == IF noLimit THEN 1 .. Max({stack[p] : p \in Players}) ELSE {0}

Take(a) == isValidAction(state, FALSE, a) /\ state' = doAction(state, a)

Fold == Take([type |-> "fold", size |-> 0])
Call == Take([type |-> "call", size |-> 0])
Raise == \E size \in Sizes : Take([type |-> "raise", size |-> size])

\* A finished hand stays as it is (the caller evaluates it and drops it).
Finished == stateFinished(state) /\ UNCHANGED state

Next == Fold \/ Call \/ Raise \/ Finished

Spec == Init /\ [][Next]_state

-----------------------------------------------------------------------------
\* The fields of State hold chips, players, rounds and actions.
TypeOK == state \in State

\* The loop of nextPlayer ends: until the hand is over somebody can act, and
\* somebody who can act still owes an answer to the current bet.
SomeoneToAct ==
    ~state.finished => /\ \E p \in Players : CanAct(state, p)
                       /\ numCalled(state) < numActingPlayers(state)

\* Nobody is asked twice about the same bet: the current player has made no
\* action since the last raise.  numCalled counts actions, not players, and is
\* right only because of this.
AskedOnce ==
    ~state.finished =>
        \A i \in CurrentBet(state) : acts(state)[i].player # currentPlayer(state)

\* The asserts of doAction hold for every action that isValidAction lets through:
\* the round has an entry left, although raiseIsValid looks at MAX_NUM_ACTIONS
\* only before a raise, and a no-limit raise is larger than the bet and no larger
\* than the stack of the raiser.
DoActionAsserts ==
    ~state.finished =>
        /\ Len(acts(state)) < MaxNumActions
        /\ noLimit /\ raiseIsValid(state) =>
              /\ state.maxSpent < minSize(state)
              /\ minSize(state) <= maxSize(state)

\* maxSpent is "largest bet so far, including all previous rounds" (game.h).
MaxSpentIsLargestBet ==
    /\ \E p \in Players : state.spent[p] = state.maxSpent
    /\ \A p \in Players : state.spent[p] <= state.maxSpent

\* A chip once spent stays in the pot, and the bet never shrinks.
ChipsStayIn ==
    [][/\ state'.maxSpent >= state.maxSpent
       /\ \A p \in Players : state'.spent[p] >= state.spent[p]]_state

\* A round is closed only after everybody who can still bet has acted in it
\* (the big blind has had its option) and has matched the bet; at a showdown
\* every player still in has matched the largest bet or is all-in.
RoundsCloseMatched ==
    [][/\ state'.round # state.round /\ ~state'.finished =>
             \A p \in Players : CanAct(state', p) =>
                 /\ state'.spent[p] = state'.maxSpent
                 /\ \E i \in DOMAIN state'.action[state.round] :
                        state'.action[state.round][i].player = p
       /\ state'.finished /\ numFolded(state') + 1 < numPlayers =>
             \A p \in Players : ~state'.playerFolded[p] =>
                 state'.spent[p] = state'.maxSpent \/ state'.spent[p] = stack[p]]_state

-----------------------------------------------------------------------------
(***************************************************************************)
(* The inductive invariant behind the theorems of HandProofs.              *)
(***************************************************************************)

\* No-limit, or a limit game in which nobody has less than anybody else: the
\* games in which a raise cannot be cut below the bet it raises.
FairStacks == noLimit \/ \A p, q \in Players : stack[p] = stack[q]

\* Whoever called or made the current bet has matched it, or is all-in.
BetIsMatched(s) ==
    \A i \in CurrentBet(s) : acts(s)[i].type \in {"call", "raise"} =>
        LET p == acts(s)[i].player IN s.spent[p] = s.maxSpent \/ s.spent[p] = stack[p]

\* A round has room for every answer that is still owed: a raise leaves room for
\* one answer of each player, and an answer takes as much room as it settles.
AnswersFit(s) == Len(acts(s)) + numActingPlayers(s) - numCalled(s) <= MaxNumActions

\* How large the raises so far can have made the bet of a limit game.
RaisesBound(s) ==
    IF s.finished THEN mostBet(numRounds)
    ELSE mostBet(s.round) + numRaises(s) * raiseSize[s.round]

\* The chips of a hand, the room a raise has, and the rounds not yet begun.
BettingInv ==
    /\ \A p \in Players : state.spent[p] <= stack[p]
    /\ ChipsFit /\ FairStacks =>
          /\ \E p \in Players : state.spent[p] = state.maxSpent
          /\ \A p \in Players : state.spent[p] \in 0 .. state.maxSpent
          /\ ~noLimit => state.maxSpent <= RaisesBound(state)
    /\ ChipsFit /\ noLimit /\ ~state.finished => state.maxSpent < state.minNoLimitRaiseTo
    /\ ~state.finished =>
          /\ numCalled(state) < numActingPlayers(state)
          /\ BetIsMatched(state) /\ AnswersFit(state)
          /\ numRaises(state) <= maxRaises[state.round]
          /\ \A r \in Rounds : r > state.round => state.action[r] = << >>

(***************************************************************************)
(* What is asked for besides, for AskedOnce and RoundsCloseMatched (see    *)
(* HandProofs).                                                            *)
(***************************************************************************)

\* How many seats player p sits behind player b.
turn(b, p) == IF p >= b THEN p - b ELSE p - b + numPlayers

\* Entry i of the round is one that numCalled may count.
answers(s, i) == acts(s)[i].type \in {"call", "raise"}

\* The current bet has been answered in the order of the seats from player b on,
\* and nobody has been left out who can act.
InTurnFrom(s, b) ==
    /\ \A i, j \in CurrentBet(s) :
          i < j => turn(b, acts(s)[i].player) < turn(b, acts(s)[j].player)
    /\ \A q \in Players :
          CanAct(s, q) /\ turn(b, q) <= turn(b, acts(s)[Len(acts(s))].player) =>
              \E i \in CurrentBet(s) : answers(s, i) /\ acts(s)[i].player = q

\* Whoever has called or raised has not folded.
AnsweringPlayersAreIn(s) ==
    \A i \in CurrentBet(s) : answers(s, i) => ~s.playerFolded[acts(s)[i].player]

AskedInOrder(s) ==
    /\ acts(s) # << >> => \E b \in Players : InTurnFrom(s, b)
    /\ AnsweringPlayersAreIn(s)

OrderInv == ~state.finished => AskedInOrder(state)

=============================================================================
