-------------------------------- MODULE Game --------------------------------
(***************************************************************************)
(* The betting engine of ACPCServer/game.c: the part of `State' that       *)
(* betting changes, and the functions that read it and change it.  A state *)
(* is a record, so that the dealer, the players and the log replay can     *)
(* each hold one; a module that has just one (Hand) makes it a variable.   *)
(*                                                                         *)
(* Cards are left out: betting never looks at them.  Players and rounds    *)
(* are numbered from 0, as in the code; the actions of a round are the     *)
(* sequence of the entries of action[r][] and actingPlayer[r][].           *)
(*                                                                         *)
(* A definition named X_Fault, here and in the other modules, is X with a  *)
(* slip a programmer could make.  Nothing uses it: PROJECT.json names the  *)
(* property that notices when it takes the place of X.                     *)
(***************************************************************************)
EXTENDS Sums, Sequences, FiniteSets, FiniteSetsExt

CONSTANTS
    numPlayers,      \* 2..MAX_PLAYERS
    numRounds,       \* 1..MAX_ROUNDS
    stack,           \* stack[p]: all the chips of player p
    blind,           \* blind[p]: what p has spent before the first action
    raiseSize,       \* raiseSize[r]: the fixed raise of a limit game
    noLimit,         \* bettingType = noLimitBetting
    firstPlayer,     \* firstPlayer[r]: who is asked first in round r
    maxRaises,       \* maxRaises[r]: how many raises round r allows
    MaxNumActions    \* MAX_NUM_ACTIONS, the length of action[r][]

Players == 0 .. numPlayers - 1
Rounds == 0 .. numRounds - 1

(***************************************************************************)
(* What readGame accepts.  Its checks let a blind be the whole stack, and  *)
(* even every blind at once, a game in which no one could be asked to act: *)
(* SomeoneHasChips, which readGame does not check, excludes that one.      *)
(***************************************************************************)
ASSUME GameAssumption ==
    /\ numPlayers \in 2 .. 10
    /\ numRounds \in 1 .. 4
    /\ stack \in [Players -> Nat]
    /\ blind \in [Players -> Nat]
    /\ \A p \in Players : blind[p] <= stack[p]
    /\ raiseSize \in [Rounds -> Nat]
    /\ noLimit \in BOOLEAN
    /\ firstPlayer \in [Rounds -> Players]
    /\ maxRaises \in [Rounds -> Nat]
    /\ MaxNumActions \in Nat
    /\ numPlayers <= MaxNumActions

ASSUME SomeoneHasChips == \E p \in Players : blind[p] < stack[p]

ActionTypes == {"fold", "call", "raise", "invalid"}
Action == [type : ActionTypes, size : Int]

\* One action[r][i] together with its actingPlayer[r][i].
Entry == [type : {"fold", "call", "raise"}, size : Int, player : Players]

\* State, less the cards and the hand's number.  Chips are numbers with a sign: they
\* are added in 32 bits (Int32), and below zero where stacks are too large for that.
State == [maxSpent : Int, minNoLimitRaiseTo : Int32s, spent : [Players -> Int],
          action : [Rounds -> Seq(Entry)], round : Rounds, finished : BOOLEAN,
          playerFolded : [Players -> BOOLEAN]]

Larger(a, b) == IF a > b THEN a ELSE b
BigBlind_First == blind[0]
BigBlind == Max({blind[p] : p \in Players})

\* The largest bet of a limit game when n rounds are over.
mostBet(n) == BigBlind + SumTo([r \in 1 .. numRounds |-> maxRaises[r - 1] * raiseSize[r - 1]], n)

\* All that can be in the pot is a number of 32 bits.  readGame does not check it:
\* a stack that the file does not give is INT32_MAX.
ChipsFit ==
    IF noLimit THEN \A p \in Players : numPlayers * stack[p] <= INT32_MAX
    ELSE numPlayers * mostBet(numRounds) <= INT32_MAX

-----------------------------------------------------------------------------
(* Reading a state.                                                        *)

acts(s) == s.action[s.round]
CanAct(s, p) == ~s.playerFolded[p] /\ s.spent[p] < stack[p]

\* The do-while loop: the closest player after cur who still has a decision.
\* When nobody has one the loop does not end; every caller needs SomeoneToAct.
nextPlayer(s, cur) ==
    LET at(k) == (cur + k) % numPlayers
        k == CHOOSE k \in 1 .. numPlayers :
                /\ CanAct(s, at(k))
                /\ \A j \in 1 .. k - 1 : ~CanAct(s, at(j))
    IN at(k)

currentPlayer(s) ==
    IF acts(s) # << >>
    THEN nextPlayer(s, acts(s)[Len(acts(s))].player)
    ELSE nextPlayer(s, firstPlayer[s.round] + numPlayers - 1)

numRaises(s) == Cardinality({i \in DOMAIN acts(s) : acts(s)[i].type = "raise"})
numFolded(s) == Cardinality({p \in Players : s.playerFolded[p]})
numActingPlayers(s) == Cardinality({p \in Players : CanAct(s, p)})

CurrentBet_WholeRound(s) == DOMAIN acts(s)

\* The entries from the last raise of the round on (all, if there is none).
CurrentBet(s) ==
    {i \in DOMAIN acts(s) : \A j \in DOMAIN acts(s) : j > i => acts(s)[j].type # "raise"}

numCalled_ForgetsRaiser(s) ==
    Cardinality({i \in CurrentBet(s) :
                    /\ acts(s)[i].type = "call"
                    /\ s.spent[acts(s)[i].player] < stack[acts(s)[i].player]})
numCalled_CountsFolds(s) ==
    Cardinality({i \in CurrentBet(s) : s.spent[acts(s)[i].player] < stack[acts(s)[i].player]})

\* Raiser and callers of the current bet who are not all-in.
numCalled(s) ==
    Cardinality({i \in CurrentBet(s) :
                    /\ acts(s)[i].type \in {"call", "raise"}
                    /\ s.spent[acts(s)[i].player] < stack[acts(s)[i].player]})

stateFinished(s) == s.finished

-----------------------------------------------------------------------------
(* Which actions are valid.                                                *)

\* "1 raise + NUM PLAYERS-1 calls" must still fit into the round's array.
RoomToRaise_OneEntry(s) == Len(acts(s)) + 1 <= MaxNumActions
RoomToRaise(s) == Len(acts(s)) + numPlayers <= MaxNumActions

raiseIsValid(s) ==
    /\ numRaises(s) < maxRaises[s.round]
    /\ RoomToRaise(s)
    /\ numActingPlayers(s) > 1
    /\ noLimit => \/ s.minNoLimitRaiseTo <= stack[currentPlayer(s)]
                  \/ s.maxSpent < stack[currentPlayer(s)]

\* *maxSize and *minSize: a stack below the minimum may still go all-in.
maxSize(s) == stack[currentPlayer(s)]
minSize(s) == IF s.minNoLimitRaiseTo > maxSize(s) THEN maxSize(s) ELSE s.minNoLimitRaiseTo

fixedAction_OnlyIncreases(s, a) ==
    IF a.type # "raise" THEN [a EXCEPT !.size = 0]
    ELSE IF noLimit /\ a.size < minSize(s) THEN [a EXCEPT !.size = minSize(s)] ELSE a

\* The action isValidAction leaves behind: sizes are clamped when tryFixing
\* allows it, and cleared where a size means nothing.
fixedAction(s, a) ==
    IF a.type = "raise"
    THEN IF ~noLimit THEN a
         ELSE IF a.size < minSize(s) THEN [a EXCEPT !.size = minSize(s)]
         ELSE IF a.size > maxSize(s) THEN [a EXCEPT !.size = maxSize(s)]
         ELSE a
    ELSE [a EXCEPT !.size = 0]

SizeIsValid_AnyInStack(s, a) == a.size <= maxSize(s)
SizeIsValid(s, a) == a.size \in minSize(s) .. maxSize(s)

isValidAction(s, tryFixing, a) ==
    /\ ~stateFinished(s)
    /\ a.type # "invalid"
    /\ a.type = "raise" =>
          /\ raiseIsValid(s)
          /\ noLimit => tryFixing \/ SizeIsValid(s, a)
    /\ a.type = "fold" =>
          LET p == currentPlayer(s)
          IN s.spent[p] # s.maxSpent /\ s.spent[p] # stack[p]

-----------------------------------------------------------------------------
(* Changing a state.                                                       *)

initState ==
    [maxSpent          |-> BigBlind,
     minNoLimitRaiseTo |-> IF ~noLimit THEN 0 ELSE IF BigBlind > 0 THEN Int32(BigBlind * 2) ELSE 1,
     spent             |-> blind,
     action            |-> [r \in Rounds |-> << >>],
     round             |-> 0,
     finished          |-> FALSE,
     playerFolded      |-> [p \in Players |-> FALSE]]

\* The bet after a raise: the chosen size, or the fixed raise cut at the stack.
RaiseTo(s, p, size) ==
    LET limitBet == Int32(s.maxSpent + raiseSize[s.round])
    IN IF noLimit THEN size ELSE IF limitBet > stack[p] THEN stack[p] ELSE limitBet

\* What player p has in the pot after a call: the bet, or all of the stack.
CallTo(s, p) == IF s.maxSpent > stack[p] THEN stack[p] ELSE s.maxSpent

\* The next raise must be by at least as much as this one.
RaisedMinimum(s, to) ==
    IF noLimit THEN Larger(s.minNoLimitRaiseTo, Int32(to + to - s.maxSpent))
    ELSE s.minNoLimitRaiseTo

\* doAction up to the end of its switch: the action is stored and its chips move.
StoreAction(s, a) ==
    LET p == currentPlayer(s)
        entry == [type |-> a.type, size |-> a.size, player |-> p]
        stored == [s EXCEPT !.action[s.round] = Append(@, entry)]
        to == RaiseTo(s, p, a.size)
    IN CASE a.type = "fold" -> [stored EXCEPT !.playerFolded[p] = TRUE]
         [] a.type = "call" -> [stored EXCEPT !.spent[p] = CallTo(s, p)]
         [] a.type = "raise" ->
              [stored EXCEPT !.spent[p] = to, !.maxSpent = to,
                             !.minNoLimitRaiseTo = RaisedMinimum(s, to)]

AnswersOwed_OneMore(s) == numCalled(s) <= numActingPlayers(s)
AnswersOwed(s) == numCalled(s) < numActingPlayers(s)

RoundsLeft_PastLast(s) == s.round + 1 <= numRounds
RoundsLeft(s) == s.round + 1 < numRounds

\* A raise-by of one big blind (or one chip), made a raise-to.
RoundMinimum(s) == Int32(Larger(1, BigBlind) + s.maxSpent)

\* The tail of doAction: has the hand ended, or the round?
EndBetting(s) ==
    IF numFolded(s) + 1 >= numPlayers THEN [s EXCEPT !.finished = TRUE]
    ELSE IF AnswersOwed(s) THEN s
    ELSE IF numActingPlayers(s) <= 1
         THEN [s EXCEPT !.finished = TRUE, !.round = numRounds - 1]
    ELSE IF RoundsLeft(s)
         THEN [s EXCEPT !.round = @ + 1, !.minNoLimitRaiseTo = RoundMinimum(s)]
    ELSE [s EXCEPT !.finished = TRUE]

doAction(s, a) == EndBetting(StoreAction(s, a))

=============================================================================
