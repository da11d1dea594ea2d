----------------------------- MODULE HandProofs -----------------------------
(***************************************************************************)
(* What holds in every hand, for any number of players and rounds and any  *)
(* stacks and blinds: TypeOK /\ BettingInv is inductive (InitEstablishes,  *)
(* NextKeeps), and the theorems in the middle follow from it.              *)
(*                                                                         *)
(* In what order players are asked: TypeOK /\ BettingInv /\ OrderInv is    *)
(* inductive, so that nobody is asked twice about a bet and a round closes *)
(* only when everybody who can act has answered it.                        *)
(*                                                                         *)
(* And what the hand pays: the walk through the side pots is compared with *)
(* the chips one by one (PotPaysShares, ShowdownIsFair, FoldOutIsFair);    *)
(* PotInv says when the two are asked about.                               *)
(*                                                                         *)
(* And what is told of a hand: TextIsRead, that the betting so far is read *)
(* back as the state, goes on from one action to the next; the cards are   *)
(* read back part by part, because what follows a part is never a card.    *)
(***************************************************************************)
EXTENDS Showdown, Replay, GameProofs, FunctionTheorems, SequenceTheorems

-----------------------------------------------------------------------------
(* Whether the answers fit into a round.                                   *)

\* StoreAction keeps the room for the answers that are owed, and whoever called
\* or made the current bet has matched it.
LEMMA StoreKeepsRoom ==
  ASSUME NEW s \in State, NEW a \in Action, a.type # "invalid",
         NEW p \in Players, CanAct(s, p), NEW to,
         NEW t \in State, Stored(t, s, a, p, to),
         BetIsMatched(s), AnswersFit(s),
         a.type = "raise" => to \in Int /\ to <= stack[p] /\ RoomToRaise(s)
  PROVE  BetIsMatched(t) /\ AnswersFit(t)
<1> DEFINE n == Len(acts(s))
           entry == [type |-> a.type, size |-> a.size, player |-> p]
<1>1. /\ s.spent \in [Players -> Int] /\ s.maxSpent \in Int
      /\ s.playerFolded \in [Players -> BOOLEAN] /\ stack \in [Players -> Nat]
  BY GameAssumption DEF State
<1>2. a.type \in {"fold", "call", "raise"}
  BY DEF Action, ActionTypes
<1>3. /\ n \in Nat /\ DOMAIN acts(s) = 1 .. n
      /\ Len(acts(t)) = n + 1 /\ n + 1 \notin DOMAIN acts(s)
      /\ acts(t)[n + 1] = entry
      /\ \A i \in DOMAIN acts(s) : acts(t)[i] = acts(s)[i] /\ acts(s)[i] \in Entry
      /\ CurrentBet(t) = IF entry.type = "raise" THEN {n + 1} ELSE CurrentBet(s) \cup {n + 1}
      /\ CurrentBet(s) \subseteq 1 .. n /\ \A i \in CurrentBet(s) : acts(s)[i].player \in Players
  <2>1. EntryStored(t, s, entry)
    BY StoredEntry
  <2> HIDE DEF entry
  <2>2. QED BY <2>1 DEF EntryStored
<1>4. CurrentBet(t) = IF a.type = "raise" THEN {n + 1} ELSE CurrentBet(s) \cup {n + 1}
  BY <1>3
<1>5. s.spent[p] < stack[p] /\ ~s.playerFolded[p]
  BY DEF CanAct
<1>6. /\ \A q \in Players : q # p => t.spent[q] = s.spent[q]
      /\ a.type = "fold" => t.spent[p] = s.spent[p]
      /\ a.type = "call" => t.spent[p] = CallTo(s, p)
      /\ a.type = "raise" => t.spent[p] = to /\ t.maxSpent = to
      /\ a.type # "raise" => t.maxSpent = s.maxSpent
      /\ t.playerFolded = IF a.type = "fold" THEN [s.playerFolded EXCEPT ![p] = TRUE]
                          ELSE s.playerFolded
  BY <1>1, <1>2 DEF Stored
<1>7. CurrentBet(s) \subseteq 1 .. n /\ \A i \in CurrentBet(s) : acts(s)[i].player \in Players
  BY <1>3
<1>8. Called(s) \subseteq CurrentBet(s) /\ n + 1 \notin Called(s)
  BY <1>3, <1>7 DEF Called
<1> HIDE DEF n
<1>9. BetIsMatched(t)
  <2> SUFFICES ASSUME NEW i \in CurrentBet(t), acts(t)[i].type \in {"call", "raise"},
                      NEW q, q = acts(t)[i].player
               PROVE  t.spent[q] = t.maxSpent \/ t.spent[q] = stack[q]
    BY DEF BetIsMatched
  <2>1. a.type = "call" => t.spent[p] = t.maxSpent \/ t.spent[p] = stack[p]
    BY <1>6 DEF CallTo
  <2>2. CASE i = n + 1
    <3>1. a.type \in {"call", "raise"} /\ q = p
      BY <2>2, <1>3
    <3>2. QED BY <3>1, <2>1, <1>6
  <2>3. CASE i # n + 1
    <3>1. a.type # "raise" /\ i \in CurrentBet(s)
      BY <2>3, <1>4
    <3>2. i \in DOMAIN acts(s) /\ acts(t)[i] = acts(s)[i] /\ q \in Players
      BY <3>1, <1>3, <1>7
    <3>3. s.spent[q] = s.maxSpent \/ s.spent[q] = stack[q]
      BY <3>1, <3>2 DEF BetIsMatched
    <3>4. QED BY <3>1, <3>2, <3>3, <2>1, <1>2, <1>6
  <2>4. QED BY <2>2, <2>3
<1>10. AnswersFit(t)
  <2>1. /\ IsFiniteSet(Called(s)) /\ Cardinality(Called(s)) = numCalled(s)
        /\ IsFiniteSet(Acting(s)) /\ Cardinality(Acting(s)) = numActingPlayers(s)
        /\ Cardinality(Called(t)) = numCalled(t)
        /\ Cardinality(Acting(t)) = numActingPlayers(t)
        /\ numCalled(s) \in Nat /\ numActingPlayers(s) \in Nat
        /\ numCalled(t) \in Nat /\ numActingPlayers(t) \in Nat
    BY CalledAndActing, CountersCount
  <2>2. MaxNumActions \in Nat /\ numPlayers \in Nat
    BY GameAssumption
  <2>3. p \in Acting(s)
    BY DEF Acting
  <2>4. \A q \in Players : q # p => (CanAct(t, q) <=> CanAct(s, q))
    BY <1>1, <1>6 DEF CanAct
  <2>5. ~CanAct(t, p) => Acting(t) = Acting(s) \ {p}
    BY <2>4 DEF Acting
  <2>6. CanAct(t, p) => Acting(t) = Acting(s)
    BY <2>3, <2>4 DEF Acting
  <2>7. numActingPlayers(t) =
            IF CanAct(t, p) THEN numActingPlayers(s) ELSE numActingPlayers(s) - 1
    BY <2>1, <2>3, <2>5, <2>6, FS_RemoveElement
  <2>8. numActingPlayers(s) <= numPlayers
    BY ActingPlayersBounded
  <2>9. \A i \in CurrentBet(s) : acts(t)[i] = acts(s)[i]
    BY <1>3, <1>7
  <2>10. CASE a.type = "fold"
    <3>1. ~CanAct(t, p)
      BY <2>10, <1>1, <1>6 DEF CanAct
    <3>2. \A q \in Players : t.spent[q] = s.spent[q]
      BY <2>10, <1>6
    <3>3. acts(t)[n + 1].type = "fold"
      BY <2>10, <1>3
    <3>4. Called(t) = Called(s)
      BY <3>2, <3>3, <2>9, <2>10, <1>4, <1>7 DEF Called
    <3>5. QED BY <3>1, <3>4, <2>1, <2>2, <2>7, <1>1, <1>3 DEF AnswersFit, n
  <2>11. CASE a.type = "call" /\ s.maxSpent < stack[p]
    <3>1. t.spent[p] = s.maxSpent
      BY <2>11, <1>1, <1>6 DEF CallTo
    <3>2. CanAct(t, p)
      BY <3>1, <2>11, <1>5, <1>6 DEF CanAct
    <3>3. acts(t)[n + 1].type = "call" /\ acts(t)[n + 1].player = p
      BY <2>11, <1>3
    <3>4. \A q \in Players : t.spent[q] < stack[q] <=> s.spent[q] < stack[q]
      BY <3>1, <2>11, <1>5, <1>6
    <3>5. Called(t) = Called(s) \cup {n + 1}
      BY <3>1, <3>3, <3>4, <2>9, <2>11, <1>4, <1>7 DEF Called
    <3>6. numCalled(t) = numCalled(s) + 1
      <4> DEFINE S == Called(s)
                 x == n + 1
      <4>1. IsFiniteSet(S) /\ x \notin S
        BY <2>1, <1>8
      <4> HIDE DEF S, x
      <4>2. Cardinality(S \cup {x}) = Cardinality(S) + 1
        BY <4>1, FS_AddElement
      <4>3. QED BY <4>2, <3>5, <2>1 DEF S, x
    <3>7. QED BY <3>2, <3>6, <2>1, <2>2, <2>7, <1>1, <1>3 DEF AnswersFit, n
  <2>12. CASE a.type = "call" /\ ~(s.maxSpent < stack[p])
    <3>1. t.spent[p] = stack[p]
      BY <2>12, <1>1, <1>6 DEF CallTo
    <3>2. ~CanAct(t, p)
      BY <3>1, <1>1 DEF CanAct
    <3>3. acts(t)[n + 1].player = p
      BY <1>3
    <3>4. \A i \in CurrentBet(s) : acts(s)[i].type \in {"call", "raise"} => acts(s)[i].player # p
      <4>1. s.spent[p] # s.maxSpent /\ s.spent[p] # stack[p]
        BY <2>12, <1>1, <1>5
      <4>2. QED BY <4>1 DEF BetIsMatched
    <3>5. \A q \in Players : q # p => (t.spent[q] < stack[q] <=> s.spent[q] < stack[q])
      BY <1>6
    <3>6. ~(t.spent[p] < stack[p])
      BY <3>1, <1>1
    <3>7. Called(t) = Called(s)
      BY <3>3, <3>4, <3>5, <3>6, <2>9, <2>12, <1>4, <1>7 DEF Called
    <3>8. QED BY <3>2, <3>7, <2>1, <2>2, <2>7, <1>1, <1>3 DEF AnswersFit, n
  <2>13. CASE a.type = "raise"
    <3>1. acts(t)[n + 1].type = "raise" /\ acts(t)[n + 1].player = p
      BY <2>13, <1>3
    <3>2. n + numPlayers <= MaxNumActions
      BY <2>13 DEF RoomToRaise, n
    <3>3. CASE to < stack[p]
      <4>1. Called(t) = {n + 1}
        BY <3>1, <3>3, <2>13, <1>4, <1>6 DEF Called
      <4>2. numCalled(t) = 1
        BY <4>1, <2>1, FS_Singleton
      <4>3. QED BY <4>2, <3>2, <2>1, <2>2, <2>7, <2>8, <1>1, <1>3 DEF AnswersFit, n
    <3>4. CASE ~(to < stack[p])
      <4>1. ~CanAct(t, p)
        BY <3>4, <2>13, <1>6 DEF CanAct
      <4>2. QED BY <4>1, <3>2, <2>1, <2>2, <2>7, <2>8, <1>1, <1>3 DEF AnswersFit, n
    <3>5. QED BY <3>3, <3>4
  <2>14. QED BY <2>10, <2>11, <2>12, <2>13, <1>2
<1> QED BY <1>9, <1>10

\* EndBetting keeps them: a hand that goes on has not changed, or has begun a
\* round, which has room for one answer of everybody.
LEMMA EndBettingKeepsRoom ==
  ASSUME NEW e \in State, NEW t \in State, e = t \/ acts(e) = << >>,
         BetIsMatched(t), AnswersFit(t)
  PROVE  BetIsMatched(e) /\ AnswersFit(e)
<1>1. CASE e = t
  BY <1>1
<1>2. CASE acts(e) = << >>
  <2>1. CurrentBet(e) = {} /\ Len(acts(e)) = 0
    BY <1>2 DEF CurrentBet
  <2>2. /\ numCalled(e) = 0 /\ numActingPlayers(e) \in Nat
        /\ numActingPlayers(e) <= numPlayers
    BY <1>2, CountersCount, ActingPlayersBounded
  <2>3. BetIsMatched(e)
    BY <2>1 DEF BetIsMatched
  <2>4. AnswersFit(e)
    BY <2>1, <2>2, GameAssumption DEF AnswersFit
  <2> QED BY <2>3, <2>4
<1> QED BY <1>1, <1>2

-----------------------------------------------------------------------------
(* The invariant.                                                          *)

\* The initial state satisfies the invariant: the blinds are within the stacks,
\* the bet is the big blind, and SomeoneHasChips is waited for.
LEMMA InitEstablishes == Init => TypeOK /\ BettingInv
<1> SUFFICES ASSUME state = initState PROVE TypeOK /\ BettingInv
  BY DEF Init
<1>1. TypeOK
  BY InitStateFacts DEF TypeOK
<1>2. state.spent = blind /\ state.maxSpent = BigBlind /\ state.round = 0
      /\ state.action = [r \in Rounds |-> << >>]
  BY DEF initState
<1>3. numCalled(state) < numActingPlayers(state)
  <2>1. numCalled(initState) = 0 /\ numActingPlayers(initState) \in Nat
        /\ numActingPlayers(initState) > 0
    BY InitStateFacts, CountersCount
  <2>2. QED BY <2>1
<1>4. BetIsMatched(state) /\ AnswersFit(state)
  <2>1. CurrentBet(initState) = {} /\ Len(acts(initState)) = 0
    BY InitStateFacts DEF CurrentBet
  <2>2. /\ numCalled(initState) = 0 /\ numActingPlayers(initState) \in Nat
        /\ numActingPlayers(initState) <= numPlayers
    BY InitStateFacts, CountersCount, ActingPlayersBounded
  <2>3. QED BY <2>1, <2>2, GameAssumption DEF BetIsMatched, AnswersFit
<1>5. numRaises(state) = 0
  BY InitStateFacts, RaisesCount
<1>6. ASSUME ChipsFit, noLimit PROVE state.maxSpent < state.minNoLimitRaiseTo
  <2>1. BigBlind \in Nat /\ \E p \in Players : BigBlind = blind[p]
    BY BigBlindIsMax
  <2>2. BigBlind * 2 \in 0 .. INT32_MAX
    BY <1>6, <2>1, TwiceFits, GameAssumption, Int32Assumption
  <2>3. Int32(BigBlind * 2) = BigBlind * 2
    BY <2>2, Int32Fits
  <2>4. QED BY <1>6, <2>1, <2>3 DEF initState
<1>7. ~noLimit => state.maxSpent <= RaisesBound(state)
  <2>1. state.finished = FALSE /\ state.round \in Rounds /\ raiseSize[state.round] \in Nat
    BY <1>1, GameAssumption DEF TypeOK, State, initState
  <2>2. RaisesBound(state) = mostBet(0) + 0 * raiseSize[state.round]
    BY <2>1, <1>2, <1>5 DEF RaisesBound
  <2>3. QED BY <2>1, <2>2, <1>2, MostBetGrows, BigBlindIsMax
<1>8. numRaises(state) <= maxRaises[state.round]
  BY <1>1, <1>5, GameAssumption DEF TypeOK, State
<1> QED BY <1>1, <1>2, <1>3, <1>4, <1>6, <1>7, <1>8, BigBlindIsMax, GameAssumption DEF BettingInv

\* Until the hand is over the current player is somebody who can act.
LEMMA ActorCanAct ==
  ASSUME TypeOK, BettingInv, ~state.finished
  PROVE  currentPlayer(state) \in Players /\ CanAct(state, currentPlayer(state))
<1>1. numCalled(state) \in Nat /\ numActingPlayers(state) \in Nat
      /\ numCalled(state) < numActingPlayers(state)
  BY CountersCount DEF TypeOK, BettingInv
<1>2. \E p \in Players : CanAct(state, p)
  BY <1>1, CountersCount DEF TypeOK
<1> QED BY <1>2, CurrentPlayerCanAct DEF TypeOK

\* A valid no-limit raise is above the bet and within the stack of the raiser.
LEMMA ValidRaise ==
  ASSUME ChipsFit, TypeOK, BettingInv, ~state.finished, noLimit, raiseIsValid(state)
  PROVE  state.maxSpent < minSize(state) /\ minSize(state) <= maxSize(state)
<1>1. state.maxSpent \in Int /\ state.minNoLimitRaiseTo \in Int
      /\ state.maxSpent < state.minNoLimitRaiseTo
  BY DEF TypeOK, BettingInv, State, Int32s
<1>2. maxSize(state) \in Nat
  BY ActorCanAct, GameAssumption DEF maxSize
<1>3. state.minNoLimitRaiseTo <= maxSize(state) \/ state.maxSpent < maxSize(state)
  BY DEF raiseIsValid, maxSize
<1> QED BY <1>1, <1>2, <1>3 DEF minSize

\* The state between the two halves of doAction: the action is stored, and
\* whether it ends the round has not been looked at.
BetweenInv(t) ==
    /\ t \in State /\ ~t.finished /\ t.round = state.round
    /\ \A r \in Rounds : r > t.round => t.action[r] = << >>
    /\ BetIsMatched(t)

\* Before a raise of a limit game the bet is not the largest there can be.
LEMMA LimitBetFits ==
  ASSUME ChipsFit, FairStacks, ~noLimit, TypeOK, BettingInv, ~state.finished,
         numRaises(state) < maxRaises[state.round]
  PROVE  LET r == state.round
             bet == state.maxSpent + raiseSize[r]
         IN /\ bet <= mostBet(r) + (numRaises(state) + 1) * raiseSize[r]
            /\ bet >= state.maxSpent /\ Int32(bet) = bet
<1> DEFINE r == state.round
           x == raiseSize[r]
           n == numRaises(state)
           m == maxRaises[r]
           b == mostBet(r)
<1>1. r \in Rounds /\ x \in Nat /\ n \in Nat /\ m \in Nat /\ b \in Nat /\ n < m
      /\ r \in 0 .. numRounds /\ r + 1 \in 0 .. numRounds
  <2>1. state \in State /\ r \in Rounds
    BY DEF TypeOK, State
  <2>2. r \in 0 .. numRounds /\ r + 1 \in 0 .. numRounds
    BY <2>1, GameAssumption DEF Rounds
  <2>3. x \in Nat /\ m \in Nat
    BY <2>1, GameAssumption
  <2>4. n \in Nat
    BY <2>1, RaisesCount
  <2>5. b \in Nat
    BY <2>2, MostBetGrows
  <2>6. QED BY <2>1, <2>2, <2>3, <2>4, <2>5
<1>2. state.maxSpent \in Nat /\ state.maxSpent <= b + n * x
  <2>1. /\ state.maxSpent \in Int
        /\ \E p \in Players : state.spent[p] = state.maxSpent
        /\ \A p \in Players : state.spent[p] \in 0 .. state.maxSpent
    BY DEF TypeOK, State, BettingInv
  <2>2. state.maxSpent <= RaisesBound(state)
    BY DEF BettingInv
  <2>3. QED BY <2>1, <2>2 DEF RaisesBound
<1>3. mostBet(r + 1) = b + m * x /\ mostBet(r + 1) <= INT32_MAX
  <2>1. mostBet(r + 1) \in Nat /\ mostBet(r + 1) <= mostBet(numRounds)
        /\ mostBet(numRounds) \in Nat
    BY <1>1, MostBetGrows, GameAssumption
  <2>2. 2 * mostBet(numRounds) <= INT32_MAX /\ INT32_MAX \in Nat
    BY TwiceFits, Int32Assumption
  <2>3. QED BY <1>1, <2>1, <2>2, MostBetGrows
<1>4. (n + 1) * x = n * x + x /\ (n + 1) * x <= m * x
  <2> DEFINE k == m - (n + 1)
  <2>1. k \in Nat /\ m = k + (n + 1)
    BY <1>1
  <2> HIDE DEF k, n, m, x
  <2>2. k * x \in Nat /\ n * x \in Nat
    BY <1>1, <2>1
  <2>3. (k + (n + 1)) * x = k * x + (n + 1) * x /\ (n + 1) * x = n * x + x
    BY <1>1, <2>1
  <2>4. m * x = k * x + (n + 1) * x
    BY <2>1, <2>3
  <2>5. QED BY <2>2, <2>3, <2>4, <1>1
<1>5. n * x \in Nat /\ m * x \in Nat /\ mostBet(r + 1) \in Nat
  BY <1>1, <1>3
<1> DEFINE nx == n * x
           mx == m * x
           onemore == (n + 1) * x
<1>6. /\ state.maxSpent <= b + nx /\ nx \in Nat /\ mx \in Nat /\ b + mx <= INT32_MAX
      /\ onemore = nx + x /\ onemore <= mx
  BY <1>2, <1>3, <1>4, <1>5
<1> DEFINE bet == state.maxSpent + x
<1> HIDE DEF nx, mx, onemore, b, x
<1>7. bet \in Int /\ bet >= 0 /\ bet >= state.maxSpent /\ bet <= b + onemore /\ bet <= INT32_MAX
  BY <1>1, <1>2, <1>6, Int32Assumption
<1> HIDE DEF bet
<1>8. Int32(bet) = bet
  BY <1>7, Int32Fits
<1> QED BY <1>7, <1>8 DEF bet, x, b, onemore

\* One action keeps the invariant, and in a fair game whose chips fit it takes no
\* chip back.
LEMMA TakeKeeps ==
  ASSUME TypeOK, BettingInv, NEW a \in Action, Take(a)
  PROVE  /\ TypeOK' /\ BettingInv' /\ BetweenInv(StoreAction(state, a))
         /\ ChipsFit /\ FairStacks =>
               /\ state'.maxSpent >= state.maxSpent
               /\ \A p \in Players : state'.spent[p] >= state.spent[p]
<1> DEFINE p == currentPlayer(state)
           t == StoreAction(state, a)
           to == RaiseTo(state, p, a.size)
<1>1. ~state.finished /\ a.type # "invalid" /\ state' = EndBetting(t)
      /\ isValidAction(state, FALSE, a)
  BY DEF Take, isValidAction, stateFinished, doAction
<1>2. p \in Players /\ CanAct(state, p)
  BY <1>1, ActorCanAct
<1>3. state \in State /\ state.maxSpent \in Int /\ state.minNoLimitRaiseTo \in Int
      /\ state.spent \in [Players -> Int] /\ state.round \in Rounds
      /\ state.action \in [Rounds -> Seq(Entry)] /\ state.playerFolded \in [Players -> BOOLEAN]
  BY DEF TypeOK, State, Int32s
<1>4. stack \in [Players -> Nat] /\ raiseSize[state.round] \in Nat
  BY <1>3, GameAssumption
<1>R. Ready(state)
  BY <1>1, <1>3 DEF Ready, BettingInv
<1>5. a.type = "raise" => /\ numRaises(state) < maxRaises[state.round] /\ RoomToRaise(state)
                          /\ noLimit => /\ a.size \in minSize(state) .. maxSize(state)
                                        /\ ChipsFit => state.maxSpent < a.size
  <2> SUFFICES ASSUME a.type = "raise"
               PROVE  /\ numRaises(state) < maxRaises[state.round] /\ RoomToRaise(state)
                      /\ noLimit => /\ a.size \in minSize(state) .. maxSize(state)
                                    /\ ChipsFit => state.maxSpent < a.size
    OBVIOUS
  <2>1. raiseIsValid(state) /\ (noLimit => a.size \in minSize(state) .. maxSize(state))
    BY <1>1 DEF isValidAction, SizeIsValid
  <2>2. noLimit /\ ChipsFit => state.maxSpent < minSize(state)
    BY <2>1, <1>1, ValidRaise
  <2>3. minSize(state) \in Int /\ maxSize(state) \in Nat
    BY <1>R, RaiseSizes
  <2>4. noLimit /\ ChipsFit => state.maxSpent < a.size
    BY <2>1, <2>2, <2>3, <1>3
  <2>5. QED BY <2>1, <2>4 DEF raiseIsValid
<1>6. a.type = "raise" => to \in Int /\ to <= stack[p]
  <2>1. CASE noLimit
    <3>1. a.type = "raise" => a.size \in minSize(state) .. stack[p]
      BY <2>1, <1>5 DEF maxSize
    <3>2. QED BY <2>1, <3>1, <1>2, <1>4, <1>R, RaiseSizes DEF RaiseTo
  <2>2. CASE ~noLimit
    <3>1. state.maxSpent + raiseSize[state.round] \in Int /\ stack[p] \in Nat
      BY <1>2, <1>3, <1>4
    <3>2. Int32(state.maxSpent + raiseSize[state.round]) \in Int
      BY <3>1, Int32Type
    <3>3. QED BY <2>2, <3>1, <3>2 DEF RaiseTo
  <2>3. QED BY <2>1, <2>2
<1>7. a.type = "raise" /\ ChipsFit /\ FairStacks =>
         /\ state.maxSpent <= to /\ (noLimit => state.maxSpent < to)
         /\ ~noLimit => to <= mostBet(state.round)
                             + (numRaises(state) + 1) * raiseSize[state.round]
  <2>1. CASE noLimit
    BY <2>1, <1>3, <1>5, <1>6 DEF RaiseTo
  <2>2. CASE ~noLimit
    <3> SUFFICES ASSUME a.type = "raise", ChipsFit, FairStacks
                 PROVE  /\ state.maxSpent <= to
                        /\ to <= mostBet(state.round)
                                + (numRaises(state) + 1) * raiseSize[state.round]
      BY <2>2
    <3> DEFINE bet == state.maxSpent + raiseSize[state.round]
               bound == mostBet(state.round) + (numRaises(state) + 1) * raiseSize[state.round]
    <3>1. PICK q \in Players : state.spent[q] = state.maxSpent
      BY DEF BettingInv
    <3>2. stack[q] = stack[p] /\ state.spent[q] <= stack[q]
      BY <2>2, <1>2 DEF FairStacks, BettingInv
    <3>3. state.maxSpent <= stack[p] /\ stack[p] \in Nat
      BY <3>1, <3>2, <1>2, <1>4
    <3>4. bet <= bound /\ bet >= state.maxSpent /\ Int32(bet) = bet
      BY <2>2, <1>1, <1>5, LimitBetFits
    <3>5. bound \in Int
      <4>1. mostBet(state.round) \in Nat /\ numRaises(state) \in Nat
        <5>1. state.round \in 0 .. numRounds
          BY <1>3, GameAssumption DEF Rounds
        <5>2. QED BY <5>1, <1>3, MostBetGrows, RaisesCount
      <4>2. (numRaises(state) + 1) * raiseSize[state.round] \in Nat
        BY <4>1, <1>4
      <4>3. QED BY <4>1, <4>2
    <3>6. to = IF bet > stack[p] THEN stack[p] ELSE bet
      BY <2>2, <3>4 DEF RaiseTo
    <3>7. bet \in Int
      BY <1>3, <1>4
    <3> HIDE DEF bound, bet, to, p
    <3>8. QED BY <3>3, <3>4, <3>5, <3>6, <3>7, <1>3 DEF bound
  <2>3. QED BY <2>1, <2>2
<1>8. CallTo(state, p) \in Int /\ CallTo(state, p) <= stack[p]
      /\ CallTo(state, p) <= state.maxSpent
      /\ (state.spent[p] <= state.maxSpent => state.spent[p] <= CallTo(state, p))
  BY <1>2, <1>3, <1>4 DEF CallTo, CanAct
<1>9. /\ t \in State /\ ~t.finished /\ t.round = state.round
      /\ Stored(t, state, a, p, to) /\ a.type \in {"fold", "call", "raise"}
      /\ \A r \in Rounds : r > t.round => t.action[r] = << >>
  BY <1>1, <1>R, StoreKeepsState
<1> HIDE DEF p, t, to
<1>10. ASSUME ChipsFit, noLimit PROVE t.maxSpent < t.minNoLimitRaiseTo
  <2>1. state.maxSpent < state.minNoLimitRaiseTo
    BY <1>1, <1>10 DEF BettingInv
  <2>2. CASE a.type = "raise"
    <3> DEFINE by == to + to - state.maxSpent
    <3>1. state.maxSpent < to /\ to <= stack[p] /\ to \in Int
      BY <2>2, <1>6, <1>7, <1>10 DEF FairStacks
    <3>2. state.maxSpent >= 0
      BY <1>3, <1>10 DEF BettingInv, FairStacks
    <3>3. 2 * stack[p] <= INT32_MAX
      BY <1>2, <1>10, TwiceFits
    <3>4. by \in Int /\ by >= 0 /\ by <= INT32_MAX /\ to < by
      BY <3>1, <3>2, <3>3, <1>2, <1>3, <1>4, Int32Assumption
    <3>5. Int32(by) = by
      BY <3>4, Int32Fits
    <3>6. t.maxSpent = to /\ t.minNoLimitRaiseTo = Larger(state.minNoLimitRaiseTo, by)
      BY <2>2, <3>5, <1>9, <1>10 DEF Stored
    <3>7. QED BY <3>1, <3>4, <3>6, <1>3 DEF Larger
  <2>3. CASE a.type # "raise"
    BY <2>1, <2>3, <1>3, <1>9 DEF Stored
  <2>4. QED BY <2>2, <2>3
<1>11. /\ numRaises(t) \in Nat /\ numRaises(t) <= maxRaises[state.round]
       /\ numRaises(t) = IF a.type = "raise" THEN numRaises(state) + 1 ELSE numRaises(state)
       /\ numRaises(state) \in Nat /\ maxRaises[state.round] \in Nat
  <2> DEFINE entry == [type |-> a.type, size |-> a.size, player |-> p]
  <2>1. EntryStored(t, state, entry)
    BY <1>1, <1>2, <1>3, <1>9, StoredEntry
  <2>2. entry.type = a.type
    OBVIOUS
  <2> HIDE DEF entry
  <2>3. numRaises(t) = IF a.type = "raise" THEN numRaises(state) + 1 ELSE numRaises(state)
    BY <2>1, <2>2, <1>3, <1>9, RaiseIsCounted
  <2>4. numRaises(state) \in Nat /\ maxRaises[state.round] \in Nat
    BY <1>3, RaisesCount, GameAssumption
  <2>5. numRaises(state) <= maxRaises[state.round]
    BY <1>1 DEF BettingInv
  <2>6. QED BY <2>3, <2>4, <2>5, <1>5
<1>12. /\ state' \in State /\ BetIsMatched(t)
       /\ state'.spent = t.spent /\ state'.maxSpent = t.maxSpent
       /\ ~state'.finished =>
             /\ BetIsMatched(state') /\ AnswersFit(state')
             /\ numCalled(state') < numActingPlayers(state')
             /\ \A r \in Rounds : r > state'.round => state'.action[r] = << >>
             /\ state' = t \/ (state'.round = t.round + 1 /\ acts(state') = << >>)
             /\ /\ t.maxSpent < t.minNoLimitRaiseTo
                /\ Larger(1, BigBlind) + t.maxSpent \in 0 .. INT32_MAX
                => state'.maxSpent < state'.minNoLimitRaiseTo
  <2>1. BetIsMatched(state) /\ AnswersFit(state)
    BY <1>1 DEF BettingInv
  <2>2. a.type = "raise" => RoomToRaise(state)
    BY <1>1 DEF isValidAction, raiseIsValid
  <2>3. BetIsMatched(t) /\ AnswersFit(t)
    BY <2>1, <2>2, <1>1, <1>2, <1>3, <1>6, <1>9, StoreKeepsRoom
  <2>4. QED BY <2>3, <1>1, <1>9, EndBettingFacts, EndBettingKeepsRoom
<1>13. /\ \A q \in Players : q # p => t.spent[q] = state.spent[q]
       /\ a.type = "fold" => t.spent[p] = state.spent[p] /\ t.maxSpent = state.maxSpent
       /\ a.type = "call" => t.spent[p] = CallTo(state, p) /\ t.maxSpent = state.maxSpent
       /\ a.type = "raise" => t.spent[p] = to /\ t.maxSpent = to
       /\ a.type \in {"fold", "call", "raise"}
  BY <1>2, <1>3, <1>9 DEF Stored
<1>14. \A q \in Players : state.spent[q] <= stack[q]
  BY DEF BettingInv
<1>15. \A q \in Players : t.spent[q] <= stack[q]
  BY <1>6, <1>8, <1>13, <1>14
<1>16. ASSUME ChipsFit, FairStacks
       PROVE  /\ t.maxSpent >= state.maxSpent /\ t.maxSpent \in Nat
              /\ \A q \in Players : t.spent[q] >= state.spent[q]
              /\ \A q \in Players : t.spent[q] \in 0 .. t.maxSpent
              /\ \E q \in Players : t.spent[q] = t.maxSpent
  <2>1. PICK w \in Players : state.spent[w] = state.maxSpent
    BY <1>16 DEF BettingInv
  <2>2. \A q \in Players : state.spent[q] \in 0 .. state.maxSpent
    BY <1>16 DEF BettingInv
  <2>3. t.maxSpent \in Int /\ t.spent \in [Players -> Int]
    BY <1>9 DEF State
  <2>4. t.maxSpent >= state.maxSpent /\ t.maxSpent \in Nat
    BY <1>16, <2>1, <2>2, <2>3, <1>3, <1>7, <1>13
  <2>5. ASSUME NEW q \in Players
        PROVE  t.spent[q] >= state.spent[q] /\ t.spent[q] \in 0 .. t.maxSpent
    <3>1. /\ state.spent[q] \in Int /\ state.spent[q] >= 0 /\ state.spent[q] <= state.maxSpent
          /\ t.spent[q] \in Int
      BY <2>2, <2>3, <1>3
    <3>2. t.spent[q] >= state.spent[q] /\ t.spent[q] <= t.maxSpent
      <4>1. CASE q # p \/ a.type = "fold"
        BY <3>1, <4>1, <2>3, <2>4, <1>3, <1>13
      <4>2. CASE q = p /\ a.type = "call"
        BY <3>1, <4>2, <1>8, <1>13
      <4>3. CASE q = p /\ a.type = "raise"
        BY <3>1, <4>3, <2>3, <2>4, <1>3, <1>6, <1>13
      <4>4. QED BY <4>1, <4>2, <4>3, <1>13
    <3>3. QED BY <3>1, <3>2, <2>3
  <2>6. \E q \in Players : t.spent[q] = t.maxSpent
    <3>1. CASE a.type = "raise"
      BY <3>1, <1>2, <1>13
    <3>2. CASE a.type # "raise"
      <4>1. t.spent[w] >= state.maxSpent /\ t.spent[w] <= t.maxSpent
        BY <2>1, <2>5, <2>3
      <4>2. t.spent[w] \in Int /\ state.maxSpent \in Int /\ t.maxSpent = state.maxSpent
        BY <3>2, <2>3, <1>3, <1>13
      <4>3. QED BY <4>1, <4>2
    <3>3. QED BY <3>1, <3>2
  <2>7. QED BY <2>4, <2>5, <2>6
<1>17. TypeOK'
  BY <1>12 DEF TypeOK
<1>18. ASSUME ChipsFit, noLimit, ~state'.finished
       PROVE  state'.maxSpent < state'.minNoLimitRaiseTo
  <2>1. PICK w \in Players : t.spent[w] = t.maxSpent /\ t.maxSpent \in Nat
    BY <1>16, <1>18 DEF FairStacks
  <2>2. t.maxSpent <= stack[w] /\ 2 * stack[w] <= INT32_MAX /\ stack[w] \in Nat
    BY <2>1, <1>15, <1>18, <1>4, TwiceFits
  <2>3. PICK v \in Players : BigBlind = blind[v]
    BY BigBlindIsMax
  <2>4. BigBlind \in Nat /\ 2 * BigBlind <= INT32_MAX
    <3>1. blind[v] \in Nat /\ blind[v] <= stack[v] /\ stack[v] \in Nat
      BY GameAssumption
    <3>2. 2 * stack[v] <= INT32_MAX
      BY <1>18, TwiceFits
    <3>3. QED BY <2>3, <3>1, <3>2, Int32Assumption
  <2>5. Larger(1, BigBlind) + t.maxSpent \in 0 .. INT32_MAX
    BY <2>1, <2>2, <2>4, Int32Assumption DEF Larger
  <2>6. QED BY <2>5, <1>10, <1>12, <1>18
<1>19. BetweenInv(t)
  BY <1>9, <1>12 DEF BetweenInv
<1>20. /\ ~state'.finished => numRaises(state') <= maxRaises[state'.round]
       /\ ChipsFit /\ FairStacks /\ ~noLimit => state'.maxSpent <= RaisesBound(state')
  <2> DEFINE r == state.round
             x == raiseSize[r]
             b == mostBet(r)
             n == numRaises(t)
             m == maxRaises[r]
  <2>1. /\ r \in Rounds /\ r + 1 \in 0 .. numRounds /\ x \in Nat /\ b \in Nat
        /\ n \in Nat /\ m \in Nat /\ n <= m
    <3>1. r \in Rounds /\ r \in 0 .. numRounds /\ r + 1 \in 0 .. numRounds
      <4>1. r \in Rounds
        BY <1>3
      <4> HIDE DEF r
      <4>2. QED BY <4>1, GameAssumption DEF Rounds
    <3>2. b \in Nat
      BY <3>1, MostBetGrows
    <3>3. QED BY <3>1, <3>2, <1>4, <1>11
  <2>2. mostBet(r + 1) = b + m * x /\ mostBet(r + 1) <= mostBet(numRounds)
        /\ mostBet(numRounds) \in Nat /\ mostBet(r + 1) \in Nat
    BY <2>1, MostBetGrows, GameAssumption
  <2>3. n * x \in Nat /\ m * x \in Nat /\ n * x <= m * x
    <3>1. m - n \in Nat /\ m = n + (m - n)
      BY <2>1
    <3>2. (m - n) * x \in Nat /\ n * x \in Nat
      BY <2>1, <3>1
    <3>3. QED BY <2>1, <3>2
  <2>4. ASSUME ChipsFit, FairStacks, ~noLimit PROVE t.maxSpent <= b + n * x
    <3>1. CASE a.type = "raise"
      BY <3>1, <2>4, <1>7, <1>11, <1>13
    <3>2. CASE a.type # "raise"
      <4>1. state.maxSpent <= RaisesBound(state)
        BY <2>4 DEF BettingInv
      <4>2. QED BY <3>2, <4>1, <1>1, <1>11, <1>13 DEF RaisesBound
    <3>3. QED BY <3>1, <3>2
  <2>5. CASE state'.finished
    <3> SUFFICES ASSUME ChipsFit, FairStacks, ~noLimit
                 PROVE  state'.maxSpent <= RaisesBound(state')
      BY <2>5
    <3>1. RaisesBound(state') = mostBet(numRounds)
      BY <2>5 DEF RaisesBound
    <3>2. t.maxSpent <= b + n * x /\ state'.maxSpent = t.maxSpent /\ t.maxSpent \in Int
      BY <2>4, <1>12, <1>9 DEF State
    <3> DEFINE nx == n * x
               mx == m * x
    <3>3. nx \in Nat /\ mx \in Nat /\ nx <= mx /\ t.maxSpent <= b + nx /\ b + mx <= mostBet(numRounds)
      BY <2>2, <2>3, <3>2
    <3> HIDE DEF nx, mx, b, n
    <3>4. QED BY <3>1, <3>2, <3>3, <2>1, <2>2
  <2>6. CASE ~state'.finished /\ state' = t
    BY <2>4, <2>6, <1>9, <1>11 DEF RaisesBound
  <2>7. CASE ~state'.finished /\ state'.round = t.round + 1 /\ acts(state') = << >>
    <3>1. numRaises(state') = 0
      BY <2>7, <1>12, RaisesCount
    <3>2. state'.round = r + 1 /\ state'.round \in Rounds
      BY <2>7, <1>9, <1>12 DEF State
    <3>3. numRaises(state') <= maxRaises[state'.round]
      BY <3>1, <3>2, GameAssumption
    <3> SUFFICES ASSUME ChipsFit, FairStacks, ~noLimit
                 PROVE  state'.maxSpent <= RaisesBound(state')
      BY <3>3
    <3>4. RaisesBound(state') = mostBet(r + 1) + 0 * raiseSize[r + 1]
      BY <2>7, <3>1, <3>2 DEF RaisesBound
    <3>5. raiseSize[r + 1] \in Nat
      BY <3>2, GameAssumption
    <3>6. RaisesBound(state') = mostBet(r + 1)
      BY <3>4, <3>5, <2>2
    <3>7. t.maxSpent <= b + n * x /\ state'.maxSpent = t.maxSpent /\ t.maxSpent \in Int
      BY <2>4, <1>12, <1>9 DEF State
    <3> DEFINE nx == n * x
               mx == m * x
    <3>8. nx \in Nat /\ mx \in Nat /\ nx <= mx /\ t.maxSpent <= b + nx /\ RaisesBound(state') = b + mx
      BY <2>2, <2>3, <3>6, <3>7
    <3> HIDE DEF nx, mx, b, n
    <3>9. QED BY <3>7, <3>8, <2>1
  <2>8. QED BY <2>5, <2>6, <2>7, <1>12
<1>21. BettingInv'
  BY <1>12, <1>15, <1>16, <1>18, <1>20 DEF BettingInv, FairStacks
<1> QED BY <1>12, <1>16, <1>17, <1>19, <1>21 DEF t

\* The sizes that are tried are integers, so that the actions are in Action.
LEMMA SizesAreIntegers == Sizes \subseteq Int
<1>1. CASE noLimit
  BY <1>1 DEF Sizes
<1>2. CASE ~noLimit
  BY <1>2 DEF Sizes
<1> QED BY <1>1, <1>2

\* The invariant is inductive.
LEMMA NextKeeps ==
  TypeOK /\ BettingInv /\ [Next]_state => TypeOK' /\ BettingInv'
<1> SUFFICES ASSUME TypeOK, BettingInv, [Next]_state PROVE TypeOK' /\ BettingInv'
  OBVIOUS
<1>1. CASE Fold
  <2>1. [type |-> "fold", size |-> 0] \in Action
    BY DEF Action, ActionTypes
  <2>2. QED BY <1>1, <2>1, TakeKeeps DEF Fold
<1>2. CASE Call
  <2>1. [type |-> "call", size |-> 0] \in Action
    BY DEF Action, ActionTypes
  <2>2. QED BY <1>2, <2>1, TakeKeeps DEF Call
<1>3. CASE Raise
  <2>1. PICK size \in Sizes : Take([type |-> "raise", size |-> size])
    BY <1>3 DEF Raise
  <2>2. size \in Int
    BY SizesAreIntegers
  <2>3. [type |-> "raise", size |-> size] \in Action
    BY <2>2 DEF Action, ActionTypes
  <2>4. QED BY <2>1, <2>3, TakeKeeps
<1>4. CASE Finished \/ UNCHANGED state
  BY <1>4 DEF Finished, TypeOK, BettingInv, numCalled, numActingPlayers, CurrentBet, acts, CanAct,
              BetIsMatched, AnswersFit, numRaises, RaisesBound, mostBet
<1> QED BY <1>1, <1>2, <1>3, <1>4 DEF Next

-----------------------------------------------------------------------------
\* So it holds in every reachable state.
LEMMA InvariantHolds == Spec => [](TypeOK /\ BettingInv)
<1> QED BY InitEstablishes, NextKeeps, PTL DEF Spec

\* The fields of State keep their types, whatever the players do (doAction).
THEOREM TypeCorrect == Spec => []TypeOK
<1> QED BY InvariantHolds, PTL

\* nextPlayer ends: until the hand is over somebody can act, and fewer players
\* have called the current bet than can still act (game.c, nextPlayer, doAction).
THEOREM HandGoesOn == Spec => []SomeoneToAct
<1>1. TypeOK /\ BettingInv => SomeoneToAct
  <2> SUFFICES ASSUME TypeOK, BettingInv, ~state.finished
               PROVE  /\ \E p \in Players : CanAct(state, p)
                      /\ numCalled(state) < numActingPlayers(state)
    BY DEF SomeoneToAct
  <2>1. QED BY ActorCanAct DEF BettingInv
<1> QED BY <1>1, InvariantHolds, PTL

\* No assert of doAction fails for an action that isValidAction lets through, when
\* the chips fit in 32 bits: the round's array has an entry left, whatever the players
\* and the rounds, and a no-limit raise has a size between the bet and the stack.
\* Without ChipsFit the least raise can overflow and be below the bet.
THEOREM AssertsNeverFail ==
  ASSUME ChipsFit
  PROVE  Spec => []DoActionAsserts
<1>1. TypeOK /\ BettingInv => DoActionAsserts
  <2> SUFFICES ASSUME TypeOK, BettingInv, ~state.finished
               PROVE  /\ Len(acts(state)) < MaxNumActions
                      /\ noLimit /\ raiseIsValid(state) =>
                            state.maxSpent < minSize(state) /\ minSize(state) <= maxSize(state)
    BY DEF DoActionAsserts
  <2>1. Len(acts(state)) \in Nat /\ MaxNumActions \in Nat
    BY GameAssumption DEF TypeOK, State, acts
  <2>2. /\ numCalled(state) \in Nat /\ numActingPlayers(state) \in Nat
        /\ numCalled(state) < numActingPlayers(state)
        /\ AnswersFit(state)
    BY CountersCount DEF TypeOK, BettingInv
  <2>3. Len(acts(state)) < MaxNumActions
    BY <2>1, <2>2 DEF AnswersFit
  <2>4. QED BY <2>3, ValidRaise, ChipsFit
<1> QED BY <1>1, InvariantHolds, PTL

\* In a fair game whose chips fit in 32 bits maxSpent is what game.h says it is: the
\* largest bet so far.
THEOREM LargestBet ==
  ASSUME ChipsFit, FairStacks
  PROVE  Spec => []MaxSpentIsLargestBet
<1>1. TypeOK /\ BettingInv => MaxSpentIsLargestBet
  BY ChipsFit, FairStacks DEF TypeOK, State, BettingInv, MaxSpentIsLargestBet
<1> QED BY <1>1, InvariantHolds, PTL

\* In a fair game whose chips fit in 32 bits no action of doAction takes a chip back
\* or lowers the bet.
THEOREM ChipsNeverReturn ==
  ASSUME ChipsFit, FairStacks
  PROVE  Spec => ChipsStayIn
<1> DEFINE Grows == /\ state'.maxSpent >= state.maxSpent
                    /\ \A p \in Players : state'.spent[p] >= state.spent[p]
<1>1. TypeOK /\ BettingInv /\ [Next]_state => [Grows]_state
  <2> SUFFICES ASSUME TypeOK, BettingInv, Next, state' # state PROVE Grows
    OBVIOUS
  <2>1. \A a \in Action : Take(a) => Grows
    BY ChipsFit, FairStacks, TakeKeeps
  <2> HIDE DEF Grows
  <2>2. CASE Fold
    BY <2>1, <2>2 DEF Fold, Action, ActionTypes
  <2>3. CASE Call
    BY <2>1, <2>3 DEF Call, Action, ActionTypes
  <2>4. CASE Raise
    BY <2>1, <2>4, SizesAreIntegers DEF Raise, Action, ActionTypes
  <2>5. QED BY <2>2, <2>3, <2>4 DEF Next, Finished
<1> QED BY <1>1, InvariantHolds, PTL DEF Spec, ChipsStayIn


-----------------------------------------------------------------------------
(* Seats in a circle.                                                      *)

LEMMA TurnType ==
  ASSUME NEW b \in Players, NEW p \in Players
  PROVE  /\ turn(b, p) \in Nat /\ turn(b, p) < numPlayers /\ turn(b, b) = 0
         /\ \A q \in Players : turn(b, q) = turn(b, p) => q = p
<1>1. numPlayers \in Nat /\ Players = 0 .. numPlayers - 1
  BY GameAssumption DEF Players
<1>2. turn(b, p) \in Nat /\ turn(b, p) < numPlayers /\ turn(b, b) = 0
  BY <1>1 DEF turn
<1>3. ASSUME NEW q \in Players, turn(b, q) = turn(b, p) PROVE q = p
  BY <1>1, <1>3 DEF turn
<1> QED BY <1>2, <1>3

\* k seats behind `last' is k seats later in turn, short of a whole circle.
LEMMA TurnOfNext ==
  ASSUME NEW b \in Players, NEW last \in Players, NEW k \in Nat, turn(b, last) + k < numPlayers
  PROVE  /\ (last + k) % numPlayers \in Players
         /\ turn(b, (last + k) % numPlayers) = turn(b, last) + k
<1> DEFINE x == IF last + k < numPlayers THEN last + k ELSE last + k - numPlayers
<1>1. numPlayers \in Nat /\ numPlayers > 0 /\ b \in 0 .. numPlayers - 1 /\ last \in 0 .. numPlayers - 1
  BY GameAssumption DEF Players
<1>2. x \in 0 .. numPlayers - 1 /\ (last + k = x \/ last + k = x + numPlayers)
  BY <1>1 DEF turn
<1>3. turn(b, x) = turn(b, last) + k
  BY <1>1 DEF turn
<1> HIDE DEF x
<1>4. last % numPlayers = last
  BY <1>1, ModuloOfMultiple, 0 * numPlayers + last = last
<1>5. (last + k) % numPlayers = x
  BY <1>1, <1>2, <1>4, ModuloShift
<1> QED BY <1>2, <1>3, <1>5 DEF Players

\* The player after `last' is the first in turn of those who can act, or comes
\* around.
LEMMA NextInTurn ==
  ASSUME NEW s \in State, NEW b \in Players, NEW last \in Players,
         NEW q \in Players, CanAct(s, q), turn(b, last) < turn(b, q)
  PROVE  LET c == nextPlayer(s, last)
         IN turn(b, last) < turn(b, c) /\ turn(b, c) <= turn(b, q)
<1>1. numPlayers \in Nat /\ last \in Nat
  BY GameAssumption DEF Players
<1>2. PICK k \in 1 .. numPlayers :
            /\ nextPlayer(s, last) = (last + k) % numPlayers
            /\ \A j \in 1 .. k - 1 : ~CanAct(s, (last + j) % numPlayers)
  BY <1>1, NextPlayerStops
<1> DEFINE j == turn(b, q) - turn(b, last)
<1>3. /\ turn(b, q) \in Nat /\ turn(b, last) \in Nat /\ turn(b, q) < numPlayers
      /\ j \in Nat /\ j > 0 /\ turn(b, last) + j = turn(b, q)
  BY TurnType
<1> HIDE DEF j
<1>4. (last + j) % numPlayers = q
  BY <1>1, <1>3, TurnOfNext, TurnType
<1>5. k <= j
  BY <1>1, <1>2, <1>3, <1>4
<1>6. turn(b, last) + k < numPlayers /\ k \in Nat
  BY <1>1, <1>2, <1>3, <1>5
<1>7. turn(b, nextPlayer(s, last)) = turn(b, last) + k
  BY <1>2, <1>6, TurnOfNext
<1> QED BY <1>1, <1>2, <1>3, <1>5, <1>7

\* A round begins with the first from firstPlayer on who can act.
LEMMA FirstInTurn ==
  ASSUME NEW s \in State, NEW b \in Players, NEW q \in Players, CanAct(s, q)
  PROVE  turn(b, nextPlayer(s, b + numPlayers - 1)) <= turn(b, q)
<1>1. numPlayers \in Nat /\ numPlayers > 0 /\ b \in Nat /\ b + numPlayers - 1 \in Nat
  BY GameAssumption DEF Players
<1>2. PICK k \in 1 .. numPlayers :
            /\ nextPlayer(s, b + numPlayers - 1) = (b + numPlayers - 1 + k) % numPlayers
            /\ \A j \in 1 .. k - 1 : ~CanAct(s, (b + numPlayers - 1 + j) % numPlayers)
  BY <1>1, NextPlayerStops
<1>3. ASSUME NEW j \in 1 .. numPlayers
      PROVE  (b + numPlayers - 1 + j) % numPlayers = (b + (j - 1)) % numPlayers
  <2> DEFINE x == (b + (j - 1)) % numPlayers
             d == (b + (j - 1)) \div numPlayers
  <2>1. d \in Nat /\ x \in 0 .. numPlayers - 1 /\ b + (j - 1) = d * numPlayers + x
    BY <1>1
  <2> HIDE DEF x, d
  <2>2. b + numPlayers - 1 + j = (d + 1) * numPlayers + x /\ d + 1 \in Nat
    BY <1>1, <2>1
  <2>3. ((d + 1) * numPlayers + x) % numPlayers = x
    BY <1>1, <2>1, <2>2, ModuloOfMultiple
  <2>4. (b + (j - 1)) % numPlayers = x
    BY DEF x
  <2>5. QED BY <2>2, <2>3, <2>4
<1>4. ASSUME NEW j \in 1 .. numPlayers
      PROVE  turn(b, (b + numPlayers - 1 + j) % numPlayers) = j - 1
  <2>1. turn(b, b) = 0 /\ j - 1 \in Nat /\ 0 + (j - 1) < numPlayers
    BY <1>1, TurnType
  <2>2. turn(b, (b + (j - 1)) % numPlayers) = 0 + (j - 1)
    BY <2>1, TurnOfNext
  <2>3. QED BY <2>1, <2>2, <1>3
<1> DEFINE i == turn(b, q) + 1
<1>5. turn(b, q) \in Nat /\ i \in 1 .. numPlayers /\ i - 1 = turn(b, q)
  BY <1>1, TurnType
<1> HIDE DEF i
<1>6. (b + numPlayers - 1 + i) % numPlayers = q
  <2>1. (b + numPlayers - 1 + i) % numPlayers \in Players
    BY <1>1, <1>5 DEF Players
  <2>2. turn(b, (b + numPlayers - 1 + i) % numPlayers) = turn(b, q)
    BY <1>4, <1>5
  <2>3. QED BY <2>1, <2>2, TurnType
<1>7. k <= i
  BY <1>1, <1>2, <1>5, <1>6
<1>8. turn(b, nextPlayer(s, b + numPlayers - 1)) = k - 1
  BY <1>2, <1>4
<1> QED BY <1>1, <1>5, <1>7, <1>8

-----------------------------------------------------------------------------
(* Who has answered the current bet.                                       *)

\* The entries of a round.
LEMMA EntriesOfRound ==
  ASSUME NEW s \in State
  PROVE  /\ s.action \in [Rounds -> Seq(Entry)] /\ s.round \in Rounds
         /\ acts(s) \in Seq(Entry) /\ Len(acts(s)) \in Nat /\ DOMAIN acts(s) = 1 .. Len(acts(s))
         /\ CurrentBet(s) \subseteq 1 .. Len(acts(s))
         /\ \A i \in 1 .. Len(acts(s)) : acts(s)[i].player \in Players
         /\ acts(s) # << >> => Len(acts(s)) \in CurrentBet(s)
         /\ acts(s) = << >> => CurrentBet(s) = {}
<1>1. s.action \in [Rounds -> Seq(Entry)] /\ s.round \in Rounds
  BY DEF State
<1>2. acts(s) \in Seq(Entry)
  BY <1>1 DEF acts
<1>3. Len(acts(s)) \in Nat /\ DOMAIN acts(s) = 1 .. Len(acts(s))
  BY <1>2
<1>4. CurrentBet(s) \subseteq 1 .. Len(acts(s))
  BY <1>3 DEF CurrentBet
<1>5. ASSUME NEW i \in 1 .. Len(acts(s)) PROVE acts(s)[i].player \in Players
  <2>1. acts(s)[i] \in Entry
    BY <1>2, <1>3
  <2>2. QED BY <2>1 DEF Entry
<1>6. acts(s) # << >> => Len(acts(s)) \in 1 .. Len(acts(s))
  BY <1>2, <1>3
<1>7. acts(s) # << >> => Len(acts(s)) \in CurrentBet(s)
  BY <1>3, <1>6 DEF CurrentBet
<1>8. acts(s) = << >> => CurrentBet(s) = {}
  BY DEF CurrentBet
<1> QED BY <1>1, <1>2, <1>3, <1>4, <1>5, <1>7, <1>8

\* An answer that numCalled counts is one of a player who can act.
LEMMA CalledCanAct ==
  ASSUME NEW s \in State, AnsweringPlayersAreIn(s), NEW i \in Called(s)
  PROVE  acts(s)[i].player \in Acting(s)
<1>1. /\ i \in CurrentBet(s) /\ answers(s, i)
      /\ s.spent[acts(s)[i].player] < stack[acts(s)[i].player]
  BY DEF Called, answers
<1>2. acts(s)[i].player \in Players
  BY <1>1, EntriesOfRound
<1> QED BY <1>1, <1>2 DEF AnsweringPlayersAreIn, Acting, CanAct

\* While answers are owed, somebody who can act comes later than the last player.
LEMMA SomeoneLeft ==
  ASSUME NEW s \in State, acts(s) # << >>, AnsweringPlayersAreIn(s),
         NEW b \in Players, InTurnFrom(s, b), numCalled(s) < numActingPlayers(s)
  PROVE  \E q \in Players : CanAct(s, q) /\ turn(b, acts(s)[Len(acts(s))].player) < turn(b, q)
<1> DEFINE last == acts(s)[Len(acts(s))].player
           f == [i \in Called(s) |-> acts(s)[i].player]
<1>1. SUFFICES ASSUME \A q \in Players : CanAct(s, q) => ~(turn(b, last) < turn(b, q))
               PROVE  FALSE
  OBVIOUS
<1>2. last \in Players
  BY EntriesOfRound
<1>3. ASSUME NEW q \in Acting(s) PROVE \E i \in Called(s) : acts(s)[i].player = q
  <2>1. q \in Players /\ CanAct(s, q)
    BY DEF Acting
  <2>2. turn(b, q) <= turn(b, last)
    BY <1>1, <1>2, <2>1, TurnType
  <2>3. PICK i \in CurrentBet(s) : answers(s, i) /\ acts(s)[i].player = q
    BY <2>1, <2>2 DEF InTurnFrom
  <2>4. i \in Called(s)
    BY <2>1, <2>3 DEF Called, answers, CanAct
  <2>5. QED BY <2>3, <2>4
<1>4. f \in [Called(s) -> Acting(s)]
  BY CalledCanAct
<1>5. f \in Surjection(Called(s), Acting(s))
  BY <1>3, <1>4, Fun_IsSurj
<1>6. Cardinality(Acting(s)) <= Cardinality(Called(s))
  BY <1>5, CalledAndActing, FS_Surjection
<1> QED BY <1>6, CalledAndActing, CountersCount

\* So the next player is the first in turn after the last.
LEMMA CurrentInTurn ==
  ASSUME NEW s \in State, acts(s) # << >>, AnsweringPlayersAreIn(s),
         NEW b \in Players, InTurnFrom(s, b), numCalled(s) < numActingPlayers(s)
  PROVE  /\ currentPlayer(s) \in Players
         /\ turn(b, acts(s)[Len(acts(s))].player) < turn(b, currentPlayer(s))
         /\ \A q \in Players : CanAct(s, q) /\ turn(b, acts(s)[Len(acts(s))].player) < turn(b, q)
                => turn(b, currentPlayer(s)) <= turn(b, q)
<1> DEFINE last == acts(s)[Len(acts(s))].player
<1>1. last \in Players /\ currentPlayer(s) = nextPlayer(s, last)
  BY EntriesOfRound DEF currentPlayer
<1>2. PICK q \in Players : CanAct(s, q) /\ turn(b, last) < turn(b, q)
  BY SomeoneLeft
<1> HIDE DEF last
<1>3. turn(b, last) < turn(b, nextPlayer(s, last))
  BY <1>1, <1>2, NextInTurn
<1>4. \A r \in Players : CanAct(s, r) /\ turn(b, last) < turn(b, r)
          => turn(b, nextPlayer(s, last)) <= turn(b, r)
  BY <1>1, NextInTurn
<1>5. currentPlayer(s) \in Players
  BY <1>2, CurrentPlayerCanAct
<1> QED BY <1>1, <1>3, <1>4, <1>5 DEF last

\* Nobody who has answered the bet is asked again.
LEMMA CurrentNotAsked ==
  ASSUME NEW s \in State, AskedInOrder(s), numCalled(s) < numActingPlayers(s),
         NEW i \in CurrentBet(s)
  PROVE  acts(s)[i].player # currentPlayer(s)
<1>1. acts(s) # << >> /\ Len(acts(s)) \in CurrentBet(s)
      /\ i \in 1 .. Len(acts(s)) /\ Len(acts(s)) \in Nat
      /\ \A j \in 1 .. Len(acts(s)) : acts(s)[j].player \in Players
  BY EntriesOfRound
<1>2. PICK b \in Players : InTurnFrom(s, b)
  BY <1>1 DEF AskedInOrder
<1> DEFINE last == acts(s)[Len(acts(s))].player
<1>3. turn(b, last) < turn(b, currentPlayer(s)) /\ currentPlayer(s) \in Players
  BY <1>1, <1>2, CurrentInTurn DEF AskedInOrder
<1>4. i = Len(acts(s)) \/ turn(b, acts(s)[i].player) < turn(b, last)
  BY <1>1, <1>2 DEF InTurnFrom
<1>5. last \in Players /\ acts(s)[i].player \in Players
  BY <1>1
<1> HIDE DEF last
<1>6. turn(b, last) \in Nat /\ turn(b, currentPlayer(s)) \in Nat /\ turn(b, acts(s)[i].player) \in Nat
  BY <1>3, <1>5, TurnType
<1> QED BY <1>3, <1>4, <1>6 DEF last

\* When no answer is owed, everybody who can act has called or made the bet.
LEMMA AllHaveAnswered ==
  ASSUME NEW s \in State, AskedInOrder(s), ~(numCalled(s) < numActingPlayers(s)),
         NEW p \in Players, CanAct(s, p)
  PROVE  \E i \in CurrentBet(s) : answers(s, i) /\ acts(s)[i].player = p
<1> DEFINE f == [i \in Called(s) |-> acts(s)[i].player]
<1>1. acts(s) # << >>
  BY CountersCount
<1>2. PICK b \in Players : InTurnFrom(s, b)
  BY <1>1 DEF AskedInOrder
<1>3. f \in [Called(s) -> Acting(s)]
  BY CalledCanAct DEF AskedInOrder
<1>4. ASSUME NEW i \in Called(s), NEW j \in Called(s), acts(s)[i].player = acts(s)[j].player
      PROVE  i = j
  <2>1. i \in CurrentBet(s) /\ j \in CurrentBet(s)
    BY DEF Called
  <2>2. i \in Nat /\ j \in Nat /\ acts(s)[i].player \in Players
    BY <2>1, EntriesOfRound
  <2>3. turn(b, acts(s)[i].player) \in Nat
    BY <2>2, TurnType
  <2>4. QED BY <1>2, <1>4, <2>1, <2>2, <2>3 DEF InTurnFrom
<1>5. f \in Injection(Called(s), Acting(s))
  BY <1>3, <1>4, Fun_IsInj
<1>6. Cardinality(Called(s)) = Cardinality(Acting(s)) /\ f \in Surjection(Called(s), Acting(s))
  BY <1>5, CalledAndActing, CountersCount, FS_Injection
<1>7. p \in Acting(s)
  BY DEF Acting
<1>8. PICK i \in Called(s) : f[i] = p
  BY <1>6, <1>7 DEF Surjection
<1> QED BY <1>8 DEF Called, answers

-----------------------------------------------------------------------------
(* The order is kept.                                                      *)

\* StoreAction keeps the order: the answer of the current player is the next in
\* turn, and a raise begins a new turn with the raiser.
LEMMA StoreKeepsOrder ==
  ASSUME NEW s \in State, AskedInOrder(s), numCalled(s) < numActingPlayers(s),
         NEW a \in Action, a.type # "invalid",
         NEW p, p = currentPlayer(s), p \in Players, CanAct(s, p), NEW to,
         NEW t \in State, Stored(t, s, a, p, to)
  PROVE  AskedInOrder(t)
<1> DEFINE n == Len(acts(s))
           entry == [type |-> a.type, size |-> a.size, player |-> p]
<1>1. /\ s.spent \in [Players -> Int] /\ s.playerFolded \in [Players -> BOOLEAN]
      /\ a.type \in {"fold", "call", "raise"} /\ s.round \in Rounds
  BY DEF State, Action, ActionTypes
<1>2. EntryStored(t, s, entry)
  BY StoredEntry
<1>3. entry.type = a.type /\ entry.player = p
  OBVIOUS
<1> HIDE DEF entry
<1>4. /\ n \in Nat /\ Len(acts(t)) = n + 1 /\ acts(t)[n + 1].type = a.type
      /\ acts(t)[n + 1].player = p
      /\ \A i \in 1 .. n : acts(t)[i] = acts(s)[i]
      /\ CurrentBet(t) = IF a.type = "raise" THEN {n + 1} ELSE CurrentBet(s) \cup {n + 1}
      /\ CurrentBet(s) \subseteq 1 .. n
      /\ \A i \in CurrentBet(s) : acts(s)[i].player \in Players
  BY <1>2, <1>3 DEF EntryStored
<1> HIDE DEF n
<1>5. \A q \in Players : CanAct(t, q) => CanAct(s, q)
  <2>1. \A q \in Players : q # p => t.spent[q] = s.spent[q]
    BY <1>1 DEF Stored
  <2>2. \A q \in Players : q # p => t.playerFolded[q] = s.playerFolded[q]
    BY <1>1 DEF Stored
  <2>3. QED BY <2>1, <2>2 DEF CanAct
<1>6. CanAct(t, p) => a.type # "fold"
  BY <1>1 DEF Stored, CanAct
<1>7. \A i \in CurrentBet(s) : acts(s)[i].player # p
  BY CurrentNotAsked
<1>8. AnsweringPlayersAreIn(t)
  <2> SUFFICES ASSUME NEW i \in CurrentBet(t), answers(t, i)
               PROVE  ~t.playerFolded[acts(t)[i].player]
    BY DEF AnsweringPlayersAreIn
  <2>1. CASE i = n + 1
    <3>1. a.type # "fold"
      BY <2>1, <1>4 DEF answers
    <3>2. QED BY <2>1, <3>1, <1>4 DEF Stored, CanAct
  <2>2. CASE i # n + 1
    <3>1. i \in CurrentBet(s) /\ acts(t)[i] = acts(s)[i] /\ acts(s)[i].player \in Players
      BY <2>2, <1>4
    <3>2. ~s.playerFolded[acts(s)[i].player] /\ acts(s)[i].player # p
      BY <3>1, <1>7 DEF answers, AskedInOrder, AnsweringPlayersAreIn
    <3>3. QED BY <3>1, <3>2, <1>1 DEF Stored
  <2>3. QED BY <2>1, <2>2
<1>9. acts(t) # << >> => \E b \in Players : InTurnFrom(t, b)
  <2>1. CASE a.type = "raise"
    <3>1. CurrentBet(t) = {n + 1}
      BY <2>1, <1>4
    <3>2. \A q \in Players : turn(p, q) <= turn(p, p) => q = p
      <4>1. \A q \in Players : turn(p, q) \in Nat /\ (turn(p, q) = turn(p, p) => q = p)
        BY TurnType
      <4>2. turn(p, p) = 0
        BY TurnType
      <4>3. QED BY <4>1, <4>2
    <3>3. answers(t, n + 1)
      BY <2>1, <1>4 DEF answers
    <3>4. InTurnFrom(t, p)
      BY <3>1, <3>2, <3>3, <1>4 DEF InTurnFrom
    <3>5. QED BY <3>4
  <2>2. CASE a.type # "raise" /\ acts(s) = << >>
    <3> DEFINE b == firstPlayer[s.round]
    <3>1. b \in Players /\ p = nextPlayer(s, b + numPlayers - 1)
      BY <2>2, <1>1, GameAssumption DEF currentPlayer
    <3> HIDE DEF b
    <3>2. CurrentBet(t) = {n + 1}
      BY <2>2, <1>4, EntriesOfRound
    <3>3. \A q \in Players : CanAct(s, q) /\ turn(b, q) <= turn(b, p) => q = p
      <4>1. \A q \in Players : CanAct(s, q) => turn(b, p) <= turn(b, q)
        BY <3>1, FirstInTurn
      <4>2. \A q \in Players : turn(b, q) \in Nat /\ (turn(b, q) = turn(b, p) => q = p)
        BY <3>1, TurnType
      <4>3. QED BY <4>1, <4>2
    <3>4. CanAct(t, p) => answers(t, n + 1)
      BY <1>1, <1>4, <1>6 DEF answers
    <3>5. InTurnFrom(t, b)
      BY <3>2, <3>3, <3>4, <1>4, <1>5 DEF InTurnFrom
    <3>6. QED BY <3>1, <3>5
  <2>3. CASE a.type # "raise" /\ acts(s) # << >>
    <3>1. PICK b \in Players : InTurnFrom(s, b)
      BY <2>3 DEF AskedInOrder
    <3> DEFINE last == acts(s)[Len(acts(s))].player
    <3>2. /\ last \in Players /\ n \in CurrentBet(s) /\ last = acts(s)[n].player
      BY <2>3, <1>4, EntriesOfRound DEF n
    <3>3. /\ turn(b, last) < turn(b, p)
          /\ \A q \in Players : CanAct(s, q) /\ turn(b, last) < turn(b, q)
                                    => turn(b, p) <= turn(b, q)
      BY <2>3, <3>1, CurrentInTurn DEF AskedInOrder
    <3>4. \A q \in Players : CanAct(s, q) /\ turn(b, q) <= turn(b, last) =>
              \E i \in CurrentBet(s) : answers(s, i) /\ acts(s)[i].player = q
      BY <3>1 DEF InTurnFrom
    <3> HIDE DEF last
    <3>5. \A q \in Players : turn(b, q) \in Nat /\ (turn(b, q) = turn(b, p) => q = p)
      BY TurnType
    <3>6. CurrentBet(t) = CurrentBet(s) \cup {n + 1}
      BY <2>3, <1>4
    <3>7. ASSUME NEW i \in CurrentBet(t), NEW j \in CurrentBet(t), i < j
          PROVE  turn(b, acts(t)[i].player) < turn(b, acts(t)[j].player)
      <4>1. i \in CurrentBet(s) /\ i \in 1 .. n
        BY <3>6, <3>7, <1>4
      <4>2. CASE j \in CurrentBet(s)
        BY <4>1, <4>2, <3>1, <3>7, <1>4 DEF InTurnFrom
      <4>3. CASE j = n + 1
        <5>1. i = n \/ i < n
          BY <4>1, <1>4
        <5>2. i < n => turn(b, acts(s)[i].player) < turn(b, last)
          BY <4>1, <3>1, <3>2 DEF InTurnFrom
        <5>3. turn(b, acts(s)[i].player) <= turn(b, last)
          BY <5>1, <5>2, <3>2, <3>5, <4>1, <1>4
        <5>4. acts(t)[i] = acts(s)[i] /\ acts(t)[j].player = p
          BY <4>1, <4>3, <1>4
        <5>5. /\ turn(b, acts(s)[i].player) \in Nat
              /\ turn(b, last) \in Nat /\ turn(b, p) \in Nat
          BY <4>1, <3>2, <3>5, <1>4
        <5>6. QED BY <5>3, <5>4, <5>5, <3>3
      <4>4. QED BY <4>2, <4>3, <3>6
    <3>8. ASSUME NEW q \in Players, CanAct(t, q), turn(b, q) <= turn(b, acts(t)[n + 1].player)
          PROVE  \E i \in CurrentBet(t) : answers(t, i) /\ acts(t)[i].player = q
      <4>1. CanAct(s, q) /\ turn(b, q) <= turn(b, p)
        BY <3>8, <1>4, <1>5
      <4>2. CASE turn(b, q) <= turn(b, last)
        <5>1. PICK i \in CurrentBet(s) : answers(s, i) /\ acts(s)[i].player = q
          BY <4>1, <4>2, <3>4
        <5>2. i \in CurrentBet(t) /\ acts(t)[i] = acts(s)[i]
          BY <3>6, <1>4
        <5>3. QED BY <5>1, <5>2 DEF answers
      <4>3. CASE ~(turn(b, q) <= turn(b, last))
        <5>1. turn(b, p) <= turn(b, q)
          BY <4>1, <4>3, <3>2, <3>3, <3>5
        <5>2. q = p
          BY <5>1, <4>1, <3>5
        <5>3. answers(t, n + 1)
          BY <5>2, <3>8, <1>1, <1>4, <1>6, <2>3 DEF answers
        <5>4. n + 1 \in CurrentBet(t) /\ acts(t)[n + 1].player = q
          BY <5>2, <3>6, <1>4
        <5>5. QED BY <5>3, <5>4
      <4>4. QED BY <4>2, <4>3
    <3>9. InTurnFrom(t, b)
      BY <3>7, <3>8, <1>4 DEF InTurnFrom
    <3>10. QED BY <3>9
  <2>4. QED BY <2>1, <2>2, <2>3
<1> QED BY <1>8, <1>9 DEF AskedInOrder

\* A round that has just begun has asked nobody.
LEMMA NobodyAsked ==
  ASSUME NEW s \in State, acts(s) = << >>
  PROVE  AskedInOrder(s)
<1>1. CurrentBet(s) = {}
  BY EntriesOfRound
<1> QED BY <1>1 DEF AskedInOrder, AnsweringPlayersAreIn

\* One action keeps the order, and closes a round only when all have answered.
LEMMA TakeKeepsOrder ==
  ASSUME TypeOK, BettingInv, OrderInv, NEW a \in Action, Take(a)
  PROVE  /\ OrderInv' /\ AskedInOrder(StoreAction(state, a))
<1> DEFINE p == currentPlayer(state)
           t == StoreAction(state, a)
<1>1. ~state.finished /\ a.type # "invalid" /\ state' = EndBetting(t)
  BY DEF Take, isValidAction, stateFinished, doAction
<1>2. p \in Players /\ CanAct(state, p)
  BY <1>1, ActorCanAct
<1>3. state \in State /\ AskedInOrder(state) /\ numCalled(state) < numActingPlayers(state)
  BY <1>1 DEF TypeOK, OrderInv, BettingInv
<1>4. Stored(t, state, a, p, RaiseTo(state, p, a.size))
  BY <1>1, <1>3, StoreActionFields
<1>5. BetweenInv(t) /\ TypeOK'
  BY TakeKeeps
<1> HIDE DEF p, t
<1>6. t \in State /\ ~t.finished /\ \A r \in Rounds : r > t.round => t.action[r] = << >>
  BY <1>5 DEF BetweenInv
<1>7. AskedInOrder(t)
  BY <1>1, <1>2, <1>3, <1>4, <1>6, StoreKeepsOrder DEF p
<1>8. state' \in State /\ (~state'.finished => state' = t \/ acts(state') = << >>)
  BY <1>1, <1>6, EndBettingFacts
<1>9. ~state'.finished => AskedInOrder(state')
  BY <1>7, <1>8, NobodyAsked
<1> QED BY <1>7, <1>9 DEF OrderInv, t

\* What RoundsCloseMatched says of one step.
ClosesMatched ==
    /\ state'.round # state.round /\ ~state'.finished =>
          \A p \in Players : CanAct(state', p) =>
              /\ state'.spent[p] = state'.maxSpent
              /\ \E i \in DOMAIN state'.action[state.round] :
                     state'.action[state.round][i].player = p
    /\ state'.finished /\ numFolded(state') + 1 < numPlayers =>
          \A p \in Players : ~state'.playerFolded[p] =>
              state'.spent[p] = state'.maxSpent \/ state'.spent[p] = stack[p]

\* EndBetting goes on to a new round, or to a showdown, only after all answered.
LEMMA TakeClosesMatched ==
  ASSUME TypeOK, BettingInv, OrderInv, NEW a \in Action, Take(a)
  PROVE  ClosesMatched
<1> DEFINE t == StoreAction(state, a)
<1>1. ~state.finished /\ state' = EndBetting(t)
  BY DEF Take, isValidAction, stateFinished, doAction
<1>2. BetweenInv(t) /\ TypeOK' /\ BettingInv' /\ AskedInOrder(t)
  BY TakeKeeps, TakeKeepsOrder
<1> HIDE DEF t
<1>3. /\ t \in State /\ ~t.finished /\ t.round = state.round /\ BetIsMatched(t)
      /\ \A r \in Rounds : r > t.round => t.action[r] = << >>
  BY <1>2 DEF BetweenInv
<1>4. /\ state'.spent = t.spent /\ state'.maxSpent = t.maxSpent
      /\ state'.action = t.action /\ state'.playerFolded = t.playerFolded
  BY <1>1, <1>3, EndBettingFacts
<1>5. ASSUME ~AnswersOwed(t), NEW p \in Players, CanAct(t, p)
      PROVE  /\ t.spent[p] = t.maxSpent
             /\ \E i \in DOMAIN acts(t) : acts(t)[i].player = p
  <2>1. PICK i \in CurrentBet(t) : answers(t, i) /\ acts(t)[i].player = p
    BY <1>2, <1>3, <1>5, AllHaveAnswered DEF AnswersOwed
  <2>2. t.spent[p] = t.maxSpent \/ t.spent[p] = stack[p]
    BY <2>1, <1>3 DEF BetIsMatched, answers
  <2>3. t.spent[p] < stack[p] /\ t.spent[p] \in Int /\ stack[p] \in Nat
    BY <1>3, <1>5, GameAssumption DEF CanAct, State
  <2>4. i \in DOMAIN acts(t)
    BY <2>1 DEF CurrentBet
  <2>5. QED BY <2>1, <2>2, <2>3, <2>4
<1>6. ASSUME state'.round # state.round, ~state'.finished, NEW p \in Players, CanAct(state', p)
      PROVE  /\ state'.spent[p] = state'.maxSpent
             /\ \E i \in DOMAIN state'.action[state.round] :
                    state'.action[state.round][i].player = p
  <2>1. ~AnswersOwed(t)
    BY <1>1, <1>3, <1>6 DEF EndBetting
  <2>2. CanAct(t, p)
    BY <1>4, <1>6 DEF CanAct
  <2>3. QED BY <2>1, <2>2, <1>3, <1>4, <1>5 DEF acts
<1>7. ASSUME state'.finished, numFolded(state') + 1 < numPlayers,
             NEW p \in Players, ~state'.playerFolded[p]
      PROVE  state'.spent[p] = state'.maxSpent \/ state'.spent[p] = stack[p]
  <2>1. numFolded(state') = numFolded(t)
    BY <1>4 DEF numFolded
  <2>2. numFolded(t) \in Nat /\ numPlayers \in Nat
    BY <1>3, CountersCount, GameAssumption
  <2>3. ~AnswersOwed(t)
    BY <2>1, <2>2, <1>1, <1>3, <1>7 DEF EndBetting
  <2>4. CASE CanAct(t, p)
    BY <2>3, <2>4, <1>4, <1>5
  <2>5. CASE ~CanAct(t, p)
    <3>1. ~(t.spent[p] < stack[p])
      BY <2>5, <1>4, <1>7 DEF CanAct
    <3>2. state'.spent[p] <= stack[p]
      BY <1>2 DEF BettingInv
    <3>3. t.spent[p] \in Int /\ stack[p] \in Nat
      BY <1>3, GameAssumption DEF State
    <3>4. QED BY <3>1, <3>2, <3>3, <1>4
  <2>6. QED BY <2>4, <2>5
<1> QED BY <1>6, <1>7 DEF ClosesMatched

-----------------------------------------------------------------------------
\* The first player is asked before anybody has answered.
LEMMA InitIsInOrder == Init => OrderInv
<1> SUFFICES ASSUME Init PROVE AskedInOrder(state)
  BY DEF OrderInv
<1>1. state \in State /\ acts(state) = << >>
  BY InitStateFacts DEF Init
<1> QED BY <1>1, NobodyAsked

\* The invariant is inductive, and every step closes rounds as it should.
LEMMA NextKeepsOrder ==
  TypeOK /\ BettingInv /\ OrderInv /\ [Next]_state =>
      OrderInv' /\ (ClosesMatched \/ UNCHANGED state)
<1> SUFFICES ASSUME TypeOK, BettingInv, OrderInv, [Next]_state
             PROVE  OrderInv' /\ (ClosesMatched \/ UNCHANGED state)
  OBVIOUS
<1>1. CASE Fold
  <2>1. [type |-> "fold", size |-> 0] \in Action
    BY DEF Action, ActionTypes
  <2>2. QED BY <1>1, <2>1, TakeKeepsOrder, TakeClosesMatched DEF Fold
<1>2. CASE Call
  <2>1. [type |-> "call", size |-> 0] \in Action
    BY DEF Action, ActionTypes
  <2>2. QED BY <1>2, <2>1, TakeKeepsOrder, TakeClosesMatched DEF Call
<1>3. CASE Raise
  <2>1. PICK size \in Sizes : Take([type |-> "raise", size |-> size])
    BY <1>3 DEF Raise
  <2>2. size \in Int
    BY SizesAreIntegers
  <2>3. [type |-> "raise", size |-> size] \in Action
    BY <2>2 DEF Action, ActionTypes
  <2>4. QED BY <2>1, <2>3, TakeKeepsOrder, TakeClosesMatched
<1>4. CASE Finished \/ UNCHANGED state
  <2>1. state' = state
    BY <1>4 DEF Finished
  <2>2. QED BY <2>1 DEF OrderInv, AskedInOrder, AnsweringPlayersAreIn, InTurnFrom, answers,
                        CurrentBet, acts, CanAct
<1> QED BY <1>1, <1>2, <1>3, <1>4 DEF Next

LEMMA OrderHolds == Spec => [](TypeOK /\ BettingInv /\ OrderInv)
<1> QED BY InvariantHolds, InitIsInOrder, NextKeepsOrder, PTL DEF Spec

\* Until the hand is over the current player has not acted since the last raise,
\* so that numCalled, which counts actions, counts players (game.c, currentPlayer,
\* nextPlayer, numCalled).
THEOREM NobodyAskedTwice == Spec => []AskedOnce
<1>1. TypeOK /\ BettingInv /\ OrderInv => AskedOnce
  <2> SUFFICES ASSUME TypeOK, BettingInv, OrderInv, ~state.finished,
                      NEW i \in CurrentBet(state)
               PROVE  acts(state)[i].player # currentPlayer(state)
    BY DEF AskedOnce
  <2>1. AskedInOrder(state) /\ state \in State /\ numCalled(state) < numActingPlayers(state)
    BY DEF OrderInv, TypeOK, BettingInv
  <2>2. QED BY <2>1, CurrentNotAsked
<1> QED BY <1>1, OrderHolds, PTL

\* A round closes only after everybody who can still bet has acted in it and has
\* matched the bet, and at a showdown everybody has matched it or is all-in (the
\* tail of doAction in game.c).
THEOREM RoundsClose == Spec => RoundsCloseMatched
<1>1. TypeOK /\ BettingInv /\ OrderInv /\ [Next]_state => [ClosesMatched]_state
  BY NextKeepsOrder
<1>2. ClosesMatched =>
         /\ state'.round # state.round /\ ~state'.finished =>
               \A p \in Players : CanAct(state', p) =>
                   /\ state'.spent[p] = state'.maxSpent
                   /\ \E i \in DOMAIN state'.action[state.round] :
                          state'.action[state.round][i].player = p
         /\ state'.finished /\ numFolded(state') + 1 < numPlayers =>
               \A p \in Players : ~state'.playerFolded[p] =>
                   state'.spent[p] = state'.maxSpent \/ state'.spent[p] = stack[p]
  BY DEF ClosesMatched
<1> QED BY <1>1, <1>2, OrderHolds, PTL DEF Spec, RoundsCloseMatched

-----------------------------------------------------------------------------
(* The side pots.                                                          *)

\* Among some players one has the largest value.
LEMMA LargestOfPlayers ==
  ASSUME NEW f \in [Players -> Nat], NEW A \in SUBSET Players, A # {}
  PROVE  \E p \in A : \A q \in A : f[q] <= f[p]
<1> DEFINE T == {n \in Nat : \A q \in A : f[q] <= n}
<1>1. PICK m \in T : \A k \in T : m <= k
  <2>1. T \in SUBSET Nat /\ T # {}
    BY UpperBound
  <2> HIDE DEF T
  <2> QED BY <2>1, LeastNatural
<1>2. SUFFICES ASSUME \A p \in A : f[p] # m PROVE FALSE
  BY <1>1
<1>3. \A q \in A : f[q] <= m - 1
  BY <1>1, <1>2
<1>4. m - 1 \in Nat
  BY <1>1, <1>3
<1> QED BY <1>1, <1>3, <1>4

\* A pot is divided among up to ten winners without a remainder.
LEMMA PotIsDivided ==
  ASSUME NEW k \in 1 .. 10, NEW w \in 1 .. 10, w <= k, NEW size \in Nat
  PROVE  /\ (size * (k - w) * Shares) \div w = size * ((k * Shares) \div w - Shares)
         /\ (k * Shares) \div w \in Int
<1> DEFINE divides(c) == w * c = 2520 /\ \A a \in Nat : (a * 2520) \div w = a * c
<1>1. \E c \in Nat : divides(c)
  <2>1. CASE w = 1
    BY <2>1, divides(2520)
  <2>2. CASE w = 2
    BY <2>2, divides(1260)
  <2>3. CASE w = 3
    BY <2>3, divides(840)
  <2>4. CASE w = 4
    BY <2>4, divides(630)
  <2>5. CASE w = 5
    BY <2>5, divides(504)
  <2>6. CASE w = 6
    BY <2>6, divides(420)
  <2>7. CASE w = 7
    BY <2>7, divides(360)
  <2>8. CASE w = 8
    BY <2>8, divides(315)
  <2>9. CASE w = 9
    BY <2>9, divides(280)
  <2>10. CASE w = 10
    BY <2>10, divides(252)
  <2> QED BY <2>1, <2>2, <2>3, <2>4, <2>5, <2>6, <2>7, <2>8, <2>9, <2>10
<1>2. PICK c \in Nat : w * c = 2520 /\ \A a \in Nat : (a * 2520) \div w = a * c
  BY <1>1
<1>3. k - w \in Nat /\ size * (k - w) \in Nat /\ k \in Nat
  OBVIOUS
<1>4. (size * (k - w) * 2520) \div w = (size * (k - w)) * c /\ (k * 2520) \div w = k * c
  BY <1>2, <1>3
<1>5. (size * (k - w)) * c = size * (k * c - w * c) /\ k * c \in Int
  OBVIOUS
<1> QED BY <1>2, <1>4, <1>5 DEF Shares

\* Who is in a pot: finitely many, no more than there are players, and fewer if
\* somebody is not.
LEMMA PlayersAreFinite ==
  ASSUME NEW A \in SUBSET Players
  PROVE  /\ IsFiniteSet(A) /\ Cardinality(A) \in Nat /\ Cardinality(A) <= numPlayers
         /\ Cardinality(A) = numPlayers => A = Players
<1>1. IsFiniteSet(Players) /\ Cardinality(Players) = numPlayers
  <2>1. numPlayers \in Nat /\ 0 \in Int /\ numPlayers - 1 \in Int /\ 0 <= numPlayers - 1
    BY GameAssumption
  <2> QED BY <2>1, FS_Interval DEF Players
<1> QED BY <1>1, FS_Subset, FS_CardinalityType

\* The hands with the largest rank are the best of those that have not folded.
WinRank(s, rank, in) == Max({0} \cup {PotRank(s, rank, p) : p \in in})

LEMMA PotWinners ==
  ASSUME NEW s \in State, NEW rank \in [Players -> Nat], NEW in \in SUBSET Players,
         NEW player \in in, ~s.playerFolded[player]
  PROVE  /\ \A p \in in : PotRank(s, rank, p) = WinRank(s, rank, in) <=>
                /\ ~s.playerFolded[p]
                /\ \A q \in in : ~s.playerFolded[q] => rank[q] <= rank[p]
         /\ \E p \in in : PotRank(s, rank, p) = WinRank(s, rank, in)
<1> DEFINE winRank == WinRank(s, rank, in)
<1> DEFINE live == {q \in in : ~s.playerFolded[q]}
           V == {0} \cup {PotRank(s, rank, p) : p \in in}
<1>1. PICK w \in live : \A q \in live : rank[q] <= rank[w]
  <2>1. live \in SUBSET Players /\ live # {}
    OBVIOUS
  <2> HIDE DEF live
  <2> QED BY <2>1, LargestOfPlayers
<1>2. \A p \in in : PotRank(s, rank, p) = IF p \in live THEN rank[p] ELSE -1
  BY DEF PotRank
<1>3. \A p \in in : rank[p] \in Nat
  OBVIOUS
<1>4. rank[w] \in V /\ \A y \in V : rank[w] >= y
  BY <1>1, <1>2, <1>3
<1>5. V \subseteq Int
  BY <1>2, <1>3
<1>6. winRank = CHOOSE x \in V : \A y \in V : x >= y
  BY DEF Max, WinRank
<1>7. winRank \in V /\ \A y \in V : winRank >= y
  <2> HIDE DEF V
  <2> QED BY <1>4, <1>6
<1> HIDE DEF winRank
<1>8. winRank = rank[w]
  <2> HIDE DEF V
  <2>1. rank[w] \in Int /\ winRank \in Int
    BY <1>4, <1>5, <1>7
  <2>2. winRank >= rank[w] /\ rank[w] >= winRank
    BY <1>4, <1>7
  <2> QED BY <2>1, <2>2
<1>9. ASSUME NEW p \in in
      PROVE  PotRank(s, rank, p) = winRank <=> p \in live /\ \A q \in live : rank[q] <= rank[p]
  <2>1. CASE p \in live
    <3>1. PotRank(s, rank, p) = rank[p]
      BY <2>1, <1>2
    <3>2. rank[p] = rank[w] => \A q \in live : rank[q] <= rank[p]
      BY <1>1
    <3>3. rank[p] <= rank[w] /\ rank[p] \in Nat /\ rank[w] \in Nat
      BY <2>1, <1>1, <1>3
    <3> HIDE DEF live
    <3> QED BY <2>1, <3>1, <3>2, <3>3, <1>1, <1>8
  <2>2. CASE p \notin live
    BY <2>2, <1>1, <1>2, <1>3, <1>8
  <2> QED BY <2>1, <2>2
<1>10. w \in in /\ PotRank(s, rank, w) = winRank
  BY <1>1, <1>9
<1> QED BY <1>9, <1>10 DEF winRank

\* Nobody has put in so much that as many chips of everybody were no number of 32
\* bits.
PotFits(s) == \A q \in Players : s.spent[q] \in Nat /\ numPlayers * s.spent[q] <= INT32_MAX

\* The smallest remaining side pot is not empty, and takes from nobody more than
\* he has.
LEMMA PotSize ==
  ASSUME NEW s \in State, PotFits(s), NEW paid \in Nat, NEW player \in InPot(s, paid), NEW size,
         size = Min({s.spent[p] - paid : p \in InPot(s, paid)})
  PROVE  /\ size \in Nat /\ size > 0
         /\ \A p \in InPot(s, paid) : paid + size <= s.spent[p]
<1> DEFINE V == {s.spent[p] - paid : p \in InPot(s, paid)}
<1>1. s.spent \in [Players -> Nat]
  BY DEF State, PotFits
<1>2. V \subseteq Nat \ {0} /\ V # {}
  BY <1>1 DEF InPot
<1>3. PICK m \in V : \A k \in V : m <= k
  <2>1. V \in SUBSET Nat /\ V # {}
    BY <1>2
  <2> HIDE DEF V
  <2> QED BY <2>1, LeastNatural
<1>4. size = CHOOSE x \in V : \A y \in V : x <= y
  BY DEF Min
<1>5. size \in V /\ \A y \in V : size <= y
  <2> HIDE DEF V
  <2> QED BY <1>3, <1>4
<1>6. size \in Nat /\ size > 0
  BY <1>2, <1>5
<1>7. \A p \in InPot(s, paid) : size <= s.spent[p] - paid /\ s.spent[p] \in Nat
  BY <1>1, <1>5 DEF InPot
<1> HIDE DEF V
<1>8. ASSUME NEW p \in InPot(s, paid) PROVE paid + size <= s.spent[p]
  BY <1>6, <1>7
<1> QED BY <1>6, <1>8

\* What one pass of the loop pays is what the chips it takes should win or lose.
LEMMA PotPaysShares ==
  ASSUME NEW s \in State, PotFits(s), NEW rank \in [Players -> Nat], NEW player \in Players,
         ~s.playerFolded[player], NEW paid \in Nat, paid < s.spent[player]
  PROVE  LET pot == SidePot(s, rank, player, paid)
         IN /\ pot.size \in Nat /\ pot.size > 0 /\ paid + pot.size <= s.spent[player]
            /\ \E c \in Int : /\ pot.pays = pot.size * c
                              /\ \A n \in paid + 1 .. paid + pot.size :
                                    ChipShare(s, rank, player, n) = c
<1> DEFINE in == InPot(s, paid)
           size == Min({s.spent[p] - paid : p \in in})
           winRank == Max({0} \cup {PotRank(s, rank, p) : p \in in})
           winners == {p \in in : PotRank(s, rank, p) = winRank}
           live == {p \in in : ~s.playerFolded[p]}
           best == {p \in live : \A q \in live : rank[q] <= rank[p]}
           lost == Cardinality(in) - Cardinality(winners)
           share == (IF player \in best
                     THEN (Cardinality(in) * Shares) \div Cardinality(best) ELSE 0) - Shares
<1>1. s.spent \in [Players -> Nat]
  BY DEF State, PotFits
<1>2. player \in in /\ in \in SUBSET Players
  BY <1>1 DEF InPot
<1>3. /\ size \in Nat /\ size > 0
      /\ \A p \in in : paid + size <= s.spent[p]
  BY <1>2, PotSize
<1>4. SidePot(s, rank, player, paid) =
         [size |-> size,
          pays |-> IF PotRank(s, rank, player) = winRank
                   THEN (Int32(size * lost) * Shares) \div Cardinality(winners)
                   ELSE 0 - size * Shares]
  BY DEF SidePot
<1>5. \A p \in in : p \in winners <=> PotRank(s, rank, p) = winRank
  OBVIOUS
<1>6. winners = best /\ winners # {} /\ winners \subseteq in
  <2>1. in \in SUBSET Players /\ player \in in
    BY <1>2
  <2>2. winRank = WinRank(s, rank, in)
    BY DEF WinRank
  <2> HIDE DEF in, winRank
  <2>3. /\ \A p \in in : PotRank(s, rank, p) = winRank <=>
               /\ ~s.playerFolded[p]
               /\ \A q \in in : ~s.playerFolded[q] => rank[q] <= rank[p]
        /\ \E p \in in : PotRank(s, rank, p) = winRank
    BY <2>1, <2>2, PotWinners
  <2>4. \A p : p \in winners <=> p \in best
    BY <2>3
  <2> QED BY <2>3, <2>4
<1>7. ASSUME NEW n \in paid + 1 .. paid + size
      PROVE  ChipShare(s, rank, player, n) = share
  <2>1. {p \in Players : s.spent[p] >= n} = in
    <3> HIDE DEF size
    <3>1. \A p \in Players : s.spent[p] >= n <=> p \in in
      <4> SUFFICES ASSUME NEW p \in Players PROVE s.spent[p] >= n <=> p \in in
        OBVIOUS
      <4>1. s.spent[p] \in Nat
        BY <1>1
      <4>2. p \in in <=> s.spent[p] > paid
        BY DEF InPot
      <4>3. p \in in => paid + size <= s.spent[p]
        BY <1>3
      <4> HIDE DEF in
      <4> QED BY <4>1, <4>2, <4>3, <1>3
    <3>2. in \subseteq Players
      BY <1>2
    <3> HIDE DEF in
    <3> QED BY <3>1, <3>2
  <2> HIDE DEF in
  <2> QED BY <2>1 DEF ChipShare
<1> HIDE DEF in, size, winRank
<1>8. \E k, w \in 1 .. 10 : Cardinality(in) = k /\ Cardinality(winners) = w /\ w <= k
  <2>1. IsFiniteSet(in) /\ Cardinality(in) \in Nat /\ Cardinality(in) <= numPlayers
        /\ Cardinality(winners) \in Nat
    BY <1>2, <1>6, PlayersAreFinite
  <2> HIDE DEF winners, best
  <2>2. Cardinality(winners) <= Cardinality(in) /\ IsFiniteSet(winners)
    BY <2>1, <1>6, FS_Subset
  <2>3. Cardinality(winners) # 0
    BY <2>2, <1>6, FS_EmptySet
  <2> QED BY <2>1, <2>2, <2>3, GameAssumption
<1>9. PICK k, w \in 1 .. 10 : Cardinality(in) = k /\ Cardinality(winners) = w /\ w <= k
  BY <1>8
<1>10. /\ (size * (k - w) * Shares) \div w = size * ((k * Shares) \div w - Shares)
       /\ (k * Shares) \div w \in Int
  BY <1>3, <1>9, PotIsDivided
<1>F. Int32(size * lost) = size * (k - w)
  <2> DEFINE rest == s.spent[player] - size
             more == numPlayers - lost
  <2>1. /\ size \in Nat /\ rest \in Nat /\ s.spent[player] = rest + size
        /\ numPlayers * s.spent[player] <= INT32_MAX
    BY <1>1, <1>2, <1>3 DEF PotFits
  <2>2. IsFiniteSet(in) /\ Cardinality(in) <= numPlayers
    BY <1>2, PlayersAreFinite
  <2>3. lost \in Nat /\ more \in Nat /\ numPlayers = lost + more /\ lost = k - w
    BY <1>9, <2>2, GameAssumption
  <2> HIDE DEF rest, more, lost
  <2>4. numPlayers * s.spent[player] = size * lost + more * size + (lost + more) * rest
    BY <2>1, <2>3
  <2>5. more * size \in Nat /\ (lost + more) * rest \in Nat /\ size * lost \in Nat
    BY <2>1, <2>3
  <2> DEFINE product == size * lost
  <2>6. product \in Nat /\ product <= INT32_MAX
    BY <2>1, <2>4, <2>5, Int32Assumption
  <2> HIDE DEF product
  <2>7. Int32(product) = product
    BY <2>6, Int32Fits
  <2>8. QED BY <2>3, <2>7 DEF product
<1> DEFINE pays == SidePot(s, rank, player, paid).pays
<1>11. /\ SidePot(s, rank, player, paid).size = size
       /\ pays = IF player \in winners
                 THEN (Int32(size * lost) * Shares) \div Cardinality(winners)
                 ELSE 0 - size * Shares
  BY <1>2, <1>4
<1>12. share \in Int /\ pays = size * share
  <2>1. CASE player \in winners
    <3>1. share = (k * Shares) \div w - Shares
      BY <2>1, <1>6, <1>9
    <3>2. pays = (size * (k - w) * Shares) \div w
      BY <2>1, <1>9, <1>11, <1>F
    <3> HIDE DEF pays, share
    <3> QED BY <3>1, <3>2, <1>10 DEF Shares
  <2>2. CASE player \notin winners
    <3>1. share = 0 - Shares
      BY <2>2, <1>6
    <3>2. pays = 0 - size * Shares
      BY <2>2, <1>11
    <3> HIDE DEF pays, share
    <3> QED BY <3>1, <3>2, <1>3 DEF Shares
  <2> QED BY <2>1, <2>2
<1>13. paid + size <= s.spent[player]
  BY <1>2, <1>3
<1> HIDE DEF share, pays
<1> QED BY <1>3, <1>7, <1>11, <1>12, <1>13 DEF pays

\* What a chip wins or loses is a number.
LEMMA ShareIsInteger ==
  ASSUME NEW s \in State, PotFits(s), NEW rank \in [Players -> Nat], NEW player \in Players,
         ~s.playerFolded[player], NEW n \in 1 .. s.spent[player]
  PROVE  ChipShare(s, rank, player, n) \in Int
<1>1. s.spent[player] \in Nat
  BY DEF PotFits
<1>2. n - 1 \in Nat /\ n - 1 < s.spent[player]
  BY <1>1
<1> DEFINE pot == SidePot(s, rank, player, n - 1)
<1>3. /\ pot.size \in Nat /\ pot.size > 0
      /\ \E c \in Int : /\ pot.pays = pot.size * c
                        /\ \A m \in (n - 1) + 1 .. (n - 1) + pot.size :
                              ChipShare(s, rank, player, m) = c
  BY <1>2, PotPaysShares
<1> HIDE DEF pot
<1>4. n \in (n - 1) + 1 .. (n - 1) + pot.size
  BY <1>1, <1>3
<1> QED BY <1>3, <1>4

\* The while loop pays the shares of all the chips of the player.
LEMMA ShowdownIsFair ==
  ASSUME NEW s \in State, PotFits(s), NEW rank \in [Players -> Nat], NEW player \in Players,
         ~s.playerFolded[player], s.spent[player] > 0
  PROVE  ShowdownValue(s, rank, player) = FairValue(s, rank, player)
<1> DEFINE N == s.spent[player]
           chips == [n \in 1 .. N |-> ChipShare(s, rank, player, n)]
           pot(paid) == SidePot(s, rank, player, paid)
           pass(f, paid) == IF paid + pot(paid).size = N THEN pot(paid).pays
                            ELSE pot(paid).pays + f[paid + pot(paid).size]
           loop(f) == [paid \in 0 .. N - 1 |-> pass(f, paid)]
           rest == [paid \in 0 .. N - 1 |-> SumTo(chips, N) - SumTo(chips, paid)]
<1>1. N \in Nat /\ N > 0
  BY DEF PotFits
<1>2. \A i \in 1 .. N : chips[i] = ChipShare(s, rank, player, i) /\ chips[i] \in Int
  BY ShareIsInteger
<1>3. FairValue(s, rank, player) = SumTo(chips, N)
  BY DEF FairValue
<1> HIDE DEF N, chips
<1>4. \A m \in 0 .. N : SumTo(chips, m) \in Int
  BY <1>1, <1>2, SumType
<1>5. ASSUME NEW paid \in 0 .. N - 1
      PROVE  /\ pot(paid).size \in Nat /\ pot(paid).size > 0 /\ paid + pot(paid).size <= N
             /\ SumTo(chips, paid + pot(paid).size) = SumTo(chips, paid) + pot(paid).pays
             /\ pot(paid).pays \in Int
  <2>1. paid \in Nat /\ paid < s.spent[player]
    BY <1>1 DEF N
  <2>2. /\ pot(paid).size \in Nat /\ pot(paid).size > 0 /\ paid + pot(paid).size <= N
        /\ \E c \in Int : /\ pot(paid).pays = pot(paid).size * c
                          /\ \A n \in paid + 1 .. paid + pot(paid).size :
                                ChipShare(s, rank, player, n) = c
    BY <2>1, PotPaysShares DEF N
  <2> DEFINE size == pot(paid).size
             pays == pot(paid).pays
  <2>3. PICK c \in Int : /\ pays = size * c
                         /\ \A n \in paid + 1 .. paid + size : ChipShare(s, rank, player, n) = c
    BY <2>2
  <2>4. size \in Nat /\ size > 0 /\ paid + size <= N
    BY <2>2
  <2> HIDE DEF pot, size, pays
  <2>5. /\ \A i \in 1 .. paid : chips[i] \in Int
        /\ \A i \in paid + 1 .. paid + size : chips[i] = c
    BY <2>1, <2>3, <2>4, <1>1, <1>2
  <2>6. SumTo(chips, paid + size) = SumTo(chips, paid) + size * c
    BY <2>1, <2>4, <2>5, SumOfConstant
  <2>7. pays \in Int
    BY <2>3, <2>4
  <2> QED BY <2>3, <2>4, <2>6, <2>7 DEF size, pays
<1> HIDE DEF pot
<1>6. ASSUME NEW paid \in 0 .. N - 1 PROVE rest[paid] = pass(rest, paid)
  <2> DEFINE next == paid + pot(paid).size
  <2>1. next \in Nat /\ next <= N /\ paid \in 0 .. N /\ next \in 0 .. N
    BY <1>1, <1>5
  <2>2. SumTo(chips, next) = SumTo(chips, paid) + pot(paid).pays /\ pot(paid).pays \in Int
    BY <1>5
  <2>3. SumTo(chips, next) \in Int /\ SumTo(chips, paid) \in Int /\ SumTo(chips, N) \in Int
    BY <2>1, <1>1, <1>4
  <2>4. CASE next = N
    <3>1. pass(rest, paid) = pot(paid).pays
      BY <2>4
    <3>2. rest[paid] = SumTo(chips, N) - SumTo(chips, paid)
      OBVIOUS
    <3> HIDE DEF rest, pass, next
    <3> QED BY <3>1, <3>2, <2>2, <2>3, <2>4
  <2>5. CASE next # N
    <3>1. next \in 0 .. N - 1
      BY <2>1, <2>5, <1>1
    <3>2. rest[next] = SumTo(chips, N) - SumTo(chips, next)
      BY <3>1
    <3>3. rest[paid] = SumTo(chips, N) - SumTo(chips, paid)
      OBVIOUS
    <3>4. pass(rest, paid) = pot(paid).pays + rest[next]
      BY <2>5
    <3> HIDE DEF rest, pass, next
    <3> QED BY <3>2, <3>3, <3>4, <2>2, <2>3
  <2> QED BY <2>4, <2>5
<1>7. rest = loop(rest)
  BY <1>6
<1> DEFINE from == CHOOSE f : f = loop(f)
<1>8. from = loop(from)
  <2> HIDE DEF rest, loop
  <2> QED BY <1>7
<1>9. ShowdownValue(s, rank, player) = from[0]
  BY DEF ShowdownValue, N, pot
<1>10. \A paid \in 0 .. N - 1 : from[paid] = pass(from, paid) /\ rest[paid] = pass(rest, paid)
  <2> HIDE DEF pass, from, rest
  <2> QED BY <1>6, <1>8
<1>11. rest[0] = SumTo(chips, N)
  <2>1. rest[0] = SumTo(chips, N) - SumTo(chips, 0)
    BY <1>1
  <2> HIDE DEF rest
  <2> QED BY <2>1, <1>1, <1>4, SumStep, N \in 0 .. N
<1> HIDE DEF from, rest
<1> DEFINE Bad == {k \in 1 .. N : from[N - k] # rest[N - k]}
<1>12. Bad = {}
  <2> SUFFICES ASSUME Bad # {} PROVE FALSE
    OBVIOUS
  <2>1. PICK m \in Bad : \A k \in Bad : m <= k
    <3>1. Bad \in SUBSET Nat
      OBVIOUS
    <3> HIDE DEF Bad
    <3> QED BY <3>1, LeastNatural
  <2> DEFINE paid == N - m
             next == paid + pot(paid).size
  <2>2. m \in 1 .. N /\ from[paid] # rest[paid] /\ paid \in 0 .. N - 1 /\ N - m = paid
    BY <2>1, <1>1
  <2>3. next \in Nat /\ paid < next /\ next <= N
    <3> HIDE DEF paid
    <3>1. paid \in Nat
      BY <2>2
    <3>2. pot(paid).size \in Nat /\ pot(paid).size > 0 /\ paid + pot(paid).size <= N
      BY <2>2, <1>5
    <3> QED BY <3>1, <3>2
  <2>4. next # N => from[next] = rest[next]
    <3>1. SUFFICES ASSUME next # N PROVE from[next] = rest[next]
      OBVIOUS
    <3> HIDE DEF paid, next
    <3>2. N - next \in 1 .. N /\ N - next < m /\ N - (N - next) = next
      BY <3>1, <2>2, <2>3, <1>1
    <3>3. N - next \notin Bad
      BY <3>2, <2>1
    <3> QED BY <3>2, <3>3
  <2>5. pass(from, paid) = pass(rest, paid)
    BY <2>4
  <2> HIDE DEF pass, paid
  <2> QED BY <2>2, <2>5, <1>10
<1>13. from[0] = rest[0]
  <2>1. N \in 1 .. N /\ N - N = 0
    BY <1>1
  <2>2. from[N - N] = rest[N - N]
    BY <2>1, <1>12
  <2> QED BY <2>1, <2>2
<1> QED BY <1>3, <1>9, <1>11, <1>13

\* A folded hand loses all its chips.
LEMMA FoldedIsFair ==
  ASSUME NEW s \in State, PotFits(s), NEW rank \in [Players -> Nat], NEW player \in Players,
         s.playerFolded[player]
  PROVE  valueOfState(s, rank, player) = FairValue(s, rank, player)
<1> DEFINE N == s.spent[player]
           chips == [n \in 1 .. N |-> ChipShare(s, rank, player, n)]
<1>1. N \in Nat
  BY DEF PotFits
<1>2. ASSUME NEW n \in 1 .. N PROVE ChipShare(s, rank, player, n) = 0 - Shares
  BY DEF ChipShare
<1>3. FairValue(s, rank, player) = SumTo(chips, N)
  BY DEF FairValue
<1>4. \A i \in 0 + 1 .. 0 + N : chips[i] = 0 - Shares
  BY <1>1, <1>2
<1>5. valueOfState(s, rank, player) = 0 - N * Shares
  BY DEF valueOfState
<1> HIDE DEF N, chips
<1>6. 0 - Shares \in Int /\ \A i \in 1 .. 0 : chips[i] \in Int
  BY DEF Shares
<1>7. SumTo(chips, 0 + N) = SumTo(chips, 0) + N * (0 - Shares)
  BY ONLY <1>1, <1>4, <1>6, 0 \in Nat, SumOfConstant
<1>8. SumTo(chips, 0) = 0
  BY SumStep
<1> QED BY <1>1, <1>3, <1>5, <1>7, <1>8 DEF Shares

\* The players of a set, counted seat by seat.
LEMMA SeatsCountPlayers ==
  ASSUME NEW A \in SUBSET Players, NEW f,
         \A i \in 1 .. numPlayers : f[i] = IF i - 1 \in A THEN 1 ELSE 0
  PROVE  SumTo(f, numPlayers) = Cardinality(A)
<1> DEFINE B == {i \in 1 .. numPlayers : i - 1 \in A}
           g == [i \in B |-> i - 1]
<1>1. numPlayers \in Nat /\ Players = 0 .. numPlayers - 1
  BY GameAssumption DEF Players
<1>2. SumTo(f, numPlayers) = Cardinality(B)
  <2>1. B \in SUBSET (1 .. numPlayers) /\ \A i \in 1 .. numPlayers : f[i] = IF i \in B THEN 1 ELSE 0
    OBVIOUS
  <2> HIDE DEF B
  <2> QED BY <1>1, <2>1, SumCounts
<1>3. g \in Bijection(B, A)
  <2>1. g \in [B -> A]
    OBVIOUS
  <2>2. \A a, b \in B : g[a] = g[b] => a = b
    OBVIOUS
  <2>3. \A a \in A : \E b \in B : g[b] = a
    <3> SUFFICES ASSUME NEW a \in A PROVE \E b \in B : g[b] = a
      OBVIOUS
    <3>1. a + 1 \in B /\ (a + 1) - 1 = a
      BY <1>1
    <3> QED BY <3>1
  <2> HIDE DEF B, g
  <2> QED BY <2>1, <2>2, <2>3, Fun_IsBij
<1>4. IsFiniteSet(B)
  <2>1. IsFiniteSet(1 .. numPlayers)
    BY <1>1, FS_Interval
  <2> QED BY <2>1, FS_Subset
<1> HIDE DEF B, g
<1> QED BY <1>2, <1>3, <1>4, FS_Bijection DEF ExistsBijection

\* One of two and the other: if all but one have folded, everybody else has.
LEMMA OnlyOneLeft ==
  ASSUME NEW s \in State, NEW player \in Players, ~s.playerFolded[player],
         numFolded(s) + 1 = numPlayers
  PROVE  \A q \in Players : q # player => s.playerFolded[q]
<1> DEFINE F == {p \in Players : s.playerFolded[p]}
<1>1. F \in SUBSET Players /\ player \notin F /\ numFolded(s) = Cardinality(F)
  BY DEF numFolded
<1>2. \A q \in Players : q \in F => s.playerFolded[q]
  OBVIOUS
<1> HIDE DEF F
<1>3. IsFiniteSet(F)
  BY <1>1, PlayersAreFinite
<1>4. Cardinality(F \cup {player}) = Cardinality(F) + 1 /\ F \cup {player} \in SUBSET Players
  BY <1>1, <1>3, FS_AddElement
<1>5. F \cup {player} = Players
  BY <1>1, <1>4, PlayersAreFinite
<1> QED BY <1>2, <1>5

\* The last player left takes every chip, which is the fair value if he has put
\* in as many as anybody.
LEMMA FoldOutIsFair ==
  ASSUME NEW s \in State, PotFits(s), NEW rank \in [Players -> Nat], NEW player \in Players,
         ~s.playerFolded[player], numFolded(s) + 1 = numPlayers,
         \A q \in Players : s.spent[q] <= s.spent[player]
  PROVE  valueOfState(s, rank, player) = FairValue(s, rank, player)
<1> DEFINE N == s.spent[player]
           chips == [n \in 1 .. N |-> ChipShare(s, rank, player, n)]
           rivals(n) == {q \in Players : q # player /\ s.spent[q] >= n}
           upTo(m) == [i \in 1 .. numPlayers |->
                          IF i - 1 = player THEN 0
                          ELSE IF s.spent[i - 1] <= m THEN s.spent[i - 1] ELSE m]
           others == [i \in 1 .. numPlayers |-> IF i - 1 = player THEN 0 ELSE s.spent[i - 1]]
<1>1. N \in Nat /\ s.spent \in [Players -> Nat]
  BY DEF State, PotFits
<1>2. numPlayers \in Nat /\ \A i \in 1 .. numPlayers : i - 1 \in Players
  BY GameAssumption DEF Players
<1>3. \A q \in Players : q # player => s.playerFolded[q]
  BY OnlyOneLeft
<1>4. ASSUME NEW n \in 1 .. N
      PROVE  ChipShare(s, rank, player, n) = Cardinality(rivals(n)) * Shares
  <2> DEFINE in == {p \in Players : s.spent[p] >= n}
             live == {p \in in : ~s.playerFolded[p]}
             best == {p \in live : \A q \in live : rank[q] <= rank[p]}
  <2>1. live = {player} /\ player \in in
    BY <1>1, <1>3
  <2>2. best = {player}
    <3>1. rank[player] <= rank[player]
      OBVIOUS
    <3> HIDE DEF live
    <3> QED BY <2>1, <3>1
  <2>3. ChipShare(s, rank, player, n) =
           (IF player \in best THEN (Cardinality(in) * Shares) \div Cardinality(best) ELSE 0) - Shares
    BY DEF ChipShare
  <2>4. rivals(n) = in \ {player}
    OBVIOUS
  <2>5. in \in SUBSET Players
    OBVIOUS
  <2> HIDE DEF in, live, best, rivals
  <2>6. IsFiniteSet(in) /\ Cardinality(in) \in Nat
    BY <2>5, PlayersAreFinite
  <2>7. Cardinality(in \ {player}) = Cardinality(in) - 1
    BY <2>1, <2>6, FS_RemoveElement
  <2>8. Cardinality(best) = 1
    BY <2>2, FS_Singleton
  <2>9. (Cardinality(in) * Shares) \div 1 = Cardinality(in) * Shares
    BY <2>6 DEF Shares
  <2> QED BY <2>2, <2>3, <2>4, <2>6, <2>7, <2>8, <2>9 DEF Shares
<1>5. ASSUME NEW m \in 1 .. N
      PROVE  SumTo(upTo(m), numPlayers) = SumTo(upTo(m - 1), numPlayers) + Cardinality(rivals(m))
  <2> DEFINE new == [i \in 1 .. numPlayers |-> IF i - 1 \in rivals(m) THEN 1 ELSE 0]
             old == upTo(m - 1)
             all == upTo(m)
  <2>1. ASSUME NEW i \in 1 .. numPlayers
        PROVE  old[i] \in Int /\ new[i] \in Int /\ all[i] = old[i] + new[i]
    <3>1. i - 1 \in Players /\ s.spent[i - 1] \in Nat
      BY <1>1, <1>2
    <3>2. new[i] = IF i - 1 # player /\ s.spent[i - 1] >= m THEN 1 ELSE 0
      BY <3>1
    <3>3. old[i] = IF i - 1 = player THEN 0
                   ELSE IF s.spent[i - 1] <= m - 1 THEN s.spent[i - 1] ELSE m - 1
      OBVIOUS
    <3>4. all[i] = IF i - 1 = player THEN 0
                   ELSE IF s.spent[i - 1] <= m THEN s.spent[i - 1] ELSE m
      OBVIOUS
    <3> HIDE DEF new, old, all
    <3> QED BY <3>1, <3>2, <3>3, <3>4
  <2>2. rivals(m) \in SUBSET Players /\ \A i \in 1 .. numPlayers : new[i] = IF i - 1 \in rivals(m) THEN 1 ELSE 0
    OBVIOUS
  <2> HIDE DEF new, old, all, rivals
  <2>3. SumTo(new, numPlayers) = Cardinality(rivals(m))
    BY <2>2, SeatsCountPlayers
  <2>4. SumTo(all, numPlayers) = SumTo(old, numPlayers) + SumTo(new, numPlayers)
    BY <2>1, <1>2, SumOfSum
  <2> QED BY <2>3, <2>4 DEF old, all
<1>6. FairValue(s, rank, player) = SumTo(chips, N)
  BY DEF FairValue
<1>7. valueOfState(s, rank, player) = SumTo(others, numPlayers) * Shares
  BY DEF valueOfState, OthersSpent
<1>8. SumTo(upTo(N), numPlayers) = SumTo(others, numPlayers)
  <2> DEFINE a == upTo(N)
  <2>1. \A i \in 1 .. numPlayers : a[i] = others[i]
    BY <1>1, <1>2
  <2> HIDE DEF a, others
  <2>2. SumTo(a, numPlayers) = SumTo(others, numPlayers)
    BY <2>1, <1>2, SumOfEquals
  <2> QED BY <2>2 DEF a
<1>9. SumTo(upTo(0), numPlayers) = 0
  <2> DEFINE a == upTo(0)
  <2>1. \A i \in 0 + 1 .. 0 + numPlayers : a[i] = 0
    BY <1>1, <1>2
  <2> HIDE DEF a
  <2>2. 0 \in Int /\ 0 \in Nat /\ \A i \in 1 .. 0 : a[i] \in Int
    OBVIOUS
  <2>3. SumTo(a, 0 + numPlayers) = SumTo(a, 0) + numPlayers * 0
    BY ONLY <1>2, <2>1, <2>2, SumOfConstant
  <2>4. SumTo(a, numPlayers) = 0
    BY <1>2, <2>3, SumStep
  <2> QED BY <2>4 DEF a
<1>10. \A n \in 1 .. N : Cardinality(rivals(n)) \in Nat
  <2>1. \A n \in 1 .. N : rivals(n) \in SUBSET Players
    OBVIOUS
  <2> HIDE DEF rivals
  <2> QED BY <2>1, PlayersAreFinite
<1>11. \A m \in 0 .. N : SumTo(upTo(m), numPlayers) \in Int
  <2> SUFFICES ASSUME NEW m \in 0 .. N PROVE SumTo(upTo(m), numPlayers) \in Int
    OBVIOUS
  <2> DEFINE a == upTo(m)
  <2>1. \A i \in 1 .. numPlayers : a[i] \in Int
    BY <1>1, <1>2
  <2> HIDE DEF a
  <2>2. SumTo(a, numPlayers) \in Int
    BY <2>1, <1>2, SumType
  <2> QED BY <2>2 DEF a
<1>12. \A i \in 1 .. N : chips[i] = Cardinality(rivals(i)) * Shares
  BY <1>4
<1> HIDE DEF N, chips, rivals, upTo, others
<1> DEFINE Bad == {m \in 0 .. N : SumTo(chips, m) # SumTo(upTo(m), numPlayers) * Shares}
<1>13. Bad = {}
  <2> SUFFICES ASSUME Bad # {} PROVE FALSE
    OBVIOUS
  <2>1. PICK m \in Bad : \A k \in Bad : m <= k
    <3>1. Bad \in SUBSET Nat
      OBVIOUS
    <3> HIDE DEF Bad
    <3> QED BY <3>1, LeastNatural
  <2>2. m \in 0 .. N /\ SumTo(chips, m) # SumTo(upTo(m), numPlayers) * Shares
    BY <2>1
  <2>3. m # 0
    <3> HIDE DEF Bad
    <3>1. SumTo(chips, 0) = 0 /\ 0 * Shares = 0
      BY SumStep DEF Shares
    <3> QED BY <3>1, <2>2, <1>9
  <2>4. m - 1 \in Nat /\ (m - 1) + 1 = m /\ m - 1 \in 0 .. N /\ m \in 1 .. N
    BY ONLY <2>2, <2>3, <1>1
  <2>5. SumTo(chips, m - 1) = SumTo(upTo(m - 1), numPlayers) * Shares
    <3>1. m - 1 \notin Bad
      <4> HIDE DEF Bad
      <4> QED BY <2>1, <2>4
    <3> QED BY <3>1, <2>4
  <2>6. SumTo(chips, m) = SumTo(chips, m - 1) + chips[m]
    BY <2>4, SumStep
  <2>7. chips[m] = Cardinality(rivals(m)) * Shares /\ Cardinality(rivals(m)) \in Nat
    BY <2>4, <1>10, <1>12
  <2>8. SumTo(upTo(m), numPlayers) = SumTo(upTo(m - 1), numPlayers) + Cardinality(rivals(m))
        /\ SumTo(upTo(m - 1), numPlayers) \in Int
    BY <2>4, <1>5, <1>11
  <2> HIDE DEF Bad
  <2> QED BY <2>2, <2>5, <2>6, <2>7, <2>8 DEF Shares
<1>14. SumTo(chips, N) = SumTo(upTo(N), numPlayers) * Shares
  BY <1>1, <1>13, N \in 0 .. N
<1> QED BY <1>6, <1>7, <1>8, <1>14

-----------------------------------------------------------------------------
(* The invariant of the pots.                                              *)

\* Everybody has chips to play with, and somebody has a blind to post: without
\* them a showdown may be one of players who have put nothing in.
Antes == BigBlind > 0 /\ \A p \in Players : stack[p] > 0

\* The blinds are a bet that nobody has folded to.
LEMMA InitHasPot ==
  ASSUME BigBlind > 0
  PROVE  Init => PotInv
<1> SUFFICES ASSUME state = initState PROVE PotInv
  BY DEF Init
<1>1. /\ state.maxSpent = BigBlind /\ ~state.finished
      /\ \A p \in Players : ~state.playerFolded[p]
  BY DEF initState
<1> QED BY <1>1 DEF PotInv

\* Nobody folds who has the largest bet, and the bet never shrinks.
LEMMA TakeKeepsPot ==
  ASSUME ChipsFit, FairStacks, TypeOK, BettingInv, OrderInv, PotInv, NEW a \in Action, Take(a)
  PROVE  PotInv'
<1> DEFINE p == currentPlayer(state)
           t == StoreAction(state, a)
<1>1. ~state.finished /\ a.type # "invalid" /\ state' = EndBetting(t)
      /\ isValidAction(state, FALSE, a)
  BY DEF Take, isValidAction, stateFinished, doAction
<1>2. p \in Players /\ state.maxSpent \in Int /\ state.spent \in [Players -> Int]
      /\ state.playerFolded \in [Players -> BOOLEAN] /\ state.round \in Rounds
      /\ state.action \in [Rounds -> Seq(Entry)]
  BY <1>1, ActorCanAct DEF TypeOK, State
<1>3. Stored(t, state, a, p, RaiseTo(state, p, a.size))
  BY <1>1, <1>2, StoreActionFields DEF TypeOK
<1>4. BetweenInv(t) /\ TypeOK' /\ state'.maxSpent >= state.maxSpent
  BY ChipsFit, FairStacks, TakeKeeps
<1>5. /\ state'.spent = t.spent /\ state'.maxSpent = t.maxSpent
      /\ state'.playerFolded = t.playerFolded
  BY <1>1, <1>4, EndBettingFacts DEF BetweenInv
<1>6. ClosesMatched
  BY TakeClosesMatched
<1> HIDE DEF t
<1>7. a.type = "fold" => state.spent[p] < state.maxSpent
  <2> SUFFICES ASSUME a.type = "fold" PROVE state.spent[p] < state.maxSpent
    OBVIOUS
  <2>1. state.spent[p] # state.maxSpent
    BY <1>1 DEF isValidAction
  <2>2. state.spent[p] <= state.maxSpent
    BY ChipsFit, FairStacks, <1>2 DEF BettingInv
  <2> QED BY <2>1, <2>2, <1>2
<1> HIDE DEF p
<1>8. state'.maxSpent \in Int /\ state'.spent \in [Players -> Int]
  BY <1>4 DEF TypeOK, State
<1>9. ASSUME NEW q \in Players, state'.playerFolded[q]
      PROVE  state'.spent[q] < state'.maxSpent
  <2>1. (a.type = "fold" /\ q = p) \/ state.playerFolded[q]
    BY <1>2, <1>3, <1>5, <1>9 DEF Stored
  <2>2. state.spent[q] < state.maxSpent
    BY <2>1, <1>7 DEF PotInv
  <2>3. state'.spent[q] = state.spent[q]
    <3>1. a.type = "fold" => t.spent[q] = state.spent[q]
      BY <1>2, <1>3 DEF Stored
    <3>2. a.type # "fold" => q # p
      BY <2>1, <1>1, <1>2, ActorCanAct DEF CanAct, p
    <3>3. q # p => t.spent[q] = state.spent[q]
      BY <1>2, <1>3 DEF Stored
    <3> QED BY <3>1, <3>2, <3>3, <1>5
  <2> QED BY <2>2, <2>3, <1>2, <1>4, <1>8
<1>10. state'.maxSpent > 0
  BY <1>2, <1>4, <1>8 DEF PotInv
<1> QED BY <1>6, <1>9, <1>10 DEF PotInv, ClosesMatched

\* The invariant is inductive.
LEMMA NextKeepsPot ==
  ASSUME ChipsFit, FairStacks
  PROVE  TypeOK /\ BettingInv /\ OrderInv /\ PotInv /\ [Next]_state => PotInv'
<1> SUFFICES ASSUME TypeOK, BettingInv, OrderInv, PotInv, [Next]_state PROVE PotInv'
  OBVIOUS
<1>1. CASE Fold
  <2>1. [type |-> "fold", size |-> 0] \in Action
    BY DEF Action, ActionTypes
  <2>2. QED BY ChipsFit, FairStacks, <1>1, <2>1, TakeKeepsPot DEF Fold
<1>2. CASE Call
  <2>1. [type |-> "call", size |-> 0] \in Action
    BY DEF Action, ActionTypes
  <2>2. QED BY ChipsFit, FairStacks, <1>2, <2>1, TakeKeepsPot DEF Call
<1>3. CASE Raise
  <2>1. PICK size \in Sizes : Take([type |-> "raise", size |-> size])
    BY <1>3 DEF Raise
  <2>2. [type |-> "raise", size |-> size] \in Action
    BY SizesAreIntegers DEF Action, ActionTypes
  <2>3. QED BY ChipsFit, FairStacks, <2>1, <2>2, TakeKeepsPot
<1>4. CASE Finished \/ UNCHANGED state
  BY <1>4 DEF Finished, PotInv, numFolded
<1> QED BY <1>1, <1>2, <1>3, <1>4 DEF Next

\* At a showdown everybody left has a chip in the pot.
LEMMA ShowdownIsStaked ==
  ASSUME TypeOK, PotInv, Antes, state.finished, numFolded(state) + 1 < numPlayers,
         NEW p \in Players, ~state.playerFolded[p]
  PROVE  state.spent[p] > 0
BY DEF PotInv, Antes

\* So the list of players that valueOfState makes at a showdown has more than one.
LEMMA ShowdownIsContested ==
  ASSUME TypeOK, PotInv, Antes, state.finished, numFolded(state) + 1 < numPlayers
  PROVE  Cardinality(InPot(state, 0)) > 1
<1> DEFINE F == {p \in Players : state.playerFolded[p]}
<1>1. F \in SUBSET Players /\ numFolded(state) = Cardinality(F)
  BY DEF numFolded
<1>2. \A p \in Players : p \notin F => p \in InPot(state, 0)
  BY Antes, ShowdownIsStaked DEF InPot
<1>3. InPot(state, 0) \in SUBSET Players
  BY DEF InPot
<1> HIDE DEF F
<1>4. IsFiniteSet(F) /\ Cardinality(F) \in Nat
  BY <1>1, PlayersAreFinite
<1>5. IsFiniteSet(Players) /\ Cardinality(Players) = numPlayers /\ numPlayers \in Nat
  BY GameAssumption, FS_Interval DEF Players
<1>6. PICK p \in Players : p \notin F
  <2>1. F # Players
    BY <1>1, <1>4, <1>5
  <2> QED BY <1>1, <2>1
<1>7. Cardinality(F \cup {p}) = Cardinality(F) + 1 /\ F \cup {p} \in SUBSET Players
  BY <1>1, <1>4, <1>6, FS_AddElement
<1>8. PICK q \in Players : q \notin F \cup {p}
  <2> DEFINE G == F \cup {p}
  <2>1. Cardinality(G) = Cardinality(F) + 1
    BY <1>7
  <2> HIDE DEF G
  <2>2. G # Players
    BY <1>1, <1>4, <1>5, <2>1
  <2>3. F \cup {p} # Players
    BY <2>2 DEF G
  <2> QED BY <1>7, <2>3
<1>9. {p, q} \in SUBSET InPot(state, 0)
  BY <1>2, <1>6, <1>8
<1>10. IsFiniteSet({p}) /\ Cardinality({p}) = 1 /\ q \notin {p}
  BY <1>8, FS_Singleton
<1>11. Cardinality({p} \cup {q}) = 2
  BY <1>10, FS_AddElement
<1>12. {p} \cup {q} = {p, q}
  OBVIOUS
<1>13. IsFiniteSet(InPot(state, 0)) /\ Cardinality(InPot(state, 0)) \in Nat
  BY <1>3, PlayersAreFinite
<1> QED BY <1>9, <1>11, <1>12, <1>13, FS_Subset

\* When the hand is over nobody has put in too much.
LEMMA PotsFit ==
  ASSUME ChipsFit, FairStacks, TypeOK, BettingInv, state.finished
  PROVE  PotFits(state)
<1> SUFFICES ASSUME NEW q \in Players
             PROVE  state.spent[q] \in Nat /\ numPlayers * state.spent[q] <= INT32_MAX
  BY DEF PotFits
<1>1. /\ state.spent[q] \in Nat /\ state.spent[q] <= state.maxSpent /\ state.spent[q] <= stack[q]
      /\ state.maxSpent \in Int
  BY DEF TypeOK, State, BettingInv
<1>2. numPlayers \in Nat /\ INT32_MAX \in Nat /\ stack[q] \in Nat
  BY GameAssumption, Int32Assumption
<1>3. ASSUME NEW top \in Nat, state.spent[q] <= top, numPlayers * top <= INT32_MAX
      PROVE  numPlayers * state.spent[q] <= INT32_MAX
  <2> DEFINE x == state.spent[q]
             rest == top - x
  <2>1. x \in Nat /\ rest \in Nat /\ top = x + rest
    BY <1>1, <1>3
  <2> HIDE DEF x, rest
  <2>2. numPlayers * top = numPlayers * x + numPlayers * rest
    BY <1>2, <2>1
  <2>3. numPlayers * rest \in Nat /\ numPlayers * x \in Nat
    BY <1>2, <2>1
  <2>4. QED BY <1>2, <1>3, <2>2, <2>3 DEF x
<1>4. CASE noLimit
  <2>1. numPlayers * stack[q] <= INT32_MAX
    BY <1>4 DEF ChipsFit
  <2>2. QED BY <2>1, <1>1, <1>2, <1>3
<1>5. CASE ~noLimit
  <2>1. state.maxSpent <= mostBet(numRounds)
    BY <1>5 DEF BettingInv, RaisesBound
  <2>2. mostBet(numRounds) \in Nat /\ numPlayers * mostBet(numRounds) <= INT32_MAX
    BY <1>5, MostBetGrows, GameAssumption DEF ChipsFit
  <2>3. QED BY <2>1, <2>2, <1>1, <1>3
<1> QED BY <1>4, <1>5

\* In a fair game with a blind, whose chips fit in 32 bits, the walk through the side pots pays every player,
\* for any strength of the hands, what the rules say, chip by chip, and so does the
\* pot that everybody else has folded (valueOfState in game.c): an all-in player
\* wins only chips it matched, ties share, folded hands lose.  And its assertion on
\* the players it starts with holds.
THEOREM SidePotsPayFairly ==
  ASSUME ChipsFit, FairStacks, Antes
  PROVE  Spec => []SidePotsAreFair
<1>1. TypeOK /\ BettingInv /\ PotInv => SidePotsAreFair
  <2> SUFFICES ASSUME TypeOK, BettingInv, PotInv, state.finished,
                      NEW rank \in [Players -> Ranks], NEW p \in Players
               PROVE  valueOfState(state, rank, p) = FairValue(state, rank, p)
    BY Antes, ShowdownIsContested DEF SidePotsAreFair
  <2>1. rank \in [Players -> Nat] /\ state \in State /\ PotFits(state)
    BY ChipsFit, FairStacks, RanksAssumption, PotsFit DEF TypeOK
  <2>2. CASE state.playerFolded[p]
    BY <2>1, <2>2, FoldedIsFair
  <2>3. CASE ~state.playerFolded[p] /\ numFolded(state) + 1 = numPlayers
    <3>1. PICK w \in Players : state.spent[w] = state.maxSpent
      BY ChipsFit, FairStacks DEF BettingInv
    <3>2. w = p
      <4> SUFFICES ASSUME w # p PROVE FALSE
        OBVIOUS
      <4>1. state.playerFolded[w]
        BY <2>1, <2>3, OnlyOneLeft
      <4>2. state.spent[w] < state.maxSpent /\ state.maxSpent \in Int
        BY <4>1, <2>1 DEF PotInv, State
      <4> QED BY <3>1, <4>2
    <3>3. \A q \in Players : state.spent[q] <= state.spent[p]
      BY ChipsFit, FairStacks, <3>1, <3>2 DEF TypeOK, State, BettingInv
    <3> QED BY <2>1, <2>3, <3>3, FoldOutIsFair
  <2>4. CASE ~state.playerFolded[p] /\ numFolded(state) + 1 # numPlayers
    <3>1. numFolded(state) + 1 < numPlayers
      <4> DEFINE F == {q \in Players : state.playerFolded[q]}
      <4>1. F \in SUBSET Players /\ F # Players /\ numFolded(state) = Cardinality(F)
        BY <2>4 DEF numFolded
      <4> HIDE DEF F
      <4>2. Cardinality(F) \in Nat /\ Cardinality(F) <= numPlayers /\ Cardinality(F) # numPlayers
        BY <4>1, PlayersAreFinite
      <4> QED BY <2>4, <4>1, <4>2, GameAssumption
    <3>2. state.spent[p] > 0
      BY Antes, <2>4, <3>1, ShowdownIsStaked
    <3>3. valueOfState(state, rank, p) = ShowdownValue(state, rank, p)
      BY <2>4 DEF valueOfState
    <3> QED BY <2>1, <2>4, <3>2, <3>3, ShowdownIsFair
  <2> QED BY <2>2, <2>3, <2>4
<1>2. Init => PotInv
  BY Antes, InitHasPot DEF Antes
<1>3. TypeOK /\ BettingInv /\ OrderInv /\ PotInv /\ [Next]_state => PotInv'
  BY ChipsFit, FairStacks, NextKeepsPot
<1> QED BY <1>1, <1>2, <1>3, OrderHolds, PTL DEF Spec

-----------------------------------------------------------------------------
(* What is concatenated in a text.                                         *)

\* FlattenSeq adds one sequence after the other to those before it.
LEMMA FlattenIsRecursive ==
  ASSUME NEW seqs, Len(seqs) \in Nat, Len(seqs) # 0
  PROVE  \E g : /\ g = [i \in 1 .. Len(seqs) |-> IF i = 1 THEN seqs[1] ELSE g[i - 1] \o seqs[i]]
                /\ FlattenSeq(seqs) = g[Len(seqs)]
<1> DEFINE row(g, i) == IF i = 1 THEN seqs[i] ELSE g[i - 1] \o seqs[i]
           steps(g, m) == [i \in 1 .. m |-> row(g, i)]
           n == Len(seqs)
           Bad == {m \in 1 .. n : ~\E g : g = steps(g, m)}
<1>1. Bad = {}
  <2> SUFFICES ASSUME Bad # {} PROVE FALSE
    OBVIOUS
  <2>1. PICK m \in Bad : \A k \in Bad : m <= k
    <3>1. Bad \in SUBSET Nat
      <4>1. \A i \in 1 .. n : i \in Nat
        OBVIOUS
      <4> QED BY <4>1
    <3> HIDE DEF Bad
    <3> QED BY <3>1, LeastNatural
  <2>2. m \in 1 .. n
    OBVIOUS
  <2>3. m # 1
    <3> DEFINE h == [i \in 1 .. 1 |-> seqs[i]]
    <3>1. h = steps(h, 1)
      <4>1. ASSUME NEW i \in 1 .. 1 PROVE h[i] = row(h, i)
        <5>1. i = 1 /\ h[1] = seqs[1]
          OBVIOUS
        <5> QED BY <5>1
      <4>2. h = [i \in 1 .. 1 |-> h[i]]
        OBVIOUS
      <4> HIDE DEF h
      <4> QED BY <4>1, <4>2
    <3> HIDE DEF h
    <3>2. 1 \notin Bad
      BY <3>1
    <3> QED BY <3>2
  <2>4. PICK g : g = steps(g, m - 1)
    <3>1. m - 1 \in 1 .. n /\ m - 1 \notin Bad
      <4>1. m - 1 \in 1 .. n /\ ~(m <= m - 1)
        BY <2>2, <2>3
      <4> HIDE DEF Bad
      <4> QED BY <4>1, <2>1
    <3> HIDE DEF steps
    <3> QED BY <3>1
  <2> HIDE DEF n
  <2> DEFINE h == [i \in 1 .. m |-> IF i = m THEN row(g, m) ELSE g[i]]
  <2>5. \A i \in 1 .. m - 1 : g[i] = row(g, i)
    BY <2>4
  <2>6. \A i \in 1 .. m : i # 1 => h[i - 1] = g[i - 1]
    BY <2>2
  <2>7. h = [i \in 1 .. m |-> h[i]]
    OBVIOUS
  <2>8. ASSUME NEW i \in 1 .. m PROVE h[i] = row(h, i)
    <3>1. row(h, i) = row(g, i)
      BY <2>6
    <3>2. CASE i = m
      BY <3>1, <3>2
    <3>3. CASE i # m
      <4>1. i \in 1 .. m - 1 /\ h[i] = g[i]
        BY <3>3, <2>2
      <4> QED BY <4>1, <3>1, <2>5
    <3> QED BY <3>2, <3>3
  <2> HIDE DEF h
  <2>9. h = steps(h, m)
    BY <2>7, <2>8
  <2> HIDE DEF steps
  <2> QED BY <2>9 DEF n
<1>2. \E g : g = steps(g, n)
  <2>1. n \in 1 .. n
    OBVIOUS
  <2>2. n \notin Bad
    BY <1>1
  <2> HIDE DEF steps, n
  <2> QED BY <2>1, <2>2
<1> DEFINE flatten == CHOOSE g : g = steps(g, n)
<1>3. flatten = steps(flatten, n)
  BY <1>2
<1>4. FlattenSeq(seqs) = flatten[n]
  BY DEF FlattenSeq
<1> HIDE DEF flatten
<1>5. steps(flatten, n) = [i \in 1 .. n |-> IF i = 1 THEN seqs[1] ELSE flatten[i - 1] \o seqs[i]]
  OBVIOUS
<1> QED BY <1>3, <1>4, <1>5

\* One sequence more, and the whole is longer by that.
LEMMA FlattenOneMore ==
  ASSUME NEW X, NEW seqs \in Seq(Seq(X)), NEW x \in Seq(X)
  PROVE  FlattenSeq(Append(seqs, x)) = FlattenSeq(seqs) \o x
<1> DEFINE n == Len(seqs)
           more == Append(seqs, x)
<1>1. /\ n \in Nat /\ Len(more) = n + 1 /\ more[n + 1] = x
      /\ \A i \in 1 .. n : more[i] = seqs[i]
  OBVIOUS
<1> HIDE DEF more
<1>2. PICK h : /\ h = [i \in 1 .. n + 1 |-> IF i = 1 THEN more[1] ELSE h[i - 1] \o more[i]]
               /\ FlattenSeq(more) = h[n + 1]
  <2>1. Len(more) \in Nat /\ Len(more) # 0
    BY <1>1
  <2>2. \E h : /\ h = [i \in 1 .. Len(more) |-> IF i = 1 THEN more[1] ELSE h[i - 1] \o more[i]]
               /\ FlattenSeq(more) = h[Len(more)]
    BY <2>1, FlattenIsRecursive
  <2> QED BY <1>1, <2>2
<1>3. \A i \in 1 .. n + 1 : h[i] = IF i = 1 THEN more[1] ELSE h[i - 1] \o more[i]
  BY <1>2
<1>4. CASE n = 0
  <2>1. seqs = << >> /\ FlattenSeq(seqs) = << >>
    BY <1>4 DEF FlattenSeq
  <2>2. h[1] = x /\ FlattenSeq(more) = x
    BY <1>1, <1>2, <1>3, <1>4
  <2>3. << >> \o x = x
    OBVIOUS
  <2> QED BY <2>1, <2>2, <2>3 DEF more
<1>5. CASE n # 0
  <2>1. PICK g : /\ g = [i \in 1 .. n |-> IF i = 1 THEN seqs[1] ELSE g[i - 1] \o seqs[i]]
                 /\ FlattenSeq(seqs) = g[n]
    BY <1>1, <1>5, FlattenIsRecursive
  <2>2. \A i \in 1 .. n : g[i] = IF i = 1 THEN seqs[1] ELSE g[i - 1] \o seqs[i]
    BY <2>1
  <2> DEFINE Bad == {i \in 1 .. n : g[i] # h[i]}
  <2>3. Bad = {}
    <3> SUFFICES ASSUME Bad # {} PROVE FALSE
      OBVIOUS
    <3>1. PICK m \in Bad : \A k \in Bad : m <= k
      <4>1. Bad \in SUBSET Nat
        BY <1>1
      <4> HIDE DEF Bad
      <4> QED BY <4>1, LeastNatural
    <3>2. m \in 1 .. n /\ g[m] # h[m] /\ m \in 1 .. n + 1
      BY <1>1
    <3>3. m # 1
      BY <1>1, <1>3, <2>2, <3>2
    <3>4. m - 1 \in 1 .. n /\ ~(m <= m - 1)
      BY <1>1, <3>2, <3>3
    <3>5. g[m - 1] = h[m - 1]
      <4>1. m - 1 \notin Bad
        <5> HIDE DEF Bad
        <5> QED BY <3>1, <3>4
      <4> QED BY <4>1, <3>4
    <3> QED BY <1>1, <1>3, <2>2, <3>2, <3>3, <3>5
  <2>4. n \in 1 .. n /\ n + 1 \in 1 .. n + 1 /\ n + 1 # 1 /\ n + 1 - 1 = n
    BY <1>1, <1>5
  <2>5. h[n + 1] = h[n] \o x /\ h[n] = g[n]
    <3>1. g[n] = h[n]
      BY <2>3, <2>4
    <3> DEFINE k == n + 1
    <3>2. k \in 1 .. n + 1 /\ k # 1 /\ k - 1 = n /\ more[k] = x /\ k = n + 1
      BY <1>1, <2>4
    <3> HIDE DEF k, n
    <3>3. h[k] = h[k - 1] \o more[k]
      BY <1>3, <3>2
    <3> QED BY <3>1, <3>2, <3>3
  <2> QED BY <1>2, <2>1, <2>5 DEF more
<1> QED BY <1>4, <1>5

\* Of sequences over a set the whole is a sequence over that set.
LEMMA FlattenIsTyped ==
  ASSUME NEW X, NEW seqs \in Seq(Seq(X))
  PROVE  FlattenSeq(seqs) \in Seq(X) /\ FlattenSeq(<< >>) = << >>
<1>1. FlattenSeq(<< >>) = << >>
  BY DEF FlattenSeq
<1> DEFINE n == Len(seqs)
<1>2. n \in Nat /\ \A i \in 1 .. n : seqs[i] \in Seq(X)
  OBVIOUS
<1>3. CASE n = 0
  <2>1. seqs = << >> /\ << >> \in Seq(X)
    BY <1>3
  <2> QED BY <1>1, <2>1
<1>4. CASE n # 0
  <2>1. PICK g : /\ g = [i \in 1 .. n |-> IF i = 1 THEN seqs[1] ELSE g[i - 1] \o seqs[i]]
                 /\ FlattenSeq(seqs) = g[n]
    BY <1>2, <1>4, FlattenIsRecursive
  <2>2. \A i \in 1 .. n : g[i] = IF i = 1 THEN seqs[1] ELSE g[i - 1] \o seqs[i]
    BY <2>1
  <2> HIDE DEF n
  <2> DEFINE Bad == {i \in 1 .. n : g[i] \notin Seq(X)}
  <2>3. Bad = {}
    <3> SUFFICES ASSUME Bad # {} PROVE FALSE
      OBVIOUS
    <3>1. PICK m \in Bad : \A k \in Bad : m <= k
      <4>1. Bad \in SUBSET Nat
        BY <1>2
      <4> HIDE DEF Bad
      <4> QED BY <4>1, LeastNatural
    <3>2. m \in 1 .. n /\ g[m] \notin Seq(X)
      BY <1>2
    <3>3. m # 1
      BY <1>2, <2>2, <3>2
    <3>4. m - 1 \in 1 .. n /\ ~(m <= m - 1)
      BY <1>2, <3>2, <3>3
    <3>5. g[m - 1] \in Seq(X)
      <4>1. m - 1 \notin Bad
        <5> HIDE DEF Bad
        <5> QED BY <3>1, <3>4
      <4> QED BY <4>1, <3>4
    <3>6. g[m] = g[m - 1] \o seqs[m] /\ seqs[m] \in Seq(X)
      BY <1>2, <2>2, <3>2, <3>3
    <3> QED BY <3>2, <3>5, <3>6
  <2>4. n \in 1 .. n
    BY <1>2, <1>4
  <2> QED BY <1>1, <2>1, <2>3, <2>4
<1> QED BY <1>3, <1>4

-----------------------------------------------------------------------------
(* Betting: printed and read again.                                        *)

\* What the first n actions lead to follows from what the first n - 1 lead to.
LEMMA ReadStep ==
  ASSUME NEW actions, Len(actions) \in Nat
  PROVE  /\ actsRead(actions)[0] = {initState}
         /\ \A n \in 1 .. Len(actions) :
               actsRead(actions)[n] = readAct(actsRead(actions)[n - 1], actions[n])
<1> DEFINE row(g, i) == IF i = 0 THEN {initState} ELSE readAct(g[i - 1], actions[i])
           steps(g, m) == [i \in 0 .. m |-> row(g, i)]
           n == Len(actions)
           Bad == {m \in 0 .. n : ~\E g : g = steps(g, m)}
<1>1. Bad = {}
  <2> SUFFICES ASSUME Bad # {} PROVE FALSE
    OBVIOUS
  <2>1. PICK m \in Bad : \A k \in Bad : m <= k
    <3>1. Bad \in SUBSET Nat
      OBVIOUS
    <3> HIDE DEF Bad
    <3> QED BY <3>1, LeastNatural
  <2>2. m \in 0 .. n
    OBVIOUS
  <2>3. m # 0
    <3> DEFINE h == [i \in 0 .. 0 |-> {initState}]
    <3>1. h = steps(h, 0)
      OBVIOUS
    <3> HIDE DEF h
    <3>2. 0 \notin Bad
      BY <3>1
    <3> QED BY <3>2
  <2>4. PICK g : g = steps(g, m - 1)
    <3>1. m - 1 \in 0 .. n /\ m - 1 \notin Bad
      <4>1. m - 1 \in 0 .. n /\ ~(m <= m - 1)
        BY <2>2, <2>3
      <4> HIDE DEF Bad
      <4> QED BY <4>1, <2>1
    <3> HIDE DEF steps
    <3> QED BY <3>1
  <2> HIDE DEF n
  <2> DEFINE h == [i \in 0 .. m |-> IF i = m THEN row(g, m) ELSE g[i]]
  <2>5. \A i \in 0 .. m - 1 : g[i] = row(g, i)
    BY <2>4
  <2>6. \A i \in 0 .. m : i # 0 => h[i - 1] = g[i - 1]
    BY <2>2
  <2>7. h = [i \in 0 .. m |-> h[i]]
    OBVIOUS
  <2>8. ASSUME NEW i \in 0 .. m PROVE h[i] = row(h, i)
    <3>1. row(h, i) = row(g, i)
      BY <2>6
    <3>2. CASE i = m
      BY <3>1, <3>2
    <3>3. CASE i # m
      <4>1. i \in 0 .. m - 1 /\ h[i] = g[i]
        BY <3>3, <2>2
      <4> QED BY <4>1, <3>1, <2>5
    <3> QED BY <3>2, <3>3
  <2> HIDE DEF h
  <2>9. h = steps(h, m)
    BY <2>7, <2>8
  <2> HIDE DEF steps
  <2> QED BY <2>9 DEF n
<1>2. \E g : g = steps(g, n)
  <2>1. n \in 0 .. n
    OBVIOUS
  <2>2. n \notin Bad
    BY <1>1
  <2> HIDE DEF steps, n
  <2> QED BY <2>1, <2>2
<1> DEFINE after == CHOOSE g : g = steps(g, n)
<1>3. after = steps(after, n)
  <2> HIDE DEF steps
  <2> QED BY <1>2
<1>4. actsRead(actions) = after
  BY DEF actsRead
<1> HIDE DEF after
<1>5. \A i \in 0 .. n : after[i] = row(after, i)
  BY <1>3
<1> HIDE DEF steps, Bad
<1> QED BY <1>4, <1>5

\* One action more is one step more.
LEMMA ReadOneMore ==
  ASSUME NEW actions \in Seq(Action), NEW a \in Action
  PROVE  /\ actsRead(<< >>)[0] = {initState}
         /\ actsRead(Append(actions, a))[Len(Append(actions, a))] =
               readAct(actsRead(actions)[Len(actions)], a)
<1> DEFINE n == Len(actions)
           more == Append(actions, a)
<1>1. /\ n \in Nat /\ Len(more) = n + 1 /\ more[n + 1] = a
      /\ \A i \in 1 .. n : more[i] = actions[i]
  OBVIOUS
<1>2. actsRead(<< >>)[0] = {initState}
  <2>1. Len(<< >>) \in Nat
    OBVIOUS
  <2> QED BY <2>1, ReadStep
<1> HIDE DEF more
<1>3. /\ actsRead(more)[0] = {initState}
      /\ \A m \in 1 .. n + 1 : actsRead(more)[m] = readAct(actsRead(more)[m - 1], more[m])
  <2>1. Len(more) \in Nat
    BY <1>1
  <2> QED BY <2>1, <1>1, ReadStep
<1>4. /\ actsRead(actions)[0] = {initState}
      /\ \A m \in 1 .. n : actsRead(actions)[m] = readAct(actsRead(actions)[m - 1], actions[m])
  BY <1>1, ReadStep
<1> DEFINE Bad == {m \in 0 .. n : actsRead(more)[m] # actsRead(actions)[m]}
<1>5. Bad = {}
  <2> SUFFICES ASSUME Bad # {} PROVE FALSE
    OBVIOUS
  <2>1. PICK m \in Bad : \A k \in Bad : m <= k
    <3>1. Bad \in SUBSET Nat
      BY <1>1
    <3> HIDE DEF Bad
    <3> QED BY <3>1, LeastNatural
  <2>2. m \in 0 .. n /\ actsRead(more)[m] # actsRead(actions)[m] /\ m # 0
    BY <1>3, <1>4
  <2>3. m - 1 \in 0 .. n /\ ~(m <= m - 1) /\ m \in 1 .. n /\ m \in 1 .. n + 1
    BY <1>1, <2>2
  <2>4. actsRead(more)[m - 1] = actsRead(actions)[m - 1]
    <3>1. m - 1 \notin Bad
      <4> HIDE DEF Bad
      <4> QED BY <2>1, <2>3
    <3> QED BY <3>1, <2>3
  <2>5. more[m] = actions[m]
    BY <1>1, <2>3
  <2> HIDE DEF Bad, n
  <2> QED BY <1>3, <1>4, <2>2, <2>3, <2>4, <2>5
<1>6. actsRead(more)[n] = actsRead(actions)[n]
  <2>1. n \in 0 .. n
    BY <1>1
  <2> QED BY <1>5, <2>1
<1>7. actsRead(more)[n + 1] = readAct(actsRead(more)[n], a)
  <2> DEFINE k == n + 1
  <2>1. k \in 1 .. n + 1 /\ k - 1 = n /\ more[k] = a
    BY <1>1
  <2> HIDE DEF k
  <2>2. actsRead(more)[k] = readAct(actsRead(more)[k - 1], more[k])
    BY <1>3, <2>1
  <2> QED BY <2>1, <2>2 DEF k
<1> QED BY <1>1, <1>2, <1>6, <1>7 DEF more

\* The actions of a round as they are printed, and those of the first n rounds.
printedRound(action, r) == [k \in DOMAIN action[r] |-> printAction(action[r][k])]
printedRounds(action, n) == FlattenSeq([i \in 1 .. n |-> printedRound(action, i - 1)])

\* What is printed of rounds is a sequence of actions.
LEMMA RoundsAreTyped ==
  ASSUME NEW action \in [Rounds -> Seq(Entry)]
  PROVE  /\ \A r \in Rounds : printedRound(action, r) \in Seq(Action)
         /\ \A n \in 0 .. numRounds :
               /\ [i \in 1 .. n |-> printedRound(action, i - 1)] \in Seq(Seq(Action))
               /\ printedRounds(action, n) \in Seq(Action)
         /\ printedRounds(action, 0) = << >>
         /\ \A n \in 0 .. numRounds - 1 :
               printedRounds(action, n + 1) = printedRounds(action, n) \o printedRound(action, n)
<1>0. numRounds \in Nat
  BY GameAssumption
<1>1. ASSUME NEW r \in Rounds PROVE printedRound(action, r) \in Seq(Action)
  <2>1. action[r] \in Seq(Entry)
    OBVIOUS
  <2>2. ASSUME NEW e \in Entry PROVE printAction(e) \in Action
    BY DEF Entry, Action, ActionTypes, printAction
  <2> DEFINE q == action[r]
  <2>3. [k \in 1 .. Len(q) |-> printAction(q[k])] \in Seq(Action)
    <3>1. q \in Seq(Entry) /\ Len(q) \in Nat /\ \A k \in 1 .. Len(q) : q[k] \in Entry
      BY <2>1
    <3> HIDE DEF q
    <3>2. \A k \in 1 .. Len(q) : printAction(q[k]) \in Action
      BY <3>1, <2>2
    <3> QED BY <3>1, <3>2
  <2>4. DOMAIN action[r] = 1 .. Len(action[r])
    BY <2>1
  <2> QED BY <2>3, <2>4 DEF printedRound
<1> DEFINE rounds(n) == [i \in 1 .. n |-> printedRound(action, i - 1)]
<1>2. ASSUME NEW n \in 0 .. numRounds PROVE rounds(n) \in Seq(Seq(Action)) /\ Len(rounds(n)) = n
  <2>1. \A i \in 1 .. n : i - 1 \in Rounds
    BY <1>0 DEF Rounds
  <2>2. \A i \in 1 .. n : printedRound(action, i - 1) \in Seq(Action)
    BY <1>1, <2>1
  <2>3. n \in Nat
    BY <1>0
  <2> QED BY <2>2, <2>3
<1>3. \A n \in 0 .. numRounds : printedRounds(action, n) \in Seq(Action)
  BY <1>2, FlattenIsTyped DEF printedRounds
<1>4. printedRounds(action, 0) = << >>
  <2>1. rounds(0) = << >>
    OBVIOUS
  <2>2. FlattenSeq(<< >>) = << >>
    BY DEF FlattenSeq
  <2> QED BY <2>1, <2>2 DEF printedRounds
<1>5. ASSUME NEW n \in 0 .. numRounds - 1
      PROVE  printedRounds(action, n + 1) = printedRounds(action, n) \o printedRound(action, n)
  <2>1. n \in 0 .. numRounds /\ n \in Rounds /\ n \in Nat /\ n + 1 \in 0 .. numRounds
    BY <1>0 DEF Rounds
  <2>2. /\ rounds(n) \in Seq(Seq(Action)) /\ Len(rounds(n)) = n
        /\ rounds(n + 1) \in Seq(Seq(Action)) /\ Len(rounds(n + 1)) = n + 1
        /\ printedRound(action, n) \in Seq(Action)
    BY <2>1, <1>1, <1>2
  <2>3. rounds(n + 1) = Append(rounds(n), printedRound(action, n))
    <3> DEFINE k == n + 1
    <3>1. k - 1 = n /\ \A i \in 1 .. k : i # k => i \in 1 .. n
      BY <2>1
    <3>2. \A i \in 1 .. n : Append(rounds(n), printedRound(action, n))[i] = rounds(n)[i]
      <4> HIDE DEF rounds
      <4> QED BY <2>2
    <3>3. Append(rounds(n), printedRound(action, n))[k] = printedRound(action, n)
      <4> HIDE DEF rounds
      <4> QED BY <2>2
    <3>4. Append(rounds(n), printedRound(action, n)) \in Seq(Seq(Action))
          /\ Len(Append(rounds(n), printedRound(action, n))) = k
      <4> HIDE DEF rounds
      <4> QED BY <2>2
    <3>5. \A i \in 1 .. k : rounds(k)[i] = Append(rounds(n), printedRound(action, n))[i]
      <4> HIDE DEF k
      <4>1. ASSUME NEW i \in 1 .. k PROVE rounds(k)[i] = Append(rounds(n), printedRound(action, n))[i]
        <5>1. rounds(k)[i] = printedRound(action, i - 1)
          OBVIOUS
        <5>2. CASE i = k
          BY <5>1, <5>2, <3>1, <3>3
        <5>3. CASE i # k
          BY <5>1, <5>3, <3>1, <3>2
        <5> QED BY <5>2, <5>3
      <4> QED BY <4>1
    <3> HIDE DEF rounds
    <3> DEFINE more == Append(rounds(n), printedRound(action, n))
    <3>6. rounds(k) \in Seq(Seq(Action)) /\ Len(rounds(k)) = k /\ more \in Seq(Seq(Action)) /\ Len(more) = k
          /\ \A i \in 1 .. k : rounds(k)[i] = more[i]
      BY <2>2, <3>4, <3>5
    <3> HIDE DEF k, more
    <3>7. rounds(k) = more
      BY <3>6
    <3> QED BY <3>7 DEF k, more
  <2> HIDE DEF rounds
  <2>4. FlattenSeq(rounds(n + 1)) = FlattenSeq(rounds(n)) \o printedRound(action, n)
    BY <2>2, <2>3, FlattenOneMore
  <2> QED BY <2>4 DEF rounds, printedRounds
<1> QED BY <1>1, <1>2, <1>3, <1>4, <1>5

\* Rounds that have not begun add nothing.
LEMMA EmptyRoundsAddNothing ==
  ASSUME NEW action \in [Rounds -> Seq(Entry)], NEW n \in 0 .. numRounds, NEW m \in n .. numRounds,
         \A r \in Rounds : r >= n => action[r] = << >>
  PROVE  printedRounds(action, m) = printedRounds(action, n)
<1> DEFINE Bad == {k \in n .. numRounds : printedRounds(action, k) # printedRounds(action, n)}
<1>0. numRounds \in Nat /\ n \in Nat
  BY GameAssumption
<1> SUFFICES ASSUME Bad # {} PROVE FALSE
  OBVIOUS
<1>1. PICK k \in Bad : \A j \in Bad : k <= j
  <2>1. Bad \in SUBSET Nat
    BY <1>0
  <2> HIDE DEF Bad
  <2> QED BY <2>1, LeastNatural
<1>2. k \in n .. numRounds /\ k # n /\ printedRounds(action, k) # printedRounds(action, n)
  OBVIOUS
<1> DEFINE j == k - 1
<1>3. j \in n .. numRounds /\ ~(k <= j) /\ j \in 0 .. numRounds - 1 /\ j \in 0 .. numRounds
      /\ j \in Rounds /\ j >= n /\ k = j + 1
  BY <1>0, <1>2 DEF Rounds
<1>4. printedRounds(action, j) = printedRounds(action, n)
  <2>1. j \notin Bad
    <3> HIDE DEF Bad, j
    <3> QED BY <1>1, <1>3
  <2> QED BY <2>1, <1>3
<1> HIDE DEF j, Bad
<1>5. printedRound(action, j) = << >>
  <2>1. action[j] = << >>
    BY <1>3
  <2> QED BY <2>1 DEF printedRound
<1>6. printedRounds(action, k) = printedRounds(action, j) \o << >>
  BY <1>3, <1>5, RoundsAreTyped
<1>7. printedRounds(action, j) \in Seq(Action)
  BY <1>3, RoundsAreTyped
<1> QED BY <1>2, <1>4, <1>6, <1>7

\* Rounds are printed alike if they have the same entries.
LEMMA SameRounds ==
  ASSUME NEW action \in [Rounds -> Seq(Entry)], NEW other \in [Rounds -> Seq(Entry)],
         NEW n \in 0 .. numRounds, \A r \in Rounds : r < n => action[r] = other[r]
  PROVE  printedRounds(action, n) = printedRounds(other, n)
<1>0. numRounds \in Nat
  BY GameAssumption
<1>1. \A i \in 1 .. n : printedRound(action, i - 1) = printedRound(other, i - 1)
  <2>1. ASSUME NEW i \in 1 .. n PROVE printedRound(action, i - 1) = printedRound(other, i - 1)
    <3>1. i - 1 \in Rounds /\ i - 1 < n
      BY <1>0 DEF Rounds
    <3>2. action[i - 1] = other[i - 1]
      BY <3>1
    <3> QED BY <3>2 DEF printedRound
  <2> QED BY <2>1
<1>2. [i \in 1 .. n |-> printedRound(action, i - 1)] = [i \in 1 .. n |-> printedRound(other, i - 1)]
  BY <1>1
<1> QED BY <1>2 DEF printedRounds

\* An entry more in the round is printed as one action more at the end.
LEMMA StoredIsPrinted ==
  ASSUME NEW action \in [Rounds -> Seq(Entry)], NEW r \in Rounds, NEW e \in Entry
  PROVE  printedRounds([action EXCEPT ![r] = Append(@, e)], r + 1) =
            Append(printedRounds(action, r + 1), printAction(e))
<1> DEFINE other == [action EXCEPT ![r] = Append(@, e)]
           q == action[r]
<1>0. numRounds \in Nat /\ r \in Nat /\ r \in 0 .. numRounds /\ r \in 0 .. numRounds - 1
  BY GameAssumption DEF Rounds
<1>1. q \in Seq(Entry) /\ Len(q) \in Nat
  OBVIOUS
<1>2. other \in [Rounds -> Seq(Entry)] /\ other[r] = Append(q, e)
      /\ \A s \in Rounds : s # r => other[s] = action[s]
  OBVIOUS
<1> HIDE DEF other, q
<1>3. printedRound(other, r) = Append(printedRound(action, r), printAction(e))
  <2> DEFINE n == Len(q)
  <2>1. /\ DOMAIN q = 1 .. n /\ DOMAIN Append(q, e) = 1 .. n + 1
        /\ Append(q, e)[n + 1] = e /\ \A i \in 1 .. n : Append(q, e)[i] = q[i]
    BY <1>1
  <2>2. printedRound(action, r) = [k \in 1 .. n |-> printAction(q[k])]
    BY <2>1 DEF printedRound, q
  <2>3. printedRound(other, r) = [k \in 1 .. n + 1 |-> printAction(Append(q, e)[k])]
    BY <2>1, <1>2 DEF printedRound
  <2>4. printedRound(action, r) \in Seq(Action) /\ printedRound(other, r) \in Seq(Action)
    BY <1>2, RoundsAreTyped
  <2>5. printAction(e) \in Action
    BY DEF Entry, Action, ActionTypes, printAction
  <2> DEFINE a == printedRound(action, r)
             b == printedRound(other, r)
             x == printAction(e)
             k == n + 1
  <2>6. n \in Nat /\ Len(a) = n /\ Len(b) = k /\ k \in 1 .. k
    BY <1>1, <2>2, <2>3
  <2>7. b[k] = x /\ \A i \in 1 .. n : b[i] = a[i]
    <3>1. \A i \in 1 .. n : i \in 1 .. n + 1
      BY <2>6
    <3> QED BY <2>1, <2>2, <2>3, <2>6, <3>1
  <2>8. k = n + 1 /\ a \in Seq(Action) /\ b \in Seq(Action) /\ x \in Action
    BY <2>4, <2>5
  <2> HIDE DEF a, b, x, k, n
  <2>9. b = Append(a, x)
    BY <2>6, <2>7, <2>8
  <2> QED BY <2>9 DEF a, b, x
<1>4. printedRounds(other, r) = printedRounds(action, r)
  <2>1. \A s \in Rounds : s < r => other[s] = action[s]
    BY <1>0, <1>2 DEF Rounds
  <2> QED BY <2>1, <1>0, <1>2, SameRounds
<1>5. /\ printedRounds(other, r + 1) = printedRounds(other, r) \o printedRound(other, r)
      /\ printedRounds(action, r + 1) = printedRounds(action, r) \o printedRound(action, r)
  BY <1>0, <1>2, RoundsAreTyped
<1>6. printedRounds(action, r) \in Seq(Action) /\ printedRound(action, r) \in Seq(Action)
      /\ printAction(e) \in Action
  <2>1. printAction(e) \in Action
    BY DEF Entry, Action, ActionTypes, printAction
  <2> QED BY <2>1, <1>0, RoundsAreTyped
<1> DEFINE a == printedRounds(action, r)
           b == printedRound(action, r)
           x == printAction(e)
<1>7. a \in Seq(Action) /\ b \in Seq(Action) /\ x \in Action
  BY <1>6
<1>8. printedRounds(other, r + 1) = a \o Append(b, x) /\ printedRounds(action, r + 1) = a \o b
  BY <1>3, <1>4, <1>5
<1> HIDE DEF a, b, x
<1>9. a \o Append(b, x) = Append(a \o b, x)
  BY <1>7
<1> QED BY <1>8, <1>9 DEF other, x

\* Where EndBetting leaves the round: it never goes back.
LEMMA RoundNeverFalls ==
  ASSUME NEW t \in State
  PROVE  EndBetting(t).round \in Rounds /\ EndBetting(t).round >= t.round
<1>1. t.round \in Rounds /\ t.round \in Nat /\ numRounds \in Nat /\ numRounds - 1 \in Rounds
  BY GameAssumption DEF State, Rounds
<1>2. t = [maxSpent |-> t.maxSpent, minNoLimitRaiseTo |-> t.minNoLimitRaiseTo,
           spent |-> t.spent, action |-> t.action, round |-> t.round,
           finished |-> t.finished, playerFolded |-> t.playerFolded]
  BY DEF State
<1>3. EndBetting(t).round \in {t.round, numRounds - 1} \/ (RoundsLeft(t) /\ EndBetting(t).round = t.round + 1)
  BY <1>2 DEF EndBetting
<1> QED BY <1>1, <1>3 DEF RoundsLeft, Rounds

\* printBetting, in terms of the entries and the number of rounds.
LEMMA PrintedBetting ==
  ASSUME NEW s
  PROVE  FlattenSeq(printBetting(s)) = printedRounds(s.action, s.round + 1)
BY DEF printBetting, printedRounds, printedRound

\* The text of a state and the reader of it agree.
TextIsRead(s) == readBetting(printBetting(s)) = {s}

\* An empty text is read as the state a hand begins with.
LEMMA InitIsRead == TextIsRead(initState)
<1>1. initState.action \in [Rounds -> Seq(Entry)] /\ \A r \in Rounds : initState.action[r] = << >>
  BY InitStateFacts DEF initState, State
<1>2. 0 \in 0 .. numRounds /\ 1 \in 0 .. numRounds /\ 1 \in 0 .. numRounds
  BY GameAssumption
<1>3. printedRounds(initState.action, 1) = << >>
  <2>1. printedRounds(initState.action, 1) = printedRounds(initState.action, 0)
    BY <1>1, <1>2, EmptyRoundsAddNothing
  <2> QED BY <2>1, <1>1, RoundsAreTyped
<1>4. FlattenSeq(printBetting(initState)) = << >>
  BY <1>3, PrintedBetting DEF initState
<1>5. actsRead(<< >>)[0] = {initState} /\ Len(<< >>) = 0
  <2>1. Len(<< >>) \in Nat /\ Len(<< >>) = 0
    OBVIOUS
  <2> QED BY <2>1, ReadStep
<1> QED BY <1>4, <1>5 DEF TextIsRead, readBetting

\* Whatever a valid action makes of a state that has been read is read as well.
LEMMA ActionIsRead ==
  ASSUME NEW s, Ready(s), TextIsRead(s), NEW a \in Action, isValidAction(s, FALSE, a),
         printAction(a) = a
  PROVE  TextIsRead(doAction(s, a))
<1> DEFINE p == currentPlayer(s)
           t == StoreAction(s, a)
           e == doAction(s, a)
           entry == [type |-> a.type, size |-> a.size, player |-> p]
<1>1. /\ t \in State /\ ~t.finished /\ t.round = s.round /\ p \in Players
      /\ a.type \in {"fold", "call", "raise"} /\ \A r \in Rounds : r > t.round => t.action[r] = << >>
      /\ Stored(t, s, a, p, RaiseTo(s, p, a.size))
  BY StoreKeepsState
<1>2. t.action = [s.action EXCEPT ![s.round] = Append(@, entry)]
  BY <1>1 DEF Stored
<1>3. entry \in Entry /\ printAction(entry) = a
  <2>1. a = [type |-> a.type, size |-> a.size] /\ a.size \in Int
    BY DEF Action
  <2>2. printAction(entry) = printAction(a)
    BY DEF printAction
  <2> QED BY <2>1, <2>2, <1>1 DEF Entry
<1>4. s \in State /\ s.round \in Rounds /\ s.action \in [Rounds -> Seq(Entry)]
  BY DEF Ready, State
<1> HIDE DEF p, t, e, entry
<1>5. e = EndBetting(t) /\ e.action = t.action /\ e \in State /\ e.round \in Rounds /\ e.round >= t.round
  <2>1. e = EndBetting(t)
    BY DEF e, t, doAction
  <2>2. e \in State /\ e.action = t.action
    BY <2>1, <1>1, EndBettingFacts
  <2>3. e.round \in Rounds /\ e.round >= t.round
    BY <2>1, <1>1, RoundNeverFalls
  <2> QED BY <2>1, <2>2, <2>3
<1> DEFINE text == printedRounds(s.action, s.round + 1)
<1>6. printedRounds(t.action, s.round + 1) = Append(text, a)
  <2> DEFINE action == s.action
             r == s.round
  <2>1. action \in [Rounds -> Seq(Entry)] /\ r \in Rounds
    BY <1>4
  <2> HIDE DEF action, r
  <2>2. printedRounds([action EXCEPT ![r] = Append(@, entry)], r + 1) =
           Append(printedRounds(action, r + 1), printAction(entry))
    BY ONLY <1>3, <2>1, StoredIsPrinted
  <2> QED BY <1>2, <1>3, <2>2 DEF action, r
<1>7. printedRounds(e.action, e.round + 1) = Append(text, a)
  <2> DEFINE n == t.round + 1
             m == e.round + 1
  <2>1. n \in 0 .. numRounds /\ m \in n .. numRounds /\ t.round \in Nat
    <3>1. \A x, y \in Rounds : y >= x =>
             x + 1 \in 0 .. numRounds /\ y + 1 \in x + 1 .. numRounds /\ x \in Nat
      BY GameAssumption DEF Rounds
    <3> QED BY ONLY <1>1, <1>4, <1>5, <3>1
  <2>2. \A r \in Rounds : r >= n => t.action[r] = << >>
    <3>1. \A r \in Rounds : r >= t.round + 1 => r > t.round
      BY <2>1, GameAssumption DEF Rounds
    <3> QED BY <1>1, <3>1
  <2>3. t.action \in [Rounds -> Seq(Entry)]
    BY <1>1 DEF State
  <2> HIDE DEF n, m
  <2>4. printedRounds(t.action, m) = printedRounds(t.action, n)
    BY <2>1, <2>2, <2>3, EmptyRoundsAddNothing
  <2> QED BY <2>4, <1>1, <1>5, <1>6 DEF n, m
<1>8. text \in Seq(Action)
  <2>1. s.round + 1 \in 0 .. numRounds
    BY <1>4, GameAssumption DEF Rounds
  <2> QED BY <2>1, <1>4, RoundsAreTyped
<1> HIDE DEF text
<1>9. actsRead(text)[Len(text)] = {s}
  <2>1. FlattenSeq(printBetting(s)) = text
    BY PrintedBetting DEF text
  <2> QED BY <2>1 DEF TextIsRead, readBetting
<1>10. readAct({s}, a) = {e}
  BY DEF readAct, e
<1>11. readBetting(printBetting(e)) = actsRead(Append(text, a))[Len(Append(text, a))]
  <2>1. FlattenSeq(printBetting(e)) = Append(text, a)
    BY <1>7, PrintedBetting
  <2> QED BY <2>1 DEF readBetting
<1>12. actsRead(Append(text, a))[Len(Append(text, a))] = readAct(actsRead(text)[Len(text)], a)
  BY <1>8, ReadOneMore
<1> QED BY <1>9, <1>10, <1>11, <1>12 DEF TextIsRead, e

\* The invariant of what is read.
LEMMA TakeIsRead ==
  ASSUME TypeOK, BettingInv, TextIsRead(state), NEW a \in Action, printAction(a) = a, Take(a)
  PROVE  TextIsRead(state')
<1>1. isValidAction(state, FALSE, a) /\ state' = doAction(state, a)
  BY DEF Take
<1>2. Ready(state)
  BY <1>1 DEF TypeOK, BettingInv, Ready, isValidAction, stateFinished
<1> QED BY <1>1, <1>2, ActionIsRead

\* So is whatever a step leads to.
LEMMA NextIsRead ==
  TypeOK /\ BettingInv /\ TextIsRead(state) /\ [Next]_state => TextIsRead(state)'
<1> SUFFICES ASSUME TypeOK, BettingInv, TextIsRead(state), [Next]_state PROVE TextIsRead(state')
  OBVIOUS
<1>1. CASE Fold
  <2>1. [type |-> "fold", size |-> 0] \in Action
    BY DEF Action, ActionTypes
  <2>2. printAction([type |-> "fold", size |-> 0]) = [type |-> "fold", size |-> 0]
    BY DEF printAction
  <2> QED BY <1>1, <2>1, <2>2, TakeIsRead DEF Fold
<1>2. CASE Call
  <2>1. [type |-> "call", size |-> 0] \in Action
    BY DEF Action, ActionTypes
  <2>2. printAction([type |-> "call", size |-> 0]) = [type |-> "call", size |-> 0]
    BY DEF printAction
  <2> QED BY <1>2, <2>1, <2>2, TakeIsRead DEF Call
<1>3. CASE Raise
  <2>1. PICK size \in Sizes : Take([type |-> "raise", size |-> size])
    BY <1>3 DEF Raise
  <2>2. [type |-> "raise", size |-> size] \in Action
    BY SizesAreIntegers DEF Action, ActionTypes
  <2>3. printAction([type |-> "raise", size |-> size]) = [type |-> "raise", size |-> size]
    BY DEF printAction, Sizes
  <2> QED BY <2>1, <2>2, <2>3, TakeIsRead
<1>4. CASE Finished \/ UNCHANGED state
  BY <1>4 DEF Finished
<1> QED BY <1>1, <1>2, <1>3, <1>4 DEF Next

\* Of every state of a hand the betting that is printed is read as that state.
LEMMA TextsAreRead == Spec => [](TypeOK /\ BettingInv /\ TextIsRead(state))
<1>1. Init => TextIsRead(state)
  BY InitIsRead DEF Init
<1> QED BY <1>1, InitEstablishes, NextKeeps, NextIsRead, PTL DEF Spec

-----------------------------------------------------------------------------
(* Cards: printed and read again.                                          *)

\* Of a text that goes on with cards and then with something else, readCards reads
\* those cards.
LEMMA CardsAreFound ==
  ASSUME NEW T, NEW a \in Seq(T), NEW b \in Seq(T), NEW c \in Seq(T),
         \A i \in 1 .. Len(b) : isCard(b[i]),
         c # << >> => ~isCard(c[1]),
         NEW maxCards \in Nat, Len(b) <= maxCards
  PROVE  readCards((a \o b) \o c, Len(a) + 1, maxCards) = b
<1> DEFINE text == (a \o b) \o c
           at == Len(a) + 1
           n == Len(b)
           cardsTo(k) == \A i \in at .. at + k - 1 : i \in DOMAIN text /\ isCard(text[i])
           S == {k \in 0 .. maxCards : cardsTo(k)}
<1>1. Len(a) \in Nat /\ Len(b) \in Nat /\ Len(c) \in Nat /\ a \o b \in Seq(T)
      /\ Len(a \o b) = Len(a) + Len(b)
  BY ConcatProperties, LenProperties
<1>2. /\ text \in Seq(T) /\ Len(text) = Len(a) + Len(b) + Len(c) /\ DOMAIN text = 1 .. Len(text)
      /\ \A i \in 1 .. Len(text) : text[i] = IF i <= Len(a) + Len(b) THEN (a \o b)[i] ELSE c[i - (Len(a) + Len(b))]
  BY <1>1, ConcatProperties, LenProperties
<1>3. \A i \in 1 .. n : /\ at + i - 1 \in DOMAIN text /\ text[at + i - 1] = b[i]
  <2>1. ASSUME NEW i \in 1 .. n PROVE at + i - 1 \in DOMAIN text /\ text[at + i - 1] = b[i]
    <3> DEFINE j == at + i - 1
    <3>1. /\ j \in 1 .. Len(text) /\ j <= Len(a) + Len(b) /\ j \in 1 .. Len(a) + Len(b)
          /\ ~(j <= Len(a)) /\ j - Len(a) = i
      BY <1>1, <1>2
    <3> HIDE DEF j, text
    <3>2. text[j] = (a \o b)[j]
      BY <1>2, <3>1
    <3>3. (a \o b)[j] = b[j - Len(a)]
      BY <3>1, ConcatProperties
    <3> QED BY <1>2, <3>1, <3>2, <3>3 DEF j
  <2> QED BY <2>1
<1> HIDE DEF text
<1>4. n \in S
  <2>1. ASSUME NEW i \in at .. at + n - 1 PROVE i \in DOMAIN text /\ isCard(text[i])
    <3> DEFINE j == i - at + 1
    <3>1. j \in 1 .. n /\ at + j - 1 = i
      BY <1>1
    <3> HIDE DEF j
    <3> QED BY <1>3, <3>1
  <2> QED BY <2>1, <1>1
<1>5. ASSUME NEW k \in S PROVE k <= n
  <2> SUFFICES ASSUME k > n PROVE FALSE
    BY <1>1
  <2> DEFINE j == at + n
  <2>1. j \in at .. at + k - 1 /\ k \in Nat
    BY <1>1
  <2>2. j \in DOMAIN text /\ isCard(text[j])
    BY <2>1
  <2>3. j - (Len(a) + Len(b)) = 1 /\ ~(j <= Len(a) + Len(b)) /\ j \in Nat
    BY <1>1
  <2> HIDE DEF j, S
  <2>4. text[j] = c[1] /\ Len(c) # 0
    BY <1>1, <1>2, <2>2, <2>3
  <2>5. c # << >>
    BY <2>4
  <2> QED BY <2>2, <2>4, <2>5
<1>6. Max(S) = n
  <2>1. \A k \in S : k \in Int
    OBVIOUS
  <2> HIDE DEF S
  <2>2. n \in S /\ \A k \in S : n >= k
    BY <1>1, <1>4, <1>5, <2>1
  <2>3. Max(S) \in S /\ \A k \in S : Max(S) >= k
    BY <2>2 DEF Max
  <2> QED BY <2>1, <2>2, <2>3
<1>7. found(text, at, maxCards) = n
  BY <1>6 DEF found
<1>8. readCards(text, at, maxCards) = SubSeq(text, at, at + n - 1)
  BY <1>7 DEF readCards
<1>9. SubSeq(text, at, at + n - 1) = b
  <2> DEFINE last == at + n - 1
  <2>1. at \in Int /\ last \in Int /\ last - at + 1 = n /\ (at <= last <=> n > 0)
    BY <1>1
  <2>2. \A i \in at .. last : text[i] \in T
    <3>1. \A i \in at .. last : i \in 1 .. Len(text)
      BY <1>1, <1>2
    <3> QED BY <3>1, <1>2
  <2>4. \A i \in 1 .. n : text[at + i - 1] = b[i]
    BY <1>3
  <2> HIDE DEF at, last
  <2>3. /\ SubSeq(text, at, last) \in Seq(T) 
        /\ Len(SubSeq(text, at, last)) = IF at <= last THEN last - at + 1 ELSE 0
        /\ \A i \in 1 .. last - at + 1 : SubSeq(text, at, last)[i] = text[at + i - 1]
    BY <2>1, <2>2, SubSeqProperties
  <2> DEFINE q == SubSeq(text, at, last)
  <2>5. Len(q) = n /\ q \in Seq(T) /\ \A i \in 1 .. Len(q) : q[i] = b[i]
    BY <1>1, <2>1, <2>3, <2>4
  <2> HIDE DEF q
  <2>6. q = b
    BY <2>5, SeqEqual
  <2> QED BY <2>6 DEF last, q
<1> QED BY <1>8, <1>9 DEF text

\* What part i leaves follows from what the part before it has left.
LEMMA PartStep ==
  ASSUME NEW text, NEW from, NEW char, NEW maxCards, NEW last \in Nat
  PROVE  LET after == partsRead(text, from, char, maxCards, last)
         IN /\ after[0] = [at |-> from, parts |-> << >>]
            /\ \A i \in 0 .. last : after[i + 1] = readPart(text, char, maxCards, after[i], i)
<1> DEFINE row(g, i) == IF i = 0 THEN [at |-> from, parts |-> << >>]
                        ELSE readPart(text, char, maxCards, g[i - 1], i - 1)
           steps(g, m) == [i \in 0 .. m |-> row(g, i)]
           n == last + 1
           Bad == {m \in 0 .. n : ~\E g : g = steps(g, m)}
<1>1. Bad = {}
  <2> SUFFICES ASSUME Bad # {} PROVE FALSE
    OBVIOUS
  <2>1. PICK m \in Bad : \A k \in Bad : m <= k
    <3>1. Bad \in SUBSET Nat
      OBVIOUS
    <3> HIDE DEF Bad
    <3> QED BY <3>1, LeastNatural
  <2>2. m \in 0 .. n
    OBVIOUS
  <2>3. m # 0
    <3> DEFINE h == [i \in 0 .. 0 |-> [at |-> from, parts |-> << >>]]
    <3>1. h = steps(h, 0)
      OBVIOUS
    <3> HIDE DEF h
    <3>2. 0 \notin Bad
      BY <3>1
    <3> QED BY <3>2
  <2>4. PICK g : g = steps(g, m - 1)
    <3>1. m - 1 \in 0 .. n /\ m - 1 \notin Bad
      <4>1. m - 1 \in 0 .. n /\ ~(m <= m - 1)
        BY <2>2, <2>3
      <4> HIDE DEF Bad
      <4> QED BY <4>1, <2>1
    <3> HIDE DEF steps
    <3> QED BY <3>1
  <2> HIDE DEF n
  <2> DEFINE h == [i \in 0 .. m |-> IF i = m THEN row(g, m) ELSE g[i]]
  <2>5. \A i \in 0 .. m - 1 : g[i] = row(g, i)
    BY <2>4
  <2>6. \A i \in 0 .. m : i # 0 => h[i - 1] = g[i - 1]
    BY <2>2
  <2>7. h = [i \in 0 .. m |-> h[i]]
    OBVIOUS
  <2>8. ASSUME NEW i \in 0 .. m PROVE h[i] = row(h, i)
    <3>1. row(h, i) = row(g, i)
      BY <2>6
    <3>2. CASE i = m
      BY <3>1, <3>2
    <3>3. CASE i # m
      <4>1. i \in 0 .. m - 1 /\ h[i] = g[i]
        BY <3>3, <2>2
      <4> QED BY <4>1, <3>1, <2>5
    <3> QED BY <3>2, <3>3
  <2> HIDE DEF h
  <2>9. h = steps(h, m)
    BY <2>7, <2>8
  <2> HIDE DEF steps
  <2> QED BY <2>9 DEF n
<1>2. \E g : g = steps(g, n)
  <2>1. n \in 0 .. n
    OBVIOUS
  <2>2. n \notin Bad
    BY <1>1
  <2> HIDE DEF steps, n
  <2> QED BY <2>1, <2>2
<1> DEFINE after == CHOOSE g : g = steps(g, n)
<1>3. after = steps(after, n)
  <2> HIDE DEF steps
  <2> QED BY <1>2
<1>4. partsRead(text, from, char, maxCards, last) = after
  BY DEF partsRead
<1> HIDE DEF after
<1>5. \A i \in 0 .. n : after[i] = row(after, i)
  BY <1>3
<1>6. after[0] = [at |-> from, parts |-> << >>]
  BY <1>5
<1>7. ASSUME NEW i \in 0 .. last PROVE after[i + 1] = readPart(text, char, maxCards, after[i], i)
  <2> DEFINE k == i + 1
  <2>1. k \in 0 .. n /\ k # 0 /\ k - 1 = i
    OBVIOUS
  <2> HIDE DEF k, steps, Bad, n
  <2> QED BY <1>5, <2>1 DEF k
<1> HIDE DEF steps, Bad
<1> QED BY <1>4, <1>6, <1>7

\* Concatenation, by a name: lemmas about a name are easier to use.
joined(a, b) == a \o b

\* A part behind its separator.
behind(char, part) == <<sign(char)>> \o part

\* One part more.
OneMore(char, parts, n) ==
    separated(char, parts, n + 1) = joined(separated(char, parts, n), behind(char, parts[n + 1]))

\* Separated parts are a sequence, which begins as the first part and goes on with
\* one separator and one part at a time.
LEMMA SeparatedStep ==
  ASSUME NEW T, NEW char, sign(char) \in T, NEW last \in Nat,
         NEW parts \in [0 .. last -> Seq(T)]
  PROVE  /\ separated(char, parts, 0) = parts[0]
         /\ \A n \in 0 .. last : separated(char, parts, n) \in Seq(T)
         /\ \A n \in 0 .. last : n # last => OneMore(char, parts, n)
<1> DEFINE more(i) == behind(char, parts[i])
           seqs(n) == [i \in 1 .. n |-> more(i)]
<1>1. \A i \in 0 .. last : more(i) \in Seq(T)
  <2>1. <<sign(char)>> \in Seq(T)
    OBVIOUS
  <2> QED BY <2>1, ConcatProperties DEF behind
<1> HIDE DEF more
<1>2. \A n \in 0 .. last : seqs(n) \in Seq(Seq(T)) /\ Len(seqs(n)) = n
  BY <1>1
<1>3. seqs(0) = << >>
  OBVIOUS
<1>4. ASSUME NEW n \in 0 .. last - 1 PROVE seqs(n + 1) = Append(seqs(n), more(n + 1))
  <2> DEFINE k == n + 1
             a == seqs(n)
             b == seqs(k)
             x == more(k)
  <2>1. /\ n \in Nat /\ k \in Nat /\ k = n + 1 /\ a \in Seq(Seq(T)) /\ Len(a) = n
        /\ b \in Seq(Seq(T)) /\ Len(b) = k /\ x \in Seq(T)
    BY <1>1, <1>2
  <2>2. b[k] = x /\ \A i \in 1 .. n : b[i] = a[i]
    OBVIOUS
  <2> HIDE DEF a, b, x, k
  <2>3. b = Append(a, x)
    BY <2>1, <2>2
  <2> QED BY <2>3 DEF a, b, x, k
<1>5. ASSUME NEW n \in 0 .. last PROVE FlattenSeq(seqs(n)) \in Seq(T)
  BY <1>2, FlattenIsTyped
<1>6. ASSUME NEW n \in 0 .. last - 1 PROVE FlattenSeq(seqs(n + 1)) = FlattenSeq(seqs(n)) \o more(n + 1)
  <2>1. n \in 0 .. last /\ n + 1 \in 0 .. last
    OBVIOUS
  <2>2. seqs(n) \in Seq(Seq(T)) /\ more(n + 1) \in Seq(T)
    BY <1>1, <1>2, <2>1
  <2> HIDE DEF seqs
  <2> QED BY <1>4, <2>2, FlattenOneMore
<1>7. \A n \in 0 .. last : separated(char, parts, n) = parts[0] \o FlattenSeq(seqs(n))
  BY DEF separated, more, behind
<1> HIDE DEF seqs
<1>8. parts[0] \in Seq(T) /\ 0 \in 0 .. last
  OBVIOUS
<1>9. separated(char, parts, 0) = parts[0]
  <2>1. FlattenSeq(<< >>) = << >>
    BY DEF FlattenSeq
  <2> QED BY <2>1, <1>3, <1>7, <1>8, ConcatEmptySeq
<1>10. \A n \in 0 .. last : separated(char, parts, n) \in Seq(T)
  BY <1>5, <1>7, <1>8, ConcatProperties
<1>11. ASSUME NEW n \in 0 .. last - 1
       PROVE  separated(char, parts, n + 1) = separated(char, parts, n) \o more(n + 1)
  <2>1. n \in 0 .. last /\ n + 1 \in 0 .. last
    OBVIOUS
  <2>2. FlattenSeq(seqs(n)) \in Seq(T) /\ more(n + 1) \in Seq(T)
    BY <1>1, <1>5, <2>1
  <2>3. (parts[0] \o FlattenSeq(seqs(n))) \o more(n + 1) = parts[0] \o (FlattenSeq(seqs(n)) \o more(n + 1))
    <3>1. \A x, y, z \in Seq(T) : (x \o y) \o z = x \o (y \o z)
      BY ConcatAssociative
    <3> QED BY ONLY <1>8, <2>2, <3>1
  <2> QED BY <1>6, <1>7, <2>1, <2>3
<1>12. \A n \in 0 .. last : n # last => n \in 0 .. last - 1
  OBVIOUS
<1> QED BY <1>9, <1>10, <1>11, <1>12 DEF more, joined, OneMore

\* Behind its separator a part begins with that.
LEMMA SeparatorIsFirst ==
  ASSUME NEW T, NEW char, sign(char) \in T, NEW b \in Seq(T)
  PROVE  behind(char, b) \in Seq(T) /\ Len(behind(char, b)) >= 1 /\ behind(char, b)[1] = sign(char)
<1> DEFINE x == <<sign(char)>>
           y == x \o b
<1>1. x \in Seq(T) /\ Len(x) = 1 /\ x[1] = sign(char)
  OBVIOUS
<1> HIDE DEF x
<1>2. /\ y \in Seq(T) /\ Len(y) = Len(x) + Len(b)
      /\ \A i \in 1 .. Len(x) + Len(b) : y[i] = IF i <= Len(x) THEN x[i] ELSE b[i - Len(x)]
  BY <1>1, ConcatProperties
<1>3. Len(b) \in Nat
  BY LenProperties
<1> HIDE DEF y
<1>4. y[1] = sign(char) /\ Len(y) >= 1
  BY <1>1, <1>2, <1>3
<1>8. behind(char, b) = y
  BY DEF behind, x, y
<1> QED BY <1>2, <1>4, <1>8

\* Behind `front' the text ends or goes on with what is not a card.
GoesOn(T, text, front) ==
    \E c \in Seq(T) : text = front \o c /\ (c # << >> => ~isCard(c[1]))

\* So it does from before one of its pieces that does not begin with a card.
LEMMA GoesOnBefore ==
  ASSUME NEW T, NEW text, NEW p \in Seq(T), NEW s \in Seq(T), NEW y \in Seq(T),
         Len(y) >= 1, ~isCard(y[1]), GoesOn(T, text, joined(p, joined(s, y)))
  PROVE  GoesOn(T, text, joined(p, s))
<1>1. PICK c \in Seq(T) : text = (p \o (s \o y)) \o c
  BY DEF GoesOn, joined
<1> DEFINE d == y \o c
<1>2. d \in Seq(T) /\ d[1] = y[1]
  OBVIOUS
<1>3. (p \o (s \o y)) \o c = (p \o s) \o d
  OBVIOUS
<1> HIDE DEF d
<1>4. text = (p \o s) \o d
  BY <1>1, <1>3
<1> QED BY <1>2, <1>4 DEF GoesOn, joined

\* A text of separated parts goes on behind every one of them with no card.
LEMMA TextGoesOn ==
  ASSUME NEW T, NEW char, sign(char) \in T, ~isCard(sign(char)), NEW last \in Nat,
         NEW parts \in [0 .. last -> Seq(T)], NEW text, NEW pre \in Seq(T),
         GoesOn(T, text, joined(pre, separated(char, parts, last))),
         NEW n \in 0 .. last
  PROVE  GoesOn(T, text, joined(pre, separated(char, parts, n)))
<1> DEFINE sep(k) == separated(char, parts, k)
           Good(k) == GoesOn(T, text, joined(pre, sep(k)))
           Bad == {k \in 0 .. last : ~Good(last - k)}
<1>1. Good(last)
  OBVIOUS
<1>2. \A k \in 0 .. last : sep(k) \in Seq(T)
  BY SeparatedStep
<1>3. \A k \in 0 .. last - 1 : sep(k + 1) = joined(sep(k), behind(char, parts[k + 1]))
  <2>1. \A k \in 0 .. last : k # last => OneMore(char, parts, k)
    BY SeparatedStep
  <2>2. \A k \in 0 .. last - 1 : k \in 0 .. last /\ k # last
    OBVIOUS
  <2> QED BY <2>1, <2>2 DEF OneMore
<1> HIDE DEF sep
<1>4. ASSUME NEW k \in 0 .. last - 1, Good(k + 1) PROVE Good(k)
  <2> DEFINE s == sep(k)
             y == behind(char, parts[k + 1])
  <2>2. s \in Seq(T) /\ y \in Seq(T) /\ Len(y) >= 1 /\ y[1] = sign(char) /\ sep(k + 1) = joined(s, y)
    <3>1. k \in 0 .. last /\ k + 1 \in 0 .. last /\ parts[k + 1] \in Seq(T)
      OBVIOUS
    <3> QED BY <3>1, <1>2, <1>3, SeparatorIsFirst
  <2> HIDE DEF s, y
  <2>3. GoesOn(T, text, joined(pre, joined(s, y)))
    BY <1>4, <2>2
  <2>4. GoesOn(T, text, joined(pre, s))
    BY <2>2, <2>3, GoesOnBefore
  <2> QED BY <2>4 DEF s
<1> SUFFICES Bad = {}
  <2>1. last - n \in 0 .. last /\ last - (last - n) = n
    OBVIOUS
  <2>2. last - n \notin Bad => Good(n)
    BY <2>1
  <2> QED BY <2>2 DEF sep
<1> SUFFICES ASSUME Bad # {} PROVE FALSE
  OBVIOUS
<1>5. PICK k \in Bad : \A j \in Bad : k <= j
  <2>1. Bad \in SUBSET Nat
    OBVIOUS
  <2> HIDE DEF Bad
  <2> QED BY <2>1, LeastNatural
<1>6. k \in 0 .. last /\ ~Good(last - k)
  OBVIOUS
<1> HIDE DEF Good
<1>7. k # 0
  BY <1>1, <1>6
<1>8. k - 1 \in 0 .. last /\ ~(k <= k - 1) /\ last - k \in 0 .. last - 1 /\ last - (k - 1) = (last - k) + 1
  BY <1>6, <1>7
<1>9. Good(last - (k - 1))
  <2>1. k - 1 \notin Bad
    <3> HIDE DEF Bad
    <3> QED BY <1>5, <1>8
  <2> QED BY <2>1, <1>8
<1> QED BY <1>4, <1>6, <1>8, <1>9

\* No more than n tokens, all of them cards.
IsPart(T, b, n) == n \in Nat /\ b \in Seq(T) /\ Len(b) <= n /\ \A i \in 1 .. Len(b) : isCard(b[i])

\* Cards behind a text that goes on with something else are read.
LEMMA CardsAreRead ==
  ASSUME NEW T, NEW text, NEW a \in Seq(T), NEW b, NEW maxCards, IsPart(T, b, maxCards),
         GoesOn(T, text, joined(a, b))
  PROVE  readCards(text, Len(a) + 1, maxCards) = b
<1>1. PICK c \in Seq(T) : text = (a \o b) \o c /\ (c # << >> => ~isCard(c[1]))
  BY DEF GoesOn, joined
<1> QED BY <1>1, CardsAreFound DEF IsPart

\* A part behind its separator is one longer than the part.
LEMMA OneBehind ==
  ASSUME NEW T, NEW s \in Seq(T), NEW x \in Seq(T), Len(x) = 1
  PROVE  s \o x \in Seq(T) /\ Len(s \o x) = Len(s) + 1 /\ (s \o x)[Len(s) + 1] = x[1]
<1> DEFINE n == Len(s) + 1
<1>1. s \o x \in Seq(T) /\ Len(s \o x) = n
  OBVIOUS
<1>2. \A i \in 1 .. n : (s \o x)[i] = IF i <= Len(s) THEN s[i] ELSE x[i - Len(s)]
  BY ConcatProperties
<1>3. n \in 1 .. n /\ ~(n <= Len(s)) /\ n - Len(s) = 1
  <2>1. Len(s) \in Nat
    OBVIOUS
  <2> QED BY ONLY <2>1
<1> HIDE DEF n
<1>4. (s \o x)[n] = x[1]
  BY <1>2, <1>3
<1> QED BY <1>1, <1>4 DEF n

\* At `at' there are a separator and the part behind it.
PartAt(text, at, char, part, maxCards) ==
    charAt(text, at, char) /\ readCards(text, at + 1, maxCards) = part

\* The loop of the readers, once: it makes the part that is there.
LEMMA PartIsRead ==
  ASSUME NEW T, NEW char, NEW text, NEW p \in Seq(T), NEW s \in Seq(T), sign(char) \in T,
         NEW b, NEW maxCards, IsPart(T, b, maxCards),
         NEW more, more = joined(s, behind(char, b)),
         GoesOn(T, text, joined(p, more)),
         NEW at, at = Len(p) + Len(s) + 1
  PROVE  PartAt(text, at, char, b, maxCards)
<1> DEFINE x == <<sign(char)>>
           a == (p \o s) \o x
<1>0. b \in Seq(T)
  BY DEF IsPart
<1>1. x \in Seq(T) /\ Len(x) = 1 /\ x[1] = sign(char)
  OBVIOUS
<1>2. behind(char, b) = x \o b
  BY DEF behind
<1> HIDE DEF x
<1>3. p \o (s \o (x \o b)) = a \o b
  BY <1>0, <1>1
<1>4. a \in Seq(T) /\ Len(a) = Len(p) + Len(s) + 1 /\ a[Len(p) + Len(s) + 1] = x[1]
  <2> DEFINE ps == p \o s
  <2>1. ps \in Seq(T) /\ Len(ps) = Len(p) + Len(s) /\ Len(ps) \in Nat
    OBVIOUS
  <2> HIDE DEF ps
  <2>2. ps \o x \in Seq(T) /\ Len(ps \o x) = Len(ps) + 1 /\ (ps \o x)[Len(ps) + 1] = x[1]
    BY <1>1, <2>1, OneBehind
  <2> QED BY <2>1, <2>2 DEF ps
<1> HIDE DEF a
<1>5. GoesOn(T, text, joined(a, b))
  BY <1>2, <1>3 DEF joined
<1>6. readCards(text, Len(a) + 1, maxCards) = b
  BY <1>4, <1>5, CardsAreRead
<1>7. charAt(text, Len(a), char)
  <2>1. PICK c \in Seq(T) : text = (a \o b) \o c
    BY <1>5 DEF GoesOn, joined
  <2>2. Len(a) \in Nat /\ Len(a) >= 1
    BY <1>4
  <2>3. Len(a) \in DOMAIN text /\ text[Len(a)] = a[Len(a)]
    BY <1>0, <1>4, <2>1, <2>2
  <2>4. a[Len(a)] = sign(char)
    BY <1>1, <1>4
  <2> QED BY <2>3, <2>4 DEF charAt
<1>8. Len(a) = at
  BY <1>4
<1> QED BY <1>6, <1>7, <1>8 DEF PartAt

\* Behind `pre' the readers find the parts, as they were printed.
PartsAt(text, pre, char, parts, maxCards, last) ==
    partsRead(text, Len(pre) + 1, char, maxCards, last)[last + 1] =
        [at |-> Len(pre) + Len(separated(char, parts, last)) + 1,
         parts |-> [i \in 1 .. last + 1 |-> parts[i - 1]]]

\* The loop of the readers: of separated parts that are no longer than it asks for,
\* with no card behind them, it makes those parts.
LEMMA PartsAreRead ==
  ASSUME NEW T, NEW char, sign(char) \in T, ~isCard(sign(char)), NEW last \in Nat,
         NEW parts \in [0 .. last -> Seq(T)], NEW maxCards,
         \A i \in 0 .. last : IsPart(T, parts[i], maxCards[i]),
         NEW text, NEW pre \in Seq(T), GoesOn(T, text, joined(pre, separated(char, parts, last)))
  PROVE  PartsAt(text, pre, char, parts, maxCards, last)
<1> DEFINE after == partsRead(text, Len(pre) + 1, char, maxCards, last)
           sep(k) == separated(char, parts, k)
           made(k) == [i \in 1 .. k + 1 |-> parts[i - 1]]
           Good(k) == after[k + 1] = [at |-> Len(pre) + Len(sep(k)) + 1, parts |-> made(k)]
           Bad == {k \in 0 .. last : ~Good(k)}
<1>1. /\ after[0] = [at |-> Len(pre) + 1, parts |-> << >>]
      /\ \A i \in 0 .. last : after[i + 1] = readPart(text, char, maxCards, after[i], i)
  BY PartStep
<1>2. sep(0) = parts[0] /\ \A k \in 0 .. last : sep(k) \in Seq(T)
  BY SeparatedStep
<1>3. \A k \in 0 .. last : k # last => sep(k + 1) = joined(sep(k), behind(char, parts[k + 1]))
  <2>1. \A k \in 0 .. last : k # last => OneMore(char, parts, k)
    BY SeparatedStep
  <2> QED BY <2>1 DEF OneMore
<1>4. \A k \in 0 .. last : GoesOn(T, text, joined(pre, sep(k)))
  BY TextGoesOn
<1> HIDE DEF after, sep
<1>5. made(0) = Append(<< >>, parts[0])
  <2>1. made(0) = [i \in 1 .. 1 |-> parts[0]]
    OBVIOUS
  <2>2. Append(<< >>, parts[0]) = <<parts[0]>>
    OBVIOUS
  <2> QED BY <2>1, <2>2
<1>6. ASSUME NEW k \in 0 .. last - 1 PROVE made(k + 1) = Append(made(k), parts[k + 1])
  <2> DEFINE a == made(k)
             n == k + 1
             b == made(n)
             x == parts[n]
  <2>1. a \in Seq(Seq(T)) /\ Len(a) = n /\ b \in Seq(Seq(T)) /\ Len(b) = n + 1 /\ x \in Seq(T) /\ n \in Nat
    OBVIOUS
  <2>2. b[n + 1] = x /\ \A i \in 1 .. n : b[i] = a[i]
    OBVIOUS
  <2> HIDE DEF a, b, x, n
  <2>3. b = Append(a, x)
    BY <2>1, <2>2
  <2> QED BY <2>3 DEF a, b, x, n
<1>7. Good(0)
  <2>1. /\ 0 \in 0 .. last /\ parts[0] \in Seq(T) /\ Len(parts[0]) \in Nat
        /\ IsPart(T, parts[0], maxCards[0])
    OBVIOUS
  <2>2. GoesOn(T, text, joined(pre, parts[0]))
    BY <1>2, <1>4, <2>1
  <2> DEFINE b == parts[0]
             m == maxCards[0]
  <2> HIDE DEF b, m
  <2>3. readCards(text, Len(pre) + 1, m) = b
    BY <2>1, <2>2, CardsAreRead DEF b, m
  <2> DEFINE r == after[0]
  <2>7. r.at = Len(pre) + 1 /\ r.parts = << >>
    BY <1>1
  <2> HIDE DEF r
  <2>4. readPart(text, char, maxCards, r, 0) =
           [at |-> Len(pre) + 1 + Len(b), parts |-> Append(<< >>, b)]
    BY ONLY <2>3, <2>7 DEF readPart, m
  <2>5. Len(pre) + 1 + Len(b) = Len(pre) + Len(b) + 1
    BY <2>1 DEF b
  <2>6. after[0 + 1] = [at |-> Len(pre) + Len(b) + 1, parts |-> Append(<< >>, b)]
    BY <1>1, <2>1, <2>4, <2>5 DEF r
  <2> QED BY <1>2, <1>5, <2>6 DEF b
<1> HIDE DEF made
<1>8. ASSUME NEW k \in 0 .. last - 1, Good(k) PROVE Good(k + 1)
  <2> DEFINE n == k + 1
             s == sep(k)
             b == parts[n]
             m == maxCards[n]
             at == Len(pre) + Len(s) + 1
  <2>1. n \in 0 .. last /\ n # 0 /\ k \in 0 .. last /\ k # last /\ n = k + 1 /\ k \in Nat
    OBVIOUS
  <2>2. /\ b \in Seq(T) /\ IsPart(T, b, m)
        /\ s \in Seq(T) /\ sep(n) = joined(s, behind(char, b))
    BY <1>2, <1>3, <2>1
  <2>3. GoesOn(T, text, joined(pre, joined(s, behind(char, b))))
    BY <1>4, <2>1, <2>2
  <2> HIDE DEF s, b, m
  <2>4. charAt(text, at, char) /\ readCards(text, at + 1, m) = b
    <3> DEFINE more == sep(n)
    <3>1. more = joined(s, behind(char, b)) /\ GoesOn(T, text, joined(pre, more)) /\ at = Len(pre) + Len(s) + 1
      BY <2>2, <2>3
    <3> HIDE DEF more, at
    <3>2. PartAt(text, at, char, b, m)
      BY ONLY <2>2, <3>1, sign(char) \in T, pre \in Seq(T), PartIsRead
    <3> QED BY <3>2 DEF PartAt
  <2>5. after[n] = [at |-> at, parts |-> made(k)]
    BY <1>8 DEF s
  <2> HIDE DEF at
  <2> DEFINE r == after[n]
  <2>9. r.at = at /\ r.parts = made(k)
    BY <2>5
  <2> HIDE DEF r
  <2>6. readPart(text, char, maxCards, r, n) =
           [at |-> at + 1 + Len(b), parts |-> Append(made(k), b)]
    BY ONLY <2>1, <2>4, <2>9 DEF readPart, m
  <2>7. at + 1 + Len(b) = Len(pre) + Len(joined(s, behind(char, b))) + 1
    <3> DEFINE y == behind(char, b)
    <3>1. y \in Seq(T) /\ Len(y) = Len(b) + 1 /\ Len(b) \in Nat
      BY <2>2 DEF behind
    <3> HIDE DEF y
    <3>2. Len(joined(s, y)) = Len(s) + Len(y) /\ Len(s) \in Nat
      BY ONLY <2>2, <3>1, ConcatProperties, LenProperties DEF joined
    <3>3. Len(pre) \in Nat
      OBVIOUS
    <3> QED BY <3>1, <3>2, <3>3 DEF y, at
  <2>8. after[n + 1] = [at |-> Len(pre) + Len(sep(n)) + 1, parts |-> made(n)]
    <3>1. after[n + 1] = readPart(text, char, maxCards, after[n], n)
      BY <1>1, <2>1
    <3>2. made(n) = Append(made(k), b)
      BY <1>6 DEF b
    <3> QED BY <2>2, <2>6, <2>7, <3>1, <3>2 DEF r
  <2> QED BY <2>8
<1>9. Bad = {}
  <2> SUFFICES ASSUME Bad # {} PROVE FALSE
    OBVIOUS
  <2>1. PICK k \in Bad : \A j \in Bad : k <= j
    <3>1. Bad \in SUBSET Nat
      OBVIOUS
    <3> HIDE DEF Bad
    <3> QED BY <3>1, LeastNatural
  <2>2. k \in 0 .. last /\ ~Good(k)
    OBVIOUS
  <2> HIDE DEF Good
  <2>3. k # 0
    BY <1>7, <2>2
  <2> DEFINE j == k - 1
  <2>4. j \in 0 .. last /\ ~(k <= j) /\ j \in 0 .. last - 1 /\ k = j + 1
    BY <2>2, <2>3
  <2>5. Good(j)
    <3>1. j \notin Bad
      <4> HIDE DEF Bad, j
      <4> QED BY <2>1, <2>4
    <3> QED BY <3>1, <2>4
  <2> HIDE DEF j, Bad
  <2> QED BY <1>8, <2>2, <2>4, <2>5
<1>10. Good(last)
  <2>1. last \in 0 .. last
    OBVIOUS
  <2> HIDE DEF Good
  <2> QED BY <1>9, <2>1
<1> QED BY <1>10 DEF after, sep, made, PartsAt

\* What texts are made of.
Token == {cardAt(<<p, i>>) : p \in Players, i \in 1 .. numHoleCards}
            \cup {cardAt(<<i>>) : i \in 1 .. sumBoardCards(numRounds - 1)}
            \cup {sign("|"), sign("/")}

\* Separators are no cards, and cards are tokens.
LEMMA Tokens ==
  /\ sign("|") \in Token /\ sign("/") \in Token
  /\ ~isCard(sign("|")) /\ ~isCard(sign("/"))
  /\ \A p \in Players, i \in 1 .. numHoleCards : cardAt(<<p, i>>) \in Token
  /\ \A i \in 1 .. sumBoardCards(numRounds - 1) : cardAt(<<i>>) \in Token
  /\ \A place : isCard(cardAt(place))
<1>1. sign("|").kind = "|" /\ sign("/").kind = "/" /\ "|" # "card" /\ "/" # "card"
  BY DEF sign
<1>2. \A place : cardAt(place).kind = "card"
  BY DEF cardAt
<1>3. ~isCard(sign("|")) /\ ~isCard(sign("/")) /\ \A place : isCard(cardAt(place))
  BY <1>1, <1>2 DEF isCard
<1>4. sign("|") \in Token /\ sign("/") \in Token
  BY DEF Token
<1>5. \A p \in Players, i \in 1 .. numHoleCards : cardAt(<<p, i>>) \in Token
  BY DEF Token
<1>6. \A i \in 1 .. sumBoardCards(numRounds - 1) : cardAt(<<i>>) \in Token
  <2> DEFINE n == sumBoardCards(numRounds - 1)
             S == {cardAt(<<i>>) : i \in 1 .. n}
  <2> HIDE DEF n
  <2>1. ASSUME NEW i \in 1 .. n PROVE cardAt(<<i>>) \in S
    OBVIOUS
  <2>2. S \subseteq Token
    BY DEF Token, n
  <2> QED BY <2>1, <2>2 DEF n
<1> QED BY <1>3, <1>4, <1>5, <1>6

\* The cards of a round are those between two sums.
LEMMA BoardSums ==
  /\ \A r \in Rounds : sumBoardCards(r) \in Nat /\ numBoardCards[r] \in Nat /\ bcStart(r) \in Nat
  /\ sumBoardCards(0) = 0
  /\ \A r \in Rounds : r + 1 \in Rounds => sumBoardCards(r) = bcStart(r + 1)
  /\ \A r \in Rounds : sumBoardCards(r) = bcStart(r) + numBoardCards[r]
  /\ \A r \in Rounds : \A q \in 0 .. r : sumBoardCards(q) <= sumBoardCards(r)
<1> DEFINE f == [i \in 1 .. numRounds |-> numBoardCards[i - 1]]
<1>1. numRounds \in Nat /\ numRounds >= 1 /\ numBoardCards \in [Rounds -> Nat] /\ numBoardCards[0] = 0
  BY GameAssumption, CardsAssumption
<1>2. \A r \in Rounds : r \in Nat /\ r + 1 \in 1 .. numRounds /\ numBoardCards[r] \in Nat
  BY <1>1 DEF Rounds
<1>3. \A r \in Rounds : f[r + 1] = numBoardCards[r]
  <2>1. ASSUME NEW r \in Rounds PROVE f[r + 1] = numBoardCards[r]
    <3> DEFINE k == r + 1
    <3>1. k \in 1 .. numRounds /\ k - 1 = r
      BY <1>2
    <3> HIDE DEF k
    <3> QED BY <3>1 DEF k
  <2> QED BY <2>1
<1>4. \A r \in Rounds : sumBoardCards(r) = SumTo(f, r + 1)
  BY DEF sumBoardCards
<1> HIDE DEF f
<1>5. SumTo(f, 0) = 0 /\ \A r \in Rounds : sumBoardCards(r) = SumTo(f, r) + numBoardCards[r]
  BY <1>2, <1>3, <1>4, SumStep
<1>6. \A r \in Rounds : r + 1 \in Rounds => sumBoardCards(r + 1) = sumBoardCards(r) + numBoardCards[r + 1]
  BY <1>4, <1>5
<1>7. 0 \in Rounds /\ sumBoardCards(0) = 0
  BY <1>1, <1>5 DEF Rounds
<1> DEFINE Good(r) == sumBoardCards(r) \in Nat /\ \A q \in 0 .. r : sumBoardCards(q) <= sumBoardCards(r)
           Bad == {r \in Rounds : ~Good(r)}
<1>8. Bad = {}
  <2> SUFFICES ASSUME Bad # {} PROVE FALSE
    OBVIOUS
  <2>1. PICK r \in Bad : \A j \in Bad : r <= j
    <3>1. Bad \in SUBSET Nat
      BY <1>2
    <3> HIDE DEF Bad
    <3> QED BY <3>1, LeastNatural
  <2>2. r \in Rounds /\ ~Good(r)
    OBVIOUS
  <2>3. r # 0
    BY <1>7, <2>2
  <2> DEFINE j == r - 1
  <2>4. j \in Rounds /\ ~(r <= j) /\ r = j + 1 /\ j \in Nat /\ \A q \in 0 .. r : q = r \/ q \in 0 .. j
    BY <1>1, <2>2, <2>3 DEF Rounds
  <2>5. Good(j)
    <3>1. j \notin Bad
      <4> HIDE DEF Bad, j
      <4> QED BY <2>1, <2>4
    <3> HIDE DEF Good
    <3> QED BY <3>1, <2>4
  <2> HIDE DEF j, Bad
  <2>6. sumBoardCards(r) = sumBoardCards(j) + numBoardCards[r] /\ numBoardCards[r] \in Nat
    BY <1>2, <1>6, <2>2, <2>4
  <2>7. sumBoardCards(r) \in Nat /\ sumBoardCards(j) <= sumBoardCards(r) /\ sumBoardCards(j) \in Nat
    BY <2>5, <2>6
  <2>8. \A q \in 0 .. r : sumBoardCards(q) <= sumBoardCards(r)
    <3>1. ASSUME NEW q \in 0 .. j PROVE sumBoardCards(q) <= sumBoardCards(r)
      <4>1. sumBoardCards(q) <= sumBoardCards(j) /\ q \in Rounds
        <5>1. q \in Rounds
          BY <1>1, <2>4 DEF Rounds
        <5> QED BY <2>5, <5>1
      <4>2. q \in Rounds => sumBoardCards(q) \in Int
        <5>1. q \notin Bad
          <6>1. q < r /\ q \in Nat
            BY <2>4
          <6>2. q \in Bad => r <= q
            BY <2>1
          <6> QED BY <6>1, <6>2, <2>4
        <5> QED BY <5>1 DEF Bad
      <4> QED BY <4>1, <4>2, <2>7
    <3> QED BY <2>4, <2>7, <3>1
  <2> QED BY <2>2, <2>7, <2>8
<1>9. \A r \in Rounds : Good(r)
  BY <1>8
<1>10. \A r \in Rounds : SumTo(f, r) \in Nat
  <2>1. ASSUME NEW r \in Rounds PROVE SumTo(f, r) \in Nat
    <3>1. CASE r = 0
      BY <1>5, <3>1
    <3>2. CASE r # 0
      <4> DEFINE j == r - 1
      <4>1. j \in Rounds /\ r = j + 1
        BY <1>1, <3>2 DEF Rounds
      <4> HIDE DEF j
      <4>2. SumTo(f, r) = sumBoardCards(j)
        BY <1>4, <4>1
      <4> QED BY <1>9, <4>1, <4>2
    <3> QED BY <3>1, <3>2
  <2> QED BY <2>1
<1>11. \A r \in Rounds : bcStart(r) = SumTo(f, r)
  <2>1. ASSUME NEW r \in Rounds PROVE bcStart(r) = SumTo(f, r)
    <3>1. sumBoardCards(r) = SumTo(f, r) + numBoardCards[r] /\ SumTo(f, r) \in Nat /\ numBoardCards[r] \in Nat
      BY <1>2, <1>5, <1>10
    <3> QED BY <3>1 DEF bcStart
  <2> QED BY <2>1
<1>12. \A r \in Rounds : r + 1 \in Rounds => sumBoardCards(r) = bcStart(r + 1)
  BY <1>4, <1>11
<1> QED BY <1>2, <1>5, <1>7, <1>9, <1>10, <1>11, <1>12

\* A hand is cards only, as many as a reader asks for or none.
LEMMA HandsAreParts ==
  /\ \A p \in Players : /\ cards.hole[p] \in Seq(Token) /\ Len(cards.hole[p]) = numHoleCards
                        /\ IsPart(Token, cards.hole[p], numHoleCards)
  /\ IsPart(Token, << >>, numHoleCards)
<1>1. numHoleCards \in Nat
  BY CardsAssumption
<1>2. ASSUME NEW p \in Players
      PROVE  /\ cards.hole[p] \in Seq(Token) /\ Len(cards.hole[p]) = numHoleCards
             /\ IsPart(Token, cards.hole[p], numHoleCards)
  <2> DEFINE q == [i \in 1 .. numHoleCards |-> cardAt(<<p, i>>)]
  <2>1. cards.hole[p] = q
    BY DEF cards
  <2>2. q \in Seq(Token) /\ Len(q) = numHoleCards
    <3>1. \A i \in 1 .. numHoleCards : cardAt(<<p, i>>) \in Token
      BY Tokens
    <3> QED BY <1>1, <3>1
  <2>3. \A i \in 1 .. Len(q) : isCard(q[i])
    <3>1. \A i \in 1 .. numHoleCards : q[i] = cardAt(<<p, i>>)
      OBVIOUS
    <3> HIDE DEF q
    <3>2. ASSUME NEW i \in 1 .. Len(q) PROVE isCard(q[i])
      <4>1. i \in 1 .. numHoleCards
        BY <2>2
      <4>2. isCard(cardAt(<<p, i>>))
        BY Tokens
      <4> QED BY <3>1, <4>1, <4>2
    <3> QED BY <3>2
  <2> HIDE DEF q
  <2> QED BY <1>1, <2>1, <2>2, <2>3 DEF IsPart
<1>3. IsPart(Token, << >>, numHoleCards)
  <2>1. << >> \in Seq(Token) /\ Len(<< >>) = 0
    OBVIOUS
  <2> QED BY <1>1, <2>1 DEF IsPart
<1> QED BY <1>2, <1>3

\* The board of a round is cards only, as many as a reader asks for, and comes behind
\* that of the rounds before it.
LEMMA BoardIsParts ==
  /\ cards.board \in Seq(Token) /\ Len(cards.board) = sumBoardCards(numRounds - 1)
  /\ \A i \in 1 .. sumBoardCards(numRounds - 1) : cards.board[i] = cardAt(<<i>>)
  /\ \A r \in Rounds : /\ boardOfRound(cards, r) \in Seq(Token)
                       /\ Len(boardOfRound(cards, r)) = numBoardCards[r]
                       /\ IsPart(Token, boardOfRound(cards, r), numBoardCards[r])
                       /\ \A i \in 1 .. numBoardCards[r] :
                             boardOfRound(cards, r)[i] = cards.board[bcStart(r) + i]
  /\ boardOfRound(cards, 0) = << >>
  /\ \A r \in Rounds : r + 1 \in Rounds =>
        SubSeq(cards.board, 1, sumBoardCards(r + 1)) =
           SubSeq(cards.board, 1, sumBoardCards(r)) \o boardOfRound(cards, r + 1)
<1> DEFINE n == sumBoardCards(numRounds - 1)
           B == cards.board
<1>1. numRounds - 1 \in Rounds /\ n \in Nat /\ 0 \in Rounds /\ \A r \in Rounds : r \in 0 .. numRounds - 1
  BY GameAssumption, BoardSums DEF Rounds
<1>2. \A r \in Rounds : sumBoardCards(r) <= n /\ sumBoardCards(r) \in Nat /\ bcStart(r) \in Nat
                        /\ numBoardCards[r] \in Nat /\ sumBoardCards(r) = bcStart(r) + numBoardCards[r]
  BY <1>1, BoardSums
<1>3. B = [i \in 1 .. n |-> cardAt(<<i>>)]
  BY DEF cards
<1> HIDE DEF B, n
<1>4. /\ B \in Seq(Token) /\ Len(B) = n /\ \A i \in 1 .. n : B[i] = cardAt(<<i>>) /\ isCard(B[i])
  <2>1. \A i \in 1 .. n : cardAt(<<i>>) \in Token
    BY Tokens DEF n
  <2>2. B \in Seq(Token) /\ Len(B) = n
    BY <1>1, <1>3, <2>1
  <2>3. \A i \in 1 .. n : B[i] = cardAt(<<i>>)
    BY <1>3
  <2>4. \A i \in 1 .. n : isCard(cardAt(<<i>>))
    BY Tokens
  <2> QED BY <2>2, <2>3, <2>4
<1>5. ASSUME NEW r \in Rounds
      PROVE  LET b == boardOfRound(cards, r)
             IN /\ b \in Seq(Token) /\ Len(b) = numBoardCards[r] /\ IsPart(Token, b, numBoardCards[r])
                /\ \A i \in 1 .. numBoardCards[r] : b[i] = B[bcStart(r) + i]
  <2> DEFINE lo == bcStart(r) + 1
             hi == sumBoardCards(r)
             k == numBoardCards[r]
             b == SubSeq(B, lo, hi)
  <2>1. lo \in Int /\ hi \in Int /\ k \in Nat /\ hi - lo + 1 = k /\ lo >= 1 /\ hi <= n /\ (lo <= hi <=> k > 0)
    BY <1>2
  <2>2. boardOfRound(cards, r) = b
    BY DEF boardOfRound, B
  <2>3. \A i \in 1 .. k : lo + i - 1 = bcStart(r) + i
    BY <1>2
  <2> HIDE DEF lo, hi, k
  <2>4. \A i \in lo .. hi : i \in 1 .. n
    BY <1>1, <2>1
  <2>5. /\ b \in Seq(Token) /\ Len(b) = (IF lo <= hi THEN hi - lo + 1 ELSE 0)
        /\ \A i \in 1 .. hi - lo + 1 : b[i] = B[lo + i - 1]
    <3>1. \A i \in lo .. hi : B[i] \in Token
      BY <1>4, <2>4
    <3> QED BY <2>1, <3>1, SubSeqProperties
  <2> HIDE DEF b
  <2>6. Len(b) = k /\ \A i \in 1 .. k : b[i] = B[lo + i - 1]
    BY <2>1, <2>5
  <2>7. \A i \in 1 .. k : lo + i - 1 \in 1 .. n
    BY <1>1, <2>1
  <2>8. \A i \in 1 .. Len(b) : isCard(b[i])
    BY <1>4, <2>6, <2>7
  <2>9. \A i \in 1 .. k : b[i] = B[bcStart(r) + i]
    BY <2>3, <2>6
  <2>10. IsPart(Token, b, k)
    BY <2>1, <2>5, <2>6, <2>8 DEF IsPart
  <2> QED BY <2>2, <2>5, <2>6, <2>9, <2>10 DEF k
<1>6. boardOfRound(cards, 0) = << >>
  <2>1. Len(boardOfRound(cards, 0)) = 0 /\ boardOfRound(cards, 0) \in Seq(Token)
    BY <1>1, <1>5, CardsAssumption
  <2> QED BY <2>1
<1>7. ASSUME NEW r \in Rounds, r + 1 \in Rounds
      PROVE  SubSeq(B, 1, sumBoardCards(r + 1)) = SubSeq(B, 1, sumBoardCards(r)) \o boardOfRound(cards, r + 1)
  <2> DEFINE k == sumBoardCards(r)
             m == sumBoardCards(r + 1)
  <2>1. boardOfRound(cards, r + 1) = SubSeq(B, k + 1, m)
    BY <1>7, BoardSums DEF boardOfRound, B
  <2>2. k \in 1 - 1 .. Len(B) /\ m \in k .. Len(B) /\ 1 \in 1 .. Len(B) + 1
    <3>1. bcStart(r + 1) = k
      BY <1>7, BoardSums
    <3> QED BY <1>1, <1>2, <1>4, <1>7, <3>1
  <2> HIDE DEF k, m
  <2>3. SubSeq(B, 1, k) \o SubSeq(B, k + 1, m) = SubSeq(B, 1, m)
    BY <1>4, <2>2, ConcatAdjacentSubSeq
  <2> QED BY <2>1, <2>3 DEF k, m
<1> QED BY <1>4, <1>5, <1>6, <1>7 DEF B, n

\* A text of parts the first of which is empty is empty or begins with a separator.
LEMMA BeginsWithSeparator ==
  ASSUME NEW T, NEW char, sign(char) \in T, NEW last \in Nat,
         NEW parts \in [0 .. last -> Seq(T)], parts[0] = << >>, NEW n \in 0 .. last
  PROVE  separated(char, parts, n) = << >> \/ separated(char, parts, n)[1] = sign(char)
<1> DEFINE sep(k) == separated(char, parts, k)
           Good(k) == sep(k) = << >> \/ (Len(sep(k)) >= 1 /\ sep(k)[1] = sign(char))
           Bad == {k \in 0 .. last : ~Good(k)}
<1>1. sep(0) = << >> /\ \A k \in 0 .. last : sep(k) \in Seq(T)
  BY SeparatedStep
<1>2. \A k \in 0 .. last : k # last => OneMore(char, parts, k)
  BY SeparatedStep
<1> HIDE DEF sep
<1>3. Good(0)
  BY <1>1
<1>4. ASSUME NEW k \in 0 .. last - 1, Good(k) PROVE Good(k + 1)
  <2> DEFINE s == sep(k)
             y == behind(char, parts[k + 1])
  <2>1. k \in 0 .. last /\ k # last /\ parts[k + 1] \in Seq(T)
    OBVIOUS
  <2>2. s \in Seq(T) /\ y \in Seq(T) /\ Len(y) >= 1 /\ y[1] = sign(char)
    BY <1>1, <2>1, SeparatorIsFirst
  <2>3. sep(k + 1) = joined(s, y)
    BY <1>2, <2>1 DEF OneMore, sep
  <2>4. s = << >> \/ (Len(s) >= 1 /\ s[1] = sign(char))
    BY <1>4
  <2> HIDE DEF s, y
  <2>5. Len(s \o y) >= 1 /\ (s \o y)[1] = sign(char)
    <3>1. Len(s) \in Nat /\ Len(y) \in Nat
      BY <2>2
    <3>2. CASE s = << >>
      <4>1. s \o y = y
        BY <2>2, <3>2
      <4> QED BY <2>2, <4>1
    <3>3. CASE s # << >>
      BY <2>2, <2>4, <3>1, <3>3
    <3> QED BY <3>2, <3>3
  <2> QED BY <2>3, <2>5 DEF joined
<1>5. Bad = {}
  <2> SUFFICES ASSUME Bad # {} PROVE FALSE
    OBVIOUS
  <2>1. PICK k \in Bad : \A j \in Bad : k <= j
    <3>1. Bad \in SUBSET Nat
      OBVIOUS
    <3> HIDE DEF Bad
    <3> QED BY <3>1, LeastNatural
  <2>2. k \in 0 .. last /\ ~Good(k)
    OBVIOUS
  <2> HIDE DEF Good
  <2>3. k # 0
    BY <1>3, <2>2
  <2> DEFINE j == k - 1
  <2>4. j \in 0 .. last /\ ~(k <= j) /\ j \in 0 .. last - 1 /\ k = j + 1
    BY <2>2, <2>3
  <2>5. Good(j)
    <3>1. j \notin Bad
      <4> HIDE DEF Bad, j
      <4> QED BY <2>1, <2>4
    <3> QED BY <3>1, <2>4
  <2> HIDE DEF j, Bad
  <2> QED BY <1>4, <2>2, <2>4, <2>5
<1>6. Good(n)
  <2> HIDE DEF Good
  <2> QED BY <1>5
<1> QED BY <1>6 DEF sep

\* The boards of the rounds, one after the other, are the board so far.
LEMMA BoardIsWhole ==
  ASSUME NEW n \in Rounds
  PROVE  FlattenSeq([i \in 1 .. n + 1 |-> boardOfRound(cards, i - 1)]) =
            SubSeq(cards.board, 1, sumBoardCards(n))
<1> DEFINE b(r) == boardOfRound(cards, r)
           whole(k) == [i \in 1 .. k |-> b(i - 1)]
           flat(k) == FlattenSeq(whole(k))
           upTo(r) == SubSeq(cards.board, 1, sumBoardCards(r))
           Good(r) == flat(r + 1) = upTo(r)
           Bad == {r \in Rounds : ~Good(r)}
<1>1. numRounds \in Nat /\ numRounds >= 1
  BY GameAssumption
<1>2. b(0) = << >> /\ \A r \in Rounds : b(r) \in Seq(Token)
  BY BoardIsParts
<1>3. \A r \in Rounds : r + 1 \in Rounds => upTo(r + 1) = upTo(r) \o b(r + 1)
  BY BoardIsParts
<1>4. upTo(0) = << >>
  BY BoardSums, SubSeqEmpty
<1> HIDE DEF b, upTo
<1>5. ASSUME NEW k \in 0 .. numRounds PROVE whole(k) \in Seq(Seq(Token)) /\ Len(whole(k)) = k
  <2>1. \A i \in 1 .. k : i - 1 \in Rounds
    BY <1>1 DEF Rounds
  <2>2. \A i \in 1 .. k : b(i - 1) \in Seq(Token)
    BY <1>2, <2>1
  <2>3. k \in Nat
    BY <1>1
  <2> QED BY <2>2, <2>3
<1>6. ASSUME NEW r \in Rounds PROVE flat(r + 1) = flat(r) \o b(r)
  <2> DEFINE k == r + 1
             a == whole(r)
             c == whole(k)
             x == b(r)
  <2>1. /\ r \in 0 .. numRounds /\ k \in 0 .. numRounds /\ r \in Nat /\ k = r + 1
        /\ \A i \in 1 .. k : i # k => i \in 1 .. r
    BY <1>1 DEF Rounds
  <2>2. a \in Seq(Seq(Token)) /\ Len(a) = r /\ c \in Seq(Seq(Token)) /\ Len(c) = k /\ x \in Seq(Token)
    BY <1>2, <1>5, <2>1
  <2>3. c[k] = x /\ \A i \in 1 .. r : c[i] = a[i]
    BY <2>1
  <2> HIDE DEF a, c, x, k
  <2>4. c = Append(a, x)
    BY <2>1, <2>2, <2>3
  <2>5. FlattenSeq(Append(a, x)) = FlattenSeq(a) \o x
    BY <2>2, FlattenOneMore
  <2> QED BY <2>4, <2>5 DEF a, c, x, k
<1>7. flat(0) = << >>
  <2>1. whole(0) = << >>
    OBVIOUS
  <2>2. FlattenSeq(<< >>) = << >>
    BY DEF FlattenSeq
  <2> QED BY <2>1, <2>2
<1> HIDE DEF flat
<1>8. Good(0)
  <2>1. 0 \in Rounds
    BY <1>1 DEF Rounds
  <2>2. flat(0 + 1) = << >> \o << >>
    BY <1>2, <1>6, <1>7, <2>1
  <2>3. << >> \o << >> = << >>
    OBVIOUS
  <2> QED BY <1>4, <2>2, <2>3
<1>9. Bad = {}
  <2> SUFFICES ASSUME Bad # {} PROVE FALSE
    OBVIOUS
  <2>1. PICK r \in Bad : \A j \in Bad : r <= j
    <3>1. Bad \in SUBSET Nat
      BY <1>1 DEF Rounds
    <3> HIDE DEF Bad
    <3> QED BY <3>1, LeastNatural
  <2>2. r \in Rounds /\ ~Good(r)
    OBVIOUS
  <2>3. r # 0
    <3> HIDE DEF Good
    <3> QED BY <1>8, <2>2
  <2> DEFINE j == r - 1
  <2>4. j \in Rounds /\ ~(r <= j) /\ r = j + 1
    BY <1>1, <2>2, <2>3 DEF Rounds
  <2>5. Good(j)
    <3>1. j \notin Bad
      <4> HIDE DEF Bad, j
      <4> QED BY <2>1, <2>4
    <3> HIDE DEF Good
    <3> QED BY <3>1, <2>4
  <2> HIDE DEF j, Bad
  <2>6. flat(r + 1) = flat(r) \o b(r) /\ upTo(r) = upTo(j) \o b(r) /\ flat(r) = upTo(j)
    BY <1>3, <1>6, <2>2, <2>4, <2>5
  <2> QED BY <2>2, <2>6
<1>10. Good(n)
  <2> HIDE DEF Good
  <2> QED BY <1>9
<1> QED BY <1>10 DEF flat, upTo, b

\* Behind the hands the board of every round so far is read, and nothing else.
LEMMA BoardIsRead ==
  ASSUME NEW s, s.round \in Rounds, NEW pre \in Seq(Token),
         NEW text, text = joined(pre, printBoardCards(s, cards))
  PROVE  /\ readBoardCards(text, Len(pre) + 1, s).ok = TRUE
         /\ readBoardCards(text, Len(pre) + 1, s).board =
               SubSeq(cards.board, 1, sumBoardCards(s.round))
         /\ printBoardCards(s, cards) \in Seq(Token)
         /\ printBoardCards(s, cards) # << >> => printBoardCards(s, cards)[1] = sign("/")
<1> DEFINE last == s.round
           parts == [r \in 0 .. last |-> boardOfRound(cards, r)]
           board == separated("/", parts, last)
<1>1. last \in Nat /\ \A r \in 0 .. last : r \in Rounds
  BY GameAssumption DEF Rounds
<1>2. \A r \in 0 .. last : parts[r] = boardOfRound(cards, r)
  OBVIOUS
<1>3. printBoardCards(s, cards) = board
  BY DEF printBoardCards
<1>4. [i \in 1 .. last + 1 |-> parts[i - 1]] = [i \in 1 .. last + 1 |-> boardOfRound(cards, i - 1)]
  <2>1. \A i \in 1 .. last + 1 : i - 1 \in 0 .. last
    BY <1>1
  <2> QED BY <1>2, <2>1
<1>5. parts \in [0 .. last -> Seq(Token)] /\ parts[0] = << >>
  BY <1>1, <1>2, BoardIsParts
<1>6. \A r \in 0 .. last : IsPart(Token, parts[r], numBoardCards[r]) /\ Len(parts[r]) = numBoardCards[r]
  BY <1>1, <1>2, BoardIsParts
<1> HIDE DEF parts
<1>7. sign("/") \in Token /\ ~isCard(sign("/"))
  BY Tokens
<1> HIDE DEF last
<1>8. board \in Seq(Token) /\ (board = << >> \/ board[1] = sign("/"))
  <2>1. last \in 0 .. last
    BY <1>1
  <2> QED BY <1>1, <1>5, <1>7, <2>1, SeparatedStep, BeginsWithSeparator
<1> HIDE DEF board
<1>9. GoesOn(Token, text, joined(pre, board))
  <2>1. joined(pre, board) \in Seq(Token) /\ << >> \in Seq(Token)
    BY <1>8, ConcatProperties DEF joined
  <2>2. text = joined(pre, board) \o << >>
    BY <1>3, <2>1, ConcatEmptySeq
  <2> QED BY <2>1, <2>2 DEF GoesOn
<1> DEFINE r == partsRead(text, Len(pre) + 1, "/", numBoardCards, last)[last + 1]
<1>10. r = [at |-> Len(pre) + Len(board) + 1, parts |-> [i \in 1 .. last + 1 |-> parts[i - 1]]]
  <2>1. GoesOn(Token, text, joined(pre, separated("/", parts, last)))
    BY <1>9 DEF board
  <2>2. PartsAt(text, pre, "/", parts, numBoardCards, last)
    BY <1>1, <1>5, <1>6, <1>7, <2>1, PartsAreRead
  <2> QED BY <2>2 DEF board, PartsAt
<1> HIDE DEF r
<1>11. readBoardCards(text, Len(pre) + 1, s) =
          [at |-> r.at, board |-> FlattenSeq(r.parts),
           ok |-> \A k \in 0 .. last : Len(r.parts[k + 1]) = numBoardCards[k]]
  BY DEF readBoardCards, r, last
<1>12. FlattenSeq(r.parts) = SubSeq(cards.board, 1, sumBoardCards(last))
  <2>1. r.parts = [i \in 1 .. last + 1 |-> boardOfRound(cards, i - 1)]
    BY <1>4, <1>10
  <2>2. last \in Rounds
    BY DEF last
  <2>3. FlattenSeq([i \in 1 .. last + 1 |-> boardOfRound(cards, i - 1)]) = SubSeq(cards.board, 1, sumBoardCards(last))
    BY <2>2, BoardIsWhole
  <2> QED BY <2>1, <2>3
<1>13. \A k \in 0 .. last : Len(r.parts[k + 1]) = numBoardCards[k]
  <2>1. ASSUME NEW k \in 0 .. last PROVE Len(r.parts[k + 1]) = numBoardCards[k]
    <3> DEFINE i == k + 1
    <3>1. i \in 1 .. last + 1 /\ i - 1 = k
      BY <1>1
    <3> HIDE DEF i
    <3>2. r.parts[i] = parts[k]
      BY <1>10, <3>1
    <3> QED BY <1>6, <3>2 DEF i
  <2> QED BY <2>1
<1>14. readBoardCards(text, Len(pre) + 1, s).ok = TRUE
  BY <1>11, <1>13
<1>15. readBoardCards(text, Len(pre) + 1, s).board = SubSeq(cards.board, 1, sumBoardCards(last))
  BY <1>11, <1>12
<1> QED BY <1>3, <1>8, <1>14, <1>15 DEF last

\* Hands with a "|" between them are read, those that are left out as well, if the
\* board comes behind them.
LEMMA HandsAreRead ==
  ASSUME NEW hole \in [Players -> Seq(Token)],
         \A p \in Players : hole[p] = << >> \/ hole[p] = cards.hole[p],
         NEW rest \in Seq(Token), rest # << >> => rest[1] = sign("/"),
         NEW text, text = joined(separated("|", hole, numPlayers - 1), rest)
  PROVE  /\ readHoleCards(text).ok = TRUE /\ readHoleCards(text).hole = hole
         /\ readHoleCards(text).at = Len(separated("|", hole, numPlayers - 1)) + 1
         /\ separated("|", hole, numPlayers - 1) \in Seq(Token)
<1> DEFINE last == numPlayers - 1
           maxCards == [p \in Players |-> numHoleCards]
           told == separated("|", hole, last)
           r == partsRead(text, 1, "|", maxCards, last)[last + 1]
<1>1. last \in Nat /\ last + 1 = numPlayers /\ Players = 0 .. last /\ last \in 0 .. last
  BY GameAssumption DEF Players
<1>2. \A p \in Players : maxCards[p] = numHoleCards
  OBVIOUS
<1>3. readHoleCards(text) =
         [at |-> r.at, hole |-> [p \in Players |-> r.parts[p + 1]],
          ok |-> \A p \in Players : Len(r.parts[p + 1]) \in {0, numHoleCards}]
  BY <1>1 DEF readHoleCards
<1> HIDE DEF last, maxCards
<1>4. sign("|") \in Token /\ ~isCard(sign("|")) /\ ~isCard(sign("/"))
  BY Tokens
<1>5. hole \in [0 .. last -> Seq(Token)] /\ \A p \in 0 .. last : IsPart(Token, hole[p], maxCards[p])
  <2>1. ASSUME NEW p \in Players PROVE IsPart(Token, hole[p], numHoleCards)
    BY HandsAreParts
  <2> QED BY <1>1, <1>2, <2>1
<1>6. told \in Seq(Token)
  BY <1>1, <1>4, <1>5, SeparatedStep
<1>7. << >> \in Seq(Token) /\ Len(<< >>) + 1 = 1 /\ joined(<< >>, told) = told
  BY <1>6, ConcatEmptySeq DEF joined
<1>8. GoesOn(Token, text, joined(<< >>, told))
  <2>1. text = told \o rest
    BY DEF joined, last
  <2>2. rest # << >> => ~isCard(rest[1])
    BY <1>4
  <2> HIDE DEF told
  <2> QED BY <1>7, <2>1, <2>2 DEF GoesOn
<1>9. PartsAt(text, << >>, "|", hole, maxCards, last)
  BY <1>1, <1>4, <1>5, <1>7, <1>8, PartsAreRead
<1>10. r = [at |-> Len(<< >>) + Len(told) + 1, parts |-> [i \in 1 .. last + 1 |-> hole[i - 1]]]
  BY <1>7, <1>9 DEF PartsAt
<1> HIDE DEF told, r
<1>11. \A p \in Players : r.parts[p + 1] = hole[p]
  <2>1. ASSUME NEW p \in Players PROVE r.parts[p + 1] = hole[p]
    <3> DEFINE i == p + 1
    <3>1. i \in 1 .. last + 1 /\ i - 1 = p
      BY <1>1
    <3> HIDE DEF i
    <3> QED BY <1>10, <3>1 DEF i
  <2> QED BY <2>1
<1>12. readHoleCards(text).at = Len(told) + 1
  <2>1. Len(told) \in Nat /\ Len(<< >>) = 0
    BY <1>6, LenProperties
  <2> QED BY <1>3, <1>10, <2>1
<1>13. readHoleCards(text).hole = hole
  <2>1. [p \in Players |-> r.parts[p + 1]] = [p \in Players |-> hole[p]]
    BY <1>11
  <2> QED BY <1>3, <2>1
<1>14. readHoleCards(text).ok = TRUE
  <2>1. \A p \in Players : Len(r.parts[p + 1]) \in {0, numHoleCards}
    <3>1. Len(<< >>) = 0 /\ \A p \in Players : Len(cards.hole[p]) = numHoleCards
      BY HandsAreParts
    <3> QED BY <1>11, <3>1
  <2> QED BY <1>3, <2>1
<1> QED BY <1>6, <1>12, <1>13, <1>14 DEF told, last

\* Whatever hands are printed, they and the board so far are read again.
LEMMA CardsAreReadBack ==
  ASSUME NEW s, s.round \in Rounds, NEW hole \in [Players -> Seq(Token)],
         \A p \in Players : hole[p] = << >> \/ hole[p] = cards.hole[p]
  PROVE  /\ readCardsOf(separated("|", hole, numPlayers - 1) \o printBoardCards(s, cards), s) =
               {[hole |-> hole, board |-> SubSeq(cards.board, 1, sumBoardCards(s.round))]}
<1> DEFINE told == separated("|", hole, numPlayers - 1)
           rest == printBoardCards(s, cards)
           text == joined(told, rest)
           h == readHoleCards(text)
           b == readBoardCards(text, h.at, s)
           board == SubSeq(cards.board, 1, sumBoardCards(s.round))
<1>1. rest \in Seq(Token) /\ (rest # << >> => rest[1] = sign("/"))
  <2>1. << >> \in Seq(Token) /\ joined(<< >>, rest) = joined(<< >>, rest)
    OBVIOUS
  <2> QED BY <2>1, BoardIsRead
<1> HIDE DEF rest
<1>2. h.ok = TRUE /\ h.hole = hole /\ h.at = Len(told) + 1 /\ told \in Seq(Token)
  BY <1>1, HandsAreRead
<1> HIDE DEF h, told
<1>3. b.ok = TRUE /\ b.board = board
  <2>1. text = joined(told, printBoardCards(s, cards))
    BY DEF rest
  <2> HIDE DEF text
  <2>2. readBoardCards(text, Len(told) + 1, s).ok = TRUE /\ readBoardCards(text, Len(told) + 1, s).board = board
    BY <1>2, <2>1, BoardIsRead
  <2> QED BY <1>2, <2>2
<1> HIDE DEF board
<1>4. readCardsOf(text, s) = {[hole |-> h.hole, board |-> b.board] : ok \in {h.ok /\ b.ok} \cap {TRUE}}
  BY DEF readCardsOf, h
<1> HIDE DEF b, text
<1>5. {h.ok /\ b.ok} \cap {TRUE} = {TRUE}
  BY <1>2, <1>3
<1>6. readCardsOf(text, s) = {[hole |-> hole, board |-> board]}
  BY <1>2, <1>3, <1>4, <1>5
<1> QED BY <1>6 DEF text, joined, told, rest, board

\* Cards are printed as at a showdown: numFolded leaves more than one exactly if
\* more than one is left.
LEMMA ShowdownPrints ==
  ASSUME TypeOK, NEW p \in Players, NEW q \in Players
  PROVE  prints(state, p, q) <=> q = p \/ (IsShowdown /\ ~state.playerFolded[q])
<1> DEFINE F == {r \in Players : state.playerFolded[r]}
           in == {r \in Players : ~state.playerFolded[r]}
<1>1. IsFiniteSet(Players) /\ Cardinality(Players) = numPlayers /\ numPlayers \in Nat
  <2>1. numPlayers \in Nat /\ 0 \in Int /\ numPlayers - 1 \in Int /\ 0 <= numPlayers - 1
    BY GameAssumption
  <2>2. numPlayers - 1 - 0 + 1 = numPlayers
    BY <2>1
  <2> QED BY <2>1, <2>2, FS_Interval DEF Players
<1>2. in = Players \ F /\ Players \cap F = F
  OBVIOUS
<1>3. Cardinality(in) = numPlayers - Cardinality(F) /\ Cardinality(F) \in Nat
  <2>1. F \in SUBSET Players
    OBVIOUS
  <2> HIDE DEF F, in
  <2>2. Cardinality(Players \ F) = Cardinality(Players) - Cardinality(Players \cap F)
    BY <1>1, FS_Difference
  <2> QED BY <1>1, <1>2, <2>1, <2>2, PlayersAreFinite
<1>4. numFolded(state) = Cardinality(F)
  BY DEF numFolded
<1>5. Cardinality(in) \in Nat /\ (Cardinality(in) # 0 \/ state.playerFolded[q])
  <2>1. IsFiniteSet(in) /\ Cardinality(in) \in Nat
    <3>1. in \in SUBSET Players
      OBVIOUS
    <3> QED BY <3>1, PlayersAreFinite
  <2>2. in # {} \/ state.playerFolded[q]
    OBVIOUS
  <2> HIDE DEF in
  <2> QED BY <2>1, <2>2, FS_EmptySet
<1>6. IsShowdown <=> state.finished /\ Cardinality(in) > 1
  BY DEF IsShowdown
<1> HIDE DEF F, in
<1>7. ~state.playerFolded[q] => (numFolded(state) + 1 # numPlayers <=> Cardinality(in) > 1)
  BY <1>1, <1>3, <1>4, <1>5
<1> QED BY <1>6, <1>7 DEF prints

\* The hands that player p is sent, and all hands.
handsTold(p) == [q \in Players |-> IF prints(state, p, q) THEN cards.hole[q] ELSE << >>]

\* They are hands, whole or left out, and one's own is never left out.
LEMMA HandsToldAreHands ==
  ASSUME NEW p \in Players
  PROVE  /\ handsTold(p) \in [Players -> Seq(Token)]
         /\ \A q \in Players : /\ handsTold(p)[q] = << >> \/ handsTold(p)[q] = cards.hole[q]
                               /\ handsTold(p)[q] # << >> => prints(state, p, q)
         /\ handsTold(p)[p] = cards.hole[p]
         /\ cards.hole \in [Players -> Seq(Token)]
<1>1. \A q \in Players : cards.hole[q] \in Seq(Token)
  BY HandsAreParts
<1>2. << >> \in Seq(Token)
  OBVIOUS
<1>3. cards.hole = [q \in Players |-> cards.hole[q]]
  BY DEF cards
<1>4. prints(state, p, p)
  BY DEF prints
<1>5. cards.hole \in [Players -> Seq(Token)]
  <2> DEFINE hole == cards.hole
  <2>1. hole = [q \in Players |-> hole[q]] /\ \A q \in Players : hole[q] \in Seq(Token)
    BY <1>1, <1>3
  <2> HIDE DEF hole
  <2>2. hole \in [Players -> Seq(Token)]
    BY <2>1
  <2> QED BY <2>2 DEF hole
<1> QED BY <1>1, <1>2, <1>4, <1>5 DEF handsTold

\* The state in a text is the state it was printed of.
LEMMA StateIsReadBack ==
  ASSUME TypeOK, TextIsRead(state), NEW p \in Players,
         NEW m, m = [viewingPlayer |-> p, handId |-> 0, state |-> state]
  PROVE  readMatchState(printMatchState(m)) = {m} /\ matchStatesEqual(m, m)
<1>1. readBetting(printBetting(state)) = {state}
  BY DEF TextIsRead
<1> DEFINE text == printMatchState(m)
<1>2. text.viewingPlayer = p /\ text.handId = 0 /\ text.betting = printBetting(state)
  BY DEF printMatchState
<1> HIDE DEF text
<1>3. readMatchState(text) = {[viewingPlayer |-> p, handId |-> 0, state |-> s] : s \in {state}}
  BY <1>1, <1>2 DEF readMatchState
<1>4. readMatchState(text) = {m}
  BY <1>3
<1>5. matchStatesEqual(m, m)
  BY DEF matchStatesEqual, statesEqualCommon, SameAction
<1> QED BY <1>4, <1>5 DEF text

\* The board as it is read is the board so far.
LEMMA SameBoardIsRead ==
  ASSUME TypeOK, NEW hole,
         NEW c, c = [hole |-> hole, board |-> SubSeq(cards.board, 1, sumBoardCards(state.round))]
  PROVE  sameBoard(state, cards, c)
<1> DEFINE n == sumBoardCards(state.round)
           B == cards.board
           b == SubSeq(B, 1, n)
<1>1. state.round \in Rounds
  BY DEF TypeOK, State
<1>2. B \in Seq(Token) /\ n \in Nat /\ n <= Len(B)
  <2>1. numRounds - 1 \in Rounds /\ state.round \in 0 .. numRounds - 1
    BY <1>1, GameAssumption DEF Rounds
  <2> QED BY <1>1, <2>1, BoardIsParts, BoardSums
<1> HIDE DEF B, n
<1>3. \A i \in 1 .. n : b[i] = B[i]
  BY <1>2
<1>4. c.board = b
  BY DEF B, n
<1> HIDE DEF b
<1>5. \A i \in 1 .. n : B[i] = c.board[i]
  BY <1>3, <1>4
<1> QED BY <1>5 DEF sameBoard, B, n

\* Betting and cards together.
LEMMA ReadsBackIfTextIsRead ==
  ASSUME TypeOK, TextIsRead(state)
  PROVE  ReadsBack
<1> SUFFICES ASSUME NEW p \in Players
             PROVE  LET m == [viewingPlayer |-> p, handId |-> 0, state |-> state]
                        read == readMatchState(printMatchState(m))
                        board == SubSeq(cards.board, 1, sumBoardCards(state.round))
                        told == {p} \cup {q \in Players : IsShowdown /\ ~state.playerFolded[q]}
                    IN /\ read = {m}
                       /\ readCardsOf(cardsSent(p), state) =
                             {[hole |-> [q \in Players |-> IF q \in told THEN cards.hole[q] ELSE << >>],
                               board |-> board]}
                       /\ \A n \in read, c \in readCardsOf(cardsSent(p), state) :
                             matchStatesEqual(m, n) /\ sameBoard(state, cards, c) /\ c.hole[p] = cards.hole[p]
                       /\ readCardsOf(cardsLogged, state) = {[hole |-> cards.hole, board |-> board]}
                       /\ \A c \in readCardsOf(cardsLogged, state) :
                             sameBoard(state, cards, c) /\ sameHoleCards(cards, c)
  BY DEF ReadsBack
<1> DEFINE m == [viewingPlayer |-> p, handId |-> 0, state |-> state]
           read == readMatchState(printMatchState(m))
           board == SubSeq(cards.board, 1, sumBoardCards(state.round))
           told == {p} \cup {q \in Players : IsShowdown /\ ~state.playerFolded[q]}
           hole == [q \in Players |-> IF q \in told THEN cards.hole[q] ELSE << >>]
           sent == [hole |-> hole, board |-> board]
           logged == [hole |-> cards.hole, board |-> board]
<1>1. state.round \in Rounds
  BY DEF TypeOK, State
<1>2. read = {m} /\ matchStatesEqual(m, m)
  BY StateIsReadBack
<1>3. hole = handsTold(p)
  <2>1. \A q \in Players : q \in told <=> prints(state, p, q)
    BY ShowdownPrints
  <2> HIDE DEF told
  <2> QED BY <2>1 DEF handsTold
<1>4. /\ handsTold(p) \in [Players -> Seq(Token)]
      /\ \A q \in Players : handsTold(p)[q] = << >> \/ handsTold(p)[q] = cards.hole[q]
      /\ cards.hole \in [Players -> Seq(Token)] /\ handsTold(p)[p] = cards.hole[p]
  BY HandsToldAreHands
<1>5. readCardsOf(cardsSent(p), state) = {sent}
  <2>1. cardsSent(p) = separated("|", handsTold(p), numPlayers - 1) \o printBoardCards(state, cards)
    BY DEF cardsSent, printPlayerHoleCards, handsTold
  <2>2. readCardsOf(separated("|", handsTold(p), numPlayers - 1) \o printBoardCards(state, cards), state)
          = {[hole |-> handsTold(p), board |-> board]}
    BY <1>1, <1>4, CardsAreReadBack
  <2> HIDE DEF hole
  <2> QED BY <1>3, <2>1, <2>2
<1>6. readCardsOf(cardsLogged, state) = {logged}
  <2>1. cardsLogged = separated("|", cards.hole, numPlayers - 1) \o printBoardCards(state, cards)
    BY DEF cardsLogged, printAllHoleCards
  <2> QED BY <1>1, <1>4, <2>1, CardsAreReadBack
<1>7. sameBoard(state, cards, sent) /\ sameBoard(state, cards, logged)
  BY SameBoardIsRead
<1>8. sent.hole[p] = cards.hole[p]
  <2>1. sent.hole = hole
    OBVIOUS
  <2> QED BY <1>3, <1>4, <2>1
<1>9. sameHoleCards(cards, logged)
  BY DEF sameHoleCards
<1> HIDE DEF read, m, sent, logged
<1>10. \A n \in read, c \in readCardsOf(cardsSent(p), state) :
          matchStatesEqual(m, n) /\ sameBoard(state, cards, c) /\ c.hole[p] = cards.hole[p]
  BY <1>2, <1>5, <1>7, <1>8
<1>11. \A c \in readCardsOf(cardsLogged, state) : sameBoard(state, cards, c) /\ sameHoleCards(cards, c)
  BY <1>6, <1>7, <1>9
<1> QED BY <1>2, <1>5, <1>6, <1>10, <1>11 DEF read, m, sent, logged

\* In every hand, all that a text tells of a state is read back as it was, by its
\* player and by whoever reads the log (game.c, readMatchState and matchStatesEqual).
THEOREM AllIsReadBack == Spec => []ReadsBack
BY TextsAreRead, ReadsBackIfTextIsRead, PTL

\* Every token of the first parts of a text is a separator or in one of the parts.
OfParts(char, parts, n) ==
    \A token \in Range(separated(char, parts, n)) :
        token = sign(char) \/ \E i \in 0 .. n : token \in Range(parts[i])

\* So it is with separated parts of any number.
LEMMA TokensAreOfParts ==
  ASSUME NEW T, NEW char, sign(char) \in T, NEW last \in Nat,
         NEW parts \in [0 .. last -> Seq(T)], NEW n \in 0 .. last
  PROVE  OfParts(char, parts, n)
<1> DEFINE Good(k) == OfParts(char, parts, k)
           Bad == {k \in 0 .. last : ~Good(k)}
<1>1. Good(0)
  <2>1. separated(char, parts, 0) = parts[0]
    BY SeparatedStep
  <2>2. 0 \in 0 .. 0
    OBVIOUS
  <2> QED BY <2>1, <2>2 DEF OfParts
<1>2. ASSUME NEW k \in 0 .. last - 1, Good(k) PROVE Good(k + 1)
  <2> DEFINE j == k + 1
             s == separated(char, parts, k)
             part == parts[j]
             y == behind(char, part)
  <2>1. k \in 0 .. last /\ k # last /\ part \in Seq(T) /\ j \in 0 .. j /\ \A i \in 0 .. k : i \in 0 .. j
    OBVIOUS
  <2>2. s \in Seq(T)
    BY <2>1, SeparatedStep
  <2>3. OneMore(char, parts, k)
    BY <2>1, SeparatedStep
  <2>4. separated(char, parts, j) = joined(s, y)
    BY <2>3 DEF OneMore
  <2>5. \A token \in Range(s) : token = sign(char) \/ \E i \in 0 .. k : token \in Range(parts[i])
    BY <1>2 DEF OfParts
  <2> HIDE DEF s, part, j
  <2>6. y \in Seq(T) /\ Range(y) = Range(<<sign(char)>>) \cup Range(part)
    <3>1. <<sign(char)>> \in Seq(T)
      OBVIOUS
    <3> QED BY <2>1, <3>1, RangeConcatenation, ConcatProperties DEF behind
  <2>7. Range(<<sign(char)>>) = {sign(char)}
    BY DEF Range
  <2> HIDE DEF y
  <2>8. Range(s \o y) = Range(s) \cup Range(y)
    <3>1. s \in Seq(T) /\ y \in Seq(T)
      BY <2>2, <2>6
    <3> QED BY ONLY <3>1, RangeConcatenation
  <2>9. \A token \in Range(joined(s, y)) : token = sign(char) \/ \E i \in 0 .. j : token \in Range(parts[i])
    BY <2>1, <2>5, <2>6, <2>7, <2>8 DEF joined, part
  <2>10. Good(j)
    BY <2>4, <2>9 DEF OfParts
  <2> QED BY <2>10 DEF j
<1>3. Bad = {}
  <2> SUFFICES ASSUME Bad # {} PROVE FALSE
    OBVIOUS
  <2>1. PICK k \in Bad : \A j \in Bad : k <= j
    <3>1. Bad \in SUBSET Nat
      OBVIOUS
    <3> HIDE DEF Bad
    <3> QED BY <3>1, LeastNatural
  <2>2. k \in 0 .. last /\ ~Good(k)
    OBVIOUS
  <2> HIDE DEF Good
  <2>3. k # 0
    BY <1>1, <2>2
  <2> DEFINE j == k - 1
  <2>4. j \in 0 .. last /\ ~(k <= j) /\ j \in 0 .. last - 1 /\ k = j + 1
    BY <2>2, <2>3
  <2>5. Good(j)
    <3>1. j \notin Bad
      <4> HIDE DEF Bad, j
      <4> QED BY <2>1, <2>4
    <3> QED BY <3>1, <2>4
  <2> HIDE DEF j, Bad
  <2> QED BY <1>2, <2>2, <2>4, <2>5
<1> QED BY <1>3

\* Cards in different places are different, and none of them is a separator.
LEMMA CardsDiffer ==
  /\ \A a, b : cardAt(a) = cardAt(b) => a = b
  /\ \A place : cardAt(place) # sign("|") /\ cardAt(place) # sign("/")
  /\ \A p, i, j : <<p, i>> # <<j>>
<1>1. ASSUME NEW a, NEW b, cardAt(a) = cardAt(b) PROVE a = b
  <2>1. cardAt(a).place = a /\ cardAt(b).place = b
    BY DEF cardAt
  <2> QED BY <1>1, <2>1
<1>2. \A place : cardAt(place) # sign("|") /\ cardAt(place) # sign("/")
  <2>1. ASSUME NEW place PROVE cardAt(place) # sign("|") /\ cardAt(place) # sign("/")
    <3>1. isCard(cardAt(place)) /\ ~isCard(sign("|")) /\ ~isCard(sign("/"))
      BY Tokens
    <3> QED BY <3>1
  <2> QED BY <2>1
<1>3. ASSUME NEW p, NEW i, NEW j PROVE <<p, i>> # <<j>>
  <2>1. Len(<<p, i>>) = 2 /\ Len(<<j>>) = 1
    OBVIOUS
  <2> QED BY <2>1
<1> QED BY <1>1, <1>2, <1>3

\* A card of a hand is in no other hand and not on the board.
LEMMA HandsAreApart ==
  /\ \A p, q \in Players : \A card \in Range(cards.hole[p]) : card \in Range(cards.hole[q]) => p = q
  /\ \A p \in Players : \A card \in Range(cards.hole[p]) :
        /\ card \notin Range(cards.board)
        /\ card # sign("|") /\ card # sign("/")
  /\ \A card \in Range(cards.board) : card # sign("|") /\ card # sign("/")
<1>1. ASSUME NEW p \in Players, NEW card \in Range(cards.hole[p])
      PROVE  \E i : card = cardAt(<<p, i>>)
  <2>1. cards.hole[p] = [i \in 1 .. numHoleCards |-> cardAt(<<p, i>>)]
    BY DEF cards
  <2> QED BY <1>1, <2>1 DEF Range
<1>2. ASSUME NEW card \in Range(cards.board) PROVE \E i : card = cardAt(<<i>>)
  <2> DEFINE n == sumBoardCards(numRounds - 1)
             B == cards.board
  <2>1. B = [i \in 1 .. n |-> cardAt(<<i>>)]
    BY DEF cards
  <2> HIDE DEF n, B
  <2>2. card \in Range(B)
    BY <1>2 DEF B
  <2> QED BY <2>1, <2>2 DEF Range
<1>3. ASSUME NEW p \in Players, NEW q \in Players, NEW card \in Range(cards.hole[p]),
             card \in Range(cards.hole[q])
      PROVE  p = q
  <2>1. PICK i : card = cardAt(<<p, i>>)
    BY <1>1
  <2>2. PICK j : card = cardAt(<<q, j>>)
    BY <1>1, <1>3
  <2>3. <<p, i>> = <<q, j>>
    BY <2>1, <2>2, CardsDiffer
  <2> QED BY <2>3
<1>4. ASSUME NEW p \in Players, NEW card \in Range(cards.hole[p])
      PROVE  /\ card \notin Range(cards.board)
             /\ card # sign("|") /\ card # sign("/")
  <2>1. PICK i : card = cardAt(<<p, i>>)
    BY <1>1
  <2>2. ASSUME card \in Range(cards.board) PROVE FALSE
    <3>1. PICK j : card = cardAt(<<j>>)
      BY <1>2, <2>2
    <3>2. <<p, i>> = <<j>>
      BY <2>1, <3>1, CardsDiffer
    <3> QED BY <3>2, CardsDiffer
  <2> QED BY <2>1, <2>2, CardsDiffer
<1>5. \A card \in Range(cards.board) : card # sign("|") /\ card # sign("/")
  BY <1>2, CardsDiffer
<1> QED BY <1>3, <1>4, <1>5

\* The cards of a round are of the board so far.
LEMMA RoundsAreOfBoard ==
  ASSUME NEW last \in Rounds, NEW r \in 0 .. last, NEW card \in Range(boardOfRound(cards, r))
  PROVE  card \in Range(SubSeq(cards.board, 1, sumBoardCards(last))) /\ card \in Range(cards.board)
<1> DEFINE n == sumBoardCards(last)
           B == cards.board
           b == SubSeq(B, 1, n)
           lo == bcStart(r)
           k == numBoardCards[r]
           part == boardOfRound(cards, r)
<1>1. r \in Rounds /\ numRounds - 1 \in Rounds /\ last \in 0 .. numRounds - 1
  BY GameAssumption DEF Rounds
<1>2. B \in Seq(Token) /\ n \in Nat /\ n <= Len(B)
  BY <1>1, BoardIsParts, BoardSums
<1>3. lo \in Nat /\ k \in Nat /\ lo + k <= n
  <2>1. sumBoardCards(r) <= n /\ sumBoardCards(r) = lo + k
    BY <1>1, BoardSums
  <2> QED BY <1>1, <2>1, BoardSums
<1>4. part \in Seq(Token) /\ Len(part) = k /\ \A i \in 1 .. k : part[i] = B[lo + i]
  BY <1>1, BoardIsParts
<1>5. card \in Range(part)
  OBVIOUS
<1> HIDE DEF n, B, lo, k, part
<1>6. PICK i \in 1 .. k : card = part[i]
  <2>1. DOMAIN part = 1 .. k
    BY <1>3, <1>4
  <2> QED BY <1>5, <2>1 DEF Range
<1>7. card = B[lo + i] /\ lo + i \in 1 .. n /\ lo + i \in 1 .. Len(B)
  <2>1. Len(B) \in Nat
    BY <1>2
  <2> QED BY <1>2, <1>3, <1>4, <1>6, <2>1
<1>8. DOMAIN b = 1 .. n /\ b[lo + i] = B[lo + i] /\ DOMAIN B = 1 .. Len(B)
  BY <1>2, <1>7
<1> HIDE DEF b
<1>9. card \in Range(b) /\ card \in Range(B)
  <2> DEFINE j == lo + i
  <2>1. j \in DOMAIN b /\ j \in DOMAIN B /\ card = b[j] /\ card = B[j]
    BY <1>7, <1>8
  <2> HIDE DEF j
  <2> QED BY <2>1 DEF Range
<1> QED BY <1>9 DEF b, B, n

\* A card in a text is of a hand that prints lets through, or of the board of a round
\* that has begun.
LEMMA NothingIsTold ==
  ASSUME TypeOK
  PROVE  NothingHiddenIsTold
<1> SUFFICES ASSUME NEW p \in Players, NEW q \in Players, NEW card \in Range(cardsSent(p))
             PROVE  /\ card \in Range(cards.hole[q]) =>
                          p = q \/ (IsShowdown /\ ~state.playerFolded[q])
                    /\ card \in Range(cards.board) =>
                          card \in Range(SubSeq(cards.board, 1, sumBoardCards(state.round)))
  BY DEF NothingHiddenIsTold
<1> DEFINE last == numPlayers - 1
           hole == handsTold(p)
           board == [r \in 0 .. state.round |-> boardOfRound(cards, r)]
           hands == separated("|", hole, last)
           rest == separated("/", board, state.round)
<1>1. last \in Nat /\ last \in 0 .. last /\ Players = 0 .. last
  BY GameAssumption DEF Players
<1>2. state.round \in Rounds /\ state.round \in Nat /\ state.round \in 0 .. state.round
      /\ \A r \in 0 .. state.round : r \in Rounds
  <2>1. state.round \in Rounds
    BY DEF TypeOK, State
  <2> QED BY <2>1, GameAssumption DEF Rounds
<1>3. sign("|") \in Token /\ sign("/") \in Token
  BY Tokens
<1>4. hole \in [0 .. last -> Seq(Token)]
  BY <1>1, HandsToldAreHands
<1>5. board \in [0 .. state.round -> Seq(Token)] /\ \A r \in 0 .. state.round : board[r] = boardOfRound(cards, r)
  BY <1>2, BoardIsParts
<1>6. cardsSent(p) = hands \o rest
  BY DEF cardsSent, printPlayerHoleCards, printBoardCards, handsTold
<1> HIDE DEF last, hole, board
<1>7. hands \in Seq(Token) /\ rest \in Seq(Token)
  BY <1>1, <1>2, <1>3, <1>4, <1>5, SeparatedStep
<1>8. OfParts("|", hole, last) /\ OfParts("/", board, state.round)
  BY <1>1, <1>2, <1>3, <1>4, <1>5, TokensAreOfParts
<1>9. card \in Range(hands) \/ card \in Range(rest)
  <2> HIDE DEF hands, rest
  <2>1. Range(hands \o rest) = Range(hands) \cup Range(rest)
    BY <1>7, RangeConcatenation
  <2> QED BY <1>6, <2>1
<1>10. CASE card \in Range(hands)
  <2>1. card = sign("|") \/ \E i \in 0 .. last : card \in Range(hole[i])
    BY <1>8, <1>10 DEF OfParts
  <2>2. CASE card = sign("|")
    BY <2>2, HandsAreApart
  <2>3. CASE \E i \in 0 .. last : card \in Range(hole[i])
    <3>1. PICK i \in Players : card \in Range(hole[i])
      BY <1>1, <2>3
    <3>2. hole[i] # << >>
      <4>1. Range(<< >>) = {}
        BY DEF Range
      <4> QED BY <3>1, <4>1
    <3>3. hole[i] = cards.hole[i] /\ prints(state, p, i)
      BY <3>2, HandsToldAreHands DEF hole
    <3>4. card \in Range(cards.hole[i])
      BY <3>1, <3>3
    <3>5. card \notin Range(cards.board) /\ (card \in Range(cards.hole[q]) => q = i)
      BY <3>4, HandsAreApart
    <3>6. i = p \/ (IsShowdown /\ ~state.playerFolded[i])
      BY <3>3, ShowdownPrints
    <3> QED BY <3>5, <3>6
  <2> QED BY <2>1, <2>2, <2>3
<1>11. CASE card \in Range(rest)
  <2>1. card = sign("/") \/ \E i \in 0 .. state.round : card \in Range(board[i])
    BY <1>8, <1>11 DEF OfParts
  <2>2. CASE card = sign("/")
    BY <2>2, HandsAreApart
  <2>3. CASE \E i \in 0 .. state.round : card \in Range(board[i])
    <3>1. PICK i \in 0 .. state.round : card \in Range(boardOfRound(cards, i))
      BY <1>5, <2>3
    <3>2. card \in Range(SubSeq(cards.board, 1, sumBoardCards(state.round))) /\ card \in Range(cards.board)
      BY <1>2, <3>1, RoundsAreOfBoard
    <3> QED BY <3>2, HandsAreApart
  <2> QED BY <2>1, <2>2, <2>3
<1> QED BY <1>9, <1>10, <1>11

\* In every hand no text of the dealer holds a hand that is still hidden from its
\* player, or a card of a later board (game.c, printPlayerHoleCards and printBoardCards).
THEOREM NothingHiddenIsEverTold == Spec => []NothingHiddenIsTold
BY TextsAreRead, NothingIsTold, PTL

=============================================================================
