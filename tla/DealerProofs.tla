---------------------------- MODULE DealerProofs ----------------------------
(***************************************************************************)
(* The dealer, for any game, any number of seats and hands, any limits and *)
(* any number of crashes.  DealerInv is inductive, and from it follow that *)
(* a dealer that is started again on its file goes on with the match it    *)
(* was in, that through its file it plays the match of AbstractMatch, and  *)
(* that every seat sees the state that is waited for; with LogInv, that    *)
(* the log of a dealer that was never killed adds up to the totals.  With  *)
(* a client in every seat, PlayersInv is inductive: it follows what each   *)
(* was sent, has read and has written, and gives that only the seat that   *)
(* is asked has answered, and that what it chose is what happens.          *)
(***************************************************************************)
EXTENDS DealerPlayers, GameProofs

-----------------------------------------------------------------------------
(* The invariant.                                                          *)

Message == [handId : Nat, state : State, viewingPlayer : Players]
PlayerLine == [kind : {"response"} \cup Noise, state : Message, action : Answers \cup Actions]
Transaction == [action : Action, handId : Nat, took : Int]
Times == [numInvalidActions : [Seats -> Nat], usedHand : [Seats -> Nat], usedMatch : [Seats -> Nat]]

TypeInv ==
    /\ next \in Nat /\ waited \in Int
    /\ errorInfo \in Times
    /\ answer \in [action : Action, took : Int]
    /\ tlog \in Seq(Transaction)
    /\ sent \in [Seats -> Seq(Message)]
    /\ inbox \in [Seats -> Seq(PlayerLine)]
    /\ table \in TableWith(table.state, table.totalValue)
    /\ table.player0Seat \in Seats /\ table.state \in State

\* What the transaction file tells: every line of it can be replayed.
ToldInv ==
    /\ told[0] = [table |-> firstHand, errorInfo |-> noErrors]
    /\ \A n \in 0 .. Len(tlog) : ReadyTable(told[n].table) /\ told[n].errorInfo \in Times
    /\ \A n \in 0 .. Len(tlog) - 1 :
          /\ Replayable(told[n].table, told[n].errorInfo, tlog[n + 1])
          /\ told[n + 1] = replayed(told[n], tlog[n + 1])

\* The times that the transaction file tells of.
timesTold == told[Len(tlog)].errorInfo

\* No seat has been charged less than it is told: the times of ignored lines are
\* charged and not told.
Covers(info, past) ==
    \A seat \in Seats : /\ past.usedHand[seat] <= info.usedHand[seat]
                        /\ past.usedMatch[seat] <= info.usedMatch[seat]

\* The last thing a seat was sent is the state as it is.
Saw(seat) == sent[seat] # << >> /\ Last(sent[seat]) = matchState(table, seat)

\* The table, the times and the file, at every place of gameLoop.
BeforePlay ==
    /\ pc \in {"accept", "version", "failed"} => table = firstHand /\ errorInfo = noErrors
    /\ pc = "replay" => /\ next \in 0 .. Len(tlog)
                        /\ table = told[next].table /\ errorInfo = told[next].errorInfo

InHand ==
    /\ pc \in {"send", "read", "log", "final", "done"} => table = story
    /\ pc \in {"send", "read", "log", "act"} => table.handId < numHands
    /\ pc \in {"send", "read"} => Covers(errorInfo, timesTold)
    /\ pc = "send" => next \in Seats /\ \A seat \in Seats : seat < next => Saw(seat)
    /\ pc \in {"read", "log", "act"} => \A seat \in Seats : Saw(seat)

\* An action that doAction is about to do, before and after it is logged.
AnswerIsPlayable ==
    isValidAction(table.state, FALSE, answer.action) /\ answer.action \in Actions

AtAction ==
    /\ pc = "log" =>
          /\ AnswerIsPlayable
          /\ checkErrorTimes(timesTold, currentSeat(table), answer.took)
          /\ Covers(errorInfo, timeCharged(timesTold, currentSeat(table), answer.took))
    /\ pc = "act" =>
          /\ AnswerIsPlayable /\ ReadyTable(table)
          /\ story = transact(table, answer.action)
          /\ Covers(errorInfo, timesTold)
          /\ story.handId # table.handId => \A seat \in Seats : timesTold.usedHand[seat] = 0

AfterHand ==
    pc \in {"addLog", "sendFinal", "newHand"} =>
        /\ story = setUpNewHand(table)
        /\ Covers(errorInfo, timesTold)
        /\ \A seat \in Seats : timesTold.usedHand[seat] = 0
        /\ pc = "sendFinal" => next \in Seats

DealerInv == TypeInv /\ ToldInv /\ BeforePlay /\ InHand /\ AtAction /\ AfterHand

-----------------------------------------------------------------------------
(* Times and actions.                                                      *)

LEMMA ChargedTimes ==
  ASSUME NEW info \in Times, NEW past \in Times, NEW seat \in Seats, NEW took \in Int
  PROVE  /\ timeCharged(info, seat, took) \in Times
         /\ checkErrorNewHand(info) \in Times
         /\ invalidCounted(info, seat) \in Times
         /\ Covers(info, info)
         /\ Covers(info, past) =>
               /\ Covers(timeCharged(info, seat, took), past)
               /\ Covers(timeCharged(info, seat, took), timeCharged(past, seat, took))
               /\ Covers(invalidCounted(timeCharged(info, seat, took), seat),
                         timeCharged(past, seat, took))
               /\ Covers(info, checkErrorNewHand(past))
               /\ checkErrorTimes(info, seat, took) => checkErrorTimes(past, seat, took)
         /\ \A s \in Seats : checkErrorNewHand(past).usedHand[s] = 0
         /\ Covers(info, past) /\ (\A s \in Seats : past.usedHand[s] = 0) =>
               Covers(checkErrorNewHand(info), past)
<1>1. /\ timeCharged(info, seat, took) \in Times /\ timeCharged(past, seat, took) \in Times
      /\ checkErrorNewHand(info) \in Times /\ invalidCounted(info, seat) \in Times
  <2>1. ASSUME NEW x \in Times PROVE timeCharged(x, seat, took) \in Times
    <3>1. CASE took < 0
      BY <3>1 DEF timeCharged
    <3>2. CASE ~(took < 0)
      <4>1. x.usedHand[seat] + took \in Nat /\ x.usedMatch[seat] + took \in Nat
        BY <3>2 DEF Times
      <4>2. timeCharged(x, seat, took)
              = [x EXCEPT !.usedHand = [x.usedHand EXCEPT ![seat] = x.usedHand[seat] + took],
                          !.usedMatch = [x.usedMatch EXCEPT ![seat] = x.usedMatch[seat] + took]]
        BY <3>2 DEF timeCharged
      <4> DEFINE u == [x.usedHand EXCEPT ![seat] = x.usedHand[seat] + took]
                 v == [x.usedMatch EXCEPT ![seat] = x.usedMatch[seat] + took]
      <4>3. u \in [Seats -> Nat] /\ v \in [Seats -> Nat]
        BY <4>1 DEF Times
      <4> HIDE DEF u, v
      <4>4. QED BY <4>2, <4>3 DEF Times, u, v
    <3>3. QED BY <3>1, <3>2
  <2>2. checkErrorNewHand(info) \in Times
    BY DEF checkErrorNewHand, Times
  <2>3. invalidCounted(info, seat) \in Times
    <3> DEFINE f == info.numInvalidActions
               n == IF f[seat] > maxInvalidActions THEN f[seat] ELSE f[seat] + 1
    <3>1. f \in [Seats -> Nat] /\ n \in Nat
      BY DEF Times
    <3>2. invalidCounted(info, seat) = [info EXCEPT !.numInvalidActions = [f EXCEPT ![seat] = n]]
      BY DEF invalidCounted
    <3> HIDE DEF n
    <3>3. [f EXCEPT ![seat] = n] \in [Seats -> Nat]
      BY <3>1
    <3> HIDE DEF f
    <3>4. QED BY <3>2, <3>3 DEF Times
  <2>4. QED BY <2>1, <2>2, <2>3
<1>2. Covers(info, info)
  BY DEF Covers, Times
<1>3. ASSUME Covers(info, past)
      PROVE  /\ Covers(timeCharged(info, seat, took), past)
             /\ Covers(timeCharged(info, seat, took), timeCharged(past, seat, took))
  BY <1>3 DEF Covers, timeCharged, Times
<1>4. ASSUME Covers(info, past)
      PROVE  Covers(invalidCounted(timeCharged(info, seat, took), seat), timeCharged(past, seat, took))
  <2>1. Covers(timeCharged(info, seat, took), timeCharged(past, seat, took))
    BY <1>3, <1>4
  <2>2. /\ invalidCounted(timeCharged(info, seat, took), seat).usedHand
              = timeCharged(info, seat, took).usedHand
        /\ invalidCounted(timeCharged(info, seat, took), seat).usedMatch
              = timeCharged(info, seat, took).usedMatch
    BY <1>1 DEF invalidCounted, Times
  <2>3. QED BY <2>1, <2>2 DEF Covers
<1>5. ASSUME Covers(info, past)
      PROVE  /\ Covers(info, checkErrorNewHand(past))
             /\ checkErrorTimes(info, seat, took) => checkErrorTimes(past, seat, took)
  <2>1. Covers(info, checkErrorNewHand(past))
    BY <1>5 DEF Covers, checkErrorNewHand, Times
  <2>2. checkErrorTimes(info, seat, took) => checkErrorTimes(past, seat, took)
    BY <1>5, DealerAssumption DEF Covers, checkErrorTimes, Times
  <2>3. QED BY <2>1, <2>2
<1>6. \A s \in Seats : checkErrorNewHand(past).usedHand[s] = 0
  BY DEF checkErrorNewHand, Times
<1>7. Covers(info, past) /\ (\A s \in Seats : past.usedHand[s] = 0) =>
          Covers(checkErrorNewHand(info), past)
  BY DEF Covers, checkErrorNewHand, Times
<1> QED BY <1>1, <1>2, <1>3, <1>4, <1>5, <1>6, <1>7

LEMMA NoErrorsAreTimes == noErrors \in Times
BY DEF noErrors, Times

\* The least number that no stack exceeds is one of the stacks.
LEMMA LargestStack ==
  Max({stack[p] : p \in Players}) \in Nat /\ \A p \in Players : stack[p] <= Max({stack[p_] : p_ \in Players})
<1> DEFINE B == {stack[p] : p \in Players}
           T == {n \in Nat : \A p \in Players : stack[p] <= n}
<1>1. stack \in [Players -> Nat] /\ 0 \in Players
  BY GameAssumption DEF Players
<1>2. PICK m \in T : \A k \in T : m <= k
  <2>1. T \in SUBSET Nat /\ T # {}
    BY <1>1, UpperBound
  <2> HIDE DEF T
  <2>2. QED BY <2>1, LeastNatural
<1>3. \E p \in Players : stack[p] = m
  <2> SUFFICES ASSUME \A p \in Players : stack[p] # m PROVE FALSE
    OBVIOUS
  <2>1. \A p \in Players : stack[p] <= m - 1
    BY <1>1, <1>2
  <2>2. m - 1 \in Nat
    BY <1>1, <2>1
  <2>3. QED BY <2>1, <2>2, <1>2
<1>4. \E x \in B : \A y \in B : x >= y
  BY <1>1, <1>2, <1>3
<1>5. Max(B) \in B /\ \A y \in B : Max(B) >= y
  BY <1>4 DEF Max
<1> QED BY <1>1, <1>5

\* An action of Actions is an action as it stands.
LEMMA ActionsAreTyped ==
  ASSUME NEW a \in Actions
  PROVE  /\ a \in Action /\ a.type # "invalid"
         /\ a.type # "raise" => a.size = 0
         /\ ~noLimit => a.size = 0
<1> DEFINE top == Max({stack[p] : p \in Players})
           sizes == IF noLimit THEN -(INT32_MAX + 1) .. top ELSE {0}
<1>1. top \in Nat
  BY LargestStack
<1>2. a \in [type : {"fold", "call"}, size : {0}] \cup [type : {"raise"}, size : sizes]
  BY DEF Actions
<1> HIDE DEF top
<1>3. sizes \subseteq Int /\ (~noLimit => sizes = {0})
  BY <1>1, Int32Assumption
<1> HIDE DEF sizes
<1>4. CASE a \in [type : {"fold", "call"}, size : {0}]
  <2>1. a \in Action
    BY <1>4 DEF Action, ActionTypes
  <2>2. QED BY <1>4, <2>1
<1>5. CASE a \in [type : {"raise"}, size : sizes]
  <2>1. a \in Action
    BY <1>3, <1>5 DEF Action, ActionTypes
  <2>2. QED BY <1>3, <1>5, <2>1
<1> QED BY <1>2, <1>4, <1>5

\* What the dealer makes of an answer is one of the actions of Match.
LEMMA AnswersArePlayed ==
  ASSUME NEW s, Ready(s), NEW a \in Answers \cup Actions
  PROVE  /\ a \in Action
         /\ isValidAction(s, FALSE, Call) /\ Call \in Actions /\ Call \in Action
         /\ isValidAction(s, TRUE, a) =>
               /\ isValidAction(s, FALSE, fixedAction(s, a))
               /\ fixedAction(s, a) \in Actions /\ fixedAction(s, a) \in Action
<1>1. a \in Action /\ Call \in Action /\ (~noLimit => a.size = 0)
  BY ActionsAreTyped, DealerAssumption DEF Call, Action, ActionTypes
<1>2. isValidAction(s, FALSE, Call)
  BY DEF isValidAction, stateFinished, Ready, Call
<1>3. Call \in Actions
  BY DEF Actions, Call
<1>4. ASSUME isValidAction(s, TRUE, a)
      PROVE  /\ isValidAction(s, FALSE, fixedAction(s, a))
             /\ fixedAction(s, a) \in Actions /\ fixedAction(s, a) \in Action
  <2> DEFINE b == fixedAction(s, a)
  <2>1. /\ isValidAction(s, FALSE, b) /\ b \in Action /\ b.type = a.type
        /\ a.type # "raise" => b.size = 0
        /\ a.type = "raise" /\ noLimit => b.size \in -(INT32_MAX + 1) .. stack[currentPlayer(s)]
        /\ a.type = "raise" /\ ~noLimit => b = a
    BY <1>1, <1>4, FixedIsValid
  <2> HIDE DEF b
  <2> DEFINE sizes == IF noLimit THEN -(INT32_MAX + 1) .. Max({stack[p] : p \in Players}) ELSE {0}
  <2>2. b.type = "raise" => b.size \in sizes
    <3>1. CASE noLimit /\ b.type = "raise"
      <4>1. currentPlayer(s) \in Players /\ stack[currentPlayer(s)] \in Nat
        BY ReadyActor, GameAssumption
      <4>2. stack[currentPlayer(s)] <= Max({stack[p] : p \in Players})
        BY <4>1, LargestStack
      <4>3. Max({stack[p] : p \in Players}) \in Nat
        BY LargestStack
      <4>4. b.size \in -(INT32_MAX + 1) .. stack[currentPlayer(s)]
        BY <2>1, <3>1
      <4> DEFINE top == Max({stack[p] : p \in Players})
      <4> HIDE DEF top
      <4>5. b.size \in -(INT32_MAX + 1) .. top
        BY <4>1, <4>2, <4>3, <4>4, Int32Assumption DEF top
      <4>6. QED BY <3>1, <4>5 DEF top
    <3>2. CASE ~noLimit /\ b.type = "raise"
      BY <1>1, <2>1, <3>2
    <3>3. QED BY <3>1, <3>2
  <2>3. b \in Action /\ b.type \in {"fold", "call", "raise"} /\ (b.type # "raise" => b.size = 0)
    <3>1. b \in Action /\ (b.type # "raise" => b.size = 0) /\ b.type # "invalid"
      BY <2>1 DEF isValidAction
    <3>2. QED BY <3>1 DEF Action, ActionTypes
  <2>4. Actions = [type : {"fold", "call"}, size : {0}] \cup [type : {"raise"}, size : sizes]
    BY DEF Actions
  <2> HIDE DEF sizes
  <2>5. b \in Actions
    BY <2>2, <2>3, <2>4 DEF Action
  <2>6. QED BY <2>1, <2>5 DEF b
<1> QED BY <1>1, <1>2, <1>3, <1>4

\* The state that a seat is sent.
LEMMA MessageIsTyped ==
  ASSUME TypeInv, NEW seat \in Seats
  PROVE  matchState(table, seat) \in Message
<1>1. seatToPlayer(table.player0Seat, seat) \in Players
  BY SeatsOfTable DEF TypeInv
<1>2. table.handId \in Nat /\ table.state \in State
  BY DEF TypeInv, TableWith
<1> QED BY <1>1, <1>2 DEF matchState, Message

-----------------------------------------------------------------------------
(* What stays as it is.                                                    *)

LEMMA FilesTell ==
  ASSUME TypeInv, ToldInv
  PROVE  /\ Len(tlog) \in Nat /\ ReadyTable(story) /\ timesTold \in Times
         /\ currentSeat(story) \in Seats
<1>1. Len(tlog) \in Nat /\ Len(tlog) \in 0 .. Len(tlog)
  BY DEF TypeInv
<1>2. ReadyTable(story) /\ timesTold \in Times
  BY <1>1 DEF ToldInv, story, timesTold
<1> QED BY <1>1, <1>2, SeatsOfTable DEF ReadyTable

LEMMA FilesStay ==
  ASSUME ToldInv, UNCHANGED files
  PROVE  ToldInv' /\ story' = story /\ timesTold' = timesTold
BY DEF ToldInv, files, story, timesTold

\* The parts of the invariant besides the types and the files.
Places == BeforePlay /\ InHand /\ AtAction /\ AfterHand

\* The environment and the clock move nothing that the invariant relates.
LEMMA FrameKeeps ==
  ASSUME DealerInv, UNCHANGED <<pc, next, table, errorInfo, answer, files, sent>>,
         waited' \in Int, inbox' \in [Seats -> Seq(PlayerLine)]
  PROVE  DealerInv' /\ story' = story
<1>1. TypeInv'
  BY DEF DealerInv, TypeInv, files
<1>2. ToldInv' /\ story' = story /\ timesTold' = timesTold
  BY FilesStay DEF DealerInv
<1>3. Places'
  BY <1>2 DEF DealerInv, Places, BeforePlay, InHand, AtAction, AfterHand, AnswerIsPlayable,
              Covers, Saw, files
<1> QED BY <1>1, <1>2, <1>3 DEF DealerInv, Places

-----------------------------------------------------------------------------
(* Starting, failing and replaying.                                        *)

LEMMA InitHolds == Init => DealerInv /\ story = firstHand
<1> SUFFICES ASSUME Init PROVE DealerInv /\ story = firstHand
  OBVIOUS
<1>1. ReadyTable(firstHand) /\ noErrors \in Times
  BY FirstHandIsReady, NoErrorsAreTimes
<1>2. tlog = << >> /\ Len(tlog) = 0 /\ told[0] = [table |-> firstHand, errorInfo |-> noErrors]
  BY DEF Init
<1>3. ToldInv /\ story = firstHand
  BY <1>1, <1>2 DEF ToldInv, story
<1>4. TypeInv
  <2>1. noAnswer \in [action : Action, took : Int]
    BY DEF noAnswer, Call, Action, ActionTypes
  <2>2. table \in TableWith(table.state, table.totalValue) /\ table.player0Seat \in Seats
        /\ table.state \in State
    BY <1>1 DEF Init, Fresh, ReadyTable, Ready
  <2>3. QED BY <1>1, <2>1, <2>2 DEF TypeInv, Init, Fresh
<1>5. Places
  BY DEF Init, Fresh, Places, BeforePlay, InHand, AtAction, AfterHand
<1> QED BY <1>3, <1>4, <1>5 DEF DealerInv, Places

\* Whatever ends the process, a crash included.
LEMMA FailsKeeps ==
  ASSUME DealerInv, Fails
  PROVE  DealerInv' /\ story' = story
<1>1. ToldInv' /\ story' = story
  BY FilesStay DEF DealerInv, Fails
<1>2. TypeInv'
  <2>1. noAnswer \in [action : Action, took : Int]
    BY DEF noAnswer, Call, Action, ActionTypes
  <2>2. ReadyTable(firstHand) /\ noErrors \in Times
    BY FirstHandIsReady, NoErrorsAreTimes
  <2>3. table' = firstHand /\ errorInfo' = noErrors /\ answer' = noAnswer
    BY DEF Fails, Fresh
  <2>4. table' \in TableWith(table'.state, table'.totalValue) /\ table'.player0Seat \in Seats
        /\ table'.state \in State
    BY <2>2, <2>3 DEF ReadyTable, Ready
  <2>5. /\ next' \in Nat /\ waited' \in Int /\ sent' = [seat \in Seats |-> << >>]
        /\ inbox' = [seat \in Seats |-> << >>] /\ tlog' = tlog
    BY DEF Fails, Fresh, files
  <2>6. sent' \in [Seats -> Seq(Message)] /\ inbox' \in [Seats -> Seq(PlayerLine)]
    BY <2>5
  <2>7. QED BY <2>1, <2>2, <2>3, <2>4, <2>5, <2>6 DEF TypeInv, DealerInv
<1>3. Places'
  BY DEF Fails, Fresh, Places, BeforePlay, InHand, AtAction, AfterHand
<1> QED BY <1>1, <1>2, <1>3 DEF DealerInv, Places

LEMMA StartKeeps ==
  ASSUME DealerInv, Accept \/ CheckVersion \/ Restart
  PROVE  DealerInv' /\ story' = story
<1>1. UNCHANGED files /\ UNCHANGED <<table, errorInfo, answer, waited, inbox, sent>>
  BY DEF Accept, CheckVersion, Restart, network
<1>2. ToldInv' /\ story' = story
  BY <1>1, FilesStay DEF DealerInv
<1>3. /\ pc \in {"accept", "version", "failed"} /\ pc' \in {"accept", "version", "replay"}
      /\ next' \in Nat /\ (pc' = "replay" => next' = 0)
  BY DEF Accept, CheckVersion, Restart, NextSeat, DealerInv, TypeInv
<1>4. TypeInv'
  BY <1>1, <1>3 DEF TypeInv, DealerInv, files
<1>5. Places'
  <2>1. table' = firstHand /\ errorInfo' = noErrors
    BY <1>1, <1>3 DEF DealerInv, BeforePlay
  <2>2. told'[0] = [table |-> firstHand, errorInfo |-> noErrors] /\ 0 \in 0 .. Len(tlog')
    BY <1>2, <1>4 DEF ToldInv, TypeInv
  <2>3. QED BY <1>3, <2>1, <2>2 DEF Places, BeforePlay, InHand, AtAction, AfterHand
<1> QED BY <1>2, <1>4, <1>5 DEF DealerInv, Places

\* No line of the file is refused, and each leads where it was written.
LEMMA LineIsReplayed ==
  ASSUME DealerInv, pc = "replay", next < Len(tlog)
  PROVE  /\ Replayable(table, errorInfo, tlog[next + 1])
         /\ told[next + 1] = [table |-> transact(table, tlog[next + 1].action),
                              errorInfo |-> timesReplayed(table, errorInfo, tlog[next + 1])]
         /\ ReadyTable(told[next + 1].table) /\ told[next + 1].errorInfo \in Times
<1>1. next \in 0 .. Len(tlog) - 1 /\ next + 1 \in 0 .. Len(tlog)
  BY DEF DealerInv, BeforePlay, TypeInv
<1>2. table = told[next].table /\ errorInfo = told[next].errorInfo
  BY DEF DealerInv, BeforePlay
<1> QED BY <1>1, <1>2 DEF DealerInv, ToldInv, replayed

LEMMA ReplayTransactionKeeps ==
  ASSUME DealerInv, ReplayTransaction
  PROVE  DealerInv' /\ story' = story
<1>1. pc = "replay" /\ next < Len(tlog)
  BY DEF ReplayTransaction
<1>2. /\ table' = transact(table, tlog[next + 1].action)
      /\ errorInfo' = timesReplayed(table, errorInfo, tlog[next + 1])
      /\ next' = next + 1 /\ UNCHANGED <<pc, answer, waited, files, inbox, sent>>
  BY <1>1, LineIsReplayed DEF ReplayTransaction, network
<1>3. ToldInv' /\ story' = story
  BY <1>2, FilesStay DEF DealerInv
<1>4. /\ table' = told[next + 1].table /\ errorInfo' = told[next + 1].errorInfo
      /\ ReadyTable(told[next + 1].table) /\ told[next + 1].errorInfo \in Times
  BY <1>1, <1>2, LineIsReplayed
<1>5. next' \in 0 .. Len(tlog)
  BY <1>1, <1>2 DEF DealerInv, TypeInv
<1>6. TypeInv'
  <2>1. table' \in TableWith(table'.state, table'.totalValue) /\ table'.player0Seat \in Seats
        /\ table'.state \in State
    BY <1>4 DEF ReadyTable, Ready
  <2>2. errorInfo' \in Times /\ next' \in Nat
    BY <1>4, <1>5
  <2>3. QED BY <1>2, <2>1, <2>2 DEF TypeInv, DealerInv, files
<1>7. Places'
  BY <1>1, <1>2, <1>4, <1>5 DEF Places, BeforePlay, InHand, AtAction, AfterHand, files
<1> QED BY <1>3, <1>6, <1>7 DEF DealerInv, Places

LEMMA ReplayEndsKeeps ==
  ASSUME DealerInv, ReplayEnds
  PROVE  DealerInv' /\ story' = story
<1>1. /\ pc = "replay" /\ next = Len(tlog) /\ next' = 0
      /\ pc' = IF table.handId >= numHands THEN "final" ELSE "send"
      /\ UNCHANGED <<table, errorInfo, answer, waited, files, inbox, sent>>
  BY DEF ReplayEnds, network
<1>2. ToldInv' /\ story' = story /\ timesTold' = timesTold
  BY <1>1, FilesStay DEF DealerInv
<1>3. TypeInv'
  BY <1>1 DEF TypeInv, DealerInv, files
<1>4. table = story /\ errorInfo = timesTold
  BY <1>1 DEF DealerInv, BeforePlay, story, timesTold
<1>5. table.handId \in Nat /\ numHands \in Nat /\ errorInfo \in Times
  BY TableAssumption DEF DealerInv, TypeInv, TableWith
<1>6. Covers(errorInfo', timesTold')
  BY <1>1, <1>2, <1>4, <1>5 DEF Covers, Times
<1>7. 0 \in Seats /\ \A seat \in Seats : ~(seat < 0)
  BY GameAssumption DEF Seats, Players
<1>8. Places'
  BY <1>1, <1>2, <1>4, <1>5, <1>6, <1>7 DEF Places, BeforePlay, InHand, AtAction, AfterHand
<1> QED BY <1>2, <1>3, <1>8 DEF DealerInv, Places

-----------------------------------------------------------------------------
(* Playing a hand.                                                         *)

\* A message to one seat, of Send and of SendFinal.
LEMMA SendToFields ==
  ASSUME TypeInv, next \in Seats, SendTo(next)
  PROVE  /\ sent' \in [Seats -> Seq(Message)]
         /\ sent'[next] # << >> /\ Last(sent'[next]) = matchState(table, next)
         /\ \A seat \in Seats : seat # next => sent'[seat] = sent[seat]
<1>1. matchState(table, next) \in Message
  BY MessageIsTyped
<1> DEFINE m == matchState(table, next)
<1>2. sent' = [sent EXCEPT ![next] = Append(@, m)] /\ sent \in [Seats -> Seq(Message)]
  BY DEF SendTo, TypeInv
<1> HIDE DEF m
<1>3. sent[next] \in Seq(Message) /\ m \in Message
  BY <1>1, <1>2 DEF m
<1>4. ASSUME NEW old \in Seq(Message)
      PROVE  /\ Append(old, m) \in Seq(Message) /\ Append(old, m) # << >>
             /\ Last(Append(old, m)) = m
  BY <1>3 DEF Last
<1>5. sent'[next] = Append(sent[next], m)
  BY <1>2
<1>6. \A seat \in Seats : seat # next => sent'[seat] = sent[seat]
  BY <1>2
<1>7. sent' \in [Seats -> Seq(Message)]
  BY <1>2, <1>3, <1>4
<1> QED BY <1>3, <1>4, <1>5, <1>6, <1>7 DEF m

\* Every seat of the loop is a seat, and after the last one comes what follows it.
LEMMA NextSeatIsSeat ==
  ASSUME next \in Seats, NEW here, NEW then, NextSeat(here, then)
  PROVE  /\ next' \in Seats
         /\ \/ pc' = here /\ next' = next + 1
            \/ pc' = then /\ next' = 0 /\ \A seat \in Seats : seat < next \/ seat = next
BY GameAssumption DEF NextSeat, Seats, Players

LEMMA SendKeeps ==
  ASSUME DealerInv, Send
  PROVE  DealerInv' /\ story' = story
<1>1. /\ pc = "send" /\ SendTo(next) /\ NextSeat("send", "read") /\ waited' \in {0, waited}
      /\ UNCHANGED <<table, errorInfo, answer, files, inbox>>
  BY DEF Send
<1>2. ToldInv' /\ story' = story /\ timesTold' = timesTold
  BY <1>1, FilesStay DEF DealerInv
<1>3. next \in Seats /\ \A seat \in Seats : seat < next => Saw(seat)
  BY <1>1 DEF DealerInv, InHand
<1>4. /\ sent' \in [Seats -> Seq(Message)]
      /\ \A seat \in Seats : Saw(seat) \/ seat = next => Saw(seat)'
  <2>1. /\ sent' \in [Seats -> Seq(Message)]
        /\ sent'[next] # << >> /\ Last(sent'[next]) = matchState(table, next)
        /\ \A seat \in Seats : seat # next => sent'[seat] = sent[seat]
    BY <1>1, <1>3, SendToFields DEF DealerInv
  <2>2. ASSUME NEW seat \in Seats, Saw(seat) \/ seat = next
        PROVE  sent'[seat] # << >> /\ Last(sent'[seat]) = matchState(table', seat)
    BY <1>1, <2>1, <2>2 DEF Saw
  <2>3. QED BY <1>3, <2>1, <2>2 DEF Saw
<1>5. /\ next' \in Seats
      /\ \/ pc' = "send" /\ next' = next + 1
         \/ pc' = "read" /\ next' = 0 /\ \A seat \in Seats : seat < next \/ seat = next
  BY <1>1, <1>3, NextSeatIsSeat
<1>6. TypeInv'
  <2>1. next' \in Nat /\ waited' \in Int
    BY <1>1, <1>5 DEF Seats, Players, DealerInv, TypeInv
  <2>2. QED BY <1>1, <1>4, <2>1 DEF TypeInv, DealerInv, files
<1>7. ASSUME NEW seat \in Seats, seat < next' \/ pc' = "read" PROVE Saw(seat)'
  <2>1. seat < next \/ seat = next
    BY <1>3, <1>5, <1>7 DEF Seats, Players
  <2>2. QED BY <2>1, <1>3, <1>4
<1>8. Covers(errorInfo', timesTold')
  BY <1>1, <1>2 DEF DealerInv, InHand, Covers
<1>9. table' = story' /\ table'.handId < numHands
  BY <1>1, <1>2 DEF DealerInv, InHand
<1>10. Places'
  BY <1>5, <1>7, <1>8, <1>9 DEF Places, BeforePlay, InHand, AtAction, AfterHand
<1> QED BY <1>2, <1>6, <1>10 DEF DealerInv, Places

LEMMA SendFinalKeeps ==
  ASSUME DealerInv, SendFinal
  PROVE  DealerInv' /\ story' = story
<1>1. /\ pc = "sendFinal" /\ SendTo(next) /\ NextSeat("sendFinal", "newHand")
      /\ UNCHANGED <<table, errorInfo, answer, waited, files, inbox>>
  BY DEF SendFinal
<1>2. ToldInv' /\ story' = story /\ timesTold' = timesTold
  BY <1>1, FilesStay DEF DealerInv
<1>3. next \in Seats /\ sent' \in [Seats -> Seq(Message)]
  BY <1>1, SendToFields DEF DealerInv, AfterHand
<1>4. next' \in Seats /\ pc' \in {"sendFinal", "newHand"}
  BY <1>1, <1>3, NextSeatIsSeat
<1>5. TypeInv'
  <2>1. next' \in Nat
    BY <1>4 DEF Seats, Players
  <2>2. QED BY <1>1, <1>3, <2>1 DEF TypeInv, DealerInv, files
<1>6. Places'
  BY <1>1, <1>2, <1>4 DEF DealerInv, Places, BeforePlay, InHand, AtAction, AfterHand, Covers
<1> QED BY <1>2, <1>5, <1>6 DEF DealerInv, Places

LEMMA addToLogFileKeeps ==
  ASSUME DealerInv, addToLogFile \/ printFinalMessage
  PROVE  DealerInv' /\ story' = story
<1>1. /\ \/ pc = "addLog" /\ pc' = "sendFinal" /\ next' = 0
         \/ pc = "final" /\ pc' = "done" /\ next' = next
      /\ UNCHANGED <<table, errorInfo, answer, waited, tlog, told, inbox, sent>>
  BY DEF addToLogFile, printFinalMessage, network, files
<1>2. ToldInv' /\ story' = story /\ timesTold' = timesTold
  BY <1>1 DEF DealerInv, ToldInv, story, timesTold
<1>3. TypeInv'
  BY <1>1 DEF TypeInv, DealerInv
<1>4. 0 \in Seats
  BY GameAssumption DEF Seats, Players
<1>5. Places'
  BY <1>1, <1>2, <1>4 DEF DealerInv, Places, BeforePlay, InHand, AtAction, AfterHand, Covers
<1> QED BY <1>2, <1>3, <1>5 DEF DealerInv, Places

LEMMA ReadLineKeeps ==
  ASSUME DealerInv, ReadLine
  PROVE  DealerInv' /\ story' = story
<1> DEFINE seat == currentSeat(table)
           line == Head(inbox[seat])
           charged == timeCharged(errorInfo, seat, waited)
<1>1. /\ pc = "read" /\ inbox[seat] # << >>
      /\ inbox' = [inbox EXCEPT ![seat] = Tail(@)]
      /\ UNCHANGED <<next, table, files, sent>>
  BY DEF ReadLine
<1>2. ToldInv' /\ story' = story /\ timesTold' = timesTold
  BY <1>1, FilesStay DEF DealerInv
<1>3. /\ seat \in Seats /\ table = story /\ ReadyTable(table) /\ timesTold \in Times
      /\ errorInfo \in Times /\ waited \in Int /\ Covers(errorInfo, timesTold)
      /\ table.handId < numHands
  BY <1>1, FilesTell DEF DealerInv, InHand, TypeInv
<1>4. line \in PlayerLine /\ inbox' \in [Seats -> Seq(PlayerLine)]
  <2>1. inbox \in [Seats -> Seq(PlayerLine)] /\ inbox[seat] \in Seq(PlayerLine)
    BY <1>3 DEF DealerInv, TypeInv
  <2> HIDE DEF seat
  <2>2. Head(inbox[seat]) \in PlayerLine /\ Tail(inbox[seat]) \in Seq(PlayerLine)
    BY <1>1, <2>1
  <2>3. QED BY <1>1, <2>1, <2>2
<1>5. line.action \in Answers \cup Actions
  BY <1>4 DEF PlayerLine
<1>6. /\ charged \in Times /\ invalidCounted(charged, seat) \in Times
      /\ Covers(charged, timesTold)
      /\ Covers(charged, timeCharged(timesTold, seat, waited))
      /\ Covers(invalidCounted(charged, seat), timeCharged(timesTold, seat, waited))
      /\ checkErrorTimes(errorInfo, seat, waited) => checkErrorTimes(timesTold, seat, waited)
  <2>1. charged \in Times
    BY <1>3, ChargedTimes
  <2>2. invalidCounted(charged, seat) \in Times
    BY <1>3, <2>1, ChargedTimes
  <2>3. QED BY <1>3, <2>1, <2>2, ChargedTimes
<1>7. Ready(table.state)
  BY <1>3 DEF ReadyTable
<1>8. /\ isValidAction(table.state, FALSE, Call) /\ Call \in Actions /\ Call \in Action
      /\ acceptable(line) =>
            /\ isValidAction(table.state, FALSE, fixedAction(table.state, line.action))
            /\ fixedAction(table.state, line.action) \in Actions
            /\ fixedAction(table.state, line.action) \in Action
  BY <1>5, <1>7, AnswersArePlayed DEF acceptable
\* The line is passed over, or it is answered by its action or by a call.
<1>9. \/ pc' = pc /\ answer' = answer /\ waited' = waited /\ errorInfo' \in {errorInfo, charged}
      \/ /\ pc' = "log" /\ waited' = 0 /\ checkErrorTimes(errorInfo, seat, waited)
         /\ \/ /\ acceptable(line) /\ errorInfo' = charged
               /\ answer' = [action |-> fixedAction(table.state, line.action), took |-> waited]
            \/ /\ errorInfo' = invalidCounted(charged, seat)
               /\ answer' = [action |-> Call, took |-> waited]
  BY DEF ReadLine
<1> HIDE DEF seat, line, charged
<1>10. CASE pc' = pc /\ answer' = answer /\ waited' = waited /\ errorInfo' \in {errorInfo, charged}
  <2>1. TypeInv'
    <3>1. errorInfo' \in Times /\ waited' \in Int
      BY <1>3, <1>6, <1>10
    <3>2. QED BY <1>1, <1>4, <1>10, <3>1 DEF TypeInv, DealerInv, files
  <2>2. Covers(errorInfo', timesTold')
    BY <1>2, <1>3, <1>6, <1>10 DEF Covers
  <2>3. pc' = "read" /\ table' = story' /\ table'.handId < numHands
        /\ \A s \in Seats : Saw(s)'
    BY <1>1, <1>2, <1>3, <1>10 DEF DealerInv, InHand, Saw
  <2>4. Places'
    BY <2>2, <2>3 DEF Places, BeforePlay, InHand, AtAction, AfterHand
  <2>5. QED BY <1>2, <2>1, <2>4 DEF DealerInv, Places
<1>11. CASE /\ pc' = "log" /\ waited' = 0 /\ checkErrorTimes(errorInfo, seat, waited)
            /\ \/ /\ acceptable(line) /\ errorInfo' = charged
                  /\ answer' = [action |-> fixedAction(table.state, line.action), took |-> waited]
               \/ /\ errorInfo' = invalidCounted(charged, seat)
                  /\ answer' = [action |-> Call, took |-> waited]
  <2>1. /\ answer'.took = waited /\ answer'.action \in Action /\ answer'.action \in Actions
        /\ answer' = [action |-> answer'.action, took |-> waited]
        /\ isValidAction(table.state, FALSE, answer'.action)
    <3>1. PICK a : /\ answer' = [action |-> a, took |-> waited]
                   /\ a \in Action /\ a \in Actions /\ isValidAction(table.state, FALSE, a)
      BY <1>8, <1>11
    <3>2. answer'.action = a /\ answer'.took = waited
      BY <3>1
    <3>3. QED BY <3>1, <3>2
  <2>2. errorInfo' \in Times /\ Covers(errorInfo', timeCharged(timesTold, seat, waited))
    BY <1>6, <1>11
  <2>3. TypeInv'
    BY <1>1, <1>3, <1>4, <1>11, <2>1, <2>2 DEF TypeInv, DealerInv, files
  <2>4. AtAction'
    <3>1. AnswerIsPlayable'
      BY <1>1, <2>1 DEF AnswerIsPlayable
    <3>2. checkErrorTimes(timesTold', currentSeat(table'), answer'.took)
      BY <1>1, <1>2, <1>6, <1>11, <2>1 DEF seat
    <3>3. Covers(errorInfo', timeCharged(timesTold', currentSeat(table'), answer'.took))
      BY <1>1, <1>2, <2>1, <2>2 DEF seat
    <3>4. QED BY <1>11, <3>1, <3>2, <3>3 DEF AtAction
  <2>5. \A s \in Seats : Saw(s)'
    BY <1>1 DEF DealerInv, InHand, Saw
  <2>6. Places'
    BY <1>1, <1>2, <1>3, <1>11, <2>4, <2>5 DEF Places, BeforePlay, InHand, AfterHand
  <2>7. QED BY <1>2, <2>3, <2>6 DEF DealerInv, Places
<1> QED BY <1>9, <1>10, <1>11

\* The one step that moves the file on: it is a step of AbstractMatch.
LEMMA logTransactionKeeps ==
  ASSUME DealerInv, logTransaction
  PROVE  DealerInv' /\ M!Play
<1> DEFINE n == Len(tlog)
           e == [action |-> answer.action, handId |-> table.handId, took |-> answer.took]
<1>1. /\ pc = "log" /\ pc' = "act" /\ tlog' = Append(tlog, e)
      /\ told' = [k \in 0 .. n + 1 |-> IF k <= n THEN told[k] ELSE replayed(told[n], e)]
      /\ UNCHANGED <<next, table, errorInfo, answer, waited, inbox, sent>>
  BY DEF logTransaction, network
<1>2. /\ n \in Nat /\ ReadyTable(story) /\ timesTold \in Times /\ currentSeat(story) \in Seats
      /\ table = story /\ table.handId < numHands
      /\ AnswerIsPlayable /\ checkErrorTimes(timesTold, currentSeat(table), answer.took)
      /\ Covers(errorInfo, timeCharged(timesTold, currentSeat(table), answer.took))
  BY <1>1, FilesTell DEF DealerInv, InHand, AtAction
<1>3. /\ answer.action \in Action /\ answer.took \in Int /\ answer.action \in Actions
      /\ isValidAction(table.state, FALSE, answer.action)
      /\ table.handId \in Nat
  BY <1>2 DEF DealerInv, TypeInv, AnswerIsPlayable, TableWith
<1>4. e \in Transaction /\ e.action = answer.action /\ e.handId = table.handId /\ e.took = answer.took
  BY <1>3 DEF Transaction
<1> HIDE DEF n, e
<1>5. /\ tlog \in Seq(Transaction) /\ tlog' \in Seq(Transaction) /\ Len(tlog') = n + 1
      /\ tlog'[n + 1] = e /\ \A k \in 1 .. n : tlog'[k] = tlog[k]
  BY <1>1, <1>4 DEF DealerInv, TypeInv, n
<1>6. /\ \A k \in 0 .. n : told'[k] = told[k]
      /\ told'[n + 1] = replayed(told[n], e)
  BY <1>1, <1>2
<1>7. told[n].table = story /\ told[n].errorInfo = timesTold
  BY DEF story, timesTold, n
<1> DEFINE charged == timeCharged(timesTold, currentSeat(table), e.took)
           times == timesReplayed(story, timesTold, e)
<1>8. told'[n + 1] = [table |-> transact(story, e.action), errorInfo |-> times]
  BY <1>6, <1>7 DEF replayed
<1>9. /\ times = IF transact(table, e.action).handId # table.handId
                 THEN checkErrorNewHand(charged) ELSE charged
      /\ charged \in Times /\ Covers(errorInfo, charged)
  <2>1. charged \in Times
    BY <1>2, <1>3, <1>4, ChargedTimes
  <2>2. QED BY <2>1, <1>2, <1>4 DEF timesReplayed
<1> HIDE DEF charged
<1>10. /\ times \in Times /\ Covers(errorInfo, times)
       /\ transact(table, e.action).handId # table.handId =>
             \A seat \in Seats : times.usedHand[seat] = 0
  <2>1. errorInfo \in Times
    BY DEF DealerInv, TypeInv
  <2>2. PICK seat \in Seats : TRUE
    BY <1>2
  <2>3. /\ checkErrorNewHand(charged) \in Times /\ Covers(errorInfo, checkErrorNewHand(charged))
        /\ \A s \in Seats : checkErrorNewHand(charged).usedHand[s] = 0
    BY <1>9, <2>1, <2>2, ChargedTimes
  <2>4. QED BY <1>9, <2>3
<1> HIDE DEF times
<1>11. ReadyTable(transact(story, e.action)) /\ ReadyTable(table)
  BY <1>2, <1>3, <1>4, TransactKeepsReady
<1>12. Replayable(story, timesTold, e)
  BY <1>2, <1>3, <1>4 DEF Replayable
<1>13. story' = transact(story, e.action) /\ timesTold' = times
  BY <1>5, <1>8 DEF story, timesTold
<1>14. ToldInv'
  <2>1. told'[0] = [table |-> firstHand, errorInfo |-> noErrors]
    BY <1>2, <1>6 DEF DealerInv, ToldInv
  <2>2. ASSUME NEW k \in 0 .. Len(tlog')
        PROVE  ReadyTable(told'[k].table) /\ told'[k].errorInfo \in Times
    <3>1. CASE k = n + 1
      BY <3>1, <1>8, <1>10, <1>11
    <3>2. CASE k # n + 1
      <4>1. k \in 0 .. n
        BY <2>2, <3>2, <1>2, <1>5
      <4>2. QED BY <4>1, <1>6 DEF DealerInv, ToldInv, n
    <3>3. QED BY <3>1, <3>2
  <2>3. ASSUME NEW k \in 0 .. Len(tlog') - 1
        PROVE  /\ Replayable(told'[k].table, told'[k].errorInfo, tlog'[k + 1])
               /\ told'[k + 1] = replayed(told'[k], tlog'[k + 1])
    <3>1. k \in 0 .. n /\ told'[k] = told[k]
      BY <2>3, <1>2, <1>5, <1>6
    <3>2. CASE k = n
      BY <3>1, <3>2, <1>5, <1>6, <1>7, <1>12
    <3>3. CASE k # n
      <4>1. k \in 0 .. n - 1 /\ k + 1 \in 1 .. n /\ k + 1 \in 0 .. n
        BY <3>1, <3>3, <1>2
      <4>2. tlog'[k + 1] = tlog[k + 1] /\ told'[k + 1] = told[k + 1]
        BY <4>1, <1>5, <1>6
      <4>3. QED BY <3>1, <4>1, <4>2 DEF DealerInv, ToldInv, n
    <3>4. QED BY <3>2, <3>3
  <2>4. QED BY <2>1, <2>2, <2>3 DEF ToldInv
<1>15. TypeInv'
  BY <1>1, <1>5 DEF TypeInv, DealerInv
<1>16. AtAction'
  <2>1. AnswerIsPlayable'
    BY <1>1, <1>2 DEF AnswerIsPlayable
  <2>2. /\ ReadyTable(table') /\ story' = transact(table', answer'.action)
        /\ Covers(errorInfo', timesTold')
        /\ story'.handId # table'.handId => \A seat \in Seats : timesTold'.usedHand[seat] = 0
    BY <1>1, <1>2, <1>4, <1>10, <1>11, <1>13
  <2>3. QED BY <1>1, <2>1, <2>2 DEF AtAction
<1>17. Places'
  <2>1. \A seat \in Seats : Saw(seat)'
    BY <1>1 DEF DealerInv, InHand, Saw
  <2>2. QED BY <1>1, <1>2, <1>16, <2>1 DEF Places, BeforePlay, InHand, AfterHand
<1>18. M!Play
  BY <1>2, <1>3, <1>4, <1>13 DEF M!Play
<1> QED BY <1>14, <1>15, <1>17, <1>18 DEF DealerInv, Places

LEMMA DoActionKeeps ==
  ASSUME DealerInv, DoAction
  PROVE  DealerInv' /\ story' = story
<1> DEFINE after == act(table, answer.action)
           counted == [after EXCEPT !.totalValue = addValues(after)]
<1>1. /\ pc = "act" /\ next' = 0 /\ answer' = noAnswer
      /\ UNCHANGED <<errorInfo, waited, files, inbox, sent>>
      /\ \/ after.state.finished /\ table' = counted /\ pc' = "addLog"
         \/ ~after.state.finished /\ table' = after /\ pc' = "send"
  BY DEF DoAction, network, stateFinished
<1>2. ToldInv' /\ story' = story /\ timesTold' = timesTold
  BY <1>1, FilesStay DEF DealerInv
<1>3. /\ AnswerIsPlayable /\ ReadyTable(table) /\ story = transact(table, answer.action)
      /\ Covers(errorInfo, timesTold) /\ table.handId < numHands
      /\ story.handId # table.handId => \A seat \in Seats : timesTold.usedHand[seat] = 0
  BY <1>1 DEF DealerInv, AtAction, InHand
<1>4. answer.action \in Action /\ isValidAction(table.state, FALSE, answer.action)
      /\ table.handId \in Nat
  BY <1>3 DEF DealerInv, TypeInv, AnswerIsPlayable, TableWith
<1>5. /\ ReadyTable(story)
      /\ after \in TableWith(after.state, after.totalValue)
      /\ after.handId = table.handId /\ after.player0Seat = table.player0Seat
      /\ after.state \in State
      /\ after.state.finished =>
            /\ story = setUpNewHand(counted)
            /\ counted \in TableWith(counted.state, counted.totalValue)
            /\ counted.state = after.state /\ counted.player0Seat = table.player0Seat
            /\ story.handId = table.handId + 1
      /\ ~after.state.finished => story = after /\ story.handId = table.handId
  BY <1>3, <1>4, TransactKeepsReady
<1>6. table.player0Seat \in Seats
  BY <1>3 DEF ReadyTable
<1> HIDE DEF after, counted
<1>7. TypeInv'
  <2>1. noAnswer \in [action : Action, took : Int]
    BY DEF noAnswer, Call, Action, ActionTypes
  <2>2. /\ table' \in TableWith(table'.state, table'.totalValue)
        /\ table'.player0Seat \in Seats /\ table'.state \in State
    BY <1>1, <1>5, <1>6
  <2>3. QED BY <1>1, <2>1, <2>2 DEF TypeInv, DealerInv, files
<1>8. Covers(errorInfo', timesTold')
  BY <1>1, <1>2, <1>3
<1>9. Places'
  <2>1. CASE after.state.finished /\ table' = counted /\ pc' = "addLog"
    <3>1. \A seat \in Seats : timesTold'.usedHand[seat] = 0
      BY <1>2, <1>3, <1>4, <1>5, <2>1
    <3>2. story' = setUpNewHand(table')
      BY <1>2, <1>5, <2>1
    <3>3. QED BY <1>8, <2>1, <3>1, <3>2 DEF Places, BeforePlay, InHand, AtAction, AfterHand
  <2>2. CASE ~after.state.finished /\ table' = after /\ pc' = "send"
    <3>1. table' = story' /\ table'.handId < numHands
      BY <1>2, <1>3, <1>5, <2>2
    <3>2. 0 \in Seats /\ \A seat \in Seats : ~(seat < 0)
      BY GameAssumption DEF Seats, Players
    <3>3. QED BY <1>1, <1>8, <2>2, <3>1, <3>2
             DEF Places, BeforePlay, InHand, AtAction, AfterHand
  <2>3. QED BY <1>1, <2>1, <2>2
<1> QED BY <1>2, <1>7, <1>9 DEF DealerInv, Places

LEMMA NewHandKeeps ==
  ASSUME DealerInv, NewHand
  PROVE  DealerInv' /\ story' = story
<1>1. /\ pc = "newHand" /\ table' = setUpNewHand(table)
      /\ errorInfo' = checkErrorNewHand(errorInfo) /\ next' = 0
      /\ pc' = IF table.handId + 1 >= numHands THEN "final" ELSE "send"
      /\ UNCHANGED <<answer, waited, files, inbox, sent>>
  BY DEF NewHand, network
<1>2. ToldInv' /\ story' = story /\ timesTold' = timesTold
  BY <1>1, FilesStay DEF DealerInv
<1>3. /\ story = setUpNewHand(table) /\ Covers(errorInfo, timesTold)
      /\ \A seat \in Seats : timesTold.usedHand[seat] = 0
      /\ ReadyTable(story) /\ timesTold \in Times /\ errorInfo \in Times
      /\ currentSeat(story) \in Seats
  BY <1>1, FilesTell DEF DealerInv, AfterHand, TypeInv
<1>4. errorInfo' \in Times /\ Covers(errorInfo', timesTold')
  <2>1. 0 \in Int
    OBVIOUS
  <2>2. QED BY <1>1, <1>2, <1>3, <2>1, ChargedTimes
<1>5. table'.handId = table.handId + 1 /\ table.handId \in Nat /\ numHands \in Nat
  BY <1>1, SetUpNewHandFields, TableAssumption DEF DealerInv, TypeInv, TableWith
<1>6. TypeInv'
  <2>1. /\ table' \in TableWith(table'.state, table'.totalValue)
        /\ table'.player0Seat \in Seats /\ table'.state \in State
    BY <1>1, <1>3 DEF ReadyTable, Ready
  <2>2. QED BY <1>1, <1>4, <2>1 DEF TypeInv, DealerInv, files
<1>7. Places'
  <2>1. 0 \in Seats /\ \A seat \in Seats : ~(seat < 0)
    BY GameAssumption DEF Seats, Players
  <2>2. table' = story' /\ (pc' = "send" => table'.handId < numHands)
    BY <1>1, <1>2, <1>3, <1>5
  <2>3. QED BY <1>1, <1>4, <2>1, <2>2 DEF Places, BeforePlay, InHand, AtAction, AfterHand
<1> QED BY <1>2, <1>6, <1>7 DEF DealerInv, Places

-----------------------------------------------------------------------------
(* The seats and the clock.                                                *)

\* A line that is written is a line; nothing else the environment does matters.
LEMMA PlayingKeeps ==
  ASSUME DealerInv, Playing \/ Tick \/ ClockStepsBack \/ UNCHANGED vars
  PROVE  DealerInv' /\ story' = story
<1>1. /\ UNCHANGED <<pc, next, table, errorInfo, answer, files, sent>>
      /\ waited' \in {waited, waited + 1, -1}
  BY DEF Playing, Disconnect, Respond, Chatter, Write, Tick, ClockStepsBack,
         vars, process, network
<1>2. waited' \in Int
  BY <1>1 DEF DealerInv, TypeInv
<1>3. inbox' \in [Seats -> Seq(PlayerLine)]
  <2>1. ASSUME NEW seat \in Seats, NEW line \in PlayerLine, Write(seat, line)
        PROVE  inbox' \in [Seats -> Seq(PlayerLine)]
    <3>1. inbox' = [inbox EXCEPT ![seat] = Append(@, line)]
      BY <2>1 DEF Write
    <3>2. inbox \in [Seats -> Seq(PlayerLine)] /\ Append(inbox[seat], line) \in Seq(PlayerLine)
      BY DEF DealerInv, TypeInv
    <3>3. QED BY <3>1, <3>2
  <2>2. ASSUME NEW seat \in Seats, Respond(seat) PROVE inbox' \in [Seats -> Seq(PlayerLine)]
    <3>1. PICK m \in Recent(seat), a \in Answers :
             Write(seat, [kind |-> "response", state |-> m, action |-> a])
      BY <2>2 DEF Respond
    <3>2. sent[seat] \in Seq(Message)
      BY DEF DealerInv, TypeInv
    <3>3. m \in Message
      BY <3>1, <3>2 DEF Recent
    <3>4. [kind |-> "response", state |-> m, action |-> a] \in PlayerLine
      BY <3>1, <3>3 DEF PlayerLine
    <3>5. QED BY <2>1, <3>1, <3>4
  <2>3. ASSUME NEW seat \in Seats, Chatter(seat) PROVE inbox' \in [Seats -> Seq(PlayerLine)]
    <3>1. PICK k \in Noise : Write(seat, [kind |-> k, state |-> Last(sent[seat]), action |-> Call])
      BY <2>3 DEF Chatter
    <3>2. sent[seat] \in Seq(Message) /\ sent[seat] # << >>
      BY <2>3 DEF DealerInv, TypeInv, InHand, Saw, Chatter
    <3>3. Last(sent[seat]) \in Message
      BY <3>2 DEF Last
    <3>4. [kind |-> k, state |-> Last(sent[seat]), action |-> Call] \in PlayerLine
      BY <3>1, <3>3 DEF PlayerLine, Actions, Call
    <3>5. QED BY <2>1, <3>1, <3>4
  <2>4. CASE \E seat \in Seats : Disconnect(seat)
    BY <2>4 DEF Disconnect, DealerInv, TypeInv
  <2>5. CASE Tick \/ ClockStepsBack \/ UNCHANGED vars
    BY <2>5 DEF Tick, ClockStepsBack, vars, network, DealerInv, TypeInv
  <2>6. QED BY <2>2, <2>3, <2>4, <2>5 DEF Playing
<1> QED BY <1>1, <1>2, <1>3, FrameKeeps

-----------------------------------------------------------------------------
(* The theorems.                                                           *)

\* Every step keeps the invariant, and is a step of AbstractMatch or none.
LEMMA StepsKeep ==
  ASSUME DealerInv, [Next]_vars
  PROVE  DealerInv' /\ (M!Play \/ story' = story)
<1>1. CASE Fails
  BY <1>1, FailsKeeps
<1>2. CASE Accept \/ CheckVersion \/ Restart
  BY <1>2, StartKeeps
<1>3. CASE ReplayTransaction \/ ReplayEnds
  BY <1>3, ReplayTransactionKeeps, ReplayEndsKeeps
<1>4. CASE Send \/ SendFinal \/ addToLogFile \/ printFinalMessage
  BY <1>4, SendKeeps, SendFinalKeeps, addToLogFileKeeps
<1>5. CASE ReadLine
  BY <1>5, ReadLineKeeps
<1>6. CASE logTransaction
  BY <1>6, logTransactionKeeps
<1>7. CASE DoAction \/ NewHand
  BY <1>7, DoActionKeeps, NewHandKeeps
<1>8. CASE Playing \/ Tick \/ ClockStepsBack \/ UNCHANGED vars
  BY <1>8, PlayingKeeps
<1> QED BY <1>1, <1>2, <1>3, <1>4, <1>5, <1>6, <1>7, <1>8
        DEF Next, Dealing, Failing, CheckVersionFails, SendFails, ReadLineFails, GetLineFails,
            Crash, Stays

\* The invariant says what FileRecreatesMatch says, at every place of gameLoop.
LEMMA InvRecreates == DealerInv => FileRecreatesMatch
<1> SUFFICES ASSUME DealerInv PROVE FileRecreatesMatch
  OBVIOUS
<1>1. /\ pc \in {"send", "read", "log", "final", "done"} => story = table
      /\ pc = "act" => story = transact(table, answer.action)
      /\ pc \in {"addLog", "sendFinal", "newHand"} => story = setUpNewHand(table)
      /\ pc = "replay" => table = told[next].table
  BY DEF DealerInv, BeforePlay, InHand, AtAction, AfterHand
<1>2. pc = "replay" /\ next < Len(tlog) => Replayable(table, errorInfo, tlog[next + 1])
  BY LineIsReplayed
<1> QED BY <1>1, <1>2 DEF FileRecreatesMatch

\* For every game, number of seats and hands, limits on time and errors, and
\* number of crashes, and whatever the players write: the transaction file is
\* sufficient to recreate the match, and the dealer refuses no line of it.
THEOREM FileIsSufficient == Spec => []FileRecreatesMatch
<1>1. Init => DealerInv
  BY InitHolds
<1>2. DealerInv /\ [Next]_vars => DealerInv'
  BY StepsKeep
<1>3. DealerInv => FileRecreatesMatch
  BY InvRecreates
<1> QED BY <1>1, <1>2, <1>3, PTL DEF Spec

\* While the dealer waits for a seat, and until it has done what was answered,
\* every seat was last sent the state that the dealer is in.
THEOREM SeatsSeeTheState == Spec => []EverySeatSeesTheState
<1>1. Init => DealerInv
  BY InitHolds
<1>2. DealerInv /\ [Next]_vars => DealerInv'
  BY StepsKeep
<1>3. DealerInv => EverySeatSeesTheState
  BY DEF DealerInv, InHand, Saw, EverySeatSeesTheState
<1> QED BY <1>1, <1>2, <1>3, PTL DEF Spec

\* And seen through that file it plays the match: one valid action after the
\* other, each counted once.
THEOREM DealerPlaysMatch == Spec => ImplementsMatch
<1>1. Init => DealerInv /\ M!Init
  BY InitHolds DEF M!Init
<1>2. DealerInv /\ [Next]_vars => DealerInv' /\ [M!Next]_story
  BY StepsKeep DEF M!Next
<1> QED BY <1>1, <1>2, PTL DEF Spec, ImplementsMatch, M!Spec

-----------------------------------------------------------------------------
(* The log of a dealer that was never started again.                       *)

Value == {valueOfState(s, strength[h], p) : s \in State, h \in Nat, p \in Players}
LogLine == [handId : Nat, value : [Players -> Value], player0Seat : Seats]

\* What a line of a log tells a seat that it won, and what a whole log does.
toldTo(lines, seat) ==
    [i \in DOMAIN lines |-> lines[i].value[seatToPlayer(lines[i].player0Seat, seat)]]
addsUpTo(lines, seat) == SumTo(toldTo(lines, seat), Len(lines))

LogInv ==
    /\ restarts \in Nat /\ log \in Seq(LogLine)
    /\ restarts = 0 /\ pc # "failed" =>
          /\ pc \in {"accept", "version", "replay"} => tlog = << >> /\ table.handId = 0
          /\ Len(log) = table.handId + (IF pc \in {"sendFinal", "newHand"} THEN 1 ELSE 0)
          /\ \A i \in DOMAIN log : log[i].handId = i - 1
          /\ pc = "addLog" =>
                \A seat \in Seats :
                    table.totalValue[seat] =
                        addsUpTo(log, seat) + values(table)[seatToPlayer(table.player0Seat, seat)]
          /\ pc # "addLog" =>
                \A seat \in Seats : table.totalValue[seat] = addsUpTo(log, seat)

\* One line more in the log.
LEMMA OneLineMore ==
  ASSUME log \in Seq(LogLine), NEW e \in LogLine, log' = Append(log, e)
  PROVE  /\ log' \in Seq(LogLine) /\ Len(log') = Len(log) + 1
         /\ \A i \in DOMAIN log : i \in DOMAIN log' /\ log'[i] = log[i]
         /\ DOMAIN log' = DOMAIN log \cup {Len(log')} /\ log'[Len(log')] = e
         /\ \A seat \in Seats :
               addsUpTo(log', seat) = addsUpTo(log, seat) + e.value[seatToPlayer(e.player0Seat, seat)]
<1>1. /\ log' \in Seq(LogLine) /\ Len(log') = Len(log) + 1 /\ Len(log) \in Nat
      /\ DOMAIN log = 1 .. Len(log) /\ DOMAIN log' = 1 .. Len(log')
      /\ \A i \in 1 .. Len(log) : log'[i] = log[i]
      /\ log'[Len(log')] = e
  OBVIOUS
<1>2. ASSUME NEW seat \in Seats
      PROVE  addsUpTo(log', seat) = addsUpTo(log, seat) + e.value[seatToPlayer(e.player0Seat, seat)]
  <2> DEFINE f == toldTo(log, seat)
             g == toldTo(log', seat)
             n == Len(log)
  <2>1. /\ \A i \in 1 .. n : f[i] = g[i]
        /\ g[n + 1] = e.value[seatToPlayer(e.player0Seat, seat)]
    BY <1>1 DEF toldTo
  <2>2. addsUpTo(log, seat) = SumTo(f, n) /\ addsUpTo(log', seat) = SumTo(g, n + 1) /\ n \in Nat
    BY <1>1 DEF addsUpTo
  <2> HIDE DEF f, g, n
  <2>3. SumTo(f, n) = SumTo(g, n)
    BY <2>1, <2>2, SumOfEquals
  <2>4. SumTo(g, n + 1) = SumTo(g, n) + g[n + 1]
    BY <2>2, SumStep
  <2> QED BY <2>1, <2>2, <2>3, <2>4
<1> QED BY <1>1, <1>2

LEMMA NoLineYet ==
  ASSUME Init
  PROVE  LogInv
<1>1. log = << >> /\ Len(log) = 0 /\ log \in Seq(LogLine) /\ DOMAIN log = {}
  BY DEF Init
<1>2. /\ pc = "accept" /\ tlog = << >> /\ restarts = 0
      /\ table.handId = 0 /\ \A seat \in Seats : table.totalValue[seat] = 0
  BY DEF Init, Fresh, firstHand
<1>3. \A seat \in Seats : addsUpTo(log, seat) = 0
  BY <1>1, SumStep DEF addsUpTo
<1> QED BY <1>1, <1>2, <1>3 DEF LogInv

\* A step that leaves the log and the table as they are, and moves neither to
\* nor from the places where a hand is over.
LEMMA LogStays ==
  ASSUME LogInv, UNCHANGED <<log, table, restarts>>,
         \/ pc' = pc /\ tlog' = tlog
         \/ /\ pc # "failed" /\ pc # "addLog" /\ pc' # "addLog"
            /\ pc \in {"sendFinal", "newHand"} <=> pc' \in {"sendFinal", "newHand"}
            /\ pc' \in {"accept", "version", "replay"} =>
                  pc \in {"accept", "version", "replay"} /\ tlog' = tlog
  PROVE  LogInv'
<1>1. \A seat \in Seats : addsUpTo(log, seat)' = addsUpTo(log, seat)
  BY DEF addsUpTo, toldTo
<1>2. values(table)' = values(table)
  BY DEF values
<1> QED BY <1>1, <1>2 DEF LogInv

LEMMA LogLineIsTyped ==
  ASSUME DealerInv
  PROVE  [handId |-> table.handId, value |-> values(table), player0Seat |-> table.player0Seat] \in LogLine
<1>1. table.handId \in Nat /\ table.state \in State /\ table.player0Seat \in Seats
  BY DEF DealerInv, TypeInv, TableWith
<1>2. values(table) \in [Players -> Value]
  BY <1>1 DEF values, Value
<1> QED BY <1>1, <1>2 DEF LogLine

\* The hand that is over is added to the totals, and then to the log.
LEMMA DoActionCounts ==
  ASSUME DealerInv, LogInv, DoAction
  PROVE  LogInv'
<1> DEFINE after == act(table, answer.action)
<1>1. /\ pc = "act" /\ UNCHANGED <<log, restarts>>
      /\ \/ /\ table' = [after EXCEPT !.totalValue = addValues(after)] /\ pc' = "addLog"
         \/ table' = after /\ pc' = "send"
  BY DEF DoAction, files
<1>2. /\ after = [table EXCEPT !.state = after.state]
      /\ after.handId = table.handId /\ after.player0Seat = table.player0Seat
      /\ after.totalValue = table.totalValue
  BY DEF act, DealerInv, TypeInv, TableWith
<1> HIDE DEF after
<1>3. \A seat \in Seats : addsUpTo(log, seat)' = addsUpTo(log, seat)
  BY <1>1 DEF addsUpTo, toldTo
<1>4. /\ table'.handId = table.handId
      /\ pc' = "send" => table'.totalValue = table.totalValue
  BY <1>1, <1>2 DEF DealerInv, TypeInv, TableWith
<1>5. ASSUME pc' = "addLog", NEW seat \in Seats
      PROVE  table'.totalValue[seat] =
                table.totalValue[seat] + values(table')[seatToPlayer(table'.player0Seat, seat)]
  <2>1. table' = [after EXCEPT !.totalValue = addValues(after)]
    BY <1>1, <1>5
  <2>2. /\ table'.totalValue = addValues(after) /\ table'.player0Seat = after.player0Seat
        /\ table'.handId = after.handId /\ table'.state = after.state
    BY <2>1, <1>2 DEF DealerInv, TypeInv, TableWith
  <2>3. values(table') = values(after)
    BY <2>2 DEF values
  <2>4. addValues(after)[seat] =
           after.totalValue[seat] + values(after)[seatToPlayer(after.player0Seat, seat)]
    BY DEF addValues
  <2> QED BY <2>2, <2>3, <2>4, <1>2
<1>6. (values(table))' = values(table')
  BY DEF values
<1> QED BY <1>1, <1>3, <1>4, <1>5, <1>6 DEF LogInv

LEMMA addToLogFileAdds ==
  ASSUME DealerInv, LogInv, addToLogFile
  PROVE  LogInv'
<1> DEFINE e == [handId |-> table.handId, value |-> values(table), player0Seat |-> table.player0Seat]
<1>1. /\ pc = "addLog" /\ pc' = "sendFinal" /\ log' = Append(log, e)
      /\ UNCHANGED <<table, restarts>>
  BY DEF addToLogFile
<1>2. /\ e \in LogLine /\ e.handId = table.handId
      /\ e.value = values(table) /\ e.player0Seat = table.player0Seat
  BY LogLineIsTyped
<1> HIDE DEF e
<1>3. /\ log' \in Seq(LogLine) /\ Len(log') = Len(log) + 1
      /\ \A i \in DOMAIN log : i \in DOMAIN log' /\ log'[i] = log[i]
      /\ DOMAIN log' = DOMAIN log \cup {Len(log')} /\ log'[Len(log')] = e
      /\ \A seat \in Seats :
            addsUpTo(log', seat) = addsUpTo(log, seat) + e.value[seatToPlayer(e.player0Seat, seat)]
  BY <1>1, <1>2, OneLineMore DEF LogInv
<1>4. restarts' = restarts /\ restarts' \in Nat
  BY <1>1 DEF LogInv
<1> SUFFICES ASSUME restarts = 0 PROVE LogInv'
  BY <1>3, <1>4 DEF LogInv
<1>5. /\ Len(log) = table.handId /\ \A i \in DOMAIN log : log[i].handId = i - 1
      /\ \A seat \in Seats : table.totalValue[seat] =
            addsUpTo(log, seat) + values(table)[seatToPlayer(table.player0Seat, seat)]
      /\ table.handId \in Nat
  BY <1>1 DEF LogInv, DealerInv, TypeInv, TableWith
<1>6. \A i \in DOMAIN log' : log'[i].handId = i - 1
  BY <1>2, <1>3, <1>5
<1>7. \A seat \in Seats : addsUpTo(log, seat)' = addsUpTo(log', seat)
  BY DEF addsUpTo, toldTo
<1>8. \A seat \in Seats : table'.totalValue[seat] = addsUpTo(log', seat)
  BY <1>1, <1>2, <1>3, <1>5
<1>9. Len(log') = table'.handId + 1
  BY <1>1, <1>3, <1>5
<1> QED BY <1>1, <1>3, <1>6, <1>7, <1>8, <1>9 DEF LogInv

LEMMA NewHandCounts ==
  ASSUME DealerInv, LogInv, NewHand
  PROVE  LogInv'
<1>1. /\ pc = "newHand" /\ pc' \in {"final", "send"} /\ UNCHANGED <<log, restarts>>
      /\ table' = setUpNewHand(table)
  BY DEF NewHand, files
<1>2. table'.handId = table.handId + 1 /\ table'.totalValue = table.totalValue
  BY <1>1, SetUpNewHandFields DEF DealerInv, TypeInv, TableWith
<1>3. \A seat \in Seats : addsUpTo(log, seat)' = addsUpTo(log, seat)
  BY <1>1 DEF addsUpTo, toldTo
<1>4. table.handId \in Nat
  BY DEF DealerInv, TypeInv, TableWith
<1> QED BY <1>1, <1>2, <1>3, <1>4 DEF LogInv

LEMMA LogKeeps ==
  ASSUME DealerInv, LogInv, [Next]_vars
  PROVE  LogInv'
<1>1. CASE Fails
  BY <1>1 DEF Fails, LogInv, files
<1>2. CASE Restart
  BY <1>2 DEF Restart, LogInv, files
<1>3. CASE Accept \/ CheckVersion
  <2>1. /\ UNCHANGED <<log, table, restarts, tlog>>
        /\ pc \in {"accept", "version"} /\ pc' \in {"accept", "version", "replay"}
    BY <1>3 DEF Accept, CheckVersion, NextSeat, files
  <2> QED BY <2>1, LogStays
<1>4. CASE ReplayTransaction /\ ~Fails
  <2>1. /\ pc = "replay" /\ pc' = "replay" /\ next < Len(tlog) /\ next \in Nat
        /\ UNCHANGED <<log, restarts>>
    BY <1>4 DEF ReplayTransaction, files, DealerInv, TypeInv
  <2>2. restarts # 0
    BY <2>1 DEF LogInv
  <2> QED BY <2>1, <2>2 DEF LogInv
<1>5. CASE ReplayEnds \/ Send \/ logTransaction \/ SendFinal \/ printFinalMessage
  <2>1. /\ UNCHANGED <<log, table, restarts>>
        /\ \/ pc = "replay" /\ pc' \in {"send", "final"}
           \/ pc = "send" /\ pc' \in {"send", "read"}
           \/ pc = "log" /\ pc' = "act"
           \/ pc = "sendFinal" /\ pc' \in {"sendFinal", "newHand"}
           \/ pc = "final" /\ pc' = "done"
    BY <1>5 DEF ReplayEnds, Send, logTransaction, SendFinal, printFinalMessage, NextSeat, files
  <2> QED BY <2>1, LogStays
<1>6. CASE ReadLine
  <2>1. /\ UNCHANGED <<log, table, restarts, tlog>> /\ pc = "read" /\ pc' \in {"read", "log"}
    BY <1>6 DEF ReadLine, files
  <2> QED BY <2>1, LogStays
<1>7. CASE DoAction \/ addToLogFile \/ NewHand
  BY <1>7, DoActionCounts, addToLogFileAdds, NewHandCounts
<1>8. CASE Playing \/ Tick \/ ClockStepsBack \/ UNCHANGED vars
  <2>1. UNCHANGED <<pc, log, table, restarts, tlog>>
    BY <1>8 DEF Playing, Disconnect, Respond, Chatter, Write, Tick, ClockStepsBack,
                vars, process, files
  <2> QED BY <2>1, LogStays
<1> QED BY <1>1, <1>2, <1>3, <1>4, <1>5, <1>6, <1>7, <1>8
        DEF Next, Dealing, Failing, CheckVersionFails, SendFails, ReadLineFails, GetLineFails,
            Crash, Stays

\* The log of a match that was never interrupted: its hands in order, and
\* together what the totals say, for any number of hands, of seats, and any
\* button, whatever the players write.
THEOREM LogAddsUpToTotals == Spec => []LogAddsUp
<1>1. Init => DealerInv /\ LogInv
  BY InitHolds, NoLineYet
<1>2. DealerInv /\ LogInv /\ [Next]_vars => (DealerInv /\ LogInv)'
  <2> SUFFICES ASSUME DealerInv, LogInv, [Next]_vars PROVE DealerInv' /\ LogInv'
    OBVIOUS
  <2> QED BY StepsKeep, LogKeeps
<1>3. LogInv => LogAddsUp
  BY DEF LogInv, LogAddsUp, addsUpTo, toldTo
<1> QED BY <1>1, <1>2, <1>3, PTL DEF Spec

-----------------------------------------------------------------------------
(* The clients in the seats: what they were sent, have read and have       *)
(* written, at every place of gameLoop.                                    *)

\* A message that asks its seat for an action.
Asks(m) == ~stateFinished(m.state) /\ currentPlayer(m.state) = m.viewingPlayer

\* Message n is of a later hand than m, or has more actions of the same hand.
Earlier(m, n) ==
    \/ m.handId < n.handId
    \/ /\ m.handId = n.handId
       /\ \/ m.state.round < n.state.round
          \/ m.state.round = n.state.round /\ Len(acts(m.state)) < Len(acts(n.state))

\* The state is about to be sent to a seat.
ToBeSent(seat) == pc = "addLog" \/ (pc \in {"send", "sendFinal"} /\ ~(seat < next))

\* No two messages to a seat are of the same state.
MessagesInOrder ==
    /\ \A seat \in Seats : \A k, l \in DOMAIN sent[seat] :
          k < l => Earlier(sent[seat][k], sent[seat][l])
    /\ \A seat \in Seats : \A k \in DOMAIN sent[seat] : sent[seat][k].handId <= table.handId
    /\ pc \in {"accept", "version", "replay", "failed"} => \A seat \in Seats : sent[seat] = << >>
    /\ \A seat \in Seats : ToBeSent(seat) =>
          \A k \in DOMAIN sent[seat] : Earlier(sent[seat][k], matchState(table, seat))

HandIsOver ==
    /\ pc \in {"addLog", "sendFinal", "newHand"} => stateFinished(table.state)
    /\ \A seat \in Seats :
          pc = "newHand" \/ (pc = "sendFinal" /\ seat < next) => Saw(seat)

\* A client has read what it was sent up to some message, and answered just
\* those that asked it, with valid actions.
ClientsRead ==
    /\ chosen \in [Seats -> Seq(Action)]
    /\ \A seat \in Seats : Len(chosen[seat]) <= Len(sent[seat])
    /\ \A seat \in Seats : \A k \in DOMAIN chosen[seat] :
          chosen[seat][k] # Silent =>
              Asks(sent[seat][k]) /\ chosen[seat][k] \in ValidActions(sent[seat][k].state)

\* A line is a choice of its client, or one of the lines besides those.
IsChoice(seat, line) ==
    \E k \in DOMAIN chosen[seat] :
        chosen[seat][k] # Silent /\ line.state = sent[seat][k] /\ line.action = chosen[seat][k]

LinesAreChoices ==
    \A seat \in Seats : \A i \in DOMAIN inbox[seat] :
        IF inbox[seat][i].kind = "response" THEN IsChoice(seat, inbox[seat][i])
        ELSE inbox[seat][i].kind \in Range(extra)

\* Nobody writes a line that the dealer takes for an action he did not choose.
Calm == "malformed" \notin Range(extra)

\* The dealer does not go on before a client has read what it is asked.
UnreadIsAwaited ==
    Calm => \A seat \in Seats : \A k \in DOMAIN sent[seat] :
        k > Len(chosen[seat]) /\ Asks(sent[seat][k]) =>
            k = Len(sent[seat]) /\ pc \in {"send", "read"} /\ ~ToBeSent(seat)

\* The action that is logged and done is the last choice of the seat that was
\* asked, and leads to the state that is sent next.
ReplyIsPlayed ==
    Calm /\ pc \in {"log", "act"} =>
        LET seat == currentSeat(table)
        IN Len(chosen[seat]) = Len(sent[seat]) /\ answer.action = chosen[seat][Len(sent[seat])]

ReplyHappened ==
    Calm => \A seat \in Seats : \A k \in DOMAIN chosen[seat] :
        ToBeSent(seat) /\ k = Len(sent[seat]) /\ chosen[seat][k] # Silent =>
            table.state = doAction(sent[seat][k].state, chosen[seat][k])

OneLine ==
    extra = << >> => \A seat \in Seats : inbox[seat] # << >> =>
        /\ pc \in {"send", "read"} /\ ~ToBeSent(seat)
        /\ Len(inbox[seat]) = 1 /\ Len(chosen[seat]) = Len(sent[seat])
        /\ Head(inbox[seat]).state = Last(sent[seat]) /\ Asks(Last(sent[seat]))

Conversation ==
    /\ MessagesInOrder /\ HandIsOver /\ ClientsRead /\ LinesAreChoices
    /\ UnreadIsAwaited /\ ReplyIsPlayed /\ ReplyHappened /\ OneLine /\ ChoicesHappen

PlayersInv == DealerInv /\ Conversation /\ extra \in Seq({"again"} \cup Noise)

-----------------------------------------------------------------------------
(* Messages.                                                               *)

LEMMA MessageNumbers ==
  ASSUME NEW m \in Message
  PROVE  /\ m.handId \in Nat /\ m.state \in State /\ m.state.round \in Nat
         /\ acts(m.state) \in Seq(Entry) /\ Len(acts(m.state)) \in Nat
<1>1. m.handId \in Nat /\ m.state \in State /\ m.state.round \in Rounds
  BY DEF Message, State
<1>2. m.state.round \in Nat
  BY <1>1, GameAssumption DEF Rounds
<1>3. acts(m.state) \in Seq(Entry)
  BY <1>1 DEF State, acts
<1>4. Len(acts(m.state)) \in Nat
  BY <1>3
<1> QED BY <1>1, <1>2, <1>3, <1>4

LEMMA EarlierIsTransitive ==
  ASSUME NEW m \in Message, NEW n \in Message, NEW o \in Message, Earlier(m, n), Earlier(n, o)
  PROVE  Earlier(m, o)
<1> DEFINE lm == Len(acts(m.state))
           ln == Len(acts(n.state))
           lo == Len(acts(o.state))
<1>1. /\ {m.handId, n.handId, o.handId, m.state.round, n.state.round, o.state.round} \subseteq Nat
      /\ {lm, ln, lo} \subseteq Nat
  BY MessageNumbers
<1>2. ASSUME NEW x, NEW y
      PROVE  Earlier(x, y) <=> \/ x.handId < y.handId
                               \/ /\ x.handId = y.handId
                                  /\ \/ x.state.round < y.state.round
                                     \/ /\ x.state.round = y.state.round
                                        /\ Len(acts(x.state)) < Len(acts(y.state))
  BY DEF Earlier
<1> HIDE DEF lm, ln, lo
<1>3. Earlier(m, n) <=> \/ m.handId < n.handId
                        \/ /\ m.handId = n.handId
                           /\ (m.state.round < n.state.round
                                 \/ (m.state.round = n.state.round /\ lm < ln))
  BY <1>2 DEF lm, ln
<1>4. Earlier(n, o) <=> \/ n.handId < o.handId
                        \/ /\ n.handId = o.handId
                           /\ (n.state.round < o.state.round
                                 \/ (n.state.round = o.state.round /\ ln < lo))
  BY <1>2 DEF ln, lo
<1>5. Earlier(m, o) <=> \/ m.handId < o.handId
                        \/ /\ m.handId = o.handId
                           /\ (m.state.round < o.state.round
                                 \/ (m.state.round = o.state.round /\ lm < lo))
  BY <1>2 DEF lm, lo
<1> QED BY <1>1, <1>3, <1>4, <1>5

\* matchStatesEqual knows a message from all earlier ones, and as itself.
LEMMA EqualIsNotEarlier ==
  ASSUME NEW m \in Message, NEW n \in Message
  PROVE  /\ matchStatesEqual(m, n) => ~Earlier(m, n)
         /\ matchStatesEqual(m, m)
<1>1. /\ m.handId \in Nat /\ n.handId \in Nat /\ m.state.round \in Nat /\ n.state.round \in Nat
      /\ Len(acts(m.state)) \in Nat /\ Len(acts(n.state)) \in Nat
  BY MessageNumbers
<1>2. ASSUME matchStatesEqual(m, n) PROVE ~Earlier(m, n)
  <2>1. m.handId = n.handId /\ m.state.round = n.state.round
    BY <1>2 DEF matchStatesEqual, statesEqualCommon
  <2>2. m.state.round \in 0 .. m.state.round
    BY <1>1
  <2>3. Len(m.state.action[m.state.round]) = Len(n.state.action[m.state.round])
    BY <1>2, <2>2 DEF matchStatesEqual, statesEqualCommon
  <2>4. QED BY <1>1, <2>1, <2>3 DEF Earlier, acts
<1>3. matchStatesEqual(m, m)
  BY DEF matchStatesEqual, statesEqualCommon, SameAction
<1> QED BY <1>2, <1>3

\* An action leads to a later message (doAction appends to the round it is in).
LEMMA ActionIsLater ==
  ASSUME NEW t, ReadyTable(t), NEW a \in Action, isValidAction(t.state, FALSE, a),
         NEW u, u.handId = t.handId, u.state = doAction(t.state, a), NEW seat, NEW other
  PROVE  Earlier(matchState(t, seat), matchState(u, other))
<1> DEFINE s == t.state
           b == StoreAction(s, a)
           entry == [type |-> a.type, size |-> a.size, player |-> currentPlayer(s)]
<1>1. s \in State /\ a.type # "invalid" /\ a.type \in {"fold", "call", "raise"} /\ t.handId \in Nat
  BY DEF ReadyTable, Ready, isValidAction, Action, ActionTypes, TableWith
<1>2. s.round \in Rounds /\ s.action \in [Rounds -> Seq(Entry)] /\ s.round \in Nat
      /\ s.round <= numRounds - 1 /\ numRounds \in Nat
  BY <1>1, GameAssumption DEF State, Rounds
<1>3. Stored(b, s, a, currentPlayer(s), RaiseTo(s, currentPlayer(s), a.size))
  BY <1>1, StoreActionFields
<1>12. b.round = s.round /\ b.action = [s.action EXCEPT ![s.round] = Append(@, entry)]
  BY <1>3 DEF Stored
<1>4. entry \in Entry
  BY <1>1, ReadyActor DEF ReadyTable, Entry, Action
<1> HIDE DEF entry
<1>5. b.action[s.round] = Append(s.action[s.round], entry) /\ s.action[s.round] \in Seq(Entry)
  BY <1>2, <1>12
<1>6. Len(b.action[s.round]) = Len(s.action[s.round]) + 1 /\ Len(s.action[s.round]) \in Nat
  BY <1>4, <1>5
<1> DEFINE e == EndBetting(b)
<1>7. e.action = b.action /\ e.round \in {b.round, b.round + 1, numRounds - 1}
  <2>1. b = [maxSpent |-> b.maxSpent, minNoLimitRaiseTo |-> b.minNoLimitRaiseTo,
             spent |-> b.spent, action |-> b.action, round |-> s.round,
             finished |-> s.finished, playerFolded |-> b.playerFolded]
    BY <1>3 DEF Stored
  <2>2. \/ e = b \/ e = [b EXCEPT !.finished = TRUE]
        \/ e = [b EXCEPT !.finished = TRUE, !.round = numRounds - 1]
        \/ e = [b EXCEPT !.round = b.round + 1, !.minNoLimitRaiseTo = RoundMinimum(b)]
    BY DEF EndBetting
  <2> HIDE DEF b, e
  <2>3. QED BY <2>1, <2>2
<1> HIDE DEF b, e
<1>8. e = doAction(s, a)
  BY DEF doAction, b, e
<1>9. /\ u.handId = t.handId /\ u.state = e
      /\ e.round > s.round \/ (e.round = s.round /\ Len(acts(e)) = Len(acts(s)) + 1)
  BY <1>2, <1>6, <1>7, <1>8, <1>12 DEF acts
<1>10. Len(acts(s)) \in Nat
  BY <1>6 DEF acts
<1>11. \/ s.round < e.round
       \/ s.round = e.round /\ Len(acts(s)) < Len(acts(e))
  BY <1>9, <1>10, <1>2
<1> QED BY <1>9, <1>11 DEF Earlier, matchState

\* A seat is asked by the message of a state if it is the current one.
LEMMA AskedIsCurrent ==
  ASSUME NEW t, t.player0Seat \in Seats, Ready(t.state), NEW seat \in Seats
  PROVE  Asks(matchState(t, seat)) <=> seat = currentSeat(t)
<1> DEFINE n == numPlayers
           b == t.player0Seat
           p == currentPlayer(t.state)
<1>1. n \in Nat /\ n > 0 /\ b \in 0 .. n - 1 /\ seat \in 0 .. n - 1
  BY GameAssumption DEF Seats, Players
<1>2. p \in 0 .. n - 1
  BY ReadyActor DEF Players
<1>3. Asks(matchState(t, seat)) <=> p = (seat + n - b) % n
  BY DEF Asks, matchState, seatToPlayer, Ready, stateFinished
<1>4. currentSeat(t) = (p + b) % n
  BY DEF currentSeat, playerToSeat
<1> HIDE DEF n, b, p
<1>5. (seat + n - b) % n = IF seat >= b THEN seat - b ELSE seat + n - b
  <2>1. CASE seat >= b
    <3>1. seat + n - b = 1 * n + (seat - b) /\ seat - b \in 0 .. n - 1
      BY <1>1, <2>1
    <3>2. QED BY <3>1, <1>1, <2>1, ModuloOfMultiple
  <2>2. CASE ~(seat >= b)
    <3>1. seat + n - b = 0 * n + (seat + n - b) /\ seat + n - b \in 0 .. n - 1
      BY <1>1, <2>2
    <3>2. QED BY <3>1, <1>1, <2>2, ModuloOfMultiple
  <2>3. QED BY <2>1, <2>2
<1>6. (p + b) % n = IF p + b < n THEN p + b ELSE p + b - n
  <2>1. CASE p + b < n
    <3>1. p + b = 0 * n + (p + b) /\ p + b \in 0 .. n - 1
      BY <1>1, <1>2, <2>1
    <3>2. QED BY <3>1, <1>1, <2>1, ModuloOfMultiple
  <2>2. CASE ~(p + b < n)
    <3>1. p + b = 1 * n + (p + b - n) /\ p + b - n \in 0 .. n - 1
      BY <1>1, <1>2, <2>2
    <3>2. QED BY <3>1, <1>1, <2>2, ModuloOfMultiple
  <2>3. QED BY <2>1, <2>2
<1> QED BY <1>1, <1>2, <1>3, <1>4, <1>5, <1>6

\* What a client chooses is played as it stands.
LEMMA ChoicesStand ==
  ASSUME NEW s, Ready(s), NEW a \in ValidActions(s)
  PROVE  /\ a \in Actions /\ a \in Action /\ a # Silent
         /\ isValidAction(s, TRUE, a) /\ fixedAction(s, a) = a
<1>1. a \in Actions /\ isValidAction(s, FALSE, a)
  BY DEF ValidActions
<1>2. a \in Action /\ a.type # "invalid" /\ (a.type # "raise" => a.size = 0)
  BY <1>1, ActionsAreTyped
<1>3. a # Silent
  BY <1>2 DEF Silent
<1>4. isValidAction(s, TRUE, a)
  BY <1>1 DEF isValidAction
<1>5. fixedAction(s, a) = a
  <2>1. CASE a.type # "raise"
    BY <2>1, <1>2 DEF fixedAction, Action
  <2>2. CASE a.type = "raise"
    <3>1. noLimit => a.size \in minSize(s) .. maxSize(s)
      BY <1>1, <2>2 DEF isValidAction, SizeIsValid
    <3>2. minSize(s) \in Int /\ maxSize(s) \in Nat
      BY RaiseSizes
    <3>3. noLimit => ~(a.size < minSize(s)) /\ ~(a.size > maxSize(s))
      BY <3>1, <3>2
    <3>4. QED BY <3>3, <2>2 DEF fixedAction
  <2>3. QED BY <2>1, <2>2
<1> QED BY <1>1, <1>2, <1>3, <1>4, <1>5

-----------------------------------------------------------------------------
(* Starting, and steps that touch no message.                              *)

LEMMA StartConverses ==
  ASSUME PlayersInv, UNCHANGED <<sent, inbox, chosen, extra>>,
         pc \in {"accept", "version", "replay", "failed"},
         pc' \in {"accept", "version", "replay", "failed", "send", "final"}
  PROVE  Conversation'
<1>1. /\ \A seat \in Seats : sent'[seat] = << >> /\ DOMAIN sent'[seat] = {} /\ Len(sent'[seat]) = 0
      /\ ClientsRead /\ LinesAreChoices /\ OneLine /\ ChoicesHappen
  BY DEF PlayersInv, Conversation, MessagesInOrder
<1>2. ClientsRead' /\ LinesAreChoices' /\ ChoicesHappen'
  BY <1>1 DEF ClientsRead, LinesAreChoices, IsChoice, ChoicesHappen
<1>3. MessagesInOrder' /\ UnreadIsAwaited' /\ ReplyHappened'
  <2>1. MessagesInOrder'
    BY <1>1 DEF MessagesInOrder
  <2>2. UnreadIsAwaited'
    BY <1>1 DEF UnreadIsAwaited
  <2>3. ASSUME NEW seat \in Seats PROVE DOMAIN chosen'[seat] = {}
    <3>1. chosen'[seat] \in Seq(Action) /\ Len(chosen'[seat]) <= 0
      BY <1>1, <1>2 DEF ClientsRead
    <3>2. QED BY <3>1
  <2>4. ReplyHappened'
    BY <2>3 DEF ReplyHappened
  <2>5. QED BY <2>1, <2>2, <2>4
<1>4. HandIsOver' /\ ReplyIsPlayed'
  BY DEF HandIsOver, ReplyIsPlayed
<1>5. OneLine'
  BY <1>1 DEF OneLine
<1> QED BY <1>2, <1>3, <1>4, <1>5 DEF Conversation

LEMMA KilledConverses ==
  ASSUME PlayersInv, Killed
  PROVE  Conversation'
<1>1. /\ pc' = "failed" /\ sent' = [seat \in Seats |-> << >>] /\ inbox' = [seat \in Seats |-> << >>]
      /\ chosen' = [seat \in Seats |-> << >>]
  BY DEF Killed, Crash, Fails, Fresh
<1>2. ASSUME NEW seat \in Seats
      PROVE  /\ sent'[seat] = << >> /\ DOMAIN sent'[seat] = {} /\ Len(sent'[seat]) = 0
             /\ chosen'[seat] = << >> /\ DOMAIN chosen'[seat] = {} /\ Len(chosen'[seat]) = 0
             /\ inbox'[seat] = << >> /\ DOMAIN inbox'[seat] = {}
  BY <1>1
<1>3. ClientsRead'
  BY <1>1, <1>2 DEF ClientsRead
<1>4. MessagesInOrder' /\ LinesAreChoices' /\ UnreadIsAwaited' /\ ReplyHappened' /\ OneLine'
      /\ ChoicesHappen'
  BY <1>1, <1>2 DEF MessagesInOrder, LinesAreChoices, UnreadIsAwaited, ReplyHappened, OneLine,
                    ChoicesHappen, ToBeSent
<1>5. HandIsOver' /\ ReplyIsPlayed'
  BY <1>1 DEF HandIsOver, ReplyIsPlayed
<1> QED BY <1>3, <1>4, <1>5 DEF Conversation

\* Logging, the end, and steps that change nothing.
LEMMA LogsConverse ==
  ASSUME PlayersInv, UNCHANGED <<table, sent, inbox, chosen, extra>>,
         \/ logTransaction
         \/ addToLogFile
         \/ printFinalMessage
         \/ UNCHANGED vars
  PROVE  Conversation'
<1>1. \/ pc = "log" /\ pc' = "act" /\ answer' = answer /\ next' = next
      \/ pc = "addLog" /\ pc' = "sendFinal" /\ next' = 0
      \/ pc = "final" /\ pc' = "done" /\ next' = next
      \/ pc' = pc /\ next' = next /\ answer' = answer
  BY DEF logTransaction, addToLogFile, printFinalMessage, vars, process
<1>2. \A seat \in Seats : ~(seat < 0)
  BY GameAssumption DEF Seats, Players
<1>3. /\ \A seat \in Seats : ToBeSent(seat)' => ToBeSent(seat)
      /\ \A seat \in Seats : ToBeSent(seat) /\ pc \in {"send", "read"} => ToBeSent(seat)'
  BY <1>1 DEF ToBeSent
<1>4. ClientsRead' /\ LinesAreChoices' /\ ChoicesHappen' /\ Calm' = Calm
  BY DEF PlayersInv, Conversation, ClientsRead, LinesAreChoices, IsChoice, ChoicesHappen, Calm
<1>5. MessagesInOrder'
  BY <1>1, <1>3 DEF PlayersInv, Conversation, MessagesInOrder
<1>6. HandIsOver'
  BY <1>1, <1>2 DEF PlayersInv, Conversation, HandIsOver, Saw
<1>7. UnreadIsAwaited'
  BY <1>1, <1>3, <1>4 DEF PlayersInv, Conversation, UnreadIsAwaited
<1>8. ReplyIsPlayed'
  BY <1>1, <1>4 DEF PlayersInv, Conversation, ReplyIsPlayed
<1>9. ReplyHappened'
  BY <1>3, <1>4 DEF PlayersInv, Conversation, ReplyHappened
<1>10. OneLine'
  BY <1>1, <1>3 DEF PlayersInv, Conversation, OneLine
<1> QED BY <1>4, <1>5, <1>6, <1>7, <1>8, <1>9, <1>10 DEF Conversation

-----------------------------------------------------------------------------
(* Sending a state.                                                        *)

LEMMA NewMessage ==
  ASSUME TypeInv, next \in Seats, SendTo(next)
  PROVE  LET n == Len(sent[next])
         IN /\ sent' \in [Seats -> Seq(Message)]
            /\ n \in Nat /\ Len(sent'[next]) = n + 1
            /\ DOMAIN sent[next] = 1 .. n /\ DOMAIN sent'[next] = 1 .. n + 1
            /\ \A k \in 1 .. n : sent'[next][k] = sent[next][k]
            /\ sent'[next][n + 1] = matchState(table, next)
            /\ Last(sent'[next]) = matchState(table, next) /\ sent'[next] # << >>
            /\ \A seat \in Seats : seat # next => sent'[seat] = sent[seat]
<1> DEFINE m == matchState(table, next)
           old == sent[next]
           new == sent'[next]
<1>1. m \in Message /\ sent' = [sent EXCEPT ![next] = Append(@, m)] /\ sent \in [Seats -> Seq(Message)]
  BY MessageIsTyped DEF SendTo, TypeInv
<1>2. sent' \in [Seats -> Seq(Message)] /\ \A seat \in Seats : seat # next => sent'[seat] = sent[seat]
  BY SendToFields
<1> HIDE DEF m
<1>3. old \in Seq(Message) /\ new = Append(old, m)
  BY <1>1
<1> HIDE DEF old, new
<1>4. /\ Len(old) \in Nat /\ Len(new) = Len(old) + 1
      /\ DOMAIN old = 1 .. Len(old) /\ DOMAIN new = 1 .. Len(old) + 1
      /\ (\A k \in 1 .. Len(old) : new[k] = old[k]) /\ new[Len(old) + 1] = m
  BY <1>1, <1>3
<1>5. Last(new) = m /\ new # << >>
  BY <1>4 DEF Last
<1> QED BY <1>2, <1>4, <1>5 DEF m, old, new

LEMMA SendConverses ==
  ASSUME PlayersInv, DealerInv', Send \/ SendFinal, UNCHANGED <<chosen, extra>>
  PROVE  Conversation'
<1> DEFINE n == Len(sent[next])
           m == matchState(table, next)
           here == IF pc = "send" THEN "send" ELSE "sendFinal"
           then == IF pc = "send" THEN "read" ELSE "newHand"
<1>1. /\ pc \in {"send", "sendFinal"} /\ SendTo(next) /\ NextSeat(here, then)
      /\ UNCHANGED <<table, answer, inbox>>
  BY DEF Send, SendFinal
<1>2. next \in Seats /\ TypeInv /\ pc = here /\ then # "addLog" /\ then # "log" /\ then # "act"
  BY <1>1 DEF PlayersInv, DealerInv, InHand, AfterHand
<1>3. /\ next' \in Seats
      /\ \/ pc' = here /\ next' = next + 1
         \/ pc' = then /\ next' = 0 /\ \A seat \in Seats : seat < next \/ seat = next
  BY <1>1, <1>2, NextSeatIsSeat
<1>4. /\ sent' \in [Seats -> Seq(Message)]
      /\ n \in Nat /\ Len(sent'[next]) = n + 1
      /\ DOMAIN sent[next] = 1 .. n /\ DOMAIN sent'[next] = 1 .. n + 1
      /\ \A k \in 1 .. n : sent'[next][k] = sent[next][k]
      /\ sent'[next][n + 1] = m
      /\ Last(sent'[next]) = m /\ sent'[next] # << >>
      /\ \A seat \in Seats : seat # next => sent'[seat] = sent[seat]
  BY <1>1, <1>2, NewMessage
<1>5. /\ ToBeSent(next) /\ \A seat \in Seats : seat = next => ~ToBeSent(seat)'
      /\ \A seat \in Seats : ToBeSent(seat)' => seat # next /\ ToBeSent(seat)
      /\ \A seat \in Seats : seat # next /\ ~ToBeSent(seat) => ~ToBeSent(seat)'
  <2>1. next \in Int /\ next' \in Int /\ \A seat \in Seats : seat \in Int
    BY <1>2, <1>3 DEF Seats, Players
  <2>2. ASSUME NEW seat \in Seats
        PROVE  /\ ToBeSent(seat) <=> ~(seat < next)
               /\ ToBeSent(seat)' <=> (pc' = here /\ ~(seat < next'))
    BY <1>1, <1>3 DEF ToBeSent
  <2>3. ASSUME NEW seat \in Seats, ToBeSent(seat)' PROVE seat # next /\ ToBeSent(seat)
    <3>1. pc' = here /\ ~(seat < next')
      BY <2>2, <2>3
    <3>2. next' = next + 1 \/ (next' = 0 /\ (seat < next \/ seat = next))
      BY <1>3
    <3>3. seat >= 0
      BY DEF Seats, Players
    <3>4. seat # next /\ ~(seat < next)
      BY <2>1, <3>1, <3>2, <1>2, <1>3
    <3>5. QED BY <2>2, <3>4
  <2>4. ToBeSent(next) /\ \A seat \in Seats : seat = next => ~ToBeSent(seat)'
    BY <1>2, <2>1, <2>2, <2>3
  <2>5. ASSUME NEW seat \in Seats, seat # next, ~ToBeSent(seat) PROVE ~ToBeSent(seat)'
    BY <2>3, <2>5
  <2>6. QED BY <2>3, <2>4, <2>5
<1>6. Calm' = Calm /\ pc' # "log" /\ pc' # "act" /\ pc' # "addLog"
  BY <1>1, <1>2, <1>3 DEF Calm
<1>7. n + 1 \in Nat /\ \A k \in 1 .. n + 1 : k \in 1 .. n \/ k = n + 1
  BY <1>4
<1>8. MessagesInOrder /\ ClientsRead /\ LinesAreChoices /\ UnreadIsAwaited /\ ReplyHappened
      /\ OneLine /\ ChoicesHappen /\ HandIsOver
  BY DEF PlayersInv, Conversation
<1> HIDE DEF n, m, here, then
<1>9. MessagesInOrder'
  <2>1. ASSUME NEW seat \in Seats, NEW k \in DOMAIN sent'[seat], NEW l \in DOMAIN sent'[seat], k < l
        PROVE  Earlier(sent'[seat][k], sent'[seat][l])
    <3>1. CASE seat # next
      BY <3>1, <2>1, <1>4, <1>8 DEF MessagesInOrder
    <3>2. CASE seat = next /\ l = n + 1
      <4>1. k \in 1 .. n
        BY <2>1, <3>2, <1>4
      <4>2. Earlier(sent[next][k], m)
        BY <4>1, <1>2, <1>4, <1>5, <1>8 DEF MessagesInOrder, m
      <4>3. QED BY <4>1, <4>2, <3>2, <1>4
    <3>3. CASE seat = next /\ l # n + 1
      <4>1. k \in 1 .. n /\ l \in 1 .. n
        BY <2>1, <3>3, <1>4
      <4>2. QED BY <4>1, <2>1, <3>3, <1>2, <1>4, <1>8 DEF MessagesInOrder
    <3>4. QED BY <3>1, <3>2, <3>3
  <2>2. ASSUME NEW seat \in Seats, NEW k \in DOMAIN sent'[seat]
        PROVE  sent'[seat][k].handId <= table'.handId
    <3>1. CASE seat # next
      BY <3>1, <2>2, <1>1, <1>4, <1>8 DEF MessagesInOrder
    <3>2. CASE seat = next /\ k \in 1 .. n
      BY <3>2, <1>1, <1>2, <1>4, <1>8 DEF MessagesInOrder
    <3>3. CASE seat = next /\ k = n + 1
      <4>1. m.handId = table.handId /\ table.handId \in Nat
        BY <1>2 DEF m, matchState, TypeInv, TableWith
      <4>2. QED BY <4>1, <3>3, <1>1, <1>4
    <3>4. QED BY <3>1, <3>2, <3>3, <2>2, <1>4, <1>7
  <2>3. ASSUME NEW seat \in Seats, ToBeSent(seat)', NEW k \in DOMAIN sent'[seat]
        PROVE  Earlier(sent'[seat][k], matchState(table', seat))
    BY <2>3, <1>1, <1>4, <1>5, <1>8 DEF MessagesInOrder
  <2>4. pc' \notin {"accept", "version", "replay", "failed"}
    BY <1>3 DEF here, then
  <2>5. QED BY <2>1, <2>2, <2>3, <2>4 DEF MessagesInOrder
<1>10. HandIsOver'
  <2>1. pc' \in {"addLog", "sendFinal", "newHand"} => stateFinished(table'.state)
    BY <1>1, <1>2, <1>3, <1>8 DEF HandIsOver, here, then
  <2>2. ASSUME NEW seat \in Seats, pc' = "newHand" \/ (pc' = "sendFinal" /\ seat < next')
        PROVE  sent'[seat] # << >> /\ Last(sent'[seat]) = matchState(table', seat)
    <3>1. CASE seat = next
      BY <3>1, <1>1, <1>4 DEF m
    <3>2. CASE seat # next
      <4>1. pc = "sendFinal" /\ seat < next
        <5>1. pc = "sendFinal"
          BY <2>2, <1>1, <1>3 DEF here, then
        <5>2. seat \in Int /\ next \in Int
          BY <1>2 DEF Seats, Players
        <5>3. seat < next' => next' = next + 1
          BY <1>3 DEF Seats, Players
        <5>4. seat < next
          BY <2>2, <3>2, <5>2, <5>3, <1>3 DEF here, then
        <5>5. QED BY <5>1, <5>4
      <4>2. QED BY <4>1, <3>2, <1>1, <1>4, <1>8 DEF HandIsOver, Saw
    <3>3. QED BY <3>1, <3>2
  <2>3. QED BY <2>1, <2>2 DEF HandIsOver, Saw
<1>11. ClientsRead'
  <2>1. ASSUME NEW seat \in Seats
        PROVE  /\ Len(chosen'[seat]) <= Len(sent'[seat])
               /\ \A k \in DOMAIN chosen'[seat] : sent'[seat][k] = sent[seat][k]
    <3>1. /\ chosen[seat] \in Seq(Action) /\ Len(chosen[seat]) <= Len(sent[seat])
          /\ Len(chosen[seat]) \in Nat /\ DOMAIN chosen[seat] = 1 .. Len(chosen[seat])
      BY <1>8 DEF ClientsRead
    <3>2. CASE seat # next
      BY <3>1, <3>2, <1>4
    <3>3. CASE seat = next
      <4>1. Len(chosen[seat]) <= n /\ 1 .. Len(chosen[seat]) \subseteq 1 .. n
        BY <3>1, <3>3, <1>4 DEF n
      <4>2. QED BY <4>1, <3>1, <3>3, <1>4
    <3>4. QED BY <3>2, <3>3
  <2>2. QED BY <2>1, <1>8 DEF ClientsRead
<1>12. LinesAreChoices'
  <2>1. \A seat \in Seats : \A k \in DOMAIN chosen[seat] : sent'[seat][k] = sent[seat][k]
    <3>1. ASSUME NEW seat \in Seats, NEW k \in DOMAIN chosen[seat]
          PROVE  sent'[seat][k] = sent[seat][k]
      <4>1. CASE seat # next
        BY <4>1, <1>4
      <4>2. CASE seat = next
        <5>1. chosen[seat] \in Seq(Action) /\ Len(chosen[seat]) <= n
          BY <4>2, <1>8 DEF ClientsRead, n
        <5>2. k \in 1 .. n
          BY <5>1, <3>1, <1>4
        <5>3. QED BY <5>2, <4>2, <1>4
      <4>3. QED BY <4>1, <4>2
    <3>2. QED BY <3>1
  <2>2. QED BY <2>1, <1>1, <1>8 DEF LinesAreChoices, IsChoice
<1>13. UnreadIsAwaited'
  <2>1. ASSUME Calm, NEW seat \in Seats, NEW k \in DOMAIN sent'[seat],
               k > Len(chosen'[seat]), Asks(sent'[seat][k])
        PROVE  k = Len(sent'[seat]) /\ pc' \in {"send", "read"} /\ ~ToBeSent(seat)'
    <3>1. CASE seat # next
      <4>1. k = Len(sent[seat]) /\ pc \in {"send", "read"} /\ ~ToBeSent(seat)
        BY <2>1, <3>1, <1>4, <1>8 DEF UnreadIsAwaited
      <4>2. QED BY <4>1, <3>1, <1>1, <1>3, <1>4, <1>5 DEF here, then
    <3>2. CASE seat = next /\ k \in 1 .. n
      BY <2>1, <3>2, <1>4, <1>5, <1>8 DEF UnreadIsAwaited
    <3>3. CASE seat = next /\ k = n + 1
      <4>1. pc = "send"
        BY <2>1, <3>3, <1>1, <1>4, <1>8 DEF HandIsOver, Asks, m, matchState
      <4>2. QED BY <4>1, <3>3, <1>3, <1>4, <1>5 DEF here, then
    <3>4. QED BY <3>1, <3>2, <3>3, <2>1, <1>4, <1>7
  <2>2. QED BY <2>1, <1>6 DEF UnreadIsAwaited
<1>14. ReplyIsPlayed'
  BY <1>6 DEF ReplyIsPlayed
<1>15. ReplyHappened'
  BY <1>1, <1>4, <1>5, <1>6, <1>8 DEF ReplyHappened
<1>16. OneLine'
  <2>1. ASSUME extra = << >>, NEW seat \in Seats, inbox[seat] # << >>
        PROVE  /\ seat # next /\ pc' \in {"send", "read"} /\ ~ToBeSent(seat)'
               /\ sent'[seat] = sent[seat]
    <3>1. pc \in {"send", "read"} /\ ~ToBeSent(seat)
      BY <2>1, <1>8 DEF OneLine
    <3>2. QED BY <3>1, <1>1, <1>3, <1>4, <1>5 DEF here, then
  <2>2. QED BY <2>1, <1>1, <1>8 DEF OneLine
<1>17. ChoicesHappen'
  <2>1. ASSUME Calm, NEW seat \in Seats, NEW k \in DOMAIN chosen[seat], chosen[seat][k] # Silent,
               k < Len(sent'[seat])
        PROVE  sent'[seat][k + 1].state = doAction(sent'[seat][k].state, chosen[seat][k])
    <3>1. CASE seat # next
      BY <2>1, <3>1, <1>4, <1>8 DEF ChoicesHappen, Calm
    <3>2. chosen[seat] \in Seq(Action) /\ Len(chosen[seat]) <= Len(sent[seat]) /\ k \in Nat /\ k >= 1
      BY <2>1, <1>8 DEF ClientsRead
    <3>3. CASE seat = next /\ k < n
      <4>1. k \in 1 .. n /\ k + 1 \in 1 .. n
        BY <3>2, <3>3, <1>4
      <4>2. QED BY <2>1, <3>3, <4>1, <1>4, <1>8 DEF ChoicesHappen, Calm, n
    <3>4. CASE seat = next /\ ~(k < n)
      <4>1. k = n /\ n \in 1 .. n
        BY <2>1, <3>2, <3>4, <1>4
      <4>2. table.state = doAction(sent[seat][k].state, chosen[seat][k])
        BY <2>1, <3>4, <4>1, <1>5, <1>8 DEF ReplyHappened, n
      <4>3. m.state = table.state
        BY DEF m, matchState
      <4>4. QED BY <3>4, <4>1, <4>2, <4>3, <1>4
    <3>5. QED BY <3>1, <3>3, <3>4
  <2>2. QED BY <2>1, <1>6 DEF ChoicesHappen, Calm
<1> QED BY <1>9, <1>10, <1>11, <1>12, <1>13, <1>14, <1>15, <1>16, <1>17 DEF Conversation

-----------------------------------------------------------------------------
(* Reading, and doing what was read.                                       *)

\* While the dealer waits for an answer, and until it does it, what a seat was
\* sent last is the state, and only the current seat is asked by it.
LEMMA WhoIsAsked ==
  ASSUME PlayersInv, pc \in {"read", "log", "act"}
  PROVE  /\ ReadyTable(table) /\ currentSeat(table) \in Seats
         /\ \A seat \in Seats :
               /\ Len(sent[seat]) \in Nat /\ Len(sent[seat]) \in DOMAIN sent[seat]
               /\ Len(sent[seat]) > 0 /\ sent[seat] # << >>
               /\ Last(sent[seat]) = sent[seat][Len(sent[seat])]
               /\ sent[seat][Len(sent[seat])] = matchState(table, seat)
               /\ Asks(sent[seat][Len(sent[seat])]) <=> seat = currentSeat(table)
<1>1. ReadyTable(table)
  <2>1. ReadyTable(story)
    BY FilesTell DEF PlayersInv, DealerInv
  <2>2. QED BY <2>1 DEF PlayersInv, DealerInv, InHand, AtAction
<1>2. currentSeat(table) \in Seats /\ table.player0Seat \in Seats /\ Ready(table.state)
  BY <1>1, SeatsOfTable DEF ReadyTable
<1>3. ASSUME NEW seat \in Seats
      PROVE  /\ Len(sent[seat]) \in Nat /\ Len(sent[seat]) \in DOMAIN sent[seat]
             /\ Len(sent[seat]) > 0 /\ sent[seat] # << >>
             /\ Last(sent[seat]) = sent[seat][Len(sent[seat])]
             /\ sent[seat][Len(sent[seat])] = matchState(table, seat)
  <2>1. sent[seat] \in Seq(Message) /\ sent[seat] # << >> /\ Last(sent[seat]) = matchState(table, seat)
    BY DEF PlayersInv, DealerInv, TypeInv, InHand, Saw
  <2>2. QED BY <2>1 DEF Last
<1>4. \A seat \in Seats : Asks(matchState(table, seat)) <=> seat = currentSeat(table)
  BY <1>2, AskedIsCurrent
<1> QED BY <1>1, <1>2, <1>3, <1>4

\* The answer that the dealer takes is what the seat chose for this state.
LEMMA AnswerIsChosen ==
  ASSUME PlayersInv, ReadLine, pc' = "log", Calm
  PROVE  LET seat == currentSeat(table)
         IN Len(chosen[seat]) = Len(sent[seat]) /\ answer'.action = chosen[seat][Len(sent[seat])]
<1> DEFINE seat == currentSeat(table)
           line == Head(inbox[seat])
           n == Len(sent[seat])
<1>1. pc = "read" /\ inbox[seat] # << >>
  BY DEF ReadLine
<1>2. /\ ReadyTable(table) /\ seat \in Seats /\ n \in Nat /\ n \in DOMAIN sent[seat]
      /\ sent[seat][n] = matchState(table, seat)
  BY <1>1, WhoIsAsked
<1>3. line \in PlayerLine /\ 1 \in DOMAIN inbox[seat] /\ line = inbox[seat][1]
  <2>1. inbox[seat] \in Seq(PlayerLine)
    BY <1>2 DEF PlayersInv, DealerInv, TypeInv
  <2> HIDE DEF seat
  <2>2. QED BY <1>1, <2>1
<1>4. /\ isForState(table, seat, line)
      /\ \/ acceptable(line) /\ answer' = [action |-> fixedAction(table.state, line.action), took |-> waited]
         \/ ~acceptable(line)
  <2>1. "log" # "read"
    OBVIOUS
  <2>2. QED BY <2>1, <1>1 DEF ReadLine
<1> HIDE DEF seat, line, n
<1>5. line.kind = "response" /\ matchStatesEqual(line.state, matchState(table, seat))
  <2>1. line.kind \in {"response", "malformed"} /\ matchStatesEqual(line.state, matchState(table, seat))
    BY <1>4 DEF isForState
  <2>2. line.kind # "response" => line.kind \in Range(extra)
    BY <1>2, <1>3 DEF PlayersInv, Conversation, LinesAreChoices
  <2>3. QED BY <2>1, <2>2 DEF Calm
<1>6. PICK k \in DOMAIN chosen[seat] :
         /\ chosen[seat][k] # Silent
         /\ line.state = sent[seat][k] /\ line.action = chosen[seat][k]
  <2>1. IsChoice(seat, line)
    BY <1>2, <1>3, <1>5 DEF PlayersInv, Conversation, LinesAreChoices
  <2>2. QED BY <2>1 DEF IsChoice
<1>7. /\ chosen[seat] \in Seq(Action) /\ Len(chosen[seat]) <= n /\ k \in 1 .. Len(chosen[seat])
      /\ chosen[seat][k] \in ValidActions(sent[seat][k].state)
      /\ sent[seat] \in Seq(Message)
  BY <1>2, <1>6 DEF PlayersInv, Conversation, ClientsRead, DealerInv, TypeInv, n
<1>8. k = n
  <2> SUFFICES ASSUME k < n PROVE FALSE
    BY <1>2, <1>7
  <2>1. k \in DOMAIN sent[seat] /\ Earlier(sent[seat][k], sent[seat][n])
    BY <1>2, <1>7 DEF PlayersInv, Conversation, MessagesInOrder, n
  <2>2. sent[seat][k] \in Message /\ sent[seat][n] \in Message
    BY <2>1, <1>2, <1>7
  <2>3. QED BY <2>1, <2>2, <1>2, <1>5, <1>6, EqualIsNotEarlier
<1>9. Len(chosen[seat]) = n
  BY <1>2, <1>7, <1>8
<1>10. line.action \in ValidActions(table.state)
  <2>1. sent[seat][k].state = table.state
    BY <1>2, <1>8 DEF matchState
  <2>2. QED BY <2>1, <1>6, <1>7
<1>11. isValidAction(table.state, TRUE, line.action) /\ fixedAction(table.state, line.action) = line.action
  BY <1>2, <1>10, ChoicesStand DEF ReadyTable
<1>12. answer'.action = chosen[seat][n]
  <2>1. acceptable(line)
    BY <1>5, <1>11 DEF acceptable
  <2>2. answer'.action = fixedAction(table.state, line.action)
    BY <2>1, <1>4
  <2>3. QED BY <2>2, <1>6, <1>8, <1>11
<1> QED BY <1>9, <1>12 DEF seat, n

LEMMA ReadConverses ==
  ASSUME PlayersInv, ReadLine, UNCHANGED <<chosen, extra>>
  PROVE  Conversation'
<1> DEFINE seat == currentSeat(table)
<1>1. /\ pc = "read" /\ pc' \in {"read", "log"} /\ inbox[seat] # << >>
      /\ inbox' = [inbox EXCEPT ![seat] = Tail(@)]
      /\ UNCHANGED <<next, table, sent>>
  BY DEF ReadLine
<1>2. /\ seat \in Seats
      /\ \A s \in Seats : /\ Last(sent[s]) = sent[s][Len(sent[s])]
                          /\ Asks(sent[s][Len(sent[s])]) => s = seat
  BY <1>1, WhoIsAsked
<1>3. inbox \in [Seats -> Seq(PlayerLine)]
  BY DEF PlayersInv, DealerInv, TypeInv
<1>4. (Calm' <=> Calm) /\ \A s \in Seats : ~ToBeSent(s) /\ ~ToBeSent(s)'
  BY <1>1 DEF Calm, ToBeSent
<1>5. Calm /\ pc' = "log" =>
         Len(chosen[seat]) = Len(sent[seat]) /\ answer'.action = chosen[seat][Len(sent[seat])]
  BY AnswerIsChosen
<1>6. ReplyIsPlayed'
  BY <1>1, <1>4, <1>5 DEF ReplyIsPlayed
<1> HIDE DEF seat
<1>7. /\ \A s \in Seats : s # seat => inbox'[s] = inbox[s]
      /\ inbox'[seat] = Tail(inbox[seat]) /\ inbox[seat] \in Seq(PlayerLine)
  BY <1>1, <1>2, <1>3
<1>8. /\ \A i \in DOMAIN inbox'[seat] : i + 1 \in DOMAIN inbox[seat] /\ inbox'[seat][i] = inbox[seat][i + 1]
      /\ Len(inbox[seat]) = 1 => inbox'[seat] = << >>
  <2> DEFINE old == inbox[seat]
  <2>1. old \in Seq(PlayerLine) /\ old # << >> /\ inbox'[seat] = Tail(old)
    BY <1>1, <1>7
  <2> HIDE DEF old
  <2>2. /\ \A i \in DOMAIN Tail(old) : i + 1 \in DOMAIN old /\ Tail(old)[i] = old[i + 1]
        /\ Len(old) = 1 => Tail(old) = << >>
    BY <2>1
  <2>3. QED BY <2>1, <2>2 DEF old
<1>9. MessagesInOrder /\ ClientsRead /\ LinesAreChoices /\ UnreadIsAwaited /\ OneLine /\ ChoicesHappen
  BY DEF PlayersInv, Conversation
<1>10. MessagesInOrder' /\ ClientsRead' /\ ChoicesHappen' /\ HandIsOver' /\ ReplyHappened'
  <2>1. MessagesInOrder' /\ HandIsOver'
    BY <1>1, <1>4, <1>9 DEF MessagesInOrder, HandIsOver
  <2>2. ClientsRead' /\ ChoicesHappen'
    BY <1>1, <1>9 DEF ClientsRead, ChoicesHappen
  <2>3. ReplyHappened'
    BY <1>4 DEF ReplyHappened
  <2>4. QED BY <2>1, <2>2, <2>3
<1>11. LinesAreChoices'
  <2>1. ASSUME NEW s \in Seats, NEW i \in DOMAIN inbox'[s]
        PROVE  \E j \in DOMAIN inbox[s] : inbox'[s][i] = inbox[s][j]
    BY <2>1, <1>7, <1>8
  <2>2. \A s \in Seats : \A line : IsChoice(s, line)' <=> IsChoice(s, line)
    BY <1>1 DEF IsChoice
  <2>3. ASSUME NEW s \in Seats, NEW i \in DOMAIN inbox'[s]
        PROVE  IF inbox'[s][i].kind = "response" THEN IsChoice(s, inbox'[s][i])
               ELSE inbox'[s][i].kind \in Range(extra)
    BY <2>1, <1>9 DEF LinesAreChoices
  <2>4. QED BY <2>3, <1>1 DEF LinesAreChoices, IsChoice
<1>12. UnreadIsAwaited'
  <2>1. ASSUME Calm, NEW s \in Seats, NEW k \in DOMAIN sent[s], k > Len(chosen[s]), Asks(sent[s][k])
        PROVE  k = Len(sent[s]) /\ pc' \in {"send", "read"}
    <3>1. k = Len(sent[s]) /\ s = seat
      BY <2>1, <1>2, <1>9 DEF UnreadIsAwaited
    <3>2. pc' # "log"
      <4>1. chosen[seat] \in Seq(Action) /\ k \in Int
        BY <3>1, <1>2, <1>9 DEF ClientsRead
      <4>2. QED BY <2>1, <3>1, <4>1, <1>5
    <3>3. QED BY <3>1, <3>2, <1>1
  <2>2. QED BY <2>1, <1>1, <1>4 DEF UnreadIsAwaited
<1>13. OneLine'
  <2>1. ASSUME extra = << >>, NEW s \in Seats, inbox'[s] # << >>
        PROVE  FALSE
    <3>1. inbox[s] # << >>
      BY <2>1, <1>1, <1>7
    <3>2. Len(inbox[s]) = 1 /\ Asks(Last(sent[s]))
      BY <2>1, <3>1, <1>9 DEF OneLine
    <3>3. s = seat
      BY <3>2, <1>2
    <3>4. QED BY <2>1, <3>2, <3>3, <1>8
  <2>2. QED BY <2>1 DEF OneLine
<1> QED BY <1>6, <1>10, <1>11, <1>12, <1>13 DEF Conversation

LEMMA ActConverses ==
  ASSUME PlayersInv, DealerInv', DoAction, UNCHANGED <<chosen, extra>>
  PROVE  Conversation'
<1> DEFINE after == act(table, answer.action)
           counted == [after EXCEPT !.totalValue = addValues(after)]
<1>1. /\ pc = "act" /\ next' = 0 /\ UNCHANGED <<inbox, sent>>
      /\ \/ after.state.finished /\ table' = counted /\ pc' = "addLog"
         \/ ~after.state.finished /\ table' = after /\ pc' = "send"
  BY DEF DoAction, network, stateFinished
<1>2. /\ ReadyTable(table) /\ answer.action \in Action /\ isValidAction(table.state, FALSE, answer.action)
      /\ AnswerIsPlayable
  BY <1>1 DEF PlayersInv, DealerInv, AtAction, AnswerIsPlayable, TypeInv
<1>3. /\ after.handId = table.handId /\ after.player0Seat = table.player0Seat
      /\ after.state.finished =>
            counted.state = after.state /\ counted.handId = table.handId
  BY <1>2, TransactKeepsReady
<1>4. after.state = doAction(table.state, answer.action)
  BY <1>2 DEF act, ReadyTable, TableWith
<1> HIDE DEF after, counted
<1>5. /\ table'.state = doAction(table.state, answer.action) /\ table'.handId = table.handId
      /\ (pc' = "addLog" => table'.state.finished) /\ pc' \in {"send", "addLog"}
  BY <1>1, <1>3, <1>4
<1>6. \A s \in Seats : /\ Len(sent[s]) \in Nat
                       /\ sent[s][Len(sent[s])] = matchState(table, s)
                       /\ Len(sent[s]) \in DOMAIN sent[s]
                       /\ Asks(sent[s][Len(sent[s])]) => s = currentSeat(table)
  BY <1>1, WhoIsAsked
<1>7. MessagesInOrder /\ ClientsRead /\ LinesAreChoices /\ UnreadIsAwaited /\ OneLine /\ ChoicesHappen
      /\ ReplyIsPlayed /\ (Calm' <=> Calm)
  BY DEF PlayersInv, Conversation, Calm
<1>8. ClientsRead' /\ ChoicesHappen' /\ LinesAreChoices'
  BY <1>1, <1>7 DEF ClientsRead, ChoicesHappen, LinesAreChoices, IsChoice
<1>9. MessagesInOrder'
  <2>1. ASSUME NEW s \in Seats, NEW k \in DOMAIN sent[s]
        PROVE  Earlier(sent[s][k], matchState(table', s))
    <3> DEFINE n == Len(sent[s])
    <3>1. Earlier(matchState(table, s), matchState(table', s))
      BY <1>2, <1>5, ActionIsLater
    <3>2. /\ sent[s] \in Seq(Message) /\ sent[s][k] \in Message
          /\ matchState(table, s) \in Message /\ matchState(table', s) \in Message
      <4>1. sent[s] \in Seq(Message) /\ matchState(table, s) \in Message
        BY MessageIsTyped DEF PlayersInv, DealerInv, TypeInv
      <4>2. /\ table'.handId \in Nat /\ table'.state \in State
            /\ seatToPlayer(table'.player0Seat, s) \in Players
        BY SeatsOfTable DEF DealerInv, TypeInv, TableWith
      <4>3. matchState(table', s) \in Message
        BY <4>2 DEF matchState, Message
      <4>4. QED BY <4>1, <4>3
    <3>3. CASE k = n
      BY <3>1, <3>3, <1>6
    <3>4. CASE k # n
      <4>1. k < n /\ n \in DOMAIN sent[s]
        BY <2>1, <3>2, <3>4, <1>6
      <4>2. Earlier(sent[s][k], matchState(table, s))
        BY <2>1, <4>1, <1>6, <1>7 DEF MessagesInOrder
      <4>3. QED BY <3>1, <3>2, <4>2, EarlierIsTransitive
    <3>5. QED BY <3>3, <3>4
  <2>2. QED BY <2>1, <1>1, <1>5, <1>7 DEF MessagesInOrder
<1>10. HandIsOver' /\ ReplyIsPlayed'
  BY <1>5 DEF HandIsOver, ReplyIsPlayed, stateFinished
<1>11. UnreadIsAwaited'
  BY <1>1, <1>7 DEF UnreadIsAwaited
<1>12. ReplyHappened'
  <2>1. ASSUME Calm, NEW s \in Seats, NEW k \in DOMAIN chosen[s], k = Len(sent[s]),
               chosen[s][k] # Silent
        PROVE  table'.state = doAction(sent[s][k].state, chosen[s][k])
    <3>1. s = currentSeat(table) /\ sent[s][k].state = table.state
      <4>1. Asks(sent[s][k])
        BY <2>1, <1>7 DEF ClientsRead
      <4>2. sent[s][k] = matchState(table, s) /\ (Asks(sent[s][k]) => s = currentSeat(table))
        BY <2>1, <1>6
      <4>3. QED BY <4>1, <4>2 DEF matchState
    <3>2. answer.action = chosen[s][k]
      BY <2>1, <3>1, <1>1, <1>7 DEF ReplyIsPlayed
    <3>3. QED BY <3>1, <3>2, <1>5
  <2>2. QED BY <2>1, <1>1, <1>7 DEF ReplyHappened
<1>13. OneLine'
  BY <1>1, <1>7 DEF OneLine
<1> QED BY <1>8, <1>9, <1>10, <1>11, <1>12, <1>13 DEF Conversation

LEMMA NewHandConverses ==
  ASSUME PlayersInv, NewHand, UNCHANGED <<chosen, extra>>
  PROVE  Conversation'
<1>1. /\ pc = "newHand" /\ pc' \in {"final", "send"} /\ UNCHANGED <<inbox, sent>>
      /\ table' = setUpNewHand(table)
  BY DEF NewHand, network
<1>2. table'.handId = table.handId + 1 /\ table.handId \in Nat
  BY <1>1, SetUpNewHandFields DEF PlayersInv, DealerInv, TypeInv, TableWith
<1>3. MessagesInOrder /\ ClientsRead /\ LinesAreChoices /\ UnreadIsAwaited /\ OneLine /\ ChoicesHappen
      /\ HandIsOver /\ (Calm' <=> Calm)
  BY DEF PlayersInv, Conversation, Calm
<1>4. ClientsRead' /\ ChoicesHappen' /\ LinesAreChoices'
  BY <1>1, <1>3 DEF ClientsRead, ChoicesHappen, LinesAreChoices, IsChoice
<1>5. MessagesInOrder'
  <2>1. ASSUME NEW s \in Seats, NEW k \in DOMAIN sent[s]
        PROVE  /\ sent[s][k].handId <= table'.handId
               /\ Earlier(sent[s][k], matchState(table', s))
    <3>1. sent[s][k].handId <= table.handId
      BY <1>3 DEF MessagesInOrder
    <3>2. sent[s][k] \in Message
      BY DEF PlayersInv, DealerInv, TypeInv
    <3>3. sent[s][k].handId \in Nat
      BY <3>2, MessageNumbers
    <3>4. sent[s][k].handId <= table'.handId /\ sent[s][k].handId < table'.handId
      BY <3>1, <3>3, <1>2
    <3>5. QED BY <3>4 DEF Earlier, matchState
  <2>2. QED BY <2>1, <1>1, <1>3 DEF MessagesInOrder
<1>6. HandIsOver' /\ ReplyIsPlayed'
  BY <1>1 DEF HandIsOver, ReplyIsPlayed
<1>7. UnreadIsAwaited' /\ OneLine'
  BY <1>1, <1>3 DEF UnreadIsAwaited, OneLine
<1>8. ReplyHappened'
  <2>1. ASSUME NEW s \in Seats, NEW k \in DOMAIN chosen[s], k = Len(sent[s])
        PROVE  chosen[s][k] = Silent
    <3>1. Saw(s) /\ stateFinished(table.state) /\ sent[s] \in Seq(Message)
      BY <1>1, <1>3 DEF HandIsOver, PlayersInv, DealerInv, TypeInv
    <3>2. stateFinished(sent[s][k].state)
      BY <2>1, <3>1 DEF Saw, Last, matchState
    <3>3. ~Asks(sent[s][k])
      BY <3>2 DEF Asks
    <3>4. QED BY <3>3, <1>3 DEF ClientsRead
  <2>2. QED BY <2>1, <1>1 DEF ReplyHappened
<1> QED BY <1>4, <1>5, <1>6, <1>7, <1>8 DEF Conversation

-----------------------------------------------------------------------------
(* What the clients read and write.                                        *)

LEMMA NewLine ==
  ASSUME DealerInv, NEW seat \in Seats, NEW line \in PlayerLine, Write(seat, line)
  PROVE  LET n == Len(inbox[seat])
         IN /\ inbox' \in [Seats -> Seq(PlayerLine)]
            /\ n \in Nat /\ DOMAIN inbox[seat] = 1 .. n /\ DOMAIN inbox'[seat] = 1 .. n + 1
            /\ \A i \in 1 .. n : inbox'[seat][i] = inbox[seat][i]
            /\ inbox'[seat][n + 1] = line /\ Len(inbox'[seat]) = n + 1
            /\ Last(inbox'[seat]) = line /\ inbox'[seat] # << >>
            /\ inbox[seat] = << >> => Len(inbox'[seat]) = 1 /\ Head(inbox'[seat]) = line
            /\ \A s \in Seats : s # seat => inbox'[s] = inbox[s]
            /\ UNCHANGED <<process, files, sent>>
<1> DEFINE old == inbox[seat]
           new == inbox'[seat]
<1>1. /\ inbox' = [inbox EXCEPT ![seat] = Append(@, line)] /\ UNCHANGED <<process, files, sent>>
      /\ inbox \in [Seats -> Seq(PlayerLine)]
  BY DEF Write, DealerInv, TypeInv
<1>2. old \in Seq(PlayerLine) /\ new = Append(old, line)
  BY <1>1
<1>3. inbox' \in [Seats -> Seq(PlayerLine)] /\ \A s \in Seats : s # seat => inbox'[s] = inbox[s]
  BY <1>1, <1>2
<1> HIDE DEF old, new
<1>4. /\ Len(old) \in Nat /\ DOMAIN old = 1 .. Len(old) /\ DOMAIN new = 1 .. Len(old) + 1
      /\ (\A i \in 1 .. Len(old) : new[i] = old[i])
      /\ new[Len(old) + 1] = line /\ Len(new) = Len(old) + 1 /\ new # << >>
  BY <1>2
<1>5. Last(new) = line
  BY <1>4 DEF Last
<1>6. old = << >> => Len(new) = 1 /\ Head(new) = line
  BY <1>2, <1>4
<1> QED BY <1>1, <1>3, <1>4, <1>5, <1>6 DEF old, new

\* A client reads the next message, and answers it if it asks.
LEMMA ClientConverses ==
  ASSUME PlayersInv, NEW seat \in Seats, Client(seat)
  PROVE  DealerInv' /\ Conversation'
<1> DEFINE n == Len(chosen[seat])
           m == sent[seat][n + 1]
           line(a) == [kind |-> "response", state |-> m, action |-> a]
<1>1. MessagesInOrder /\ HandIsOver /\ ClientsRead /\ LinesAreChoices /\ UnreadIsAwaited
      /\ ReplyIsPlayed /\ ReplyHappened /\ OneLine /\ ChoicesHappen /\ DealerInv
  BY DEF PlayersInv, Conversation
<1>2. /\ chosen \in [Seats -> Seq(Action)] /\ chosen[seat] \in Seq(Action) /\ n \in Nat
      /\ n < Len(sent[seat]) /\ sent[seat] \in Seq(Message)
  BY <1>1 DEF ClientsRead, Client, DealerInv, TypeInv
<1>3. n + 1 \in DOMAIN sent[seat] /\ m \in Message
  BY <1>2
<1>4. PICK a : /\ chosen' = [chosen EXCEPT ![seat] = Append(@, a)]
               /\ \/ ~Asks(m) /\ a = Silent /\ UNCHANGED vars
                  \/ Asks(m) /\ a \in ValidActions(m.state) /\ Write(seat, line(a))
               /\ UNCHANGED extra
  BY DEF Client, Asks
<1>5. a \in Action /\ (Asks(m) => a \in Actions /\ a # Silent)
  <2>1. Silent \in Action
    BY DEF Silent, Action, ActionTypes
  <2>2. a \in ValidActions(m.state) => a \in Actions
    BY DEF ValidActions
  <2>3. a \in Actions => a \in Action /\ a # Silent
    BY ActionsAreTyped DEF Silent
  <2>4. QED BY <2>1, <2>2, <2>3, <1>4
<1>6. Asks(m) => line(a) \in PlayerLine
  BY <1>3, <1>5 DEF PlayerLine
<1> HIDE DEF line
<1>7. /\ UNCHANGED <<process, files, sent>> /\ inbox' \in [Seats -> Seq(PlayerLine)]
      /\ \A s \in Seats : s # seat => inbox'[s] = inbox[s]
      /\ ~Asks(m) => inbox' = inbox
  <2>1. CASE ~Asks(m)
    BY <2>1, <1>1, <1>4 DEF vars, network, DealerInv, TypeInv
  <2>2. CASE Asks(m)
    BY <2>2, <1>1, <1>4, <1>6, NewLine
  <2>3. QED BY <2>1, <2>2
<1>8. DealerInv'
  <2>1. waited' \in Int /\ UNCHANGED <<pc, next, table, errorInfo, answer, files, sent>>
    BY <1>1, <1>7 DEF process, DealerInv, TypeInv
  <2>2. QED BY <2>1, <1>1, <1>7, FrameKeeps
<1>9. UNCHANGED <<pc, next, table, answer, sent, extra>>
  BY <1>4, <1>7 DEF process
<1>10. /\ \A s \in Seats : ToBeSent(s)' <=> ToBeSent(s)
       /\ Calm' <=> Calm
  BY <1>9 DEF ToBeSent, Calm
<1>11. /\ chosen' \in [Seats -> Seq(Action)] /\ Len(chosen'[seat]) = n + 1
       /\ DOMAIN chosen[seat] = 1 .. n /\ DOMAIN chosen'[seat] = 1 .. n + 1
       /\ \A k \in 1 .. n : chosen'[seat][k] = chosen[seat][k]
       /\ chosen'[seat][n + 1] = a
       /\ \A s \in Seats : s # seat => chosen'[s] = chosen[s]
  <2> DEFINE old == chosen[seat]
             new == chosen'[seat]
  <2>1. old \in Seq(Action) /\ new = Append(old, a) /\ n = Len(old)
    BY <1>2, <1>4
  <2>2. chosen' \in [Seats -> Seq(Action)] /\ \A s \in Seats : s # seat => chosen'[s] = chosen[s]
    BY <1>2, <1>4, <1>5
  <2> HIDE DEF old, new, n
  <2>3. /\ Len(new) = n + 1 /\ DOMAIN old = 1 .. n /\ DOMAIN new = 1 .. n + 1
        /\ (\A k \in 1 .. n : new[k] = old[k]) /\ new[n + 1] = a
    BY <2>1, <1>5
  <2>4. QED BY <2>2, <2>3 DEF old, new
<1> HIDE DEF n, m
<1>12. \A k \in 1 .. n + 1 : k \in 1 .. n \/ k = n + 1
  BY <1>2
\* A message that asks, and that this client had not read, is the last one.
<1>13. Calm /\ Asks(m) => n + 1 = Len(sent[seat]) /\ pc \in {"send", "read"} /\ ~ToBeSent(seat)
  <2>1. n + 1 > Len(chosen[seat])
    BY <1>2 DEF n
  <2>2. QED BY <2>1, <1>1, <1>3 DEF UnreadIsAwaited, m
<1>14. MessagesInOrder' /\ HandIsOver'
  BY <1>1, <1>9, <1>10 DEF MessagesInOrder, HandIsOver, Saw
<1>15. ClientsRead'
  <2>1. ASSUME NEW s \in Seats PROVE Len(chosen'[s]) <= Len(sent[s])
    <3>1. CASE s # seat
      BY <3>1, <1>1, <1>11 DEF ClientsRead
    <3>2. CASE s = seat
      BY <3>2, <1>2, <1>11
    <3>3. QED BY <3>1, <3>2
  <2>2. ASSUME NEW s \in Seats, NEW k \in DOMAIN chosen'[s], chosen'[s][k] # Silent
        PROVE  Asks(sent[s][k]) /\ chosen'[s][k] \in ValidActions(sent[s][k].state)
    <3>1. CASE s # seat
      BY <2>2, <3>1, <1>1, <1>11 DEF ClientsRead
    <3>2. CASE s = seat /\ k \in 1 .. n
      BY <2>2, <3>2, <1>1, <1>11 DEF ClientsRead
    <3>3. CASE s = seat /\ k = n + 1
      BY <2>2, <3>3, <1>4, <1>11 DEF m
    <3>4. QED BY <3>1, <3>2, <3>3, <2>2, <1>11, <1>12
  <2>3. QED BY <2>1, <2>2, <1>9, <1>11 DEF ClientsRead
<1>16. LinesAreChoices'
  <2>1. ASSUME NEW s \in Seats, NEW l, IsChoice(s, l)
        PROVE  IsChoice(s, l)'
    <3>1. PICK k \in DOMAIN chosen[s] :
             chosen[s][k] # Silent /\ l.state = sent[s][k] /\ l.action = chosen[s][k]
      BY <2>1 DEF IsChoice
    <3>2. k \in DOMAIN chosen'[s] /\ chosen'[s][k] = chosen[s][k]
      <4>1. CASE s = seat
        <5>1. k \in 1 .. n
          BY <4>1, <1>11
        <5>2. k \in 1 .. n + 1
          BY <5>1, <1>2
        <5>3. QED BY <4>1, <5>1, <5>2, <1>11
      <4>2. CASE s # seat
        BY <4>2, <1>11
      <4>3. QED BY <4>1, <4>2
    <3>3. QED BY <3>1, <3>2, <1>9 DEF IsChoice
  <2>2. ASSUME NEW s \in Seats, NEW i \in DOMAIN inbox'[s]
        PROVE  \/ \E j \in DOMAIN inbox[s] : inbox'[s][i] = inbox[s][j]
               \/ s = seat /\ Asks(m) /\ inbox'[s][i] = line(a)
    <3>1. CASE s # seat \/ ~Asks(m)
      BY <3>1, <1>7
    <3>2. CASE s = seat /\ Asks(m)
      BY <3>2, <1>1, <1>4, <1>6, NewLine
    <3>3. QED BY <3>1, <3>2
  <2>3. ASSUME NEW s \in Seats, NEW i \in DOMAIN inbox'[s], NEW l, l = inbox'[s][i]
        PROVE  IF l.kind = "response" THEN IsChoice(s, l)' ELSE l.kind \in Range(extra)
    <3>1. CASE \E j \in DOMAIN inbox[s] : l = inbox[s][j]
      BY <3>1, <2>1, <1>1 DEF LinesAreChoices
    <3>2. CASE s = seat /\ Asks(m) /\ l = line(a)
      <4>1. l.kind = "response" /\ l.state = sent'[seat][n + 1] /\ l.action = chosen'[seat][n + 1]
        BY <3>2, <1>9, <1>11 DEF line, m
      <4>2. n + 1 \in DOMAIN chosen'[seat] /\ chosen'[seat][n + 1] # Silent
        BY <3>2, <1>2, <1>5, <1>11
      <4>3. QED BY <3>2, <4>1, <4>2 DEF IsChoice
    <3>3. QED BY <2>2, <2>3, <3>1, <3>2
  <2>4. QED BY <2>3, <1>9 DEF LinesAreChoices, IsChoice
<1>17. UnreadIsAwaited'
  <2>1. ASSUME Calm, NEW s \in Seats, NEW k \in DOMAIN sent[s], k > Len(chosen'[s]), Asks(sent[s][k])
        PROVE  k = Len(sent[s]) /\ pc \in {"send", "read"} /\ ~ToBeSent(s)
    <3>1. k > Len(chosen[s])
      <4>1. sent[s] \in Seq(Message) /\ k \in Int
        BY <1>1 DEF DealerInv, TypeInv
      <4>2. CASE s = seat
        <5>1. k > n + 1
          BY <2>1, <4>2, <1>11
        <5>2. k > n
          BY <4>1, <5>1, <1>2
        <5>3. QED BY <4>2, <5>2 DEF n
      <4>3. CASE s # seat
        BY <2>1, <4>3, <1>11
      <4>4. QED BY <4>2, <4>3
    <3>2. QED BY <2>1, <3>1, <1>1 DEF UnreadIsAwaited
  <2>2. QED BY <2>1, <1>9, <1>10 DEF UnreadIsAwaited
<1>18. ReplyIsPlayed'
  <2>1. ASSUME Calm, pc \in {"log", "act"}
        PROVE  LET s == currentSeat(table)
               IN Len(chosen'[s]) = Len(sent[s]) /\ answer.action = chosen'[s][Len(sent[s])]
    <3>1. currentSeat(table) \in Seats /\ Len(chosen[currentSeat(table)]) = Len(sent[currentSeat(table)])
      BY <2>1, <1>1, WhoIsAsked DEF ReplyIsPlayed
    <3>2. currentSeat(table) # seat
      BY <3>1, <1>2 DEF n
    <3>3. QED BY <2>1, <3>1, <3>2, <1>1, <1>11 DEF ReplyIsPlayed
  <2>2. QED BY <2>1, <1>9, <1>10 DEF ReplyIsPlayed
<1>19. ReplyHappened'
  <2>1. ASSUME Calm, NEW s \in Seats, NEW k \in DOMAIN chosen'[s], ToBeSent(s), k = Len(sent[s]),
               chosen'[s][k] # Silent
        PROVE  table.state = doAction(sent[s][k].state, chosen'[s][k])
    <3>1. CASE s # seat
      BY <2>1, <3>1, <1>1, <1>11 DEF ReplyHappened
    <3>2. CASE s = seat /\ k \in 1 .. n
      BY <2>1, <3>2, <1>1, <1>11 DEF ReplyHappened
    <3>3. CASE s = seat /\ k = n + 1
      BY <2>1, <3>3, <1>4, <1>11, <1>13
    <3>4. QED BY <3>1, <3>2, <3>3, <2>1, <1>11, <1>12
  <2>2. QED BY <2>1, <1>9, <1>10 DEF ReplyHappened
<1>20. OneLine'
  <2>1. ASSUME extra = << >>, NEW s \in Seats, inbox'[s] # << >>
        PROVE  /\ pc \in {"send", "read"} /\ ~ToBeSent(s)
               /\ Len(inbox'[s]) = 1 /\ Len(chosen'[s]) = Len(sent[s])
               /\ Head(inbox'[s]).state = Last(sent[s]) /\ Asks(Last(sent[s]))
    <3>1. CASE s # seat
      BY <2>1, <3>1, <1>1, <1>7, <1>11 DEF OneLine
    <3>2. CASE s = seat
      <4>1. inbox[seat] = << >>
        BY <2>1, <1>1, <1>2 DEF OneLine, n
      <4>2. Asks(m)
        BY <2>1, <3>2, <4>1, <1>7
      <4>3. Len(inbox'[seat]) = 1 /\ Head(inbox'[seat]) = line(a)
        BY <4>1, <4>2, <1>1, <1>4, <1>6, NewLine
      <4>4. Calm
        BY <2>1 DEF Calm, Range
      <4>5. n + 1 = Len(sent[seat]) /\ pc \in {"send", "read"} /\ ~ToBeSent(seat)
        BY <4>2, <4>4, <1>13
      <4>6. Last(sent[seat]) = m
        BY <4>5 DEF Last, m
      <4>7. QED BY <3>2, <4>2, <4>3, <4>5, <4>6, <1>11 DEF line
    <3>3. QED BY <3>1, <3>2
  <2>2. QED BY <2>1, <1>9, <1>10 DEF OneLine
<1>21. ChoicesHappen'
  <2>1. ASSUME Calm, NEW s \in Seats, NEW k \in DOMAIN chosen'[s], chosen'[s][k] # Silent,
               k < Len(sent[s])
        PROVE  sent[s][k + 1].state = doAction(sent[s][k].state, chosen'[s][k])
    <3>1. CASE s # seat
      BY <2>1, <3>1, <1>1, <1>11 DEF ChoicesHappen, Calm
    <3>2. CASE s = seat /\ k \in 1 .. n
      BY <2>1, <3>2, <1>1, <1>11 DEF ChoicesHappen, Calm
    <3>3. CASE s = seat /\ k = n + 1
      BY <2>1, <3>3, <1>2, <1>4, <1>11, <1>13
    <3>4. QED BY <3>1, <3>2, <3>3, <2>1, <1>11, <1>12
  <2>2. QED BY <2>1, <1>9, <1>10 DEF ChoicesHappen, Calm
<1> QED BY <1>8, <1>14, <1>15, <1>16, <1>17, <1>18, <1>19, <1>20, <1>21 DEF Conversation

\* A line besides those of the loop: it is counted in extra.
LEMMA WriteMoreConverses ==
  ASSUME PlayersInv, NEW seat \in Seats, WriteMore(seat)
  PROVE  PlayersInv'
<1>1. MessagesInOrder /\ HandIsOver /\ ClientsRead /\ LinesAreChoices /\ UnreadIsAwaited
      /\ ReplyIsPlayed /\ ReplyHappened /\ OneLine /\ ChoicesHappen /\ DealerInv
      /\ extra \in Seq({"again"} \cup Noise)
  BY DEF PlayersInv, Conversation
\* The line is written once more, or it is noise.
<1>2. PICK line \in PlayerLine, kind \in {"again"} \cup Noise :
         /\ Write(seat, line) /\ extra' = Append(extra, kind) /\ chosen' = chosen
         /\ IF line.kind = "response" THEN IsChoice(seat, line) ELSE line.kind = kind
  <2>1. CASE Again(seat) /\ extra' = Append(extra, "again")
    <3>1. PICK k \in DOMAIN chosen[seat] :
             /\ chosen[seat][k] # Silent
             /\ Write(seat, [kind |-> "response", state |-> sent[seat][k], action |-> chosen[seat][k]])
      BY <2>1 DEF Again
    <3> DEFINE line == [kind |-> "response", state |-> sent[seat][k], action |-> chosen[seat][k]]
    <3>2. /\ chosen[seat] \in Seq(Action) /\ sent[seat] \in Seq(Message)
          /\ Len(chosen[seat]) <= Len(sent[seat])
      BY <1>1 DEF ClientsRead, DealerInv, TypeInv
    <3>3. sent[seat][k] \in Message
      BY <3>1, <3>2
    <3>4. chosen[seat][k] \in Actions
      BY <3>1, <1>1 DEF ClientsRead, ValidActions
    <3>5. line \in PlayerLine /\ line.kind = "response"
      BY <3>3, <3>4 DEF PlayerLine
    <3>6. IsChoice(seat, line)
      BY <3>1 DEF IsChoice
    <3>7. Write(seat, line)
      BY <3>1
    <3> HIDE DEF line
    <3>8. QED BY <2>1, <3>5, <3>6, <3>7 DEF WriteMore
  <2>2. CASE Chatter(seat) /\ extra' = Append(extra, Last(inbox'[seat]).kind)
    <3>1. PICK k \in Noise : Write(seat, [kind |-> k, state |-> Last(sent[seat]), action |-> Call])
      BY <2>2 DEF Chatter
    <3> DEFINE line == [kind |-> k, state |-> Last(sent[seat]), action |-> Call]
    <3>2. pc = "read"
      BY <2>2 DEF Chatter
    <3>3. sent[seat] \in Seq(Message) /\ sent[seat] # << >>
      BY <3>2, <1>1 DEF DealerInv, TypeInv, InHand, Saw
    <3>4. Last(sent[seat]) \in Message
      BY <3>3 DEF Last
    <3>5. line \in PlayerLine
      BY <3>1, <3>4 DEF PlayerLine, Actions, Call
    <3>6. line.kind = k /\ k # "response"
      BY <3>1, DealerAssumption
    <3>7. Write(seat, line)
      BY <3>1
    <3> HIDE DEF line
    <3>8. Last(inbox'[seat]) = line
      BY <3>5, <3>7, <1>1, NewLine
    <3>9. QED BY <2>2, <3>1, <3>5, <3>6, <3>7, <3>8 DEF WriteMore
  <2>3. QED BY <2>1, <2>2 DEF WriteMore
<1> DEFINE n == Len(inbox[seat])
<1>3. /\ inbox' \in [Seats -> Seq(PlayerLine)] /\ n \in Nat
      /\ DOMAIN inbox[seat] = 1 .. n /\ DOMAIN inbox'[seat] = 1 .. n + 1
      /\ \A i \in 1 .. n : inbox'[seat][i] = inbox[seat][i]
      /\ inbox'[seat][n + 1] = line
      /\ \A s \in Seats : s # seat => inbox'[s] = inbox[s]
      /\ UNCHANGED <<process, files, sent>>
  BY <1>1, <1>2, NewLine
<1> HIDE DEF n
<1>4. \A i \in 1 .. n + 1 : i \in 1 .. n \/ i = n + 1
  BY <1>3
<1>5. DealerInv'
  <2>1. waited' \in Int /\ UNCHANGED <<pc, next, table, errorInfo, answer, files, sent>>
    BY <1>1, <1>3 DEF process, DealerInv, TypeInv
  <2>2. QED BY <2>1, <1>1, <1>3, FrameKeeps
<1>6. UNCHANGED <<pc, next, table, answer, sent, chosen>>
  BY <1>2, <1>3 DEF process
<1>7. /\ extra' \in Seq({"again"} \cup Noise) /\ extra' # << >>
      /\ Range(extra) \subseteq Range(extra') /\ kind \in Range(extra')
  <2>1. /\ Len(extra) \in Nat /\ Len(extra') = Len(extra) + 1
        /\ DOMAIN extra = 1 .. Len(extra) /\ DOMAIN extra' = 1 .. Len(extra) + 1
        /\ (\A i \in 1 .. Len(extra) : extra'[i] = extra[i]) /\ extra'[Len(extra) + 1] = kind
        /\ extra' \in Seq({"again"} \cup Noise)
    BY <1>1, <1>2
  <2>2. Range(extra) \subseteq Range(extra')
    BY <2>1 DEF Range
  <2>3. kind \in Range(extra')
    BY <2>1 DEF Range
  <2>4. QED BY <2>1, <2>2, <2>3
<1>8. (Calm' => Calm) /\ \A s \in Seats : ToBeSent(s)' <=> ToBeSent(s)
  BY <1>6, <1>7 DEF Calm, ToBeSent
<1>9. MessagesInOrder' /\ HandIsOver' /\ ClientsRead'
  BY <1>1, <1>6, <1>8 DEF MessagesInOrder, HandIsOver, ClientsRead, Saw
<1>10. UnreadIsAwaited' /\ ReplyIsPlayed' /\ ReplyHappened' /\ ChoicesHappen'
  <2>1. UnreadIsAwaited' /\ ReplyHappened'
    BY <1>1, <1>6, <1>8 DEF UnreadIsAwaited, ReplyHappened
  <2>2. ReplyIsPlayed'
    BY <1>1, <1>6, <1>8 DEF ReplyIsPlayed
  <2>3. ChoicesHappen'
    BY <1>1, <1>6, <1>8 DEF ChoicesHappen, Calm
  <2>4. QED BY <2>1, <2>2, <2>3
<1>11. OneLine'
  BY <1>7 DEF OneLine
<1>12. LinesAreChoices'
  <2>1. ASSUME NEW s \in Seats, NEW i \in DOMAIN inbox'[s], NEW l, l = inbox'[s][i]
        PROVE  IF l.kind = "response" THEN IsChoice(s, l) ELSE l.kind \in Range(extra')
    <3>1. CASE \E j \in DOMAIN inbox[s] : l = inbox[s][j]
      BY <3>1, <1>1, <1>7 DEF LinesAreChoices
    <3>2. CASE s = seat /\ l = line
      BY <3>2, <1>2, <1>7
    <3>3. CASE s = seat /\ i \in 1 .. n
      BY <3>1, <3>3, <2>1, <1>3
    <3>4. CASE s = seat /\ i = n + 1
      BY <3>2, <3>4, <2>1, <1>3
    <3>5. CASE s # seat
      BY <3>1, <3>5, <2>1, <1>3
    <3>6. QED BY <3>3, <3>4, <3>5, <2>1, <1>3, <1>4
  <2>2. QED BY <2>1, <1>6 DEF LinesAreChoices, IsChoice
<1> QED BY <1>5, <1>7, <1>9, <1>10, <1>11, <1>12 DEF PlayersInv, Conversation

-----------------------------------------------------------------------------
(* The theorems about the clients.                                         *)

LEMMA PlayersStart == PlayersInit => PlayersInv
<1> SUFFICES ASSUME PlayersInit PROVE PlayersInv
  OBVIOUS
<1>1. DealerInv
  BY InitHolds DEF PlayersInit
<1>2. /\ pc = "accept" /\ sent = [s \in Seats |-> << >>] /\ inbox = [s \in Seats |-> << >>]
      /\ chosen = [s \in Seats |-> << >>] /\ extra = << >>
  BY DEF PlayersInit, Init, Fresh
<1>3. ASSUME NEW seat \in Seats
      PROVE  /\ sent[seat] = << >> /\ DOMAIN sent[seat] = {} /\ Len(sent[seat]) = 0
             /\ chosen[seat] = << >> /\ DOMAIN chosen[seat] = {} /\ Len(chosen[seat]) = 0
             /\ inbox[seat] = << >> /\ DOMAIN inbox[seat] = {}
  BY <1>2
<1>4. ClientsRead /\ MessagesInOrder /\ LinesAreChoices /\ UnreadIsAwaited /\ ReplyHappened
      /\ OneLine /\ ChoicesHappen
  <2>1. ClientsRead
    BY <1>2, <1>3 DEF ClientsRead
  <2>2. MessagesInOrder /\ LinesAreChoices /\ UnreadIsAwaited
    BY <1>2, <1>3 DEF MessagesInOrder, LinesAreChoices, UnreadIsAwaited, ToBeSent
  <2>3. ReplyHappened /\ OneLine /\ ChoicesHappen
    BY <1>2, <1>3 DEF ReplyHappened, OneLine, ChoicesHappen
  <2>4. QED BY <2>1, <2>2, <2>3
<1>5. HandIsOver /\ ReplyIsPlayed
  BY <1>2 DEF HandIsOver, ReplyIsPlayed
<1>6. extra \in Seq({"again"} \cup Noise)
  BY <1>2
<1> QED BY <1>1, <1>4, <1>5, <1>6 DEF PlayersInv, Conversation

LEMMA PlayersKeep ==
  ASSUME PlayersInv, [PlayersNext]_all
  PROVE  PlayersInv'
<1>1. CASE \E seat \in Seats : WriteMore(seat)
  BY <1>1, WriteMoreConverses
<1>2. CASE \E seat \in Seats : Client(seat)
  <2>1. UNCHANGED extra
    BY <1>2 DEF Client
  <2>2. QED BY <1>2, <2>1, ClientConverses DEF PlayersInv
<1>3. ASSUME [Next]_vars PROVE DealerInv'
  BY <1>3, StepsKeep DEF PlayersInv
<1>4. CASE Killed
  <2>1. UNCHANGED extra /\ Next
    BY <1>4 DEF Killed, Next
  <2>2. QED BY <1>3, <1>4, <2>1, KilledConverses DEF PlayersInv
<1>5. CASE Restarted
  <2>1. UNCHANGED <<sent, inbox, chosen, extra>> /\ pc = "failed" /\ pc' = "accept" /\ Next
    BY <1>5 DEF Restarted, Restart, network, Next
  <2>2. QED BY <1>3, <2>1, StartConverses DEF PlayersInv
<1>6. CASE UNCHANGED all \/ Waits
  <2>1. UNCHANGED vars /\ UNCHANGED <<table, sent, inbox, chosen, extra>>
    BY <1>6 DEF all, Waits, vars, process, network
  <2>2. QED BY <1>3, <2>1, LogsConverse DEF PlayersInv
<1>7. CASE DealerStep
  <2>1. UNCHANGED <<chosen, extra>> /\ Dealing /\ DealerInv'
    BY <1>3, <1>7 DEF DealerStep, Next
  <2>2. CASE Accept \/ CheckVersion \/ ReplayEnds
    <3>1. /\ pc \in {"accept", "version", "replay"} /\ UNCHANGED <<sent, inbox>>
          /\ pc' \in {"accept", "version", "replay", "send", "final"}
      BY <2>2 DEF Accept, CheckVersion, ReplayEnds, NextSeat, network
    <3>2. QED BY <2>1, <3>1, StartConverses DEF PlayersInv
  <2>3. CASE ReplayTransaction
    <3>1. pc = "replay" /\ next < Len(tlog)
      BY <2>3 DEF ReplayTransaction
    <3>2. UNCHANGED <<pc, sent, inbox>>
      BY <2>3, <3>1, LineIsReplayed DEF ReplayTransaction, network, PlayersInv
    <3>3. QED BY <2>1, <3>1, <3>2, StartConverses DEF PlayersInv
  <2>4. CASE Send \/ SendFinal
    BY <2>1, <2>4, SendConverses DEF PlayersInv
  <2>5. CASE ReadLine
    BY <2>1, <2>5, ReadConverses DEF PlayersInv
  <2>6. CASE logTransaction \/ addToLogFile \/ printFinalMessage
    <3>1. UNCHANGED <<table, sent, inbox>>
      BY <2>6 DEF logTransaction, addToLogFile, printFinalMessage, network
    <3>2. QED BY <2>1, <2>6, <3>1, LogsConverse DEF PlayersInv
  <2>7. CASE DoAction
    BY <2>1, <2>7, ActConverses DEF PlayersInv
  <2>8. CASE NewHand
    BY <2>1, <2>8, NewHandConverses DEF PlayersInv
  <2>9. QED BY <2>1, <2>2, <2>3, <2>4, <2>5, <2>6, <2>7, <2>8 DEF Dealing
<1> QED BY <1>1, <1>2, <1>4, <1>5, <1>6, <1>7 DEF PlayersNext

LEMMA InvAwaits == PlayersInv => LinesAreAwaited
<1> SUFFICES ASSUME PlayersInv, NEW seat \in Seats, extra = << >>, inbox[seat] # << >>
             PROVE  /\ pc \in {"send", "read"} /\ seat = currentSeat(table)
                    /\ Len(inbox[seat]) = 1 /\ isForState(table, seat, Head(inbox[seat]))
  BY DEF LinesAreAwaited
<1> DEFINE line == Head(inbox[seat])
<1>1. /\ pc \in {"send", "read"} /\ ~ToBeSent(seat)
      /\ Len(inbox[seat]) = 1 /\ line.state = Last(sent[seat]) /\ Asks(Last(sent[seat]))
  BY DEF PlayersInv, Conversation, OneLine
<1>2. Saw(seat)
  BY <1>1 DEF PlayersInv, DealerInv, InHand, ToBeSent
<1>3. seat = currentSeat(table)
  <2>1. ReadyTable(table)
    BY <1>1, FilesTell DEF PlayersInv, DealerInv, InHand
  <2>2. QED BY <1>1, <1>2, <2>1, AskedIsCurrent DEF Saw, ReadyTable
<1>4. line.kind = "response"
  <2>1. inbox[seat] \in Seq(PlayerLine)
    BY DEF PlayersInv, DealerInv, TypeInv
  <2>2. 1 \in DOMAIN inbox[seat] /\ line = inbox[seat][1]
    BY <2>1, <1>1
  <2>3. Range(extra) = {}
    BY DEF Range
  <2>4. QED BY <2>2, <2>3 DEF PlayersInv, Conversation, LinesAreChoices
<1>5. matchStatesEqual(line.state, matchState(table, seat))
  <2>1. matchState(table, seat) \in Message
    BY MessageIsTyped DEF PlayersInv, DealerInv
  <2>2. QED BY <2>1, <1>1, <1>2, EqualIsNotEarlier DEF Saw
<1> QED BY <1>1, <1>3, <1>4, <1>5 DEF isForState

\* Clients that keep to their loop write no line that is not waited for: only
\* the seat that is asked has one on its way, for the state the dealer is in;
\* for any game, seats and hands, and any number of crashes.
THEOREM OnlyTheAskedAnswer == PlayersSpec => []LinesAreAwaited
<1>1. PlayersInit => PlayersInv
  BY PlayersStart
<1>2. PlayersInv /\ [PlayersNext]_all => PlayersInv'
  BY PlayersKeep
<1>3. PlayersInv => LinesAreAwaited
  BY InvAwaits
<1> QED BY <1>1, <1>2, <1>3, PTL DEF PlayersSpec

\* What a client chose for a state happens in that state, however many of its
\* earlier lines come late or once more, and whatever comments come between.
THEOREM ChoicesAreDone == PlayersSpec => []ChoicesHappen
<1>1. PlayersInit => PlayersInv
  BY PlayersStart
<1>2. PlayersInv /\ [PlayersNext]_all => PlayersInv'
  BY PlayersKeep
<1>3. PlayersInv => ChoicesHappen
  BY DEF PlayersInv, Conversation
<1> QED BY <1>1, <1>2, <1>3, PTL DEF PlayersSpec

=============================================================================
