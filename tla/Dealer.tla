------------------------------- MODULE Dealer -------------------------------
(***************************************************************************)
(* ACPCServer/dealer.c run with a log file and a transaction file, and     *)
(* with -a: one process that plays a match with one socket per seat, may   *)
(* be killed between any two steps, and is started again on its files.     *)
(* pc names the part of gameLoop the process is in; the seats are an       *)
(* environment that answers late, twice, wrongly or never.                 *)
(*                                                                         *)
(* The clock is counted in ticks of any length.  A line is a "comment",    *)
(* "garbage" (no state can be read), a "response" (a state and an action), *)
(* or "malformed" (a state, and no action that can be read).               *)
(***************************************************************************)
EXTENDS Table, Protocol

CONSTANTS
    maxInvalidActions, maxResponse, maxUsedHand, maxUsedMatch,   \* ErrorInfo
    Answers,         \* the actions the players write; type "invalid": no such letter
                     \* (readAction reads a size in no-limit games only)
    Noise,           \* the kinds of line they write besides responses
    Quitters,        \* the seats that may disconnect
    Memory,          \* bound: how many of the last messages a player may answer
    MaxInbox,        \* bound: unread lines on one socket
    MaxWait,         \* bound: ticks after a state was sent
    MaxRestarts      \* bound: times the dealer is started again

ASSUME DealerAssumption ==
    /\ {maxInvalidActions, maxResponse, maxUsedHand, maxUsedMatch} \subseteq Nat
    /\ Answers \subseteq Action
    /\ ~noLimit => \A a \in Answers : a.size = 0
    /\ Noise \subseteq {"comment", "garbage", "malformed"}
    /\ Quitters \subseteq Seats
    /\ {Memory, MaxInbox, MaxWait, MaxRestarts} \subseteq Nat

VARIABLES
    pc,              \* where gameLoop is; "failed": the process is gone
    next,            \* the seat, or the line of the transaction file, to do next
    table,           \* handId, player0Seat, state and totalValue
    errorInfo,       \* numInvalidActions, usedHand and usedMatch of every seat
    answer,          \* action, and recvTime - sendTime, from response to doAction
    waited,          \* ticks since sendTime, until it is answered; -1: clock set back
    idle,            \* ticks since getLine was called, at most maxResponse
    tlog,            \* the transaction file
    log,             \* the log file
    told,            \* told[n]: what a replay of n lines of tlog arrives at (not in the code)
    socket,          \* "none", "open" or "closed", for every seat
    inbox,           \* the lines on every socket that the dealer has not read
    sent,            \* every message sent to every seat, in order
    restarts

process == <<pc, next, table, errorInfo, answer, waited, idle>>
files == <<tlog, log, told>>
network == <<socket, inbox, sent>>
vars == <<process, files, network, restarts>>

Call == [type |-> "call", size |-> 0]
noAnswer == [action |-> Call, took |-> 0]

\* What printMatchState tells a seat about the hand.
matchState_SeatIsPlayer(t, seat) ==
    [handId |-> t.handId, state |-> t.state, viewingPlayer |-> seat]
matchState(t, seat) ==
    [handId |-> t.handId, state |-> t.state, viewingPlayer |-> seatToPlayer(t.player0Seat, seat)]

noErrors == [numInvalidActions |-> [s \in Seats |-> 0],
             usedHand |-> [s \in Seats |-> 0], usedMatch |-> [s \in Seats |-> 0]]

-----------------------------------------------------------------------------
(* ErrorInfo.  A response seen before it was asked for costs nothing.      *)

timeCharged(info, seat, took) ==
    IF took < 0 THEN info
    ELSE [info EXCEPT !.usedHand[seat] = @ + took, !.usedMatch[seat] = @ + took]

checkErrorTimes(info, seat, took) ==
    took >= 0 =>
        /\ took <= maxResponse
        /\ info.usedHand[seat] + took <= maxUsedHand
        /\ info.usedMatch[seat] + took <= maxUsedMatch

invalidCounted(info, seat) ==
    [info EXCEPT !.numInvalidActions[seat] = IF @ > maxInvalidActions THEN @ ELSE @ + 1]

checkErrorInvalidAction(info, seat) ==
    invalidCounted(info, seat).numInvalidActions[seat] <= maxInvalidActions

checkErrorNewHand(info) == [info EXCEPT !.usedHand = [s \in Seats |-> 0]]

-----------------------------------------------------------------------------
(* Starting.                                                               *)

\* A process that has done nothing yet, and its unconnected sockets.
Fresh == [table |-> firstHand, errorInfo |-> noErrors, answer |-> noAnswer,
          socket |-> [s \in Seats |-> "none"],
          inbox |-> [s \in Seats |-> << >>], sent |-> [s \in Seats |-> << >>]]

Init ==
    /\ pc = "accept" /\ next = 0
    /\ table = Fresh.table /\ errorInfo = Fresh.errorInfo /\ answer = Fresh.answer
    /\ waited = 0 /\ idle = 0
    /\ socket = Fresh.socket /\ inbox = Fresh.inbox /\ sent = Fresh.sent
    /\ tlog = << >> /\ log = << >>
    /\ told = [n \in {0} |-> [table |-> firstHand, errorInfo |-> noErrors]]
    /\ restarts = 0

NextSeat_SkipsLast(here, then) ==
    IF next + 2 < numPlayers THEN pc' = here /\ next' = next + 1
    ELSE pc' = then /\ next' = 0

\* A step of the loops over the seats, and what follows their last iteration.
NextSeat(here, then) ==
    IF next + 1 < numPlayers THEN pc' = here /\ next' = next + 1
    ELSE pc' = then /\ next' = 0

\* exit( EXIT_FAILURE ), or the end of a killed process: only the files are left.
Fails ==
    /\ pc' = "failed" /\ next' = 0
    /\ table' = Fresh.table /\ errorInfo' = Fresh.errorInfo /\ answer' = Fresh.answer
    /\ waited' = 0 /\ idle' = 0
    /\ socket' = Fresh.socket /\ inbox' = Fresh.inbox /\ sent' = Fresh.sent
    /\ UNCHANGED <<files, restarts>>

\* main accepts the seats in order, whatever order they connect in, and waits
\* for each (start_timeout is off by default).
Accept ==
    /\ pc = "accept"
    /\ socket' = [socket EXCEPT ![next] = "open"]
    /\ NextSeat("accept", "version")
    /\ UNCHANGED <<table, errorInfo, answer, waited, idle, files, inbox, sent, restarts>>

\* checkVersion takes any version string, and waits for it without a timeout.
CheckVersion ==
    /\ pc = "version" /\ socket[next] = "open"
    /\ NextSeat("version", "replay")
    /\ UNCHANGED <<table, errorInfo, answer, waited, idle, files, network, restarts>>

CheckVersionFails == pc = "version" /\ Fails

\* The checks of processTransactionFile on one line of the file.
Replayable(t, info, e) ==
    /\ e.handId = t.handId
    /\ isValidAction(t.state, FALSE, e.action)
    /\ checkErrorTimes(info, currentSeat(t), e.took)

\* The times charged for one line, forgotten where it ends a hand.
timesReplayed_OfLastHand(t, info, e) == timeCharged(info, currentSeat(t), e.took)
timesReplayed(t, info, e) ==
    LET charged == timeCharged(info, currentSeat(t), e.took)
    IN IF transact(t, e.action).handId # t.handId THEN checkErrorNewHand(charged) ELSE charged

\* What a replay arrives at with one line more.
replayed(x, e) == [table |-> transact(x.table, e.action),
                   errorInfo |-> timesReplayed(x.table, x.errorInfo, e)]

\* One line of the file; a line that cannot be replayed ends the dealer.
ReplayTransaction ==
    /\ pc = "replay" /\ next < Len(tlog)
    /\ IF Replayable(table, errorInfo, tlog[next + 1])
       THEN /\ table' = transact(table, tlog[next + 1].action)
            /\ errorInfo' = timesReplayed(table, errorInfo, tlog[next + 1])
            /\ next' = next + 1
            /\ UNCHANGED <<pc, answer, waited, idle, files, network, restarts>>
       ELSE Fails

ReplayEnds ==
    /\ pc = "replay" /\ next = Len(tlog)
    /\ pc' = IF table.handId >= numHands THEN "final" ELSE "send"
    /\ next' = 0
    /\ UNCHANGED <<table, errorInfo, answer, waited, idle, files, network, restarts>>

-----------------------------------------------------------------------------
(* Playing a hand.                                                         *)

\* sendPlayerMessage; a write to a closed socket may still succeed.
SendTo(seat) == sent' = [sent EXCEPT ![seat] = Append(@, matchState(table, seat))]

\* The state goes to every seat; the time of the seat that acts starts here.
Send ==
    /\ pc = "send"
    /\ SendTo(next)
    /\ NextSeat("send", "read")
    /\ waited' = IF next = currentSeat(table) THEN 0 ELSE waited
    /\ idle' = 0
    /\ UNCHANGED <<table, errorInfo, answer, files, socket, inbox, restarts>>

SendFails == pc \in {"send", "sendFinal"} /\ socket[next] = "closed" /\ Fails

\* matchStatesEqual: does the line name the state that its seat was sent?
isForState_SameHand(t, seat, line) ==
    line.kind \in {"response", "malformed"} /\ line.state.handId = t.handId
isForState(t, seat, line) ==
    line.kind \in {"response", "malformed"} /\ matchStatesEqual(line.state, matchState(t, seat))

acceptable(line) == line.kind = "response" /\ isValidAction(table.state, TRUE, line.action)

ReadLine ==
    LET seat == currentSeat(table)
        line == Head(inbox[seat])
        charged == timeCharged(errorInfo, seat, waited)
        respond(action, info) ==
            /\ pc' = "log"
            /\ answer' = [action |-> action, took |-> waited]
            /\ errorInfo' = info
            /\ waited' = 0
    IN /\ pc = "read" /\ inbox[seat] # << >>
       /\ inbox' = [inbox EXCEPT ![seat] = Tail(@)]
       /\ idle' = 0
       /\ \/ /\ line.kind = "comment"
             /\ UNCHANGED <<pc, answer, errorInfo, waited>>
          \/ /\ line.kind # "comment" /\ checkErrorTimes(errorInfo, seat, waited)
             /\ \/ /\ ~isForState(table, seat, line)
                   /\ errorInfo' = charged
                   /\ UNCHANGED <<pc, answer, waited>>
                \/ /\ isForState(table, seat, line) /\ acceptable(line)
                   /\ respond(fixedAction(table.state, line.action), charged)
                \/ /\ isForState(table, seat, line) /\ ~acceptable(line)
                   /\ line.kind = "malformed" \/ checkErrorInvalidAction(errorInfo, seat)
                   /\ respond(Call, invalidCounted(charged, seat))
       /\ UNCHANGED <<next, table, files, socket, sent, restarts>>

\* Out of time, or one invalid action too many; a malformed one never is.
ReadLineFails ==
    LET seat == currentSeat(table)
        line == Head(inbox[seat])
    IN /\ pc = "read" /\ inbox[seat] # << >> /\ line.kind # "comment"
       /\ \/ ~checkErrorTimes(errorInfo, seat, waited)
          \/ /\ line.kind = "response" /\ isForState(table, seat, line) /\ ~acceptable(line)
             /\ ~checkErrorInvalidAction(errorInfo, seat)
       /\ Fails

\* getLine returns without a line: its timeout has passed, or the socket is closed.
GetLineFails ==
    LET seat == currentSeat(table)
    IN /\ pc = "read" /\ inbox[seat] = << >>
       /\ idle >= maxResponse \/ socket[seat] = "closed"
       /\ Fails

logTransaction ==
    /\ pc = "log"
    /\ LET n == Len(tlog)
           e == [action |-> answer.action, handId |-> table.handId, took |-> answer.took]
       IN /\ tlog' = Append(tlog, e)
          /\ told' = [k \in 0 .. n + 1 |-> IF k <= n THEN told[k] ELSE replayed(told[n], e)]
    /\ pc' = "act"
    /\ UNCHANGED <<next, table, errorInfo, answer, waited, idle, log, network, restarts>>

\* doAction, and after the last action of the hand the values and the totals.
DoAction ==
    /\ pc = "act"
    /\ LET after == act(table, answer.action)
       IN IF stateFinished(after.state)
          THEN /\ table' = [after EXCEPT !.totalValue = addValues(after)]
               /\ pc' = "addLog"
          ELSE table' = after /\ pc' = "send"
    /\ next' = 0 /\ answer' = noAnswer
    /\ UNCHANGED <<errorInfo, waited, idle, files, network, restarts>>

addToLogFile ==
    /\ pc = "addLog"
    /\ log' = Append(log, [handId |-> table.handId, value |-> values(table),
                           player0Seat |-> table.player0Seat])
    /\ pc' = "sendFinal" /\ next' = 0
    /\ UNCHANGED <<table, errorInfo, answer, waited, idle, tlog, told, network, restarts>>

SendFinal ==
    /\ pc = "sendFinal"
    /\ SendTo(next)
    /\ NextSeat("sendFinal", "newHand")
    /\ UNCHANGED <<table, errorInfo, answer, waited, idle, files, socket, inbox, restarts>>

NewHand ==
    /\ pc = "newHand"
    /\ table' = setUpNewHand(table)
    /\ errorInfo' = checkErrorNewHand(errorInfo)
    /\ pc' = IF table.handId + 1 >= numHands THEN "final" ELSE "send"
    /\ next' = 0
    /\ UNCHANGED <<answer, waited, idle, files, network, restarts>>

printFinalMessage ==
    /\ pc = "final" /\ pc' = "done"
    /\ UNCHANGED <<next, table, errorInfo, answer, waited, idle, files, network, restarts>>

-----------------------------------------------------------------------------
(* The seats, the clock and the crash.                                     *)

Disconnect(seat) ==
    /\ seat \in Quitters /\ socket[seat] = "open"
    /\ socket' = [socket EXCEPT ![seat] = "closed"]
    /\ UNCHANGED <<process, files, inbox, sent, restarts>>

\* A player may answer the last state it saw or, late or again, one before.
Recent(seat) == {sent[seat][i] : i \in {j \in DOMAIN sent[seat] : j + Memory > Len(sent[seat])}}

Write(seat, line) ==
    /\ socket[seat] = "open" /\ Len(inbox[seat]) < MaxInbox
    /\ inbox' = [inbox EXCEPT ![seat] = Append(@, line)]
    /\ UNCHANGED <<process, files, socket, sent, restarts>>

\* A line is read when its seat's turn comes, as if it had been written then.
Respond(seat) ==
    /\ pc = "read" /\ seat = currentSeat(table)
    /\ \E m \in Recent(seat), a \in Answers :
          Write(seat, [kind |-> "response", state |-> m, action |-> a])

Chatter(seat) ==
    /\ pc = "read" /\ seat = currentSeat(table)
    /\ \E k \in Noise : Write(seat, [kind |-> k, state |-> Last(sent[seat]), action |-> Call])

\* Time passes while the dealer waits; getLine does not wait past its timeout.
Tick ==
    LET seat == currentSeat(table)
    IN /\ pc = "read" /\ waited < MaxWait
       /\ inbox[seat] = << >> => idle < maxResponse
       /\ waited' = waited + 1 /\ idle' = IF idle < maxResponse THEN idle + 1 ELSE idle
       /\ UNCHANGED <<pc, next, table, errorInfo, answer, files, network, restarts>>

\* "calls to gettimeofday can return earlier times on later calls".
ClockStepsBack ==
    /\ pc = "read" /\ 0 < waited
    /\ waited' = -1
    /\ UNCHANGED <<pc, next, table, errorInfo, answer, idle, files, network, restarts>>

Crash == pc \notin {"failed", "done"} /\ Fails

\* The dealer is started again with -a on the files it left.
Restart ==
    /\ pc = "failed" /\ restarts < MaxRestarts
    /\ restarts' = restarts + 1
    /\ pc' = "accept"
    /\ UNCHANGED <<next, table, errorInfo, answer, waited, idle, files, network>>

Ended == pc = "done" \/ (pc = "failed" /\ restarts = MaxRestarts)
Stays == Ended /\ UNCHANGED vars

Dealing ==
    \/ Accept \/ CheckVersion \/ ReplayTransaction \/ ReplayEnds
    \/ Send \/ ReadLine \/ logTransaction \/ DoAction
    \/ addToLogFile \/ SendFinal \/ NewHand \/ printFinalMessage

Failing == CheckVersionFails \/ SendFails \/ ReadLineFails \/ GetLineFails

Playing == \E seat \in Seats : Disconnect(seat) \/ Respond(seat) \/ Chatter(seat)

Next == Dealing \/ Failing \/ Playing \/ Tick \/ ClockStepsBack \/ Crash \/ Restart \/ Stays

Spec == Init /\ [][Next]_vars

-----------------------------------------------------------------------------
(* The files and the crash.                                                *)

\* The match that the transaction file tells of.
story == told[Len(tlog)].table

\* The transaction file "is sufficient to recreate an interrupted match":
\* wherever the process is killed, the file leads back to exactly the hand,
\* the button, the betting and the totals it had, the action it was about to
\* do included; and the dealer never refuses a line of it, as every action is
\* valid as it was logged, in the hand and in the time it says.
FileRecreatesMatch ==
    /\ pc \in {"send", "read", "log", "final", "done"} => story = table
    /\ pc = "act" => story = transact(table, answer.action)
    /\ pc \in {"addLog", "sendFinal", "newHand"} => story = setUpNewHand(table)
    /\ pc = "replay" => table = told[next].table
    /\ pc = "replay" /\ next < Len(tlog) => Replayable(table, errorInfo, tlog[next + 1])

\* Seen through its transaction file, the dealer plays the match of AbstractMatch,
\* through crashes, restarts and whatever the players write.
M == INSTANCE AbstractMatch WITH match <- story
ImplementsMatch == M!Spec

\* A finished match has in its log "a single line for each completed" hand.
LogHasEveryHand ==
    pc = "done" => \A h \in 0 .. numHands - 1 : \E i \in DOMAIN log : log[i].handId = h

\* The log, whose values are in player order, adds up to the totals, which are
\* in seat order, with the hands in order and none twice (of a dealer that was
\* started again the log may lack hands, see LogHasEveryHand).
LogAddsUp ==
    restarts = 0 /\ pc \in {"send", "sendFinal", "final"} =>
        /\ \A i \in DOMAIN log : log[i].handId = i - 1
        /\ \A seat \in Seats :
              table.totalValue[seat] =
                  SumTo([i \in DOMAIN log |->
                            log[i].value[seatToPlayer(log[i].player0Seat, seat)]], Len(log))

-----------------------------------------------------------------------------
(* The messages.                                                           *)

\* While the dealer waits for a seat every seat has been sent the state it
\* waits for an answer to, each from its own position.
EverySeatSeesTheState ==
    pc \in {"read", "log", "act"} =>
        \A seat \in Seats : /\ sent[seat] # << >>
                            /\ Last(sent[seat]) = matchState(table, seat)

=============================================================================
