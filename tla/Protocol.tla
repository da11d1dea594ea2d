------------------------------ MODULE Protocol ------------------------------
(***************************************************************************)
(* The text form of a state (ACPCServer/game.c: printMatchState,           *)
(* readMatchState and what they call), which is all that the dealer, the   *)
(* players and the files tell each other.  A betting string is a sequence  *)
(* of rounds (the parts between the separators) of printed actions; digits *)
(* and letters are left out, and so are the cards.                         *)
(*                                                                         *)
(* What a reader makes of a text is a set: empty when it returns -1.       *)
(***************************************************************************)
EXTENDS Game, SequencesExt

\* A size is printed and read for a no-limit raise only; otherwise it is zero.
printAction(a) ==
    [type |-> a.type, size |-> IF noLimit /\ a.type = "raise" THEN a.size ELSE 0]

printBetting_LastRoundMissing(s) ==
    [i \in 1 .. s.round |->
        [k \in DOMAIN s.action[i - 1] |-> printAction(s.action[i - 1][k])]]
printBetting(s) ==
    [i \in 1 .. s.round + 1 |->
        [k \in DOMAIN s.action[i - 1] |-> printAction(s.action[i - 1][k])]]

readAct(read, a) == {doAction(s, a) : s \in {t \in read : isValidAction(t, FALSE, a)}}

\* What the first n actions lead to, for every n.
actsRead(actions) ==
    LET after[n \in 0 .. Len(actions)] ==
            IF n = 0 THEN {initState} ELSE readAct(after[n - 1], actions[n])
    IN after

\* The separators are ignored: where a round ends is for doAction to say.
readBetting(text) == actsRead(FlattenSeq(text))[Len(FlattenSeq(text))]

printMatchState(m) ==
    [viewingPlayer |-> m.viewingPlayer, handId |-> m.handId, betting |-> printBetting(m.state)]

readMatchState(text) ==
    {[viewingPlayer |-> text.viewingPlayer, handId |-> text.handId, state |-> s] :
        s \in IF text.viewingPlayer \in Players THEN readBetting(text.betting) ELSE {}}

-----------------------------------------------------------------------------
\* Two states of the same hand are equal if the betting is: all else follows.
SameAction(a, b) == a.type = b.type /\ a.size = b.size

statesEqualCommon(a, b) ==
    /\ a.round = b.round
    /\ \A r \in 0 .. a.round :
          /\ Len(a.action[r]) = Len(b.action[r])
          /\ \A i \in DOMAIN a.action[r] : SameAction(a.action[r][i], b.action[r][i])

matchStatesEqual(a, b) ==
    /\ a.viewingPlayer = b.viewingPlayer
    /\ a.handId = b.handId
    /\ statesEqualCommon(a.state, b.state)

=============================================================================
