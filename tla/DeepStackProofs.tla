-------------------------- MODULE DeepStackProofs ---------------------------
(***************************************************************************)
(* DeepStack at the dealer's game, for every stack and every ante, any     *)
(* number of hands and any delay. First the game of two players as         *)
(* DeepStack knows it: InPlay and IsOver say what its states look like,    *)
(* and what a fold, a call and a raise make of them. Then the tree         *)
(* against the engine, and at last the machine: IInv knows which line is   *)
(* a question, what an answer on its way is, and how the node of the last  *)
(* decision leads on; HistoryInv, that the range is what DeepStack did in  *)
(* this hand, and where its last action led.                               *)
(***************************************************************************)
EXTENDS DeepStack, GameProofs

-----------------------------------------------------------------------------
(* The game of two players.                                                *)

LEMMA TwoPlayers ==
  /\ numPlayers = 2 /\ numRounds = 2 /\ Players = {0, 1} /\ Rounds = {0, 1} /\ noLimit
  /\ stack \in [Players -> Nat] /\ blind \in [Players -> Nat]
  /\ stack[0] = arguments.stack /\ stack[1] = arguments.stack
  /\ blind[0] = arguments.ante /\ blind[1] = arguments.ante
  /\ firstPlayer[0] = 0 /\ firstPlayer[1] = 0
  /\ arguments.ante \in Nat /\ arguments.ante > 0 /\ arguments.stack \in Nat
  /\ arguments.ante < arguments.stack
<1>1. numPlayers = 2 /\ numRounds = 2
  BY SettingsAgree
<1>2. Players = {0, 1} /\ Rounds = {0, 1}
  BY <1>1 DEF Players, Rounds
<1> QED BY <1>1, <1>2, SettingsAgree, GameAssumption, ArgumentsAssumption

\* Twice a stack is still a number of 32 bits (ChipsFit).
LEMMA TwiceTheStack ==
  /\ INT32_MAX \in Nat /\ 2 * arguments.stack <= INT32_MAX
<1>1. 2 * stack[0] <= INT32_MAX
  <2>1. ChipsFit
    BY SettingsAgree
  <2> QED BY <2>1, TwoPlayers, TwiceFits
<1> QED BY <1>1, TwoPlayers, Int32Assumption

LEMMA FunctionIsSeq ==
  ASSUME NEW S, NEW n \in Nat, NEW f \in [1 .. n -> S]
  PROVE  f \in Seq(S) /\ Len(f) = n
OBVIOUS

LEMMA Concatenated ==
  ASSUME NEW S, NEW a \in Seq(S), NEW b \in Seq(S)
  PROVE  /\ a \o b \in Seq(S) /\ Len(a \o b) = Len(a) + Len(b)
         /\ Len(a) \in Nat /\ Len(b) \in Nat /\ DOMAIN (a \o b) = 1 .. Len(a) + Len(b)
         /\ \A i \in 1 .. Len(a) : (a \o b)[i] = a[i]
         /\ \A i \in Len(a) + 1 .. Len(a) + Len(b) : (a \o b)[i] = b[i - Len(a)]
OBVIOUS

LEMMA Appended ==
  ASSUME NEW S, NEW a \in Seq(S), NEW e \in S
  PROVE  Append(a, e) \in Seq(S)
OBVIOUS

\* What the line calls an action (printed).
name(type) == IF type = "call" THEN "ccall" ELSE type

\* The actions of a hand one after the other, as the parser has them.
allActions(s) == _convert_actions(printed(0, s).actions)

\* The last raise among the first m actions, of which the ante counts as one.
lastRaise(all, m) ==
    LET raises == {i \in 1 .. m : all[i].action = "raise"}
    IN IF raises = {} THEN arguments.ante ELSE all[Max(raises)].raise_amount

read(e, i, street) == [action |-> name(e.type), raise_amount |-> e.size,
                       player |-> IF i % 2 = 1 THEN P1 ELSE P2, street |-> street]

LEMMA ActionsAreRead ==
  ASSUME NEW s \in State
  PROVE  LET all == allActions(s)
             n == Len(s.action[0])
             k == Len(s.action[1])
         IN /\ n \in Nat /\ k \in Nat
            /\ \E S : all \in Seq(S)
            /\ Len(all) = n + k
            /\ \A i \in 1 .. n : all[i] = read(s.action[0][i], i, 1)
            /\ \A j \in 1 .. k : all[n + j] = read(s.action[1][j], j, 2)
            /\ \A h : /\ _convert_actions(printed(h, s).actions) = all
                      /\ Len(printed(h, s).actions[2]) = k
                      /\ printed(h, s).board <=> s.round > 0
                      /\ printed(h, s).position = viewingPlayer(h)
                      /\ printed(h, s).hand_id = h
<1> DEFINE n == Len(s.action[0])
           k == Len(s.action[1])
           T == [action : {name(x) : x \in {"fold", "call", "raise"}}, raise_amount : Int]
           R == [action : {name(x) : x \in {"fold", "call", "raise"}}, raise_amount : Int,
                 player : {P1, P2}, street : {1, 2}]
           b(r) == [i \in 1 .. Len(s.action[r]) |->
                      [action |-> name(s.action[r][i].type), raise_amount |-> s.action[r][i].size]]
           p(r) == [i \in 1 .. Len(s.action[r]) |-> read(s.action[r][i], i, r + 1)]
<1>1. \A r \in {0, 1} : /\ s.action[r] \in Seq(Entry) /\ Len(s.action[r]) \in Nat
                        /\ DOMAIN s.action[r] = 1 .. Len(s.action[r])
                        /\ \A i \in 1 .. Len(s.action[r]) : s.action[r][i] \in Entry
  BY TwoPlayers DEF State
<1>2. \A h : printed(h, s) = [position |-> viewingPlayer(h), hand_id |-> h,
                              actions |-> <<b(0), b(1)>>, board |-> s.round > 0]
  BY <1>1 DEF printed, name
<1>3. \A r \in {0, 1} : Len(b(r)) = Len(s.action[r])
  BY <1>1
<1>4. ASSUME NEW r \in {0, 1} PROVE p(r) \in Seq(R) /\ Len(p(r)) = Len(s.action[r])
  <2>1. \A i \in 1 .. Len(s.action[r]) : read(s.action[r][i], i, r + 1) \in R
    <3> TAKE i \in 1 .. Len(s.action[r])
    <3>1. s.action[r][i].type \in {"fold", "call", "raise"} /\ s.action[r][i].size \in Int
      BY <1>1 DEF Entry
    <3>2. name(s.action[r][i].type) \in {name(x) : x \in {"fold", "call", "raise"}}
      BY <3>1
    <3>3. (IF i % 2 = 1 THEN P1 ELSE P2) \in {P1, P2} /\ r + 1 \in {1, 2}
      OBVIOUS
    <3> QED BY <3>1, <3>2, <3>3 DEF read
  <2> HIDE DEF R
  <2>2. p(r) \in [1 .. Len(s.action[r]) -> R]
    BY <2>1
  <2> HIDE DEF p
  <2> QED BY <2>2, <1>1, FunctionIsSeq
<1>5. _convert_actions(<<b(0), b(1)>>) = p(0) \o p(1)
  <2> DEFINE y(c, r, street) == [i \in 1 .. Len(s.action[r]) |->
                          [action |-> c[i].action, raise_amount |-> c[i].raise_amount,
                           player |-> IF i % 2 = 1 THEN P1 ELSE P2, street |-> street]]
  <2>1. \A r \in {0, 1} : DOMAIN b(r) = 1 .. Len(s.action[r])
    OBVIOUS
  <2>2. \A r \in {0, 1} : y(b(r), r, r + 1) = p(r)
    BY DEF read
  <2> HIDE DEF b, p
  <2>3. _convert_actions(<<b(0), b(1)>>) = y(b(0), 0, 1) \o y(b(1), 1, 2)
    <3>1. <<b(0), b(1)>>[1] = b(0) /\ <<b(0), b(1)>>[2] = b(1)
      OBVIOUS
    <3> QED BY <2>1, <3>1 DEF _convert_actions
  <2>4. p(0) = y(b(0), 0, 1) /\ p(1) = y(b(1), 1, 2)
    BY <2>2
  <2> HIDE DEF y
  <2> QED BY <2>3, <2>4
<1>6. allActions(s) = p(0) \o p(1)
  <2> HIDE DEF b, p
  <2>1. printed(0, s).actions = <<b(0), b(1)>>
    BY <1>2
  <2> QED BY <2>1, <1>5 DEF allActions
<1>7. /\ p(0) \o p(1) \in Seq(R) /\ Len(p(0) \o p(1)) = n + k
      /\ \A i \in 1 .. n : (p(0) \o p(1))[i] = p(0)[i]
      /\ \A j \in 1 .. k : (p(0) \o p(1))[n + j] = p(1)[j]
  <2>1. p(0) \in Seq(R) /\ Len(p(0)) = n /\ p(1) \in Seq(R) /\ Len(p(1)) = k /\ n \in Nat /\ k \in Nat
    BY <1>1, <1>4
  <2> HIDE DEF p, R, n, k
  <2> QED BY <2>1
<1>8. /\ \A i \in 1 .. n : p(0)[i] = read(s.action[0][i], i, 1)
      /\ \A j \in 1 .. k : p(1)[j] = read(s.action[1][j], j, 2)
  OBVIOUS
<1>9. \A h : /\ _convert_actions(printed(h, s).actions) = p(0) \o p(1)
             /\ Len(printed(h, s).actions[2]) = k
             /\ printed(h, s).board <=> s.round > 0
             /\ printed(h, s).position = viewingPlayer(h)
             /\ printed(h, s).hand_id = h
  <2>1. k = Len(b(1))
    BY <1>3
  <2> HIDE DEF b, p, k
  <2> TAKE h
  <2>2. printed(h, s).actions = <<b(0), b(1)>>
    BY <1>2
  <2>3. _convert_actions(printed(h, s).actions) = p(0) \o p(1)
    BY <2>2, <1>5
  <2>4. printed(h, s).board <=> s.round > 0
    BY Zenon DEF printed
  <2>5. printed(h, s).position = viewingPlayer(h) /\ printed(h, s).hand_id = h
    BY <1>2
  <2>6. Len(printed(h, s).actions[2]) = k
    BY <2>1, <2>2
  <2> QED BY <2>3, <2>4, <2>5, <2>6
<1>10. n \in Nat /\ k \in Nat
  BY <1>1
<1> HIDE DEF p, n, k, R
<1>11. \E S : allActions(s) \in Seq(S)
  BY <1>6, <1>7
<1> QED BY <1>6, <1>7, <1>8, <1>9, <1>10, <1>11 DEF n, k

LEMMA LastRaise ==
  ASSUME NEW all
  PROVE  /\ lastRaise(all, 0) = arguments.ante
         /\ \A m \in Nat : m > 0 =>
               lastRaise(all, m) = IF all[m].action = "raise" THEN all[m].raise_amount
                                   ELSE lastRaise(all, m - 1)
<1> DEFINE raises(m) == {i \in 1 .. m : all[i].action = "raise"}
<1>1. raises(0) = {}
  OBVIOUS
<1>2. ASSUME NEW m \in Nat, m > 0, all[m].action = "raise"
      PROVE  lastRaise(all, m) = all[m].raise_amount
  <2>1. m \in raises(m) /\ \A y \in raises(m) : y \in Nat /\ m >= y
    BY <1>2
  <2> HIDE DEF raises
  <2>2. Max(raises(m)) = m
    <3>1. \E x \in raises(m) : \A y \in raises(m) : x >= y
      BY <2>1
    <3>2. Max(raises(m)) \in raises(m) /\ \A y \in raises(m) : Max(raises(m)) >= y
      BY <3>1 DEF Max
    <3> QED BY <2>1, <3>2
  <2> QED BY <2>1, <2>2 DEF lastRaise, raises
<1>3. ASSUME NEW m \in Nat, m > 0, all[m].action # "raise"
      PROVE  lastRaise(all, m) = lastRaise(all, m - 1)
  <2>1. raises(m) = raises(m - 1)
    BY <1>3
  <2> QED BY <2>1 DEF lastRaise
<1> QED BY <1>1, <1>2, <1>3 DEF lastRaise

\* It is the same in a hand that has begun in the same way.
LEMMA LastRaiseOfPrefix ==
  ASSUME NEW all, NEW other, NEW m \in Nat, \A i \in 1 .. m : all[i] = other[i]
  PROVE  lastRaise(all, m) = lastRaise(other, m)
<1>1. {i \in 1 .. m : all[i].action = "raise"} = {i \in 1 .. m : other[i].action = "raise"}
  OBVIOUS
<1> DEFINE R == {i \in 1 .. m : other[i].action = "raise"}
<1>2. CASE R = {}
  BY <1>1, <1>2 DEF lastRaise
<1>3. CASE R # {}
  <2>1. Max(R) \in 1 .. m
    <3> DEFINE T == {k \in Nat : \E i \in R : k = m - i}
    <3>0. R \subseteq 1 .. m /\ \A i \in R : m - i \in Nat
      OBVIOUS
    <3>1. T \in SUBSET Nat /\ T # {}
      <4> HIDE DEF R
      <4> QED BY <1>3, <3>0
    <3>2. PICK k \in T : \A j \in T : k <= j
      <4> HIDE DEF T
      <4> QED BY <3>1, LeastNatural
    <3>3. PICK x \in R : k = m - x
      BY <3>2
    <3>4. \A y \in R : y \in Nat /\ m - y \in T /\ x >= y
      BY <3>2, <3>3
    <3> HIDE DEF T
    <3>5. \E z \in R : \A y \in R : z >= y
      BY <3>4
    <3>6. Max(R) \in R
      BY <3>5 DEF Max
    <3> QED BY <3>6
  <2>2. all[Max(R)] = other[Max(R)]
    BY <2>1
  <2> HIDE DEF R
  <2>3. lastRaise(all, m) = all[Max(R)].raise_amount
    BY <1>1, <1>3 DEF lastRaise, R
  <2>4. lastRaise(other, m) = other[Max(R)].raise_amount
    BY <1>3 DEF lastRaise, R
  <2> QED BY <2>2, <2>3, <2>4
<1> QED BY <1>2, <1>3

\* The last two actions, before which the antes are put.
LEMMA LastTwo ==
  ASSUME NEW S, NEW all \in Seq(S), NEW x, NEW y
  PROVE  LET n == Len(all)
             played == <<x, y>> \o all
         IN /\ n \in Nat
            /\ played[Len(played)] = IF n = 0 THEN y ELSE all[n]
            /\ played[Len(played) - 1] = IF n = 0 THEN x ELSE IF n = 1 THEN y ELSE all[n - 1]
<1> DEFINE n == Len(all)
           played == <<x, y>> \o all
<1>1. /\ n \in Nat /\ Len(played) = n + 2 /\ played[1] = x /\ played[2] = y
      /\ \A i \in 1 .. n : played[i + 2] = all[i]
  <2> DEFINE U == S \cup {x, y}
  <2>1. all \in Seq(U) /\ <<x, y>> \in Seq(U)
    OBVIOUS
  <2> HIDE DEF U
  <2> QED BY <2>1
<1>2. /\ n = 0 => played[n + 2] = y /\ played[n + 1] = x
      /\ n # 0 => played[n + 2] = all[n]
      /\ n = 1 => played[n + 1] = y
      /\ n # 0 /\ n # 1 => played[n + 1] = all[n - 1]
  <2> HIDE DEF played, n
  <2>1. n # 0 => n \in 1 .. n
    BY <1>1
  <2>2. n # 0 /\ n # 1 => n - 1 \in 1 .. n /\ (n - 1) + 2 = n + 1
    BY <1>1
  <2>3. n = 0 => n + 2 = 2 /\ n + 1 = 1
    OBVIOUS
  <2>4. n = 1 => n + 1 = 2
    OBVIOUS
  <2> QED BY <1>1, <2>1, <2>2, <2>3, <2>4
<1>3. Len(played) = n + 2 /\ Len(played) - 1 = n + 1
  BY <1>1
<1> HIDE DEF played
<1> QED BY <1>1, <1>2, <1>3 DEF played

\* The last two actions, and a raise before them, tell both bets.
LEMMA BetsAreRead ==
  ASSUME NEW line, NEW S, NEW all \in Seq(S), all = _convert_actions(line.actions),
         \A i \in 1 .. Len(all) : all[i].action \in {"raise", "ccall"},
         _get_acting_player(line) # nobody
  PROVE  LET n == Len(all)
         IN _compute_bets(line) =
                IF n > 0 /\ all[n].action = "raise"
                THEN <<lastRaise(all, n - 1), lastRaise(all, n)>>
                ELSE <<lastRaise(all, n), lastRaise(all, n)>>
<1> DEFINE n == Len(all)
           played == <<anteOf(P2), anteOf(P1)>> \o all
           last1 == played[Len(played)]
           prev == played[Len(played) - 1]
           ante == arguments.ante
           bets == IF n > 0 /\ all[n].action = "raise"
                   THEN <<lastRaise(all, n - 1), lastRaise(all, n)>>
                   ELSE <<lastRaise(all, n), lastRaise(all, n)>>
<1>1. \A p : anteOf(p).action = "raise" /\ anteOf(p).raise_amount = ante
  BY DEF anteOf
<1>2. /\ n \in Nat
      /\ last1 = IF n = 0 THEN anteOf(P1) ELSE all[n]
      /\ prev = IF n = 0 THEN anteOf(P2) ELSE IF n = 1 THEN anteOf(P1) ELSE all[n - 1]
  BY LastTwo
<1>3. prev_last_bet(all) = lastRaise(all, n - 2)
  BY DEF prev_last_bet, lastRaise
<1>4. lastRaise(all, -1) = ante
  <2>1. {i \in 1 .. -1 : all[i].action = "raise"} = {}
    OBVIOUS
  <2> QED BY <2>1 DEF lastRaise
<1>5. /\ prev.action = "raise" /\ last1.action = "raise" =>
            _compute_bets(line) = <<prev.raise_amount, last1.raise_amount>>
      /\ prev.action = "raise" /\ last1.action = "ccall" =>
            _compute_bets(line) = <<prev.raise_amount, prev.raise_amount>>
      /\ prev.action = "ccall" /\ last1.action = "ccall" =>
            _compute_bets(line) = <<prev_last_bet(all), prev_last_bet(all)>>
      /\ prev.action = "ccall" /\ last1.action = "raise" =>
            _compute_bets(line) = <<prev_last_bet(all), last1.raise_amount>>
  <2>1. _get_acting_player(line) # nobody /\ all = _convert_actions(line.actions)
    OBVIOUS
  <2> QED BY <2>1 DEF _compute_bets, lastOf
<1>6. \A i \in 1 .. n : all[i].action \in {"raise", "ccall"}
  OBVIOUS
<1> HIDE DEF n, last1, prev, played
<1>7. _compute_bets(line) = bets
  <2>1. CASE n = 0
    BY <2>1, <1>1, <1>2, <1>3, <1>4, <1>5, LastRaise
  <2>2. CASE n # 0
    <3>1. n \in 1 .. n /\ n > 0
      BY <1>2, <2>2
    <3>2. lastRaise(all, n) = IF all[n].action = "raise" THEN all[n].raise_amount ELSE lastRaise(all, n - 1)
      BY <1>2, <3>1, LastRaise
    <3>3. all[n].action \in {"raise", "ccall"} /\ last1 = all[n]
      BY <1>2, <1>6, <3>1
    <3>4. CASE n = 1
      <4>1. prev.action = "raise" /\ prev.raise_amount = ante /\ lastRaise(all, n - 1) = ante
        BY <3>4, <1>1, <1>2, LastRaise
      <4> QED BY <3>1, <3>2, <3>3, <4>1, <1>5
    <3>5. CASE n # 1
      <4>1. n - 1 \in Nat /\ n - 1 > 0 /\ (n - 1) - 1 = n - 2 /\ n - 1 \in 1 .. n
        BY <1>2, <2>2, <3>5
      <4>2. lastRaise(all, n - 1) = IF all[n - 1].action = "raise" THEN all[n - 1].raise_amount
                                    ELSE lastRaise(all, n - 2)
        BY <4>1, LastRaise
      <4>3. all[n - 1].action \in {"raise", "ccall"} /\ prev = all[n - 1]
        BY <1>2, <1>6, <2>2, <3>5, <4>1
      <4> QED BY <3>1, <3>2, <3>3, <4>2, <4>3, <1>3, <1>5
    <3> QED BY <3>4, <3>5
  <2> QED BY <2>1, <2>2
<1> QED BY <1>7 DEF n

-----------------------------------------------------------------------------
(* The states of the dealer, and what is read in their lines.              *)

\* The round ends with a bet that is to be answered.
betMade(s) == acts(s) # << >> /\ acts(s)[Len(acts(s))].type = "raise"

\* A bet that is not all-in is one ante at least above the bet before it, and
\* the least that is to be raised follows from the two bets.
BetsLeaveRoom(s) ==
    LET k == Len(acts(s))
    IN /\ arguments.ante <= s.maxSpent
       /\ s.maxSpent < arguments.stack =>
            /\ s.maxSpent + arguments.ante <= s.minNoLimitRaiseTo
            /\ s.minNoLimitRaiseTo <=
                 s.maxSpent + max(s.maxSpent - s.spent[k % 2], arguments.ante)
            /\ k * arguments.ante <= s.maxSpent

\* A state in which somebody is asked: checks and bets that were called in the
\* round before; a check or none and then nothing but bets in this one.
InPlay(s) ==
    LET all == allActions(s)
        n == Len(all)
        k == Len(acts(s))
    IN /\ s \in State /\ ~s.finished
       /\ s.spent \in [Players -> Nat] /\ s.maxSpent \in Nat /\ s.minNoLimitRaiseTo \in Nat
       /\ \A p \in Players : ~s.playerFolded[p]
       /\ \A r \in Rounds : \A i \in 1 .. Len(s.action[r]) :
             s.action[r][i].type \in {"call", "raise"} /\ s.action[r][i].player = (i - 1) % 2
       /\ s.round = 0 => s.action[1] = << >>
       /\ s.round = 1 => Len(s.action[0]) >= 2
       /\ s.round = 1 => s.action[0][Len(s.action[0])].type = "call"
       /\ \A i \in 2 .. k : acts(s)[i].type = "raise"
       /\ s.maxSpent < s.minNoLimitRaiseTo /\ s.maxSpent <= arguments.stack
       /\ s.maxSpent = lastRaise(all, n)
       /\ betMade(s) => /\ s.spent[(k - 1) % 2] = s.maxSpent
                        /\ s.spent[k % 2] = lastRaise(all, n - 1)
                        /\ s.spent[k % 2] < s.maxSpent
       /\ ~betMade(s) => /\ s.spent[0] = s.maxSpent /\ s.spent[1] = s.maxSpent
                         /\ s.maxSpent < arguments.stack
       /\ BetsLeaveRoom(s)

\* A state after the last action of a hand: a fold, a call in the second round,
\* or in the first a call of all the chips.
IsOver(s) ==
    LET all == allActions(s)
    IN /\ s \in State /\ s.finished
       /\ \/ /\ acts(s) # << >> /\ acts(s)[Len(acts(s))].type = "fold"
             /\ s.round = 0 => s.action[1] = << >>
          \/ /\ s.round = 1 /\ Len(s.action[1]) >= 2
             /\ s.action[1][Len(s.action[1])].type = "call"
          \/ /\ s.round = 1 /\ s.action[1] = << >> /\ s.action[0] # << >>
             /\ \A i \in 1 .. Len(s.action[0]) : s.action[0][i].type \in {"call", "raise"}
             /\ s.action[0][Len(s.action[0])].type = "call"
             /\ lastRaise(all, Len(all)) = arguments.stack

\* The actions of the round are numbered, and the players take turns.
LEMMA ActorInPlay ==
  ASSUME NEW s, InPlay(s)
  PROVE  /\ Len(acts(s)) \in Nat /\ Len(acts(s)) % 2 \in {0, 1}
         /\ acts(s) = << >> <=> Len(acts(s)) = 0
         /\ currentPlayer(s) = Len(acts(s)) % 2
         /\ CanAct(s, currentPlayer(s))
<1> DEFINE k == Len(acts(s))
           cur == IF acts(s) # << >> THEN acts(s)[k].player ELSE 1
<1>1. s \in State /\ acts(s) \in Seq(Entry) /\ s.round \in {0, 1} /\ k \in Nat
  BY TwoPlayers DEF InPlay, State, acts
<1>2. acts(s) = << >> <=> k = 0
  BY <1>1
<1>3. k > 0 => acts(s)[k].player = (k - 1) % 2
  <2>1. k > 0 => k \in 1 .. Len(s.action[s.round]) /\ s.round \in Rounds
    BY <1>1, TwoPlayers DEF acts
  <2> QED BY <2>1 DEF InPlay, acts
<1>4. cur \in {0, 1} /\ (cur + 1) % 2 = k % 2 /\ k % 2 \in {0, 1}
  <2>1. CASE k = 0
    BY <2>1, <1>2
  <2>2. CASE k > 0
    <3>1. (((k - 1) % 2) + 1) % 2 = k % 2 /\ (k - 1) % 2 \in {0, 1} /\ k % 2 \in {0, 1}
      BY <1>1, <2>2
    <3> QED BY <3>1, <1>2, <1>3, <2>2
  <2> QED BY <2>1, <2>2, <1>1
<1>5. currentPlayer(s) = nextPlayer(s, cur)
  <2>1. firstPlayer[s.round] + numPlayers - 1 = 1
    BY <1>1, TwoPlayers
  <2> QED BY <2>1 DEF currentPlayer
<1>6. CanAct(s, k % 2)
  <2>1. stack[k % 2] = arguments.stack /\ ~s.playerFolded[k % 2]
    BY <1>4, TwoPlayers DEF InPlay
  <2>2. s.maxSpent \in Nat /\ s.spent[k % 2] \in Nat /\ arguments.stack \in Nat
    BY <1>4, TwoPlayers DEF InPlay
  <2>3. s.spent[k % 2] < arguments.stack
    BY <2>2, <1>4 DEF InPlay
  <2> QED BY <2>1, <2>3 DEF CanAct
<1>7. PICK j \in 1 .. numPlayers :
            /\ nextPlayer(s, cur) = (cur + j) % numPlayers
            /\ \A i \in 1 .. j - 1 : ~CanAct(s, (cur + i) % numPlayers)
  <2>1. \E p \in Players : CanAct(s, p)
    BY <1>4, <1>6, TwoPlayers
  <2>2. cur \in Nat
    BY <1>4
  <2> HIDE DEF cur, k
  <2> QED BY <2>1, <2>2, <1>1, NextPlayerStops
<1>8. j = 1
  <2>1. j = 2 => 1 \in 1 .. j - 1
    OBVIOUS
  <2>2. numPlayers = 2 /\ j \in {1, 2}
    BY TwoPlayers
  <2>3. CanAct(s, (cur + 1) % numPlayers)
    BY <1>4, <1>6, <2>2
  <2> HIDE DEF cur, k
  <2> QED BY <2>1, <2>2, <2>3, <1>7
<1>9. currentPlayer(s) = k % 2
  <2> HIDE DEF cur, k
  <2> QED BY <1>4, <1>5, <1>7, <1>8, TwoPlayers
<1> QED BY <1>1, <1>2, <1>4, <1>6, <1>9

\* The two players' views of one hand are of the two players.
LEMMA Views ==
  ASSUME NEW h \in Nat
  PROVE  viewingPlayer(h) \in {0, 1}
<1>1. mySeat \in {0, 1} /\ h % 2 \in {0, 1} /\ numPlayers = 2
  BY SettingsAgree, TwoPlayers
<1>2. (mySeat + 2 - (h % 2)) % 2 \in {0, 1}
  BY <1>1
<1> QED BY <1>1, <1>2 DEF viewingPlayer

\* The actions of a state in play, as the parser has them.
LEMMA ActionsInPlay ==
  ASSUME NEW s, InPlay(s)
  PROVE  LET all == allActions(s)
             n == Len(all)
             k == Len(acts(s))
         IN /\ n \in Nat /\ k \in Nat
            /\ \A i \in 1 .. n : all[i].action \in {"raise", "ccall"}
            /\ k = 0 /\ s.round = 0 => n = 0
            /\ k = 0 /\ s.round = 1 => n > 0 /\ all[n].street = 1 /\ all[n].action = "ccall"
            /\ k > 0 => /\ n > 0 /\ all[n] = read(acts(s)[k], k, s.round + 1)
                        /\ acts(s)[k].type \in {"call", "raise"}
            /\ s.round = 1 => Len(s.action[1]) = k
            /\ n > 0 /\ all[n].action = "raise" <=> betMade(s)
<1> DEFINE all == allActions(s)
           n == Len(all)
           k == Len(acts(s))
           n0 == Len(s.action[0])
           n1 == Len(s.action[1])
<1>1. s \in State /\ acts(s) = s.action[s.round] /\ s.round \in {0, 1} /\ k \in Nat
      /\ (acts(s) = << >> <=> k = 0)
  BY TwoPlayers, ActorInPlay DEF InPlay, State, acts
<1>2. /\ n0 \in Nat /\ n1 \in Nat /\ n = n0 + n1
      /\ \A i \in 1 .. n0 : all[i] = read(s.action[0][i], i, 1)
      /\ \A j \in 1 .. n1 : all[n0 + j] = read(s.action[1][j], j, 2)
  <2>1. s \in State
    BY <1>1
  <2> QED BY <2>1, ActionsAreRead
<1>3. \A r \in {0, 1} : \A i \in 1 .. Len(s.action[r]) : s.action[r][i].type \in {"call", "raise"}
  BY TwoPlayers DEF InPlay
<1>4. \A e, i, street : read(e, i, street).action = name(e.type) /\ read(e, i, street).street = street
  BY DEF read
<1>5. \A t \in {"call", "raise"} : name(t) \in {"raise", "ccall"} /\ (name(t) = "raise" <=> t = "raise")
  BY DEF name
<1>6. ASSUME NEW i \in 1 .. n PROVE all[i].action \in {"raise", "ccall"}
  <2>1. CASE i <= n0
    <3>1. i \in 1 .. n0
      BY <1>2, <2>1
    <3> QED BY <3>1, <1>2, <1>3, <1>4, <1>5
  <2>2. CASE i > n0
    <3> HIDE DEF n, n0, n1, all
    <3>1. i - n0 \in 1 .. n1 /\ n0 + (i - n0) = i
      BY <1>2, <2>2
    <3>2. all[i] = read(s.action[1][i - n0], i - n0, 2)
      BY <3>1, <1>2
    <3>3. s.action[1][i - n0].type \in {"call", "raise"}
      BY <3>1, <1>3 DEF n1
    <3> QED BY <3>2, <3>3, <1>4, <1>5
  <2> QED BY <2>1, <2>2, <1>2
<1>7. s.round = 0 => n0 = k /\ n1 = 0
  BY <1>1 DEF InPlay
<1>8. s.round = 1 => n1 = k /\ n0 >= 2 /\ s.action[0][n0].type = "call"
  BY <1>1 DEF InPlay
<1> HIDE DEF all, n, k, n0, n1
<1>9. k = 0 /\ s.round = 0 => n = 0
  BY <1>2, <1>7
<1>10. k = 0 /\ s.round = 1 => n > 0 /\ all[n].street = 1 /\ all[n].action = "ccall"
  <2>1. k = 0 /\ s.round = 1 => n = n0 /\ n0 \in 1 .. n0 /\ n0 > 0
    BY <1>2, <1>8
  <2> QED BY <2>1, <1>2, <1>4, <1>8 DEF name
<1>11. k > 0 => n > 0 /\ all[n] = read(acts(s)[k], k, s.round + 1)
  <2>1. CASE s.round = 0 /\ k > 0
    <3>1. n = n0 /\ n0 \in 1 .. n0 /\ n0 = k /\ n0 > 0 /\ s.round + 1 = 1
      BY <2>1, <1>2, <1>7
    <3> QED BY <3>1, <2>1, <1>1, <1>2
  <2>2. CASE s.round = 1 /\ k > 0
    <3>1. n = n0 + n1 /\ n1 \in 1 .. n1 /\ n1 = k /\ n > 0 /\ s.round + 1 = 2
      BY <2>2, <1>2, <1>8
    <3> QED BY <3>1, <2>2, <1>1, <1>2
  <2> QED BY <2>1, <2>2, <1>1
<1>12. k > 0 => acts(s)[k].type \in {"call", "raise"}
  <2>1. k > 0 => k \in 1 .. k
    BY <1>1
  <2> QED BY <2>1, <1>1, <1>3 DEF k
<1>13. n > 0 /\ all[n].action = "raise" <=> betMade(s)
  <2>1. CASE k = 0
    BY <2>1, <1>1, <1>9, <1>10 DEF betMade
  <2>2. CASE k > 0
    <3>1. betMade(s) <=> acts(s)[k].type = "raise"
      BY <2>2, <1>1 DEF betMade, k
    <3> QED BY <2>2, <3>1, <1>4, <1>5, <1>11, <1>12
  <2> QED BY <2>1, <2>2, <1>1
<1>14. n \in Nat /\ k \in Nat
  BY <1>1, <1>2
<1>15. s.round = 1 => n1 = k
  BY <1>8
<1> QED BY <1>6, <1>9, <1>10, <1>11, <1>12, <1>13, <1>14, <1>15 DEF all, n, k, n1

\* A line is a question to the player that the dealer asks, and to nobody else;
\* what is guessed from it is what the state is.
LEMMA QuestionIsRead ==
  ASSUME NEW s, InPlay(s), NEW h \in Nat
  PROVE  LET line == printed(h, s)
         IN /\ isMyTurn(line) <=> currentPlayer(s) = viewingPlayer(h)
            /\ parseAsserts(line)
            /\ currentPlayer(s) = viewingPlayer(h) =>
                  parsed_state_to_node(parse_state(line)) = nodeOf(s)
<1> DEFINE line == printed(h, s)
           all == allActions(s)
           n == Len(all)
           k == Len(acts(s))
           p == currentPlayer(s)
           b == _compute_bets(line)
<1>1. /\ s \in State /\ s.round \in {0, 1} /\ k \in Nat /\ n \in Nat
      /\ p = k % 2 /\ p \in {0, 1} /\ CanAct(s, p)
      /\ s.spent[0] \in Nat /\ s.spent[1] \in Nat /\ s.maxSpent \in Nat
  <2>1. s \in State
    BY DEF InPlay
  <2>2. /\ s.round \in {0, 1} /\ s.spent[0] \in Nat /\ s.spent[1] \in Nat /\ s.maxSpent \in Nat
    BY <2>1, TwoPlayers DEF State, InPlay
  <2>3. k \in Nat /\ n \in Nat /\ p = k % 2 /\ p \in {0, 1} /\ CanAct(s, p)
    BY ActorInPlay, ActionsInPlay
  <2> QED BY <2>1, <2>2, <2>3
<1>2. /\ _convert_actions(line.actions) = all /\ Len(line.actions[2]) = Len(s.action[1])
      /\ (line.board <=> s.round > 0) /\ line.position = viewingPlayer(h) /\ line.hand_id = h
      /\ \E S : all \in Seq(S)
  BY <1>1, ActionsAreRead
<1>3. current_street(line) = s.round + 1
  BY <1>1, <1>2 DEF current_street
<1>4. _get_acting_player(line) = p + 1
  <2> DEFINE lst == lastOf(all)
  <2>1. lst = all[n] /\ (all = << >> <=> n = 0)
    BY <1>2 DEF lastOf
  <2>2. CASE k = 0 /\ s.round = 0
    <3>1. all = << >>
      BY <2>1, <2>2, ActionsInPlay
    <3> QED BY <3>1, <1>1, <1>2, <2>2 DEF _get_acting_player, P1
  <2>3. CASE k = 0 /\ s.round = 1
    <3>1. lst.street # current_street(line)
      BY <2>1, <2>3, <1>3, ActionsInPlay
    <3> HIDE DEF lst
    <3>2. _get_acting_player(line) = P1
      BY <3>1, <1>2 DEF _get_acting_player, lst
    <3> QED BY <3>2, <1>1, <2>3 DEF P1
  <2>4. CASE k > 0
    <3>1. n > 0 /\ lst = read(acts(s)[k], k, s.round + 1) /\ acts(s)[k].type \in {"call", "raise"}
      BY <2>1, <2>4, ActionsInPlay
    <3>2. lst.action = name(acts(s)[k].type) /\ lst.street = s.round + 1
          /\ lst.player = IF k % 2 = 1 THEN 1 ELSE 2
      BY <3>1 DEF read, P1, P2
    <3> HIDE DEF lst
    <3>3. ~isOver(line, lst)
      <4>1. lst.action # "fold"
        BY <3>1, <3>2 DEF name
      <4>2. s.round = 1 /\ k >= 2 => lst.action # "ccall"
        <5>1. k >= 2 => acts(s)[k].type = "raise"
          BY <1>1 DEF InPlay
        <5> QED BY <5>1, <3>2 DEF name
      <4>3. s.round = 1 => Len(line.actions[2]) = k
        BY <1>2, ActionsInPlay
      <4> QED BY <4>1, <4>2, <4>3, <1>1, <1>3 DEF isOver
    <3>4. all # << >> /\ lst.street = current_street(line)
      BY <3>1, <3>2, <2>1, <1>3
    <3>5. _get_acting_player(line) = 3 - lst.player
      BY <3>3, <3>4, <1>2 DEF _get_acting_player, lst
    <3> QED BY <3>2, <3>5, <1>1
  <2> QED BY <2>2, <2>3, <2>4, <1>1
<1>5. b = IF betMade(s) THEN <<lastRaise(all, n - 1), lastRaise(all, n)>>
          ELSE <<lastRaise(all, n), lastRaise(all, n)>>
  <2>1. PICK S : all \in Seq(S)
    BY <1>2
  <2>2. _get_acting_player(line) # nobody
    BY <1>1, <1>4 DEF nobody
  <2>3. \A i \in 1 .. Len(all) : all[i].action \in {"raise", "ccall"}
    BY ActionsInPlay
  <2>4. n > 0 /\ all[n].action = "raise" <=> betMade(s)
    BY ActionsInPlay
  <2>5. all = _convert_actions(line.actions)
    BY <1>2
  <2> HIDE DEF all, line
  <2>6. b = IF n > 0 /\ all[n].action = "raise" THEN <<lastRaise(all, n - 1), lastRaise(all, n)>>
            ELSE <<lastRaise(all, n), lastRaise(all, n)>>
    BY <2>1, <2>2, <2>3, <2>5, BetsAreRead
  <2> QED BY <2>4, <2>6
<1>6. b = <<s.spent[p], s.spent[1 - p]>>
  <2>1. CASE betMade(s)
    <3>1. acts(s) # << >> /\ k > 0
      BY <2>1, <1>1, ActorInPlay DEF betMade
    <3>2. (k - 1) % 2 = 1 - (k % 2)
      BY <1>1, <3>1
    <3> QED BY <2>1, <3>2, <1>1, <1>5 DEF InPlay
  <2>2. CASE ~betMade(s)
    BY <2>2, <1>1, <1>5 DEF InPlay
  <2> QED BY <2>1, <2>2
<1>7. b[1] <= b[2] /\ ~(b[1] = b[2] /\ b[1] = arguments.stack)
  <2>1. CASE betMade(s)
    <3>1. (k - 1) % 2 = 1 - (k % 2)
      BY <1>1, <2>1, ActorInPlay DEF betMade
    <3> QED BY <2>1, <3>1, <1>1, <1>6 DEF InPlay
  <2>2. CASE ~betMade(s)
    BY <2>2, <1>1, <1>6, TwoPlayers DEF InPlay
  <2> QED BY <2>1, <2>2
<1>8. /\ parse_state(line).acting_player = p + 1
      /\ parse_state(line).position = viewingPlayer(h) + 1
      /\ parse_state(line).current_street = s.round + 1
      /\ parse_state(line).bets = IF viewingPlayer(h) + 1 = 1 THEN b ELSE <<b[2], b[1]>>
  BY <1>2, <1>3, <1>4 DEF parse_state, P1
<1>9. isMyTurn(line) <=> p = viewingPlayer(h)
  <2>1. viewingPlayer(h) \in {0, 1}
    BY Views
  <2>2. ~isAllIn(parse_state(line))
    <3> HIDE DEF b
    <3> QED BY <1>6, <1>7, <1>8 DEF isAllIn
  <2> QED BY <1>1, <1>8, <2>1, <2>2 DEF isMyTurn
<1>10. parseAsserts(line)
  <2>1. line.actions = << << >>, << >> >> => s.round = 0
    <3>1. CASE s.round = 0
      BY <3>1
    <3>2. CASE s.round = 1
      <4>1. Len(line.actions[1]) = Len(s.action[0]) /\ Len(s.action[0]) >= 2
        BY <3>2, <1>1, TwoPlayers DEF printed, InPlay, State
      <4> QED BY <4>1
    <3> QED BY <3>1, <3>2, <1>1
  <2> QED BY <2>1, <1>3, <1>7 DEF parseAsserts
<1>11. ASSUME p = viewingPlayer(h) PROVE parsed_state_to_node(parse_state(line)) = nodeOf(s)
  <2>1. parse_state(line).bets = <<s.spent[0], s.spent[1]>>
    <3> HIDE DEF b
    <3>1. CASE p = 0
      BY <3>1, <1>6, <1>8, <1>11
    <3>2. CASE p = 1
      BY <3>2, <1>6, <1>8, <1>11
    <3> QED BY <3>1, <3>2, <1>1
  <2> QED BY <2>1, <1>8 DEF parsed_state_to_node, nodeOf
<1> HIDE DEF line, p
<1> QED BY <1>9, <1>10, <1>11 DEF line, p

\* After the last action of a hand nobody takes the line for a question: it ends
\* with a fold or with the last call, or both bets are all the chips.  No assert
\* fails on the way.
LEMMA LastLineIsNoQuestion ==
  ASSUME NEW s, IsOver(s), NEW h \in Nat
  PROVE  ~isMyTurn(printed(h, s)) /\ parseAsserts(printed(h, s))
<1> DEFINE line == printed(h, s)
           all == allActions(s)
           n == Len(all)
           n0 == Len(s.action[0])
           n1 == Len(s.action[1])
<1> SUFFICES ~isMyTurn(line) /\ parseAsserts(line)
  OBVIOUS
<1>1. s \in State /\ s.round \in {0, 1}
  BY TwoPlayers DEF IsOver, State
<1>2. /\ n0 \in Nat /\ n1 \in Nat /\ n = n0 + n1
      /\ \A i \in 1 .. n0 : all[i] = read(s.action[0][i], i, 1)
      /\ \A j \in 1 .. n1 : all[n0 + j] = read(s.action[1][j], j, 2)
      /\ \E S : all \in Seq(S)
      /\ _convert_actions(line.actions) = all /\ Len(line.actions[2]) = n1
      /\ (line.board <=> s.round > 0) /\ line.position = viewingPlayer(h)
  BY <1>1, ActionsAreRead
<1>3. /\ s.action[0] = << >> <=> n0 = 0
      /\ s.action[1] = << >> <=> n1 = 0
      /\ all = << >> <=> n = 0
  <2>1. s.action[0] \in Seq(Entry) /\ s.action[1] \in Seq(Entry)
    BY <1>1, TwoPlayers DEF State
  <2>2. PICK S : all \in Seq(S)
    BY <1>2
  <2> HIDE DEF all
  <2>3. all = << >> <=> n = 0
    BY <2>2
  <2> QED BY <2>1, <2>3
<1>4. current_street(line) = s.round + 1
  BY <1>1, <1>2 DEF current_street
<1>5. lastOf(all) = all[n]
  BY DEF lastOf
<1>6. /\ parse_state(line).acting_player = _get_acting_player(line)
      /\ parse_state(line).position = viewingPlayer(h) + 1
      /\ viewingPlayer(h) \in {0, 1}
  BY <1>2, Views DEF parse_state
<1>7. \A e, i, street : /\ read(e, i, street).action = name(e.type)
                        /\ read(e, i, street).street = street
                        /\ e.type = "call" => read(e, i, street).action = "ccall"
                        /\ e.type = "fold" => read(e, i, street).action = "fold"
  BY DEF read, name
<1>12. ASSUME n > 0, _compute_bets(line)[1] <= _compute_bets(line)[2]
       PROVE  parseAsserts(line)
  <2>1. line.actions # << << >>, << >> >>
    <3>1. Len(line.actions[1]) = n0
      BY <1>1, TwoPlayers DEF printed, State
    <3>2. Len(line.actions[2]) = n1 /\ n0 + n1 > 0
      BY <1>2, <1>12
    <3> HIDE DEF line, n0, n1
    <3>3. line.actions = << << >>, << >> >> => Len(line.actions[1]) = 0 /\ Len(line.actions[2]) = 0
      OBVIOUS
    <3> QED BY <3>1, <3>2, <3>3
  <2> QED BY <2>1, <1>12 DEF parseAsserts
<1>8. ASSUME n > 0, all[n].street = current_street(line), isOver(line, all[n])
      PROVE  ~isMyTurn(line) /\ parseAsserts(line)
  <2>1. _get_acting_player(line) = nobody
    <3>1. _convert_actions(line.actions) = all
      BY <1>2
    <3>2. all # << >>
      <4>1. (all = << >>) => n = 0
        BY <1>3
      <4>2. n # 0
        BY <1>8
      <4> HIDE DEF all, n
      <4> QED BY <4>1, <4>2
    <3> HIDE DEF all, line, n
    <3> QED BY <3>1, <3>2, <1>5, <1>8 DEF _get_acting_player
  <2> HIDE DEF line
  <2>2. _compute_bets(line) = <<-1, -1>>
    BY <2>1, Zenon DEF _compute_bets
  <2>3. parseAsserts(line)
    BY <2>2, <1>8, <1>12
  <2> QED BY <2>1, <2>3, <1>6 DEF isMyTurn, nobody
<1> DEFINE k == Len(acts(s))
<1>9. CASE acts(s) # << >> /\ acts(s)[k].type = "fold" /\ (s.round = 0 => s.action[1] = << >>)
  <2>1. acts(s) = s.action[s.round]
    BY DEF acts
  <2> HIDE DEF all, line, n, n0, n1
  <2>2. CASE s.round = 0
    <3>1. n = n0 /\ k = n0 /\ n0 \in 1 .. n0 /\ n > 0
      BY <2>1, <2>2, <1>2, <1>3, <1>9 DEF n0
    <3>2. all[n].street = 1 /\ all[n].action = "fold"
      BY <3>1, <2>1, <2>2, <1>2, <1>7, <1>9
    <3> QED BY <3>1, <3>2, <2>2, <1>4, <1>8 DEF isOver
  <2>3. CASE s.round = 1
    <3>1. n = n0 + n1 /\ k = n1 /\ n1 \in 1 .. n1 /\ n > 0
      <4>1. k = n1 /\ n1 # 0 /\ n1 \in Nat /\ n0 \in Nat /\ n = n0 + n1
        BY <2>1, <2>3, <1>2, <1>3, <1>9 DEF n1
      <4> HIDE DEF k
      <4> QED BY <4>1
    <3>2. all[n].street = 2 /\ all[n].action = "fold"
      BY <3>1, <2>1, <2>3, <1>2, <1>7, <1>9
    <3> QED BY <3>1, <3>2, <2>3, <1>4, <1>8 DEF isOver
  <2> QED BY <2>2, <2>3, <1>1
<1>10. CASE s.round = 1 /\ n1 >= 2 /\ s.action[1][n1].type = "call"
  <2> HIDE DEF all, line, n, n0, n1
  <2>1. n = n0 + n1 /\ n1 \in 1 .. n1 /\ n > 0
    BY <1>2, <1>10
  <2>2. all[n].street = 2 /\ all[n].action = "ccall"
    BY <2>1, <1>2, <1>7, <1>10
  <2>3. isOver(line, all[n])
    BY <2>2, <1>2, <1>4, <1>10 DEF isOver
  <2> QED BY <2>1, <2>2, <2>3, <1>4, <1>8, <1>10
<1>11. CASE /\ s.round = 1 /\ s.action[1] = << >> /\ s.action[0] # << >>
            /\ \A i \in 1 .. n0 : s.action[0][i].type \in {"call", "raise"}
            /\ s.action[0][n0].type = "call"
            /\ lastRaise(all, n) = arguments.stack
  <2>1. \A t \in {"call", "raise"} : name(t) \in {"raise", "ccall"}
    BY DEF name
  <2>2. PICK S : all \in Seq(S)
    BY <1>2
  <2> HIDE DEF all, line, n, n0, n1
  <2>3. n = n0 /\ n0 \in 1 .. n0 /\ n > 0
    BY <1>2, <1>3, <1>11
  <2>4. all[n].street = 1 /\ all[n].action = "ccall"
    BY <2>3, <1>2, <1>7, <1>11
  <2>5. _get_acting_player(line) = P1
    BY <2>3, <2>4, <1>2, <1>4, <1>5, <1>11 DEF _get_acting_player
  <2>6. \A i \in 1 .. n : all[i].action \in {"raise", "ccall"}
    BY <2>1, <2>3, <1>2, <1>7, <1>11
  <2>7. _compute_bets(line) = <<lastRaise(all, n), lastRaise(all, n)>>
    <3>1. _get_acting_player(line) # nobody
      BY <2>5 DEF P1, nobody
    <3>2. all = _convert_actions(line.actions)
      BY <1>2
    <3>3. all[n].action # "raise"
      BY <2>4
    <3> QED BY <3>1, <3>2, <3>3, <2>2, <2>6, BetsAreRead DEF n
  <2>8. parse_state(line).bets = <<arguments.stack, arguments.stack>>
    BY <2>7, <1>11 DEF parse_state
  <2>9. isAllIn(parse_state(line))
    BY <2>8 DEF isAllIn
  <2>10. parseAsserts(line)
    BY <2>3, <2>7, <1>11, <1>12, TwoPlayers
  <2> QED BY <2>9, <2>10 DEF isMyTurn
<1> QED BY <1>9, <1>10, <1>11 DEF IsOver

-----------------------------------------------------------------------------
(* What an action does to a state in play.                                 *)

LEMMA SameActions ==
  ASSUME NEW s, NEW t, t.action = s.action
  PROVE  allActions(t) = allActions(s)
BY DEF allActions, printed

\* An action comes last, and leaves the others where they are.
LEMMA ActionIsLast ==
  ASSUME NEW s \in State, NEW t \in State, NEW e \in Entry,
         s.round = 0 => s.action[1] = << >>,
         t.action = [s.action EXCEPT ![s.round] = Append(@, e)]
  PROVE  LET n == Len(allActions(s))
             k == Len(acts(s))
         IN /\ n \in Nat /\ k \in Nat /\ Len(allActions(t)) = n + 1
            /\ allActions(t)[n + 1] = read(e, k + 1, s.round + 1)
            /\ \A i \in 1 .. n : allActions(t)[i] = allActions(s)[i]
            /\ Len(t.action[s.round]) = k + 1 /\ t.action[s.round][k + 1] = e
            /\ \A i \in 1 .. k : t.action[s.round][i] = s.action[s.round][i]
            /\ \A r \in Rounds : r # s.round => t.action[r] = s.action[r]
<1> DEFINE n == Len(allActions(s))
           k == Len(acts(s))
           n0 == Len(s.action[0])
           n1 == Len(s.action[1])
           m0 == Len(t.action[0])
           m1 == Len(t.action[1])
           m == Len(allActions(t))
<1>1. /\ s.action \in [Rounds -> Seq(Entry)] /\ s.round \in Rounds /\ acts(s) = s.action[s.round]
  BY DEF State, acts
<1>2. /\ t.action[s.round] = Append(s.action[s.round], e)
      /\ \A r \in Rounds : r # s.round => t.action[r] = s.action[r]
  BY <1>1
<1>3. /\ k \in Nat /\ Len(t.action[s.round]) = k + 1 /\ t.action[s.round][k + 1] = e
      /\ \A i \in 1 .. k : t.action[s.round][i] = s.action[s.round][i]
  <2>1. s.action[s.round] \in Seq(Entry)
    BY <1>1
  <2> QED BY <2>1, <1>1, <1>2
<1>4. /\ n0 \in Nat /\ n1 \in Nat /\ n = n0 + n1
      /\ \A i \in 1 .. n0 : allActions(s)[i] = read(s.action[0][i], i, 1)
      /\ \A j \in 1 .. n1 : allActions(s)[n0 + j] = read(s.action[1][j], j, 2)
  BY ActionsAreRead
<1>5. /\ m0 \in Nat /\ m1 \in Nat /\ m = m0 + m1
      /\ \A i \in 1 .. m0 : allActions(t)[i] = read(t.action[0][i], i, 1)
      /\ \A j \in 1 .. m1 : allActions(t)[m0 + j] = read(t.action[1][j], j, 2)
  BY ActionsAreRead
<1>6. s.round = 0 => n1 = 0 /\ m1 = 0 /\ k = n0 /\ m0 = n0 + 1
  BY <1>1, <1>2, <1>3, TwoPlayers
<1>7. s.round = 1 => k = n1 /\ m0 = n0 /\ m1 = n1 + 1 /\ t.action[0] = s.action[0]
  BY <1>1, <1>2, <1>3, TwoPlayers
<1>8. s.round \in {0, 1}
  BY <1>1, TwoPlayers
<1> HIDE DEF n, k, n0, n1, m0, m1, m
<1>9. CASE s.round = 0
  <2>1. m = n + 1 /\ n = n0 /\ k = n0 /\ n + 1 \in 1 .. m0 /\ s.round + 1 = 1
    BY <1>4, <1>5, <1>6, <1>9
  <2>2. allActions(t)[n + 1] = read(e, k + 1, s.round + 1)
    BY <2>1, <1>3, <1>5, <1>9
  <2>3. ASSUME NEW i \in 1 .. n PROVE allActions(t)[i] = allActions(s)[i]
    <3>1. i \in 1 .. m0 /\ i \in 1 .. n0 /\ i \in 1 .. k
      BY <2>1, <1>4, <1>6, <1>9
    <3>2. t.action[0][i] = s.action[0][i]
      BY <3>1, <1>3, <1>9
    <3> QED BY <3>1, <3>2, <1>4, <1>5
  <2>4. n \in Nat
    BY <1>4, <2>1
  <2> QED BY <2>1, <2>2, <2>3, <2>4, <1>2, <1>3 DEF n, k, m
<1>10. CASE s.round = 1
  <2>1. m = n + 1 /\ n = n0 + n1 /\ k = n1 /\ m0 = n0 /\ n1 + 1 \in 1 .. m1 /\ s.round + 1 = 2
        /\ n + 1 = m0 + (n1 + 1)
    BY <1>4, <1>5, <1>7, <1>10
  <2>2. allActions(t)[n + 1] = read(e, k + 1, s.round + 1)
    BY <2>1, <1>3, <1>5, <1>10
  <2>3. ASSUME NEW i \in 1 .. n PROVE allActions(t)[i] = allActions(s)[i]
    <3>1. CASE i <= n0
      <4>1. i \in 1 .. n0 /\ i \in 1 .. m0
        BY <2>1, <3>1
      <4> QED BY <4>1, <1>4, <1>5, <1>7, <1>10
    <3>2. CASE i > n0
      <4> DEFINE j == i - n0
      <4>1. j \in 1 .. n1 /\ j \in 1 .. m1 /\ n0 + j = i
        BY <2>1, <3>2, <1>4, <1>7, <1>10
      <4> HIDE DEF j
      <4>2. t.action[1][j] = s.action[1][j]
        BY <4>1, <2>1, <1>3, <1>10
      <4> QED BY <4>1, <4>2, <2>1, <1>4, <1>5
    <3> QED BY <3>1, <3>2, <1>4
  <2>4. n \in Nat
    BY <1>4, <2>1
  <2> QED BY <2>1, <2>2, <2>3, <2>4, <1>2, <1>3 DEF n, k, m
<1> QED BY <1>8, <1>9, <1>10

LEMMA InitInPlay == InPlay(initState)
<1> DEFINE all == allActions(initState)
<1>1. /\ initState \in State /\ acts(initState) = << >>
  BY InitStateFacts
<1>2. BigBlind = arguments.ante
  BY BigBlindIsMax, TwoPlayers
<1>3. /\ initState.maxSpent = arguments.ante /\ initState.minNoLimitRaiseTo = arguments.ante * 2
      /\ initState.spent = blind /\ initState.round = 0 /\ ~initState.finished
      /\ initState.action[0] = << >> /\ initState.action[1] = << >>
      /\ \A p \in Players : ~initState.playerFolded[p]
  <2>1. Int32(arguments.ante * 2) = arguments.ante * 2
    BY TwoPlayers, TwiceTheStack, Int32Fits
  <2> QED BY <2>1, <1>2, TwoPlayers DEF initState
<1>4. Len(all) = 0
  <2>1. Len(all) = Len(initState.action[0]) + Len(initState.action[1])
    BY <1>1, ActionsAreRead
  <2> QED BY <2>1, <1>3
<1>5. lastRaise(all, Len(all)) = arguments.ante
  BY <1>4, LastRaise
<1>6. ~betMade(initState) /\ Len(acts(initState)) = 0
  BY <1>1 DEF betMade
<1>7. arguments.ante < arguments.ante * 2
  BY TwoPlayers
<1>8. \A r \in Rounds : \A i \in 1 .. Len(initState.action[r]) : FALSE
  BY <1>3, TwoPlayers
<1>9. BetsLeaveRoom(initState)
  <2>1. initState.spent[0] = arguments.ante
    BY <1>3, TwoPlayers
  <2>2. 0 % 2 = 0 /\ 0 * arguments.ante = 0 /\ arguments.ante - arguments.ante = 0
    BY TwoPlayers
  <2>3. max(0, arguments.ante) = arguments.ante
    BY TwoPlayers DEF max
  <2> QED BY <1>3, <1>6, <2>1, <2>2, <2>3, TwoPlayers DEF BetsLeaveRoom
<1>10. blind \in [Players -> Nat] /\ arguments.ante * 2 \in Nat
  BY TwoPlayers
<1> QED BY <1>1, <1>3, <1>5, <1>6, <1>7, <1>8, <1>9, <1>10, TwoPlayers DEF InPlay

LEMMA CountOfPair ==
  ASSUME NEW a, NEW b, a # b
  PROVE  Cardinality({}) = 0 /\ Cardinality({a}) = 1 /\ Cardinality({a, b}) = 2
<1>1. Cardinality({}) = 0 /\ IsFiniteSet({})
  BY FS_EmptySet
<1>2. Cardinality({a}) = 1 /\ IsFiniteSet({a})
  BY FS_Singleton
<1>3. {a, b} = {a} \cup {b} /\ b \notin {a}
  OBVIOUS
<1>4. Cardinality({a} \cup {b}) = 1 + 1
  BY <1>2, <1>3, FS_AddElement
<1> QED BY <1>1, <1>2, <1>3, <1>4

\* Of two players, none, one or both.
LEMMA CountOfTwo ==
  ASSUME NEW S \in SUBSET {0, 1}
  PROVE  Cardinality(S) = IF 0 \in S THEN IF 1 \in S THEN 2 ELSE 1
                          ELSE IF 1 \in S THEN 1 ELSE 0
<1>1. /\ 0 \in S /\ 1 \in S => S = {0, 1}
      /\ 0 \in S /\ 1 \notin S => S = {0}
      /\ 0 \notin S /\ 1 \in S => S = {1}
      /\ 0 \notin S /\ 1 \notin S => S = {}
  OBVIOUS
<1>2. Cardinality({}) = 0 /\ Cardinality({0}) = 1 /\ Cardinality({0, 1}) = 2
  <2>1. 0 # 1
    OBVIOUS
  <2> QED BY <2>1, CountOfPair
<1>3. Cardinality({1}) = 1
  BY FS_Singleton
<1> QED BY <1>1, <1>2, <1>3

LEMMA CountsOfTwo ==
  ASSUME NEW s
  PROVE  /\ numFolded(s) = IF s.playerFolded[0] THEN IF s.playerFolded[1] THEN 2 ELSE 1
                           ELSE IF s.playerFolded[1] THEN 1 ELSE 0
         /\ numActingPlayers(s) = IF CanAct(s, 0) THEN IF CanAct(s, 1) THEN 2 ELSE 1
                                  ELSE IF CanAct(s, 1) THEN 1 ELSE 0
<1>1. Players = {0, 1}
  BY TwoPlayers
<1> DEFINE F == {p \in Players : s.playerFolded[p]}
           A == {p \in Players : CanAct(s, p)}
<1>2. F \in SUBSET {0, 1} /\ A \in SUBSET {0, 1}
  BY <1>1
<1>3. (0 \in F <=> s.playerFolded[0]) /\ (1 \in F <=> s.playerFolded[1])
  BY <1>1
<1>4. (0 \in A <=> CanAct(s, 0)) /\ (1 \in A <=> CanAct(s, 1))
  BY <1>1
<1>5. numFolded(s) = Cardinality(F) /\ numActingPlayers(s) = Cardinality(A)
  BY DEF numFolded, numActingPlayers
<1> HIDE DEF F, A
<1>6. numFolded(s) = IF 0 \in F THEN IF 1 \in F THEN 2 ELSE 1 ELSE IF 1 \in F THEN 1 ELSE 0
  BY <1>2, <1>5, CountOfTwo
<1>7. numActingPlayers(s) = IF 0 \in A THEN IF 1 \in A THEN 2 ELSE 1 ELSE IF 1 \in A THEN 1 ELSE 0
  BY <1>2, <1>5, CountOfTwo
<1> QED BY <1>3, <1>4, <1>6, <1>7

\* The bet that an action in play answers, or makes.
LEMMA CurrentBetInPlay ==
  ASSUME NEW s, InPlay(s)
  PROVE  LET k == Len(acts(s)) IN CurrentBet(s) = IF k = 0 THEN {} ELSE {k}
<1> DEFINE k == Len(acts(s))
<1> SUFFICES CurrentBet(s) = IF k = 0 THEN {} ELSE {k}
  OBVIOUS
<1>1. k \in Nat /\ DOMAIN acts(s) = 1 .. k
  <2>1. acts(s) \in Seq(Entry)
    BY TwoPlayers DEF InPlay, State, acts
  <2> QED BY <2>1
<1>2. \A i \in 2 .. k : acts(s)[i].type = "raise"
  BY DEF InPlay
<1> HIDE DEF k
<1>3. CurrentBet(s) = {i \in 1 .. k : \A j \in 1 .. k : j > i => acts(s)[j].type # "raise"}
  BY <1>1 DEF CurrentBet
<1>4. CASE k = 0
  BY <1>3, <1>4
<1>5. CASE k # 0
  <2>1. k \in 1 .. k /\ \A j \in 1 .. k : ~(j > k)
    BY <1>1, <1>5
  <2>2. \A i \in 1 .. k : i # k => i + 1 \in 2 .. k /\ i + 1 \in 1 .. k /\ i + 1 > i
    BY <1>1
  <2> QED BY <1>2, <1>3, <1>5, <2>1, <2>2
<1> QED BY <1>4, <1>5

\* What StoreAction makes of a state in play, whatever the action.
LEMMA StoredInPlay ==
  ASSUME NEW s, Ready(s), InPlay(s), NEW a \in Action, isValidAction(s, FALSE, a)
  PROVE  LET t == StoreAction(s, a)
             k == Len(acts(s))
             n == Len(allActions(s))
             p == k % 2
             e == [type |-> a.type, size |-> a.size, player |-> p]
         IN /\ k \in Nat /\ n \in Nat /\ p \in {0, 1} /\ p = currentPlayer(s) /\ (k + 1) % 2 = 1 - p
            /\ t \in State /\ ~t.finished /\ t.round = s.round /\ s.round \in {0, 1}
            /\ a.type \in {"fold", "call", "raise"} /\ e \in Entry
            /\ Stored(t, s, a, p, a.size)
            /\ acts(t) = t.action[t.round] /\ acts(s) = s.action[s.round]
            /\ Len(acts(t)) = k + 1 /\ acts(t)[k + 1] = e /\ acts(t) # << >>
            /\ \A i \in 1 .. k : acts(t)[i] = acts(s)[i]
            /\ \A r \in Rounds : r # s.round => t.action[r] = s.action[r]
            /\ CurrentBet(t) = IF a.type = "raise" \/ k = 0 THEN {k + 1} ELSE {k, k + 1}
            /\ Len(allActions(t)) = n + 1
            /\ lastRaise(allActions(t), n) = lastRaise(allActions(s), n)
            /\ lastRaise(allActions(t), n + 1) =
                  IF a.type = "raise" THEN a.size ELSE lastRaise(allActions(s), n)
<1> DEFINE t == StoreAction(s, a)
           k == Len(acts(s))
           n == Len(allActions(s))
           p == k % 2
           e == [type |-> a.type, size |-> a.size, player |-> p]
<1>1. /\ k \in Nat /\ p \in {0, 1} /\ p = currentPlayer(s) /\ (k + 1) % 2 = 1 - p
  <2>1. k \in Nat /\ p = currentPlayer(s)
    BY ActorInPlay
  <2> QED BY <2>1
<1>2. s \in State /\ s.round \in Rounds /\ s.round \in {0, 1} /\ (s.round = 0 => s.action[1] = << >>)
      /\ acts(s) = s.action[s.round] /\ s.action \in [Rounds -> Seq(Entry)]
  BY TwoPlayers DEF InPlay, State, acts
<1>3. t \in State /\ ~t.finished /\ t.round = s.round /\ a.type \in {"fold", "call", "raise"}
      /\ Stored(t, s, a, p, RaiseTo(s, p, a.size))
  <2>1. LET u == StoreAction(s, a)
            q == currentPlayer(s)
        IN /\ u \in State /\ ~u.finished /\ u.round = s.round
           /\ a.type \in {"fold", "call", "raise"}
           /\ Stored(u, s, a, q, RaiseTo(s, q, a.size))
    BY StoreKeepsState
  <2> QED BY <2>1, <1>1
<1>4. RaiseTo(s, p, a.size) = a.size
  BY TwoPlayers DEF RaiseTo
<1>5. e \in Entry
  BY <1>1, <1>3, TwoPlayers DEF Entry, Action
<1> HIDE DEF t, p
<1>6. t.action = [s.action EXCEPT ![s.round] = Append(@, e)]
  BY <1>3 DEF Stored
<1>7. /\ n \in Nat /\ Len(allActions(t)) = n + 1
      /\ allActions(t)[n + 1] = read(e, k + 1, s.round + 1)
      /\ \A i \in 1 .. n : allActions(t)[i] = allActions(s)[i]
      /\ Len(t.action[s.round]) = k + 1 /\ t.action[s.round][k + 1] = e
      /\ \A i \in 1 .. k : t.action[s.round][i] = s.action[s.round][i]
      /\ \A r \in Rounds : r # s.round => t.action[r] = s.action[r]
  <2> HIDE DEF e
  <2> QED BY <1>2, <1>3, <1>5, <1>6, ActionIsLast
<1>8. acts(t) = t.action[t.round]
  BY DEF acts
<1>9. CurrentBet(t) = IF a.type = "raise" \/ k = 0 THEN {k + 1} ELSE {k, k + 1}
  <2>1. EntryStored(t, s, e)
    BY <1>1, <1>2, <1>3, TwoPlayers, StoredEntry
  <2>2. CurrentBet(t) = IF a.type = "raise" THEN {k + 1} ELSE CurrentBet(s) \cup {k + 1}
    BY <2>1 DEF EntryStored
  <2>3. CurrentBet(s) = IF k = 0 THEN {} ELSE {k}
    BY CurrentBetInPlay
  <2> QED BY <2>2, <2>3
<1>10. lastRaise(allActions(t), n) = lastRaise(allActions(s), n)
  <2> HIDE DEF n
  <2> QED BY <1>7, LastRaiseOfPrefix
<1>11. lastRaise(allActions(t), n + 1) = IF a.type = "raise" THEN a.size ELSE lastRaise(allActions(s), n)
  <2>1. n + 1 \in Nat /\ n + 1 > 0 /\ (n + 1) - 1 = n
    BY <1>7
  <2>2. /\ allActions(t)[n + 1].action = name(a.type) /\ allActions(t)[n + 1].raise_amount = a.size
        /\ (name(a.type) = "raise" <=> a.type = "raise")
    BY <1>3, <1>7 DEF read, name
  <2> HIDE DEF n
  <2>3. lastRaise(allActions(t), n + 1) =
          IF allActions(t)[n + 1].action = "raise" THEN allActions(t)[n + 1].raise_amount
          ELSE lastRaise(allActions(t), (n + 1) - 1)
    BY <2>1, LastRaise
  <2> QED BY <2>1, <2>2, <2>3, <1>10
<1>12. acts(t) # << >>
  <2>1. Len(acts(t)) = k + 1 /\ k + 1 # 0
    BY <1>1, <1>3, <1>7, <1>8
  <2> QED BY <2>1
<1> QED BY <1>1, <1>2, <1>3, <1>4, <1>5, <1>7, <1>8, <1>9, <1>10, <1>11, <1>12 DEF t, p

\* A fold ends the hand.
LEMMA FoldInPlay ==
  ASSUME NEW s, Ready(s), InPlay(s), NEW a \in Action, isValidAction(s, FALSE, a), a.type = "fold"
  PROVE  LET e == doAction(s, a)
         IN IsOver(e) /\ e.spent = s.spent /\ numFolded(e) = 1
<1> DEFINE t == StoreAction(s, a)
           p == Len(acts(s)) % 2
           e == doAction(s, a)
<1> SUFFICES IsOver(e) /\ e.spent = s.spent /\ numFolded(e) = 1
  OBVIOUS
<1>1. /\ t \in State /\ ~t.finished /\ t.round = s.round /\ p \in {0, 1}
      /\ Stored(t, s, a, p, a.size) /\ acts(t) # << >>
      /\ acts(t)[Len(acts(t))].type = "fold"
      /\ \A r \in Rounds : r # s.round => t.action[r] = s.action[r]
  <2> DEFINE k == Len(acts(s))
             f == [type |-> a.type, size |-> a.size, player |-> p]
  <2>1. /\ t \in State /\ ~t.finished /\ t.round = s.round /\ p \in {0, 1}
        /\ Stored(t, s, a, p, a.size) /\ acts(t) # << >>
        /\ Len(acts(t)) = k + 1 /\ acts(t)[k + 1] = f
        /\ \A r \in Rounds : r # s.round => t.action[r] = s.action[r]
    BY StoredInPlay
  <2>2. f.type = "fold"
    OBVIOUS
  <2> HIDE DEF t, p, f, k
  <2> QED BY <2>1, <2>2
<1>2. /\ s.playerFolded \in [Players -> BOOLEAN] /\ (s.round = 0 => s.action[1] = << >>)
  BY DEF InPlay, State
<1>3. t.playerFolded = [s.playerFolded EXCEPT ![p] = TRUE]
  BY <1>1 DEF Stored
<1>4. numFolded(t) = 1
  <2>1. t.playerFolded[p] /\ ~t.playerFolded[1 - p]
    <3>1. \A x \in Players : ~s.playerFolded[x]
      BY DEF InPlay
    <3>2. p \in Players /\ 1 - p \in Players /\ 1 - p # p
      BY <1>1, TwoPlayers
    <3> HIDE DEF p, t
    <3> QED BY <3>1, <3>2, <1>2, <1>3
  <2>2. p = 0 \/ p = 1
    BY <1>1
  <2> HIDE DEF p, t
  <2> QED BY <2>1, <2>2, CountsOfTwo
<1>5. e = [t EXCEPT !.finished = TRUE]
  <2>1. numFolded(t) \in Nat
    BY <1>1, CountersCount
  <2>2. numFolded(t) + 1 >= numPlayers
    BY <1>4, <2>1, TwoPlayers
  <2> QED BY <2>2 DEF doAction, EndBetting
<1>6. e \in State
  BY ActionKeepsReady
<1> HIDE DEF t
<1>7. /\ e.finished /\ e.round = t.round /\ e.action = t.action
      /\ e.spent = t.spent /\ e.playerFolded = t.playerFolded
  BY <1>1, <1>5 DEF State
<1>8. acts(e) = acts(t)
  BY <1>7 DEF acts
<1>9. e.round = 0 => e.action[1] = << >>
  BY <1>1, <1>2, <1>7, TwoPlayers
<1>10. t.spent = s.spent
  BY <1>1 DEF Stored
<1>11. numFolded(e) = 1
  BY <1>4, <1>7 DEF numFolded
<1> HIDE DEF e
<1>12. IsOver(e)
  BY <1>1, <1>6, <1>7, <1>8, <1>9 DEF IsOver
<1> QED BY <1>7, <1>10, <1>11, <1>12

\* The parts of InPlay that are about the actions, once a call or a raise is stored.
LEMMA EntriesInPlay ==
  ASSUME NEW s, Ready(s), InPlay(s), NEW a \in Action, isValidAction(s, FALSE, a), a.type # "fold"
  PROVE  LET t == StoreAction(s, a)
         IN /\ \A p \in Players : ~t.playerFolded[p]
            /\ \A r \in Rounds : \A i \in 1 .. Len(t.action[r]) :
                  t.action[r][i].type \in {"call", "raise"} /\ t.action[r][i].player = (i - 1) % 2
            /\ t.round = 0 => t.action[1] = << >>
            /\ t.round = 1 => Len(t.action[0]) >= 2
            /\ t.round = 1 => t.action[0][Len(t.action[0])].type = "call"
            /\ numFolded(t) = 0
<1> DEFINE t == StoreAction(s, a)
           k == Len(acts(s))
           e == [type |-> a.type, size |-> a.size, player |-> k % 2]
<1>1. /\ k \in Nat /\ t \in State /\ t.round = s.round /\ s.round \in {0, 1}
      /\ a.type \in {"call", "raise"}
      /\ Stored(t, s, a, k % 2, a.size)
      /\ acts(t) = t.action[t.round] /\ acts(s) = s.action[s.round]
      /\ Len(acts(t)) = k + 1 /\ acts(t)[k + 1] = e
      /\ \A i \in 1 .. k : acts(t)[i] = acts(s)[i]
      /\ \A r \in Rounds : r # s.round => t.action[r] = s.action[r]
  BY StoredInPlay
<1>2. /\ \A p \in Players : ~s.playerFolded[p]
      /\ \A r \in Rounds : \A i \in 1 .. Len(s.action[r]) :
            s.action[r][i].type \in {"call", "raise"} /\ s.action[r][i].player = (i - 1) % 2
      /\ s.round = 0 => s.action[1] = << >>
      /\ s.round = 1 => Len(s.action[0]) >= 2
      /\ s.round = 1 => s.action[0][Len(s.action[0])].type = "call"
  BY DEF InPlay
<1>3. t.playerFolded = s.playerFolded
  BY <1>1 DEF Stored
<1> HIDE DEF t
<1>4. numFolded(t) = 0
  BY <1>2, <1>3, CountsOfTwo, TwoPlayers
<1>5. ASSUME NEW r \in Rounds, NEW i \in 1 .. Len(t.action[r])
      PROVE  t.action[r][i].type \in {"call", "raise"} /\ t.action[r][i].player = (i - 1) % 2
  <2> HIDE DEF k, e
  <2>1. CASE r # s.round
    <3>1. t.action[r] = s.action[r]
      BY <2>1, <1>1
    <3> QED BY <3>1, <1>2
  <2>2. CASE r = s.round /\ i <= k
    <3>1. i \in 1 .. k /\ t.action[r][i] = s.action[r][i]
      BY <2>2, <1>1
    <3>2. i \in 1 .. Len(s.action[r])
      BY <3>1, <2>2, <1>1 DEF k
    <3> QED BY <3>1, <3>2, <1>2
  <2>3. CASE r = s.round /\ i > k
    <3>1. i = k + 1
      BY <2>3, <1>1
    <3>2. t.action[r][i] = e /\ i - 1 = k
      BY <2>3, <3>1, <1>1
    <3> QED BY <3>2, <1>1 DEF e
  <2> QED BY <2>1, <2>2, <2>3, <1>1
<1>6. /\ t.round = 0 => t.action[1] = << >>
      /\ t.round = 1 => t.action[0] = s.action[0]
  BY <1>1, <1>2, TwoPlayers
<1> QED BY <1>1, <1>2, <1>3, <1>4, <1>5, <1>6 DEF t

\* A bet is answered or raised: the hand goes on in its round.
LEMMA RaiseInPlay ==
  ASSUME NEW s, Ready(s), InPlay(s), NEW a \in Action, isValidAction(s, FALSE, a), a.type = "raise"
  PROVE  LET e == doAction(s, a)
             k == Len(acts(s))
         IN /\ InPlay(e) /\ numFolded(e) = 0 /\ e.round = s.round /\ Len(acts(e)) = k + 1
            /\ e.spent[k % 2] = a.size /\ e.spent[1 - (k % 2)] = s.maxSpent /\ e.maxSpent = a.size
<1> DEFINE t == StoreAction(s, a)
           k == Len(acts(s))
           n == Len(allActions(s))
           p == k % 2
           q == 1 - p
           e == doAction(s, a)
<1> SUFFICES /\ InPlay(e) /\ numFolded(e) = 0 /\ e.round = s.round /\ Len(acts(e)) = k + 1
             /\ e.spent[p] = a.size /\ e.spent[q] = s.maxSpent /\ e.maxSpent = a.size
  OBVIOUS
<1>1. /\ k \in Nat /\ n \in Nat /\ p \in {0, 1} /\ p = currentPlayer(s) /\ (k + 1) % 2 = q
      /\ t \in State /\ ~t.finished /\ t.round = s.round
      /\ Stored(t, s, a, p, a.size)
      /\ Len(acts(t)) = k + 1 /\ acts(t) # << >>
      /\ acts(t)[k + 1].type = "raise" /\ acts(t)[k + 1].player = p
      /\ \A i \in 1 .. k : acts(t)[i] = acts(s)[i]
      /\ CurrentBet(t) = {k + 1}
      /\ Len(allActions(t)) = n + 1
      /\ lastRaise(allActions(t), n) = lastRaise(allActions(s), n)
      /\ lastRaise(allActions(t), n + 1) = a.size
  <2> DEFINE entry == [type |-> a.type, size |-> a.size, player |-> p]
  <2>1. /\ k \in Nat /\ n \in Nat /\ p \in {0, 1} /\ p = currentPlayer(s) /\ (k + 1) % 2 = q
        /\ t \in State /\ ~t.finished /\ t.round = s.round
        /\ Stored(t, s, a, p, a.size)
        /\ Len(acts(t)) = k + 1 /\ acts(t) # << >> /\ acts(t)[k + 1] = entry
        /\ \A i \in 1 .. k : acts(t)[i] = acts(s)[i]
        /\ CurrentBet(t) = {k + 1}
        /\ Len(allActions(t)) = n + 1
        /\ lastRaise(allActions(t), n) = lastRaise(allActions(s), n)
        /\ lastRaise(allActions(t), n + 1) = a.size
    BY StoredInPlay
  <2>2. entry.type = "raise" /\ entry.player = p
    OBVIOUS
  <2> HIDE DEF t, p, q, k, n, entry
  <2> QED BY <2>1, <2>2
<1>2. /\ s.spent \in [Players -> Nat] /\ s.maxSpent \in Nat /\ s.minNoLimitRaiseTo \in Nat
      /\ s.maxSpent < s.minNoLimitRaiseTo /\ s.maxSpent = lastRaise(allActions(s), n)
      /\ \A i \in 2 .. k : acts(s)[i].type = "raise"
  BY DEF InPlay, State
<1>3. s.spent[q] = s.maxSpent
  <2>1. betMade(s) => (k - 1) % 2 = q
    <3>1. betMade(s) => k > 0
      BY <1>1, ActorInPlay DEF betMade
    <3> QED BY <3>1, <1>1
  <2> QED BY <2>1, <1>1 DEF InPlay
<1>4. CanAct(s, p) /\ CanAct(s, q)
  <2>1. raiseIsValid(s)
    BY DEF isValidAction
  <2>2. numActingPlayers(s) > 1
    BY <2>1 DEF raiseIsValid
  <2> QED BY <2>2, <1>1, CountsOfTwo
<1>5. s.maxSpent < arguments.stack
  BY <1>1, <1>3, <1>4, TwoPlayers DEF CanAct
<1>6. a.size \in Nat /\ s.maxSpent < a.size /\ a.size <= arguments.stack
  <2>1. a.size \in minSize(s) .. maxSize(s)
    BY TwoPlayers DEF isValidAction, SizeIsValid
  <2>2. maxSize(s) = arguments.stack
    BY <1>1, TwoPlayers DEF maxSize
  <2>3. minSize(s) = IF s.minNoLimitRaiseTo > arguments.stack THEN arguments.stack
                     ELSE s.minNoLimitRaiseTo
    BY <2>2 DEF minSize
  <2> QED BY <2>1, <2>2, <2>3, <1>2, <1>5, TwoPlayers
<1>7. /\ t.spent = [s.spent EXCEPT ![p] = a.size] /\ t.maxSpent = a.size
      /\ t.minNoLimitRaiseTo = Larger(s.minNoLimitRaiseTo, a.size + a.size - s.maxSpent)
  <2>1. Int32(a.size + a.size - s.maxSpent) = a.size + a.size - s.maxSpent
    BY <1>2, <1>6, TwoPlayers, TwiceTheStack, Int32Fits
  <2> QED BY <2>1, <1>1, TwoPlayers DEF Stored
<1>8. t.spent[p] = a.size /\ t.spent[q] = s.maxSpent /\ p \in Players /\ q \in Players /\ p # q
  BY <1>1, <1>2, <1>3, <1>7, TwoPlayers
<1>9. t.maxSpent < t.minNoLimitRaiseTo
  BY <1>2, <1>6, <1>7 DEF Larger
<1>10. /\ \A x \in Players : ~t.playerFolded[x]
       /\ \A r \in Rounds : \A i \in 1 .. Len(t.action[r]) :
            t.action[r][i].type \in {"call", "raise"} /\ t.action[r][i].player = (i - 1) % 2
       /\ t.round = 0 => t.action[1] = << >>
       /\ t.round = 1 => Len(t.action[0]) >= 2
       /\ t.round = 1 => t.action[0][Len(t.action[0])].type = "call"
       /\ numFolded(t) = 0
  <2>1. a.type # "fold"
    OBVIOUS
  <2> QED BY <2>1, EntriesInPlay
<1>11. AnswersOwed(t)
  <2>1. CanAct(t, q)
    BY <1>5, <1>8, <1>10, TwoPlayers DEF CanAct
  <2>2. CanAct(t, p) <=> a.size < arguments.stack
    BY <1>8, <1>10, TwoPlayers DEF CanAct
  <2>3. numActingPlayers(t) = IF a.size < arguments.stack THEN 2 ELSE 1
    BY <2>1, <2>2, <1>1, CountsOfTwo
  <2> DEFINE C == {i \in CurrentBet(t) : /\ acts(t)[i].type \in {"call", "raise"}
                                         /\ t.spent[acts(t)[i].player] < stack[acts(t)[i].player]}
  <2>4. C = IF a.size < arguments.stack THEN {k + 1} ELSE {}
    BY <1>1, <1>8, TwoPlayers
  <2>5. Cardinality({k + 1}) = 1 /\ Cardinality({}) = 0
    BY FS_Singleton, FS_EmptySet
  <2>6. numCalled(t) = Cardinality(C)
    BY DEF numCalled
  <2> HIDE DEF C
  <2>7. numCalled(t) = IF a.size < arguments.stack THEN 1 ELSE 0
    BY <2>4, <2>5, <2>6
  <2> QED BY <2>3, <2>7 DEF AnswersOwed
<1>12. e = t
  BY <1>10, <1>11, TwoPlayers DEF doAction, EndBetting
<1>14. \A i \in 2 .. k + 1 : acts(t)[i].type = "raise"
  <2> TAKE i \in 2 .. k + 1
  <2>1. (i \in 2 .. k /\ i \in 1 .. k) \/ i = k + 1
    BY <1>1
  <2> QED BY <2>1, <1>1, <1>2
<1>15. betMade(t)
  BY <1>1 DEF betMade
<1>16. /\ t.spent[((k + 1) - 1) % 2] = t.maxSpent
       /\ t.spent[(k + 1) % 2] = lastRaise(allActions(t), (n + 1) - 1)
       /\ t.spent[(k + 1) % 2] < t.maxSpent
  <2>1. (k + 1) - 1 = k /\ (n + 1) - 1 = n
    BY <1>1
  <2> QED BY <2>1, <1>1, <1>2, <1>6, <1>7, <1>8
<1>17. BetsLeaveRoom(t)
  <2> DEFINE m == s.maxSpent
             b == a.size
             least == s.minNoLimitRaiseTo
             ante == arguments.ante
  <2>1. /\ m \in Nat /\ b \in Nat /\ least \in Nat /\ ante \in Nat /\ m < b
        /\ b <= arguments.stack /\ arguments.stack \in Nat /\ m < arguments.stack
    BY <1>2, <1>5, <1>6, TwoPlayers
  <2>2. ante <= m /\ m + ante <= least /\ k * ante <= m
    BY <1>5 DEF InPlay, BetsLeaveRoom
  <2>3. b < arguments.stack => least <= b
    <3>1. b \in minSize(s) .. maxSize(s)
      BY TwoPlayers DEF isValidAction, SizeIsValid
    <3>2. maxSize(s) = arguments.stack
      BY <1>1, TwoPlayers DEF maxSize
    <3>3. minSize(s) = IF least > arguments.stack THEN arguments.stack ELSE least
      BY <3>2 DEF minSize
    <3> QED BY <2>1, <3>1, <3>2, <3>3
  <2>4. /\ t.maxSpent = b /\ Len(acts(t)) = k + 1 /\ t.spent[(k + 1) % 2] = m
        /\ t.minNoLimitRaiseTo = Larger(least, b + b - m)
    BY <1>1, <1>7, <1>8
  <2>5. (k + 1) * ante = k * ante + ante /\ k * ante \in Nat
    <3>1. k \in Nat /\ ante \in Nat
      BY <1>1, <2>1
    <3> HIDE DEF k, ante
    <3> QED BY <3>1
  <2> HIDE DEF m, b, least, ante, t, k, n, p, q
  <2>6. ante <= b
    BY <2>1, <2>2
  <2>7. ASSUME b < arguments.stack
        PROVE  /\ b + ante <= Larger(least, b + b - m)
               /\ Larger(least, b + b - m) <= b + max(b - m, ante)
               /\ (k + 1) * ante <= b
    <3>1. least <= b
      BY <2>3, <2>7
    <3>2. m + ante <= b
      BY <2>1, <2>2, <3>1
    <3>3. b + ante <= Larger(least, b + b - m)
      BY <2>1, <3>1, <3>2 DEF Larger
    <3>4. Larger(least, b + b - m) <= b + max(b - m, ante)
      BY <2>1, <3>1, <3>2 DEF Larger, max
    <3>5. (k + 1) * ante <= b
      BY <2>1, <2>2, <2>5, <3>2
    <3> QED BY <3>3, <3>4, <3>5
  <2> QED BY <2>4, <2>6, <2>7 DEF BetsLeaveRoom, ante
<1>19. t.spent \in [Players -> Nat] /\ t.maxSpent \in Nat /\ t.minNoLimitRaiseTo \in Nat
  BY <1>2, <1>6, <1>7, <1>8 DEF Larger
<1> HIDE DEF t, n, k, p, q, e
<1>18. InPlay(t)
  BY <1>1, <1>19, <1>6, <1>7, <1>9, <1>10, <1>14, <1>15, <1>16, <1>17 DEF InPlay
<1> QED BY <1>1, <1>7, <1>8, <1>10, <1>12, <1>18

\* A check is answered; a call, or a check behind, ends the round, and the hand
\* after the second round or when it is for all the chips.
LEMMA CallInPlay ==
  ASSUME NEW s, Ready(s), InPlay(s), NEW a \in Action, isValidAction(s, FALSE, a), a.type = "call"
  PROVE  LET e == doAction(s, a)
             k == Len(acts(s))
         IN /\ IF e.finished THEN IsOver(e) ELSE InPlay(e)
            /\ e.finished <=> k # 0 /\ (s.round = 1 \/ s.maxSpent = arguments.stack)
            /\ numFolded(e) = 0 /\ e.maxSpent = s.maxSpent
            /\ e.spent[0] = s.maxSpent /\ e.spent[1] = s.maxSpent
            /\ ~e.finished => /\ e.round = IF k = 0 THEN s.round ELSE 1
                              /\ Len(acts(e)) = IF k = 0 THEN 1 ELSE 0
<1> DEFINE t == StoreAction(s, a)
           k == Len(acts(s))
           n == Len(allActions(s))
           p == k % 2
           q == 1 - p
           e == doAction(s, a)
           Goal(d) == /\ IF d.finished THEN IsOver(d) ELSE InPlay(d)
                      /\ d.finished <=> k # 0 /\ (s.round = 1 \/ s.maxSpent = arguments.stack)
                      /\ numFolded(d) = 0 /\ d.maxSpent = s.maxSpent
                      /\ d.spent[0] = s.maxSpent /\ d.spent[1] = s.maxSpent
                      /\ ~d.finished => /\ d.round = IF k = 0 THEN s.round ELSE 1
                                        /\ Len(acts(d)) = IF k = 0 THEN 1 ELSE 0
<1> SUFFICES Goal(e)
  OBVIOUS
<1>1. /\ k \in Nat /\ n \in Nat /\ p \in {0, 1} /\ p = currentPlayer(s) /\ (k + 1) % 2 = q
      /\ t \in State /\ ~t.finished /\ t.round = s.round /\ s.round \in {0, 1}
      /\ Stored(t, s, a, p, a.size)
      /\ acts(t) = t.action[t.round] /\ acts(s) = s.action[s.round]
      /\ Len(acts(t)) = k + 1 /\ acts(t) # << >>
      /\ acts(t)[k + 1].type = "call" /\ acts(t)[k + 1].player = p
      /\ \A i \in 1 .. k : acts(t)[i] = acts(s)[i]
      /\ CurrentBet(t) = IF k = 0 THEN {k + 1} ELSE {k, k + 1}
      /\ Len(allActions(t)) = n + 1
      /\ lastRaise(allActions(t), n + 1) = lastRaise(allActions(s), n)
  <2> DEFINE f == [type |-> a.type, size |-> a.size, player |-> p]
  <2>1. /\ k \in Nat /\ n \in Nat /\ p \in {0, 1} /\ p = currentPlayer(s) /\ (k + 1) % 2 = q
        /\ t \in State /\ ~t.finished /\ t.round = s.round /\ s.round \in {0, 1}
        /\ Stored(t, s, a, p, a.size)
        /\ acts(t) = t.action[t.round] /\ acts(s) = s.action[s.round]
        /\ Len(acts(t)) = k + 1 /\ acts(t) # << >> /\ acts(t)[k + 1] = f
        /\ \A i \in 1 .. k : acts(t)[i] = acts(s)[i]
        /\ CurrentBet(t) = IF k = 0 THEN {k + 1} ELSE {k, k + 1}
        /\ Len(allActions(t)) = n + 1
        /\ lastRaise(allActions(t), n + 1) = lastRaise(allActions(s), n)
    BY StoredInPlay
  <2>2. f.type = "call" /\ f.player = p
    OBVIOUS
  <2> HIDE DEF t, p, q, k, n, f
  <2> QED BY <2>1, <2>2
<1>2. /\ \A x \in Players : ~t.playerFolded[x]
      /\ \A r \in Rounds : \A i \in 1 .. Len(t.action[r]) :
            t.action[r][i].type \in {"call", "raise"} /\ t.action[r][i].player = (i - 1) % 2
      /\ t.round = 0 => t.action[1] = << >>
      /\ t.round = 1 => Len(t.action[0]) >= 2
      /\ t.round = 1 => t.action[0][Len(t.action[0])].type = "call"
      /\ numFolded(t) = 0
  <2>1. a.type # "fold"
    OBVIOUS
  <2> QED BY <2>1, EntriesInPlay
<1>3. /\ s.spent \in [Players -> Nat] /\ s.maxSpent \in Nat /\ s.minNoLimitRaiseTo \in Nat
      /\ s.maxSpent < s.minNoLimitRaiseTo /\ s.maxSpent = lastRaise(allActions(s), n)
      /\ s.maxSpent <= arguments.stack
      /\ \A i \in 2 .. k : acts(s)[i].type = "raise"
      /\ ~betMade(s) => s.maxSpent < arguments.stack
  BY DEF InPlay, State
<1>4. s.spent[q] = s.maxSpent
  <2>1. k \in Nat /\ p \in {0, 1}
    BY <1>1
  <2>2. CASE betMade(s)
    <3>1. k > 0
      BY <2>2, ActorInPlay DEF betMade
    <3>2. (k - 1) % 2 = q
      BY <2>1, <3>1
    <3> QED BY <2>2, <3>2 DEF InPlay
  <2>3. CASE ~betMade(s)
    BY <2>1, <2>3 DEF InPlay
  <2> QED BY <2>2, <2>3
<1> HIDE DEF p
<1>5. t.spent = [s.spent EXCEPT ![p] = s.maxSpent] /\ t.maxSpent = s.maxSpent
      /\ t.minNoLimitRaiseTo = s.minNoLimitRaiseTo
  <2>1. p \in {0, 1} /\ Stored(t, s, a, p, a.size)
    BY <1>1
  <2>2. CallTo(s, p) = s.maxSpent
    BY <2>1, <1>3, TwoPlayers DEF CallTo
  <2> QED BY <2>1, <2>2 DEF Stored
<1>6. t.spent[0] = s.maxSpent /\ t.spent[1] = s.maxSpent
  <2>1. p \in {0, 1}
    BY <1>1
  <2> HIDE DEF t
  <2> QED BY <2>1, <1>3, <1>4, <1>5, TwoPlayers
<1>7. /\ e = EndBetting(t) /\ ~(numFolded(t) + 1 >= numPlayers) /\ numRounds = 2
      /\ t = [maxSpent |-> t.maxSpent, minNoLimitRaiseTo |-> t.minNoLimitRaiseTo,
              spent |-> t.spent, action |-> t.action, round |-> t.round,
              finished |-> t.finished, playerFolded |-> t.playerFolded]
  BY <1>1, <1>2, TwoPlayers DEF doAction, State
<1>8. /\ numActingPlayers(t) = IF s.maxSpent < arguments.stack THEN 2 ELSE 0
      /\ numCalled(t) = IF s.maxSpent < arguments.stack THEN IF k = 0 THEN 1 ELSE 2 ELSE 0
  <2>1. \A x \in {0, 1} : CanAct(t, x) <=> s.maxSpent < arguments.stack
    BY <1>2, <1>6, TwoPlayers DEF CanAct
  <2> DEFINE C == {i \in CurrentBet(t) : /\ acts(t)[i].type \in {"call", "raise"}
                                         /\ t.spent[acts(t)[i].player] < stack[acts(t)[i].player]}
  <2>2. ASSUME NEW i \in CurrentBet(t) PROVE i \in C <=> s.maxSpent < arguments.stack
    <3>1. i \in 1 .. k + 1
      BY <1>1
    <3>2. acts(t)[i].type \in {"call", "raise"} /\ acts(t)[i].player = (i - 1) % 2
      <4> HIDE DEF t, k, p
      <4>1. acts(t) = t.action[t.round] /\ t.round \in Rounds /\ i \in 1 .. Len(t.action[t.round])
        BY <3>1, <1>1, TwoPlayers
      <4> QED BY <4>1, <1>2
    <3>3. acts(t)[i].player \in {0, 1}
      BY <3>1, <3>2, <1>1
    <3> QED BY <3>2, <3>3, <1>6, TwoPlayers
  <2>3. C = IF s.maxSpent < arguments.stack THEN CurrentBet(t) ELSE {}
    BY <2>2
  <2>4. numCalled(t) = Cardinality(C)
    BY DEF numCalled
  <2>5. Cardinality(CurrentBet(t)) = IF k = 0 THEN 1 ELSE 2
    <3>1. k # k + 1
      BY <1>1
    <3>2. Cardinality({k, k + 1}) = 2 /\ Cardinality({k + 1}) = 1
      BY <3>1, CountOfPair, FS_Singleton
    <3> QED BY <3>2, <1>1
  <2> HIDE DEF C
  <2>6. Cardinality({}) = 0
    BY FS_EmptySet
  <2>7. numCalled(t) = IF s.maxSpent < arguments.stack THEN IF k = 0 THEN 1 ELSE 2 ELSE 0
    BY <2>3, <2>4, <2>5, <2>6
  <2>8. numActingPlayers(t) = IF s.maxSpent < arguments.stack THEN 2 ELSE 0
    BY <2>1, CountsOfTwo
  <2> QED BY <2>7, <2>8
<1>9. e \in State
  BY ActionKeepsReady
<1>10. k = 0 => s.maxSpent < arguments.stack
  BY <1>3, ActorInPlay DEF betMade
<1>15. /\ arguments.ante <= s.maxSpent
       /\ s.maxSpent < arguments.stack =>
            s.maxSpent + arguments.ante <= s.minNoLimitRaiseTo
       /\ s.maxSpent < arguments.stack /\ k = 0 =>
            s.minNoLimitRaiseTo <= s.maxSpent + arguments.ante
  <2>1. BetsLeaveRoom(s)
    BY DEF InPlay
  <2>2. k = 0 => s.maxSpent - s.spent[k % 2] = 0
    <3>1. k = 0 => ~betMade(s)
      BY ActorInPlay DEF betMade
    <3>2. 0 % 2 = 0
      OBVIOUS
    <3> QED BY <3>1, <3>2, <1>3 DEF InPlay
  <2>3. max(0, arguments.ante) = arguments.ante
    BY TwoPlayers DEF max
  <2> HIDE DEF k
  <2> QED BY <2>1, <2>2, <2>3 DEF BetsLeaveRoom, k
<1>16. arguments.ante \in Nat /\ arguments.ante > 0 /\ arguments.stack \in Nat
  BY TwoPlayers
<1>17. max(0, arguments.ante) = arguments.ante
  BY <1>16 DEF max
<1>18. numFolded(e) = 0 /\ e.maxSpent = s.maxSpent /\ e.spent[0] = s.maxSpent /\ e.spent[1] = s.maxSpent
  <2>1. e.spent = t.spent /\ e.maxSpent = t.maxSpent /\ e.playerFolded = t.playerFolded
    <3>1. \A r \in Rounds : r > t.round => t.action[r] = << >>
      BY <1>1, <1>2, TwoPlayers
    <3> HIDE DEF t
    <3> QED BY <3>1, <1>1, <1>7, EndBettingFacts
  <2>2. numFolded(e) = numFolded(t)
    BY <2>1 DEF numFolded
  <2> QED BY <2>1, <2>2, <1>2, <1>5, <1>6
<1>19. /\ t.spent \in [Players -> Nat] /\ t.maxSpent \in Nat /\ t.minNoLimitRaiseTo \in Nat
       /\ s.maxSpent + arguments.ante \in Nat
  <2> HIDE DEF t
  <2>1. t.spent \in [Players -> Nat]
    BY <1>3, <1>5
  <2>2. t.maxSpent \in Nat /\ t.minNoLimitRaiseTo \in Nat
    BY <1>3, <1>5
  <2>3. s.maxSpent + arguments.ante \in Nat
    BY <1>3, <1>16
  <2> QED BY <2>1, <2>2, <2>3
<1> HIDE DEF t, e, k, n
<1>11. CASE k = 0
  <2>1. e = t
    <3>1. AnswersOwed(t)
      BY <1>8, <1>10, <1>11 DEF AnswersOwed
    <3> QED BY <3>1, <1>7 DEF EndBetting
  <2>2. ~betMade(t)
    BY <1>1 DEF betMade
  <2>3. \A i \in 2 .. k + 1 : FALSE
    BY <1>11
  <2>5. BetsLeaveRoom(t)
    <3>1. /\ Len(acts(t)) = 1 /\ t.spent[1 % 2] = s.maxSpent /\ t.maxSpent = s.maxSpent
          /\ t.minNoLimitRaiseTo = s.minNoLimitRaiseTo
      BY <1>1, <1>5, <1>6, <1>11
    <3>2. s.maxSpent - s.maxSpent = 0 /\ 1 * arguments.ante = arguments.ante
      BY <1>3, <1>16
    <3> QED BY <3>1, <3>2, <1>3, <1>11, <1>15, <1>16, <1>17 DEF BetsLeaveRoom
  <2>4. InPlay(t)
    BY <2>2, <2>3, <2>5, <1>1, <1>2, <1>3, <1>5, <1>6, <1>10, <1>11, <1>19 DEF InPlay
  <2> QED BY <2>1, <2>4, <1>1, <1>11, <1>18
<1>12. CASE k # 0 /\ s.maxSpent < arguments.stack /\ t.round = 0
  <2>1. e = [t EXCEPT !.round = @ + 1, !.minNoLimitRaiseTo = RoundMinimum(t)]
    <3>1. ~AnswersOwed(t) /\ ~(numActingPlayers(t) <= 1) /\ RoundsLeft(t)
      BY <1>7, <1>8, <1>12 DEF AnswersOwed, RoundsLeft
    <3> QED BY <3>1, <1>7 DEF EndBetting
  <2>2. /\ e.round = 1 /\ e.minNoLimitRaiseTo = RoundMinimum(t) /\ e.spent = t.spent
        /\ e.maxSpent = t.maxSpent /\ e.action = t.action /\ e.playerFolded = t.playerFolded
        /\ e.finished = t.finished
    BY <2>1, <1>7, <1>12
  <2>3. acts(e) = << >> /\ Len(acts(e)) = 0 /\ ~betMade(e)
    BY <2>2, <1>2, <1>12 DEF acts, betMade
  <2>4. allActions(e) = allActions(t)
    BY <2>2, SameActions
  <2>9. RoundMinimum(t) = s.maxSpent + arguments.ante
    <3>1. Larger(1, BigBlind) = arguments.ante
      BY BigBlindIsMax, TwoPlayers DEF Larger
    <3>2. Int32(arguments.ante + s.maxSpent) = arguments.ante + s.maxSpent
      BY <1>3, TwoPlayers, TwiceTheStack, Int32Fits
    <3> QED BY <3>1, <3>2, <1>3, <1>5, <1>16 DEF RoundMinimum
  <2>5. e.maxSpent < e.minNoLimitRaiseTo
    BY <2>2, <2>9, <1>3, <1>5, <1>16
  <2>6. Len(e.action[0]) >= 2 /\ e.action[0][Len(e.action[0])].type = "call"
    <3>1. e.action[0] = acts(t)
      BY <2>2, <1>1, <1>12
    <3>2. k + 1 >= 2
      BY <1>1, <1>12
    <3> QED BY <3>1, <3>2, <1>1
  <2>8. BetsLeaveRoom(e)
    <3>2. /\ Len(acts(e)) = 0 /\ e.spent[0 % 2] = s.maxSpent /\ e.maxSpent = s.maxSpent
          /\ e.minNoLimitRaiseTo = s.maxSpent + arguments.ante
      BY <2>2, <2>3, <2>9, <1>3, <1>5, <1>6
    <3>3. s.maxSpent - s.maxSpent = 0 /\ 0 * arguments.ante = 0
      BY <1>3, <1>16
    <3> QED BY <3>2, <3>3, <1>3, <1>15, <1>16, <1>17 DEF BetsLeaveRoom
  <2>7. InPlay(e)
    BY <2>2, <2>3, <2>4, <2>5, <2>6, <2>8, <2>9, <1>1, <1>2, <1>3, <1>5, <1>6, <1>9, <1>12, <1>19 DEF InPlay
  <2> QED BY <2>2, <2>3, <2>7, <1>1, <1>3, <1>12, <1>16, <1>18
<1>13. CASE k # 0 /\ t.round = 1
  <2>1. e.finished /\ e.round = 1 /\ e.action = t.action
    <3>1. ~AnswersOwed(t) /\ ~RoundsLeft(t)
      BY <1>7, <1>8, <1>13 DEF AnswersOwed, RoundsLeft
    <3>2. e = [t EXCEPT !.finished = TRUE, !.round = numRounds - 1] \/ e = [t EXCEPT !.finished = TRUE]
      BY <3>1, <1>7 DEF EndBetting
    <3>3. numRounds - 1 = 1
      BY <1>7
    <3>4. CASE e = [t EXCEPT !.finished = TRUE, !.round = numRounds - 1]
      BY <3>3, <3>4, <1>7
    <3>5. CASE e = [t EXCEPT !.finished = TRUE]
      BY <3>5, <1>7, <1>13
    <3> QED BY <3>2, <3>4, <3>5
  <2>2. e.action[1] = acts(t)
    BY <2>1, <1>1, <1>13
  <2>3. Len(e.action[1]) >= 2 /\ e.action[1][Len(e.action[1])].type = "call"
    <3>1. k + 1 >= 2
      BY <1>1, <1>13
    <3> QED BY <2>2, <3>1, <1>1
  <2>4. IsOver(e)
    BY <2>1, <2>3, <1>9 DEF IsOver
  <2> QED BY <2>1, <2>4, <1>1, <1>13, <1>18
<1>14. CASE k # 0 /\ ~(s.maxSpent < arguments.stack) /\ t.round = 0
  <2>1. e.finished /\ e.round = 1 /\ e.action = t.action
    <3>1. ~AnswersOwed(t) /\ numActingPlayers(t) <= 1
      BY <1>8, <1>14 DEF AnswersOwed
    <3>2. e = [t EXCEPT !.finished = TRUE, !.round = numRounds - 1]
      BY <3>1, <1>7 DEF EndBetting
    <3> QED BY <3>2, <1>7
  <2>2. e.action[0] = acts(t) /\ e.action[1] = << >>
    BY <2>1, <1>1, <1>2, <1>14
  <2>3. e.action[0] # << >> /\ e.action[0][Len(e.action[0])].type = "call"
    BY <2>2, <1>1
  <2>4. \A i \in 1 .. Len(e.action[0]) : e.action[0][i].type \in {"call", "raise"}
    BY <2>1, <1>2, TwoPlayers
  <2>5. lastRaise(allActions(e), Len(allActions(e))) = arguments.stack
    <3>1. allActions(e) = allActions(t)
      BY <2>1, SameActions
    <3>2. s.maxSpent = arguments.stack
      BY <1>3, <1>14, TwoPlayers
    <3> QED BY <3>1, <3>2, <1>1, <1>3
  <2>6. IsOver(e)
    BY <2>1, <2>2, <2>3, <2>4, <2>5, <1>9 DEF IsOver
  <2>7. s.maxSpent = arguments.stack
    BY <1>3, <1>14, <1>16
  <2> QED BY <2>1, <2>6, <2>7, <1>14, <1>18
<1> QED BY <1>1, <1>10, <1>11, <1>12, <1>13, <1>14

\* A valid action leads to a state in play or to one after the last action.
LEMMA ActionInPlay ==
  ASSUME NEW s, Ready(s), InPlay(s), NEW a \in Action, isValidAction(s, FALSE, a)
  PROVE  LET e == doAction(s, a)
         IN IF e.finished THEN IsOver(e) ELSE Ready(e) /\ InPlay(e)
<1>1. a.type \in {"fold", "call", "raise"}
  BY StoreKeepsState
<1>2. ~doAction(s, a).finished => Ready(doAction(s, a))
  BY ActionKeepsReady
<1>3. CASE a.type = "fold"
  <2>1. IsOver(doAction(s, a))
    BY <1>3, FoldInPlay
  <2> QED BY <2>1 DEF IsOver
<1>4. CASE a.type = "call"
  <2> DEFINE e == doAction(s, a)
  <2>1. IF e.finished THEN IsOver(e) ELSE InPlay(e)
    BY <1>4, CallInPlay
  <2> HIDE DEF e
  <2> QED BY <2>1, <1>2 DEF e
<1>5. CASE a.type = "raise"
  <2>1. InPlay(doAction(s, a))
    BY <1>5, RaiseInPlay
  <2>2. ~doAction(s, a).finished
    BY <2>1 DEF InPlay
  <2> QED BY <1>2, <2>1, <2>2
<1> QED BY <1>1, <1>3, <1>4, <1>5

-----------------------------------------------------------------------------
(* The bets of the tree.                                                   *)

\* A node of a player, with bets that the stacks cover.
PlayerNode(node) ==
    /\ node.current_player \in {1, 2} /\ node.kind \notin {"fold", "call"}
    /\ \E x, y \in 0 .. arguments.stack : node.bets = <<x, y>>

LEMMA BetsOfPlayers ==
  ASSUME NEW node, PlayerNode(node)
  PROVE  /\ own_bet(node) \in Nat /\ opponent_bet(node) \in Nat
         /\ own_bet(node) <= arguments.stack /\ opponent_bet(node) <= arguments.stack
         /\ min_raise_size(node) \in Nat /\ max_raise_size(node) \in Nat
         /\ min_raise_size(node) <= max_raise_size(node)
         /\ opponent_bet(node) + max_raise_size(node) = arguments.stack
<1>1. PICK x, y \in 0 .. arguments.stack : node.bets = <<x, y>>
  BY DEF PlayerNode
<1>2. arguments.stack \in Nat /\ arguments.ante \in Nat
  BY TwoPlayers
<1>3. /\ own_bet(node) \in Nat /\ opponent_bet(node) \in Nat
      /\ own_bet(node) <= arguments.stack /\ opponent_bet(node) <= arguments.stack
  <2>1. node.current_player = 1 \/ node.current_player = 2
    BY DEF PlayerNode
  <2>2. CASE node.current_player = 1
    BY <1>1, <1>2, <2>2 DEF own_bet, opponent_bet
  <2>3. CASE node.current_player = 2
    BY <1>1, <1>2, <2>3 DEF own_bet, opponent_bet
  <2> QED BY <2>1, <2>2, <2>3
<1>4. max_raise_size(node) \in Nat /\ opponent_bet(node) + max_raise_size(node) = arguments.stack
  BY <1>2, <1>3 DEF max_raise_size
<1>5. min_raise_size(node) \in Nat /\ min_raise_size(node) <= max_raise_size(node)
  BY <1>2, <1>3, <1>4 DEF min_raise_size, min, max
<1> QED BY <1>3, <1>4, <1>5

\* Every level lies between the smallest raise and all-in (get_possible_bets).
LEMMA LevelsOfNode ==
  ASSUME NEW node, PlayerNode(node)
  PROVE  /\ get_possible_bets(node) \in
              Seq(opponent_bet(node) + min_raise_size(node) .. arguments.stack)
         /\ min_raise_size(node) = 0 => get_possible_bets(node) = << >>
<1> DEFINE sizing == arguments.bet_sizing
           opp == opponent_bet(node)
           raise_size(i) == opponent_bet(node) * arguments.bet_sizing[i]
           possible(i) == /\ raise_size(i) >= min_raise_size(node)
                          /\ raise_size(i) < max_raise_size(node)
           more(i) == IF possible(i) THEN <<opponent_bet(node) + raise_size(i)>> ELSE << >>
           steps(f, m) == [i \in 0 .. m |-> IF i = 0 THEN << >> ELSE f[i - 1] \o more(i)]
           n == Len(arguments.bet_sizing)
           L == opponent_bet(node) + min_raise_size(node) .. arguments.stack
           T == {m \in 0 .. n : ~\E f : f = steps(f, m)}
<1>1. /\ opp \in Nat /\ min_raise_size(node) \in Nat /\ max_raise_size(node) \in Nat
      /\ min_raise_size(node) <= max_raise_size(node)
      /\ opp + max_raise_size(node) = arguments.stack /\ arguments.stack \in Nat
  BY BetsOfPlayers, TwoPlayers
<1>2. n \in Nat /\ \A i \in 1 .. n : arguments.bet_sizing[i] \in Nat
  BY ArgumentsAssumption
<1>3. ASSUME NEW i \in 1 .. n PROVE more(i) \in Seq(L)
  <2>1. arguments.bet_sizing[i] \in Nat
    BY <1>2
  <2>2. raise_size(i) \in Nat
    <3>1. \A a, b \in Nat : a * b \in Nat
      OBVIOUS
    <3> QED BY <1>1, <2>1, <3>1
  <2> HIDE DEF raise_size
  <2>3. possible(i) => opp + raise_size(i) \in L
    BY <1>1, <2>2
  <2> HIDE DEF possible, L
  <2>4. QED BY <2>3
<1> HIDE DEF more
<1>4. T = {}
  <2>1. SUFFICES ASSUME T # {} PROVE FALSE
    OBVIOUS
  <2>2. PICK m \in T : \A k \in T : m <= k
    <3>1. T \in SUBSET Nat
      BY <1>2
    <3> HIDE DEF T
    <3> QED BY <2>1, <3>1, LeastNatural
  <2>3. m # 0
    <3> DEFINE f == [i \in {0} |-> << >>]
    <3>1. 0 .. 0 = {0}
      OBVIOUS
    <3>2. \A g : steps(g, 0) = f
      BY <3>1
    <3> QED BY <3>2
  <2>4. PICK f : f = steps(f, m - 1)
    <3>1. m - 1 \in 0 .. n /\ ~(m <= m - 1)
      BY <2>3, <1>2
    <3>2. m - 1 \notin T
      BY <2>2, <3>1
    <3> QED BY <3>1, <3>2
  <2> DEFINE g == [i \in 0 .. m |-> IF i < m THEN f[i] ELSE f[m - 1] \o more(m)]
  <2>6. \A i \in 0 .. m - 1 : g[i] = f[i]
    BY <2>3, <1>2
  <2>7. ASSUME NEW i \in 0 .. m PROVE g[i] = IF i = 0 THEN << >> ELSE g[i - 1] \o more(i)
    <3>1. i # 0 => i - 1 \in 0 .. m - 1 /\ g[i - 1] = f[i - 1]
      BY <2>6, <1>2
    <3>3. CASE i = m
      <4>1. g[m] = f[m - 1] \o more(m)
        BY <2>3, <1>2
      <4>2. g[m - 1] = f[m - 1]
        BY <3>1, <3>3, <2>3
      <4> HIDE DEF g
      <4> QED BY <4>1, <4>2, <3>3, <2>3
    <3>4. CASE i # m
      <4>1. i \in 0 .. m - 1
        BY <3>4, <1>2
      <4>2. f[i] = IF i = 0 THEN << >> ELSE f[i - 1] \o more(i)
        BY <2>4, <4>1
      <4> QED BY <3>1, <4>1, <4>2, <2>6
    <3> QED BY <3>3, <3>4
  <2>8. g = steps(g, m)
    BY <2>7
  <2> QED BY <2>8
<1>5. \E f : f = steps(f, n)
  <2>1. n \in 0 .. n
    BY <1>2
  <2> HIDE DEF steps
  <2> QED BY <1>4, <2>1
<1> DEFINE fractions == CHOOSE f : f = steps(f, n)
<1>6. fractions = steps(fractions, n)
  BY <1>5
<1>7. get_possible_bets(node) = IF min_raise_size(node) = 0 THEN << >>
                                ELSE Append(fractions[n], arguments.stack)
  BY DEF get_possible_bets, more
<1> HIDE DEF fractions, L
<1>8. \A i \in 1 .. n : more(i) \in Seq(L)
  BY <1>3
<1>9. \A i \in 0 .. n : fractions[i] = IF i = 0 THEN << >> ELSE fractions[i - 1] \o more(i)
  BY <1>6, Zenon
<1>10. fractions[n] \in Seq(L)
  <2> DEFINE B == {m \in 0 .. n : fractions[m] \notin Seq(L)}
  <2>1. SUFFICES B = {}
    BY <1>2
  <2>2. SUFFICES ASSUME B # {} PROVE FALSE
    OBVIOUS
  <2>3. B \in SUBSET Nat
    BY <1>2
  <2> HIDE DEF B
  <2>4. PICK m \in B : \A k \in B : m <= k
    BY <2>2, <2>3, LeastNatural
  <2> USE DEF B
  <2>5. m # 0
    <3>1. << >> \in Seq(L)
      OBVIOUS
    <3>2. 0 \in 0 .. n /\ fractions[0] = << >>
      BY <1>2, <1>9
    <3> QED BY <3>1, <3>2
  <2>6. m \in 1 .. n /\ m - 1 \in 0 .. n /\ ~(m <= m - 1)
    BY <1>2, <2>5
  <2>7. fractions[m - 1] \in Seq(L)
    BY <2>4, <2>6
  <2>8. fractions[m] = fractions[m - 1] \o more(m)
    BY <1>9, <2>6, <2>5
  <2>9. more(m) \in Seq(L)
    BY <1>8, <2>6
  <2>10. fractions[m] \in Seq(L)
    BY <2>7, <2>8, <2>9, Concatenated
  <2> QED BY <2>4, <2>10
<1>11. min_raise_size(node) # 0 => arguments.stack \in L
  BY <1>1 DEF L
<1>12. << >> \in Seq(L)
  OBVIOUS
<1>13. min_raise_size(node) # 0 => Append(fractions[n], arguments.stack) \in Seq(L)
  BY <1>10, <1>11, Appended
<1>14. get_possible_bets(node) \in Seq(L)
  BY <1>7, <1>12, <1>13
<1>15. min_raise_size(node) = 0 => get_possible_bets(node) = << >>
  BY <1>7
<1> QED BY <1>14, <1>15 DEF L

\* What is asked of a node of a player is a number: fold, call or a level.
LEMMA ActionsOfNode ==
  ASSUME NEW node, PlayerNode(node)
  PROVE  LET levels == get_possible_bets(node)
         IN /\ Len(levels) \in Nat /\ DOMAIN actions(node) = 1 .. 2 + Len(levels)
            /\ DOMAIN children(node) = 1 .. 2 + Len(levels)
            /\ actions(node)[1] = fold /\ actions(node)[2] = ccall
            /\ children(node)[1] = [opponentActs(node) EXCEPT !.kind = "fold"]
            /\ children(node)[2] = ccallChild(node)
            /\ \A i \in 3 .. 2 + Len(levels) :
                  /\ levels[i - 2] \in opponent_bet(node) + min_raise_size(node) .. arguments.stack
                  /\ children(node)[i] = betChild(node, levels[i - 2])
                  /\ actions(node)[i] = levels[i - 2]
<1> DEFINE levels == get_possible_bets(node)
           lo == opponent_bet(node) + min_raise_size(node)
           k == Len(levels)
           bet(i) == betChild(node, levels[i])
           foldChild == [opponentActs(node) EXCEPT !.kind = "fold"]
           kids == children(node)
<1> SUFFICES /\ k \in Nat /\ DOMAIN actions(node) = 1 .. 2 + k /\ DOMAIN kids = 1 .. 2 + k
             /\ actions(node)[1] = fold /\ actions(node)[2] = ccall
             /\ kids[1] = foldChild /\ kids[2] = ccallChild(node)
             /\ \A i \in 3 .. 2 + k : levels[i - 2] \in lo .. arguments.stack
                                      /\ kids[i] = bet(i - 2) /\ actions(node)[i] = levels[i - 2]
  OBVIOUS
<1>1. levels \in Seq(lo .. arguments.stack)
  BY LevelsOfNode
<1>2. k \in Nat /\ DOMAIN levels = 1 .. k /\ \A i \in 1 .. k : levels[i] \in lo .. arguments.stack
  <2> DEFINE S == lo .. arguments.stack
  <2>1. levels \in Seq(S)
    BY <1>1
  <2> HIDE DEF S, levels
  <2>2. Len(levels) \in Nat /\ DOMAIN levels = 1 .. Len(levels)
        /\ \A i \in 1 .. Len(levels) : levels[i] \in S
    BY <2>1
  <2> QED BY <2>2 DEF S
<1>3. kids = <<foldChild, ccallChild(node)>> \o [i \in DOMAIN levels |-> bet(i)]
  BY DEF children, _get_children_player_node, PlayerNode, isTerminal, chance
<1> HIDE DEF kids, foldChild, bet
<1>4. /\ DOMAIN kids = 1 .. 2 + k /\ kids[1] = foldChild /\ kids[2] = ccallChild(node)
      /\ \A i \in 3 .. 2 + k : kids[i] = bet(i - 2)
  <2> DEFINE S == {foldChild, ccallChild(node)} \cup {bet(i) : i \in 1 .. k}
             tail == [i \in 1 .. k |-> bet(i)]
             head == <<foldChild, ccallChild(node)>>
  <2>1. tail \in Seq(S) /\ Len(tail) = k /\ head \in Seq(S) /\ Len(head) = 2
    BY <1>2, FunctionIsSeq
  <2>2. kids = head \o tail
    BY <1>2, <1>3
  <2>3. \A i \in 1 .. k : tail[i] = bet(i)
    OBVIOUS
  <2>4. head[1] = foldChild /\ head[2] = ccallChild(node)
    OBVIOUS
  <2>10. k \in Nat
    BY <1>2
  <2> HIDE DEF S, tail, head, k
  <2>11. /\ DOMAIN (head \o tail) = 1 .. Len(head) + Len(tail)
         /\ \A i \in 1 .. Len(head) : (head \o tail)[i] = head[i]
         /\ \A i \in Len(head) + 1 .. Len(head) + Len(tail) : (head \o tail)[i] = tail[i - Len(head)]
    BY <2>1, Concatenated
  <2>5. DOMAIN kids = 1 .. 2 + k
    BY <2>1, <2>2, <2>11
  <2>6. kids[1] = head[1] /\ kids[2] = head[2]
    BY <2>1, <2>2, <2>11
  <2>7. \A i \in 3 .. 2 + k : kids[i] = tail[i - 2] /\ i - 2 \in 1 .. k
    BY <2>1, <2>2, <2>10, <2>11
  <2> QED BY <2>3, <2>4, <2>5, <2>6, <2>7
<1>5. ASSUME NEW i \in 3 .. 2 + k
      PROVE  levels[i - 2] \in lo .. arguments.stack /\ most(bet(i - 2).bets) = levels[i - 2]
  <2>1. i - 2 \in 1 .. k
    BY <1>2
  <2>2. levels[i - 2] \in lo .. arguments.stack
    BY <1>2, <2>1
  <2> DEFINE l == levels[i - 2]
             o == opponent_bet(node)
  <2>3. o \in Nat /\ min_raise_size(node) \in Nat /\ arguments.stack \in Nat
    BY BetsOfPlayers, TwoPlayers
  <2>4. l \in Int /\ o <= l
    BY <2>2, <2>3
  <2>5. bet(i - 2).bets = [node.bets EXCEPT ![node.current_player] = l, ![3 - node.current_player] = o]
    BY DEF bet, betChild, opponentActs
  <2>6. PICK x, y \in 0 .. arguments.stack : node.bets = <<x, y>>
    BY DEF PlayerNode
  <2>7. node.current_player \in {1, 2}
    BY DEF PlayerNode
  <2> HIDE DEF l, o
  <2>8. CASE node.current_player = 1
    <3>1. bet(i - 2).bets = <<l, o>>
      BY <2>5, <2>6, <2>8
    <3>2. most(bet(i - 2).bets) = l
      BY <2>3, <2>4, <3>1 DEF most, max
    <3> QED BY <2>2, <3>2 DEF l
  <2>9. CASE node.current_player = 2
    <3>1. bet(i - 2).bets = <<o, l>>
      BY <2>5, <2>6, <2>9
    <3>2. most(bet(i - 2).bets) = l
      BY <2>3, <2>4, <3>1 DEF most, max
    <3> QED BY <2>2, <3>2 DEF l
  <2> QED BY <2>7, <2>8, <2>9
<1>6. \A i \in 1 .. 2 + k : actions(node)[i] =
         IF i = 1 THEN fold ELSE IF i = 2 THEN ccall ELSE most(kids[i].bets)
  BY <1>4 DEF actions, kids
<1>7. DOMAIN actions(node) = 1 .. 2 + k
  BY <1>4 DEF actions, kids
<1>8. actions(node)[1] = fold /\ actions(node)[2] = ccall
  BY <1>2, <1>6
<1>9. ASSUME NEW i \in 3 .. 2 + k PROVE actions(node)[i] = levels[i - 2]
  <2>1. i \in 1 .. 2 + k /\ i # 1 /\ i # 2
    BY <1>2
  <2> QED BY <2>1, <1>4, <1>5, <1>6
<1> QED BY <1>2, <1>4, <1>5, <1>7, <1>8, <1>9

\* The node of a state: the player to act has not bet more than the other, who
\* has what there is to call.
LEMMA NodeInPlay ==
  ASSUME NEW s, InPlay(s)
  PROVE  LET node == nodeOf(s)
             k == Len(acts(s))
             p == k % 2
         IN /\ PlayerNode(node) /\ k \in Nat /\ p \in {0, 1} /\ p = currentPlayer(s)
            /\ s.round \in {0, 1} /\ s.spent[0] \in Nat /\ s.spent[1] \in Nat /\ s.maxSpent \in Nat
            /\ opponent_bet(node) = s.maxSpent /\ s.spent[1 - p] = s.maxSpent
            /\ own_bet(node) = s.spent[p] /\ s.spent[p] <= s.maxSpent
            /\ s.maxSpent <= arguments.stack
            /\ most(node.bets) = s.maxSpent
            /\ isEven(node) <=> s.spent[p] = s.maxSpent
            /\ isEven(node) <=> ~betMade(s)
            /\ isEven(node) => s.maxSpent < arguments.stack /\ (p = 0 <=> k = 0)
            /\ ~isEven(node) => k # 0
<1> DEFINE node == nodeOf(s)
           k == Len(acts(s))
           p == k % 2
<1> SUFFICES
            /\ PlayerNode(node) /\ k \in Nat /\ p \in {0, 1} /\ p = currentPlayer(s)
            /\ s.round \in {0, 1} /\ s.spent[0] \in Nat /\ s.spent[1] \in Nat /\ s.maxSpent \in Nat
            /\ opponent_bet(node) = s.maxSpent /\ s.spent[1 - p] = s.maxSpent
            /\ own_bet(node) = s.spent[p] /\ s.spent[p] <= s.maxSpent
            /\ s.maxSpent <= arguments.stack
            /\ most(node.bets) = s.maxSpent
            /\ isEven(node) <=> s.spent[p] = s.maxSpent
            /\ isEven(node) <=> ~betMade(s)
            /\ isEven(node) => s.maxSpent < arguments.stack /\ (p = 0 <=> k = 0)
            /\ ~isEven(node) => k # 0
  OBVIOUS
<1>1. /\ k \in Nat /\ p \in {0, 1} /\ p = currentPlayer(s) /\ CanAct(s, p)
      /\ acts(s) = << >> <=> k = 0
  BY ActorInPlay
<1>2. /\ s.round \in {0, 1} /\ s.spent[0] \in Nat /\ s.spent[1] \in Nat /\ s.maxSpent \in Nat
      /\ s.maxSpent <= arguments.stack
  BY TwoPlayers DEF InPlay, State
<1>3. /\ betMade(s) => /\ s.spent[(k - 1) % 2] = s.maxSpent
                       /\ s.spent[k % 2] < s.maxSpent
      /\ ~betMade(s) => /\ s.spent[0] = s.maxSpent /\ s.spent[1] = s.maxSpent
                        /\ s.maxSpent < arguments.stack
      /\ \A i \in 2 .. k : acts(s)[i].type = "raise"
  BY DEF InPlay
<1>4. betMade(s) => k > 0 /\ (k - 1) % 2 = 1 - p
  <2>1. betMade(s) => k > 0
    BY <1>1 DEF betMade
  <2>2. k > 0 => (k - 1) % 2 = 1 - (k % 2)
    <3> HIDE DEF k
    <3> QED BY <1>1
  <2> QED BY <2>1, <2>2
<1>5. ~betMade(s) => (p = 0 <=> k = 0)
  <2>1. k >= 2 => betMade(s)
    <3>1. k >= 2 => k \in 2 .. k
      BY <1>1
    <3> QED BY <3>1, <1>1, <1>3 DEF betMade
  <2>2. k = 0 \/ k = 1 \/ k >= 2
    BY <1>1
  <2>3. 0 % 2 = 0 /\ 1 % 2 = 1
    OBVIOUS
  <2> QED BY <2>1, <2>2, <2>3
<1> HIDE DEF k
<1>6. s.spent[1 - p] = s.maxSpent /\ s.spent[p] <= s.maxSpent
      /\ (s.spent[p] = s.maxSpent <=> ~betMade(s))
  <2>1. p = 0 \/ p = 1
    BY <1>1
  <2>2. CASE betMade(s)
    BY <2>1, <2>2, <1>2, <1>3, <1>4 DEF k
  <2>3. CASE ~betMade(s)
    BY <2>1, <2>3, <1>2, <1>3
  <2> QED BY <2>2, <2>3
<1> HIDE DEF p
<1>7. /\ node.bets = <<s.spent[0], s.spent[1]>> /\ node.current_player = p + 1
      /\ node.kind = "inner" /\ node.street = s.round + 1
  BY <1>1 DEF nodeOf
<1> HIDE DEF node
<1>8. p = 0 \/ p = 1
  BY <1>1
<1>9. opponent_bet(node) = s.maxSpent /\ own_bet(node) = s.spent[p]
  <2>1. CASE p = 0
    BY <2>1, <1>6, <1>7 DEF opponent_bet, own_bet
  <2>2. CASE p = 1
    BY <2>2, <1>6, <1>7 DEF opponent_bet, own_bet
  <2> QED BY <1>8, <2>1, <2>2
<1>10. most(node.bets) = s.maxSpent /\ (isEven(node) <=> s.spent[p] = s.maxSpent)
  <2>1. CASE p = 0
    BY <2>1, <1>2, <1>6, <1>7 DEF most, max, isEven
  <2>2. CASE p = 1
    BY <2>2, <1>2, <1>6, <1>7 DEF most, max, isEven
  <2> QED BY <1>8, <2>1, <2>2
<1>11. PlayerNode(node)
  <2>1. s.spent[0] <= arguments.stack /\ s.spent[1] <= arguments.stack
    BY <1>2, <1>6, <1>8, TwoPlayers
  <2> QED BY <2>1, <1>2, <1>7, <1>8, TwoPlayers DEF PlayerNode
<1>12. ~isEven(node) => k # 0
  BY <1>1, <1>4, <1>6, <1>10
<1>13. isEven(node) => s.maxSpent < arguments.stack /\ (p = 0 <=> k = 0)
  BY <1>3, <1>5, <1>6, <1>10
<1> QED BY <1>1, <1>2, <1>6, <1>9, <1>10, <1>11, <1>12, <1>13

\* Room for one more raise, as long as a bet is not all-in (RaisesFit).
LEMMA RoomForRaise ==
  ASSUME NEW s, InPlay(s), s.maxSpent < arguments.stack
  PROVE  numRaises(s) < maxRaises[s.round] /\ RoomToRaise(s)
<1> DEFINE k == Len(acts(s))
           M == maxRaises[s.round]
           ante == arguments.ante
<1>1. /\ k \in Nat /\ s.round \in Rounds /\ s.maxSpent \in Nat /\ DOMAIN acts(s) = 1 .. k
  <2>1. s.action \in [Rounds -> Seq(Entry)] /\ s.round \in Rounds /\ s.maxSpent \in Nat
    BY DEF InPlay, State
  <2> QED BY <2>1 DEF acts
<1>2. M \in Nat /\ MaxNumActions \in Nat /\ ante \in Nat /\ ante > 0 /\ numPlayers = 2
  BY <1>1, GameAssumption, TwoPlayers
<1>3. k * ante <= s.maxSpent
  BY DEF InPlay, BetsLeaveRoom
<1>4. arguments.stack <= M * ante /\ arguments.stack <= (MaxNumActions - 1) * ante
  BY <1>1, RaisesFit
<1>5. \A x, y \in Int : x * ante < y * ante => x < y
  <2> SUFFICES ASSUME NEW x \in Int, NEW y \in Int, y <= x PROVE y * ante <= x * ante
    <3>1. \A a, b \in Int : a * ante \in Int
      BY <1>2
    <3> QED BY <3>1
  <2> DEFINE d == x - y
  <2>1. d \in Nat /\ x = y + d
    OBVIOUS
  <2> HIDE DEF d
  <2>2. d * ante \in Nat /\ y * ante \in Int
    BY <2>1, <1>2
  <2>3. (y + d) * ante = y * ante + d * ante
    BY <2>1, <1>2
  <2> QED BY <2>1, <2>2, <2>3
<1>6. k * ante \in Nat /\ M * ante \in Nat /\ (MaxNumActions - 1) * ante \in Int
  BY <1>1, <1>2
<1> HIDE DEF k, M, ante
<1>7. k * ante < M * ante /\ k * ante < (MaxNumActions - 1) * ante
  BY <1>1, <1>3, <1>4, <1>6, TwoPlayers
<1>8. k < M /\ k < MaxNumActions - 1
  <2>1. MaxNumActions - 1 \in Int /\ k \in Int /\ M \in Int
    BY <1>1, <1>2
  <2> QED BY <2>1, <1>5, <1>7
<1>9. numRaises(s) <= k
  <2> DEFINE R == {i \in DOMAIN acts(s) : acts(s)[i].type = "raise"}
  <2>1. R \in SUBSET (1 .. k)
    BY <1>1
  <2>2. IsFiniteSet(1 .. k) /\ Cardinality(1 .. k) = k
    <3>1. 1 \in Int /\ k \in Int
      BY <1>1
    <3>2. IsFiniteSet(1 .. k) /\ Cardinality(1 .. k) = IF 1 > k THEN 0 ELSE k - 1 + 1
      BY <3>1, FS_Interval
    <3> QED BY <3>2, <1>1
  <2>3. numRaises(s) = Cardinality(R)
    BY DEF numRaises
  <2> HIDE DEF R
  <2>4. Cardinality(R) <= Cardinality(1 .. k)
    BY <2>1, <2>2, FS_Subset
  <2> QED BY <2>2, <2>3, <2>4
<1>10. numRaises(s) \in Nat
  <2> DEFINE R == {i \in DOMAIN acts(s) : acts(s)[i].type = "raise"}
  <2>1. R \in SUBSET (1 .. k)
    BY <1>1
  <2>2. numRaises(s) = Cardinality(R)
    BY DEF numRaises
  <2> HIDE DEF R
  <2>3. IsFiniteSet(1 .. k)
    BY <1>1, FS_Interval
  <2> QED BY <2>1, <2>2, <2>3, FS_Subset, FS_CardinalityType
<1>11. RoomToRaise(s)
  BY <1>1, <1>2, <1>8 DEF RoomToRaise, k
<1> QED BY <1>1, <1>2, <1>8, <1>9, <1>10, <1>11 DEF M

\* Each action of the tree that a strategy plays is valid for the dealer
\* (get_possible_bets, isValidAction).
LEMMA TreeActionIsValid ==
  ASSUME NEW s, InPlay(s), NEW i \in DOMAIN actions(nodeOf(s)), i = 1 => ~isEven(nodeOf(s))
  PROVE  LET a == _bet_to_action(actions(nodeOf(s))[i])
         IN /\ isValidAction(s, FALSE, a) /\ a \in Action
            /\ a.type = IF i = 1 THEN "fold" ELSE IF i = 2 THEN "call" ELSE "raise"
            /\ i > 2 => a.size = actions(nodeOf(s))[i]
<1> DEFINE node == nodeOf(s)
           levels == get_possible_bets(node)
           k == Len(acts(s))
           p == k % 2
           m == s.maxSpent
           a == _bet_to_action(actions(node)[i])
<1> SUFFICES /\ isValidAction(s, FALSE, a) /\ a \in Action
             /\ a.type = IF i = 1 THEN "fold" ELSE IF i = 2 THEN "call" ELSE "raise"
             /\ i > 2 => a.size = actions(node)[i]
  OBVIOUS
<1>1. /\ PlayerNode(node) /\ k \in Nat /\ p \in {0, 1} /\ p = currentPlayer(s)
      /\ s.spent[p] \in Nat /\ m \in Nat
      /\ opponent_bet(node) = m /\ s.spent[1 - p] = m
      /\ own_bet(node) = s.spent[p] /\ s.spent[p] <= m /\ m <= arguments.stack
      /\ isEven(node) <=> s.spent[p] = m
  <2>1. p = 0 \/ p = 1
    BY NodeInPlay
  <2> QED BY <2>1, NodeInPlay
<1>2. /\ Len(levels) \in Nat /\ DOMAIN actions(node) = 1 .. 2 + Len(levels)
      /\ actions(node)[1] = fold /\ actions(node)[2] = ccall
      /\ \A j \in 3 .. 2 + Len(levels) :
            /\ levels[j - 2] \in m + min_raise_size(node) .. arguments.stack
            /\ actions(node)[j] = levels[j - 2]
  BY <1>1, ActionsOfNode
<1>3. ~s.finished /\ stack[p] = arguments.stack
  BY <1>1, TwoPlayers DEF InPlay
<1>4. min_raise_size(node) = 0 => Len(levels) = 0
  BY <1>1, LevelsOfNode
<1> HIDE DEF node, levels, k
<1>5. CASE i = 1
  <2>1. a = [type |-> "fold", size |-> 0]
    BY <1>2, <1>5 DEF _bet_to_action, fold, ccall
  <2>2. s.spent[p] # m /\ s.spent[p] # stack[p]
    BY <1>1, <1>3, <1>5 DEF node
  <2> QED BY <2>1, <2>2, <1>1, <1>3, <1>5 DEF isValidAction, stateFinished, Action, ActionTypes
<1>6. CASE i = 2
  <2>1. a = [type |-> "call", size |-> 0]
    BY <1>2, <1>6 DEF _bet_to_action, fold, ccall
  <2> QED BY <2>1, <1>3, <1>6 DEF isValidAction, stateFinished, Action, ActionTypes
<1>7. CASE i # 1 /\ i # 2
  <2> DEFINE l == actions(node)[i]
             r == min_raise_size(node)
  <2>1. i \in 3 .. 2 + Len(levels)
    BY <1>2, <1>7 DEF node
  <2>2. r \in Nat /\ r # 0 /\ r <= max_raise_size(node) /\ m + max_raise_size(node) = arguments.stack
        /\ arguments.stack \in Nat /\ max_raise_size(node) \in Nat
    <3>1. r # 0
      BY <2>1, <1>4
    <3> QED BY <3>1, <1>1, BetsOfPlayers, TwoPlayers
  <2>3. l \in m + r .. arguments.stack
    BY <2>1, <1>2
  <2>4. l \in Nat /\ l # fold /\ l # ccall /\ m < l /\ l <= arguments.stack /\ m < arguments.stack
    BY <2>2, <2>3, <1>1 DEF fold, ccall
  <2>5. a = [type |-> "raise", size |-> l]
    <3> HIDE DEF l
    <3>1. _bet_to_action(l) = [type |-> "raise", size |-> l]
      BY <2>4 DEF _bet_to_action
    <3> QED BY <3>1 DEF l
  <2>6. CanAct(s, 0) /\ CanAct(s, 1)
    <3>1. \A x \in Players : ~s.playerFolded[x]
      BY DEF InPlay
    <3>2. s.spent[0] < arguments.stack /\ s.spent[1] < arguments.stack
      <4>1. p = 0 \/ p = 1
        BY <1>1
      <4> QED BY <4>1, <1>1, <2>2, <2>4
    <3> QED BY <3>1, <3>2, TwoPlayers DEF CanAct
  <2>7. raiseIsValid(s)
    <3>1. numRaises(s) < maxRaises[s.round] /\ RoomToRaise(s)
      BY <2>4, RoomForRaise
    <3>2. numActingPlayers(s) > 1
      BY <2>6, CountsOfTwo
    <3> QED BY <3>1, <3>2, <2>4, <1>1, <1>3 DEF raiseIsValid
  <2>8. SizeIsValid(s, [type |-> "raise", size |-> l])
    <3>1. s.minNoLimitRaiseTo \in Nat
      BY DEF InPlay, State
    <3>2. s.minNoLimitRaiseTo <= m + max(m - s.spent[p], arguments.ante)
      BY <2>4 DEF InPlay, BetsLeaveRoom, k
    <3>3. r = min(max_raise_size(node), max(m - s.spent[p], arguments.ante))
      BY <1>1 DEF min_raise_size
    <3>4. max(m - s.spent[p], arguments.ante) \in Nat
      BY <1>1, TwoPlayers DEF max
    <3>5. minSize(s) = IF s.minNoLimitRaiseTo > arguments.stack THEN arguments.stack
                       ELSE s.minNoLimitRaiseTo
      BY <1>1, <1>3 DEF minSize, maxSize
    <3>6. maxSize(s) = arguments.stack
      BY <1>1, <1>3 DEF maxSize
    <3>7. l \in Nat /\ m + r <= l /\ l <= arguments.stack
      BY <2>2, <2>3, <2>4, <1>1
    <3> DEFINE d == max(m - s.spent[p], arguments.ante)
               x == max_raise_size(node)
    <3>8. minSize(s) <= l
      <4> HIDE DEF l, r, d, x, m
      <4>1. d \in Nat /\ x \in Nat /\ m \in Nat /\ m + x = arguments.stack
            /\ r = (IF x < d THEN x ELSE d) /\ s.minNoLimitRaiseTo <= m + d
        BY <3>2, <3>3, <3>4, <2>2, <1>1 DEF d, x, min
      <4>2. CASE x < d
        BY <4>1, <4>2, <3>1, <3>5, <3>7
      <4>3. CASE ~(x < d)
        BY <4>1, <4>3, <3>1, <3>5, <3>7
      <4> QED BY <4>2, <4>3
    <3>9. minSize(s) \in Nat
      BY <3>1, <3>5, <2>2
    <3> HIDE DEF l
    <3> QED BY <3>6, <3>7, <3>8, <3>9 DEF SizeIsValid
  <2> HIDE DEF l
  <2>9. i > 2
    BY <2>1, <1>2
  <2> QED BY <2>4, <2>5, <2>7, <2>8, <2>9, <1>3, <1>7 DEF isValidAction, stateFinished, Action, ActionTypes, l
<1> QED BY <1>5, <1>6, <1>7

-----------------------------------------------------------------------------
(* The two games agree.                                                    *)

\* What TreeIsTheGame says of the i-th child of a node.
ChildIsNext(s, i) ==
    LET node == nodeOf(s)
        child == children(node)[i]
        a == _bet_to_action(actions(node)[i])
        after == doAction(s, a)
    IN /\ isValidAction(s, FALSE, a)
       /\ isTerminal(child) <=> after.finished
       /\ child.kind = "fold" <=> numFolded(after) = 1
       /\ child.current_player = chance <=> ~after.finished /\ after.round > s.round
       /\ child.kind # "fold" => child.bets = <<after.spent[0], after.spent[1]>>
       /\ child.kind \in {"inner", "check"} => child.current_player = currentPlayer(after) + 1

LEMMA FoldChild ==
  ASSUME NEW s, Ready(s), InPlay(s), ~isEven(nodeOf(s))
  PROVE  ChildIsNext(s, 1)
<1> DEFINE node == nodeOf(s)
           child == children(node)[1]
           a == _bet_to_action(actions(node)[1])
           after == doAction(s, a)
<1>1. PlayerNode(node) /\ node.current_player \in {1, 2}
  BY NodeInPlay DEF PlayerNode
<1>2. 1 \in DOMAIN actions(node) /\ child = [opponentActs(node) EXCEPT !.kind = "fold"]
  BY <1>1, ActionsOfNode
<1>3. isValidAction(s, FALSE, a) /\ a \in Action /\ a.type = "fold"
  BY <1>2, TreeActionIsValid
<1>4. after.finished /\ numFolded(after) = 1
  <2> HIDE DEF a
  <2>1. IsOver(after) /\ numFolded(after) = 1
    BY <1>3, FoldInPlay
  <2> QED BY <2>1 DEF IsOver
<1>5. child.kind = "fold" /\ child.current_player = 3 - node.current_player
  BY <1>2 DEF opponentActs, nodeOf
<1>6. child.current_player # chance
  BY <1>1, <1>5 DEF chance
<1> HIDE DEF node, child, a, after
<1> QED BY <1>3, <1>4, <1>5, <1>6 DEF ChildIsNext, isTerminal, node, child, a, after

LEMMA CallChild ==
  ASSUME NEW s, Ready(s), InPlay(s)
  PROVE  ChildIsNext(s, 2)
<1> DEFINE node == nodeOf(s)
           child == children(node)[2]
           a == _bet_to_action(actions(node)[2])
           after == doAction(s, a)
           k == Len(acts(s))
           p == k % 2
           m == s.maxSpent
<1> SUFFICES /\ isValidAction(s, FALSE, a)
             /\ isTerminal(child) <=> after.finished
             /\ child.kind = "fold" <=> numFolded(after) = 1
             /\ child.current_player = chance <=> ~after.finished /\ after.round > s.round
             /\ child.kind # "fold" => child.bets = <<after.spent[0], after.spent[1]>>
             /\ child.kind \in {"inner", "check"} => child.current_player = currentPlayer(after) + 1
  BY DEF ChildIsNext
<1>1. /\ PlayerNode(node) /\ k \in Nat /\ p \in {0, 1} /\ p = currentPlayer(s)
      /\ s.round \in {0, 1} /\ m \in Nat /\ m <= arguments.stack
      /\ most(node.bets) = m
      /\ isEven(node) => m < arguments.stack /\ (p = 0 <=> k = 0)
      /\ ~isEven(node) => k # 0
  BY NodeInPlay
<1>2. 2 \in DOMAIN actions(node) /\ child = ccallChild(node)
  <2>1. LET levels == get_possible_bets(node)
        IN /\ Len(levels) \in Nat /\ DOMAIN actions(node) = 1 .. 2 + Len(levels)
           /\ children(node)[2] = ccallChild(node)
    BY <1>1, ActionsOfNode
  <2> HIDE DEF node
  <2> QED BY <2>1
<1>3. isValidAction(s, FALSE, a) /\ a \in Action /\ a.type = "call"
  <2>1. ASSUME NEW i \in DOMAIN actions(node), i = 2
        PROVE  LET b == _bet_to_action(actions(node)[i])
               IN isValidAction(s, FALSE, b) /\ b \in Action /\ b.type = "call"
    <3>1. i = 1 => ~isEven(node)
      BY <2>1
    <3> DEFINE b == _bet_to_action(actions(node)[i])
    <3>2. /\ isValidAction(s, FALSE, b) /\ b \in Action
          /\ b.type = IF i = 1 THEN "fold" ELSE IF i = 2 THEN "call" ELSE "raise"
      BY <3>1, TreeActionIsValid
    <3> HIDE DEF b
    <3>3. b.type = "call"
      BY <3>2, <2>1
    <3> QED BY <3>2, <3>3 DEF b
  <2> HIDE DEF node
  <2> QED BY <2>1, <1>2
<1>4. /\ IF after.finished THEN IsOver(after) ELSE InPlay(after)
      /\ after.finished <=> k # 0 /\ (s.round = 1 \/ m = arguments.stack)
      /\ numFolded(after) = 0
      /\ after.spent[0] = m /\ after.spent[1] = m
      /\ ~after.finished => /\ after.round = IF k = 0 THEN s.round ELSE 1
                            /\ Len(acts(after)) = IF k = 0 THEN 1 ELSE 0
  <2> HIDE DEF a
  <2> QED BY <1>3, CallInPlay
<1>5. ~after.finished => currentPlayer(after) = Len(acts(after)) % 2
  BY <1>4, ActorInPlay
<1>6. /\ node.current_player = p + 1 /\ node.street = s.round + 1
      /\ node = [kind |-> "inner", street |-> node.street, current_player |-> node.current_player,
                 bets |-> node.bets]
      /\ node.bets = <<s.spent[0], s.spent[1]>>
      /\ isEven(node) => s.spent[0] = m /\ s.spent[1] = m
  <2>1. node.current_player = p + 1 /\ node.street = s.round + 1 /\ node.bets = <<s.spent[0], s.spent[1]>>
        /\ node = [kind |-> "inner", street |-> node.street, current_player |-> node.current_player,
                   bets |-> node.bets]
    BY <1>1 DEF nodeOf
  <2>2. isEven(node) => ~betMade(s)
    BY NodeInPlay
  <2> HIDE DEF node
  <2> QED BY <2>1, <2>2 DEF InPlay
<1> HIDE DEF node, child, a, after, k, p, m
<1>7. CASE node.current_player = P1 /\ isEven(node)
  <2>1. child = [opponentActs(node) EXCEPT !.kind = "check"]
    BY <1>2, <1>7 DEF ccallChild
  <2>2. child.kind = "check" /\ child.current_player = 3 - node.current_player /\ child.bets = node.bets
    BY <2>1, <1>6 DEF opponentActs
  <2>3. k = 0 /\ p = 0
    BY <1>1, <1>6, <1>7 DEF P1
  <2>4. ~after.finished /\ after.round = s.round /\ currentPlayer(after) = 1
    <3>1. 1 % 2 = 1
      OBVIOUS
    <3> QED BY <2>3, <3>1, <1>4, <1>5
  <2>5. child.current_player = 2 /\ child.bets = <<m, m>>
    BY <2>2, <2>3, <1>6, <1>7
  <2>6. ~isTerminal(child)
    BY <2>2 DEF isTerminal
  <2>7. child.current_player # chance /\ ~(after.round > s.round)
    BY <2>4, <2>5, <1>1 DEF chance
  <2>8. child.bets = <<after.spent[0], after.spent[1]>>
    BY <2>5, <1>4
  <2>9. child.current_player = currentPlayer(after) + 1 /\ child.kind # "fold" /\ numFolded(after) # 1
    BY <2>2, <2>4, <2>5, <1>4
  <2> QED BY <2>4, <2>6, <2>7, <2>8, <2>9, <1>3
<1>8. CASE ~(node.current_player = P1 /\ isEven(node)) /\ isTransition(node)
  <2>1. child = [called(node) EXCEPT !.kind = "chance", !.current_player = chance]
    BY <1>2, <1>8 DEF ccallChild
  <2>2. child.kind = "chance" /\ child.current_player = chance /\ child.bets = <<m, m>>
    BY <2>1, <1>1, <1>6 DEF called
  <2>3. k # 0
    BY <1>1, <1>6, <1>8 DEF P1
  <2>4. s.round = 0 /\ m < arguments.stack
    <3>1. node.street = 1 /\ (isEven(node) \/ m < arguments.stack)
      BY <1>1, <1>8 DEF isTransition
    <3> QED BY <3>1, <1>1, <1>6
  <2>5. ~after.finished /\ after.round = 1
    <3>1. m # arguments.stack
      BY <2>4, <1>1, TwoPlayers
    <3> QED BY <3>1, <2>3, <2>4, <1>4
  <2>6. ~isTerminal(child) /\ child.kind \notin {"inner", "check", "fold"}
    BY <2>2 DEF isTerminal
  <2>7. after.round > s.round
    BY <2>4, <2>5
  <2>8. child.bets = <<after.spent[0], after.spent[1]>> /\ numFolded(after) # 1
    BY <2>2, <1>4
  <2> QED BY <2>2, <2>5, <2>6, <2>7, <2>8, <1>3
<1>9. CASE ~(node.current_player = P1 /\ isEven(node)) /\ ~isTransition(node)
  <2>1. child = [called(opponentActs(node)) EXCEPT !.kind = "call"]
    BY <1>2, <1>9 DEF ccallChild
  <2>2. child.kind = "call" /\ child.current_player = 3 - node.current_player /\ child.bets = <<m, m>>
    BY <2>1, <1>1, <1>6 DEF called, opponentActs
  <2>3. k # 0
    BY <1>1, <1>6, <1>9 DEF P1
  <2>4. s.round = 1 \/ m = arguments.stack
    <3>1. node.street = 1 => ~(node.current_player = P2 /\ isEven(node))
      BY <1>9 DEF isTransition
    <3>2. node.current_player = P1 \/ node.current_player = P2
      BY <1>1, <1>6 DEF P1, P2
    <3>3. node.street = 1 => ~isEven(node)
      BY <3>1, <3>2, <1>9
    <3>4. node.street = 1 => ~(m < arguments.stack)
      BY <3>3, <1>1, <1>9 DEF isTransition
    <3> QED BY <3>4, <1>1, <1>6, TwoPlayers
  <2>5. after.finished
    BY <2>3, <2>4, <1>4
  <2>6. isTerminal(child) /\ child.kind \notin {"inner", "check", "fold"}
    BY <2>2 DEF isTerminal
  <2>7. child.current_player # chance
    BY <2>2, <1>1, <1>6 DEF chance
  <2>8. child.bets = <<after.spent[0], after.spent[1]>> /\ numFolded(after) # 1
    BY <2>2, <1>4
  <2> QED BY <2>2, <2>5, <2>6, <2>7, <2>8, <1>3
<1> QED BY <1>7, <1>8, <1>9

LEMMA BetChild ==
  ASSUME NEW s, Ready(s), InPlay(s), NEW i \in DOMAIN children(nodeOf(s)), i > 2
  PROVE  ChildIsNext(s, i)
<1> DEFINE node == nodeOf(s)
           levels == get_possible_bets(node)
           child == children(node)[i]
           a == _bet_to_action(actions(node)[i])
           after == doAction(s, a)
           k == Len(acts(s))
           p == k % 2
           m == s.maxSpent
           l == actions(node)[i]
<1> SUFFICES /\ isValidAction(s, FALSE, a)
             /\ isTerminal(child) <=> after.finished
             /\ child.kind = "fold" <=> numFolded(after) = 1
             /\ child.current_player = chance <=> ~after.finished /\ after.round > s.round
             /\ child.kind # "fold" => child.bets = <<after.spent[0], after.spent[1]>>
             /\ child.kind \in {"inner", "check"} => child.current_player = currentPlayer(after) + 1
  BY DEF ChildIsNext
<1>1. /\ PlayerNode(node) /\ k \in Nat /\ p \in {0, 1} /\ p = currentPlayer(s)
      /\ m \in Nat /\ opponent_bet(node) = m
  BY NodeInPlay
<1>2. i \in DOMAIN actions(node) /\ child = betChild(node, l) /\ l \in Int /\ i # 1 /\ i # 2
  <2>1. /\ Len(levels) \in Nat /\ DOMAIN actions(node) = 1 .. 2 + Len(levels)
        /\ DOMAIN children(node) = 1 .. 2 + Len(levels)
        /\ \A j \in 3 .. 2 + Len(levels) :
              /\ levels[j - 2] \in opponent_bet(node) + min_raise_size(node) .. arguments.stack
              /\ children(node)[j] = betChild(node, levels[j - 2])
              /\ actions(node)[j] = levels[j - 2]
    BY <1>1, ActionsOfNode
  <2>2. opponent_bet(node) \in Nat /\ min_raise_size(node) \in Nat
    BY <1>1, BetsOfPlayers
  <2> HIDE DEF node, levels
  <2>3. i \in 3 .. 2 + Len(levels) /\ i \in 1 .. 2 + Len(levels)
    BY <2>1 DEF node
  <2> QED BY <2>1, <2>2, <2>3
<1>3. isValidAction(s, FALSE, a) /\ a \in Action /\ a.type = "raise" /\ a.size = l
  BY <1>2, TreeActionIsValid
<1>4. /\ InPlay(after) /\ numFolded(after) = 0 /\ after.round = s.round /\ Len(acts(after)) = k + 1
      /\ after.spent[p] = l /\ after.spent[1 - p] = m
  <2> HIDE DEF a, l
  <2> QED BY <1>3, RaiseInPlay
<1>5. ~after.finished /\ currentPlayer(after) = (k + 1) % 2 /\ after.round = s.round
  <2> DEFINE n == Len(acts(after))
  <2>1. InPlay(after) /\ after.round = s.round /\ n = k + 1
    BY <1>4
  <2> HIDE DEF after
  <2>2. ~after.finished
    BY <2>1 DEF InPlay
  <2>3. currentPlayer(after) = n % 2
    BY <2>1, ActorInPlay
  <2> HIDE DEF n
  <2> QED BY <2>1, <2>2, <2>3
<1>6. node.current_player = p + 1 /\ node.bets = <<s.spent[0], s.spent[1]>>
      /\ node = [kind |-> "inner", street |-> node.street, current_player |-> node.current_player,
                 bets |-> node.bets]
  BY <1>1 DEF nodeOf
<1>7. (k + 1) % 2 = 1 - p
  <2> HIDE DEF k
  <2> QED BY <1>1
<1> HIDE DEF node, child, a, after, k, m, l
<1>8. /\ child.kind = "inner" /\ child.current_player = 3 - node.current_player
      /\ child.bets = [node.bets EXCEPT ![node.current_player] = l, ![3 - node.current_player] = m]
  BY <1>1, <1>2, <1>6 DEF betChild, opponentActs
<1>9. child.bets = <<after.spent[0], after.spent[1]>>
  <2> HIDE DEF p
  <2>1. CASE p = 0
    BY <2>1, <1>4, <1>6, <1>8
  <2>2. CASE p = 1
    BY <2>2, <1>4, <1>6, <1>8
  <2> QED BY <2>1, <2>2, <1>1
<1>10. child.current_player = currentPlayer(after) + 1 /\ child.current_player # chance
  <2> HIDE DEF p
  <2> QED BY <1>1, <1>5, <1>6, <1>7, <1>8 DEF chance
<1>11. ~isTerminal(child) /\ ~(after.round > s.round)
  <2>1. s.round \in {0, 1}
    BY NodeInPlay
  <2> QED BY <2>1, <1>5, <1>8 DEF isTerminal
<1>12. child.kind # "fold" /\ numFolded(after) # 1
  BY <1>4, <1>8
<1> QED BY <1>3, <1>5, <1>9, <1>10, <1>11, <1>12

\* The children of a node are where the dealer goes.
LEMMA ChildrenAreNext ==
  ASSUME NEW s, Ready(s), InPlay(s),
         NEW i \in DOMAIN children(nodeOf(s)), i = 1 => ~isEven(nodeOf(s))
  PROVE  ChildIsNext(s, i)
<1>1. i = 1 \/ i = 2 \/ i > 2
  <2> DEFINE node == nodeOf(s)
             k == Len(get_possible_bets(node))
  <2>1. PlayerNode(node)
    BY NodeInPlay
  <2>2. k \in Nat /\ DOMAIN children(node) = 1 .. 2 + k
    BY <2>1, ActionsOfNode
  <2> HIDE DEF k
  <2> QED BY <2>2
<1> QED BY <1>1, FoldChild, CallChild, BetChild

-----------------------------------------------------------------------------
(* The invariant.                                                          *)

\* A line that is read and passed over.
Unasked(line) == ~isMyTurn(line) /\ parseAsserts(line)

\* What is written and not read: of the lines only the last can be a question,
\* and it is the state the dealer is in.
LinesInv ==
    /\ handId \in Nat /\ handId <= matchHands
    /\ playing => Ready(state) /\ InPlay(state)
    /\ \E S : inbox \in Seq(S)
    /\ \A i \in 1 .. Len(inbox) : Unasked(inbox[i]) \/ (i = Len(inbox) /\ playing)
    /\ playing /\ inbox # << >> => inbox[Len(inbox)] = printed(handId, state)

\* An answer is on its way: to the state the dealer is in, whose node is the one
\* that was solved.
AnswerInv ==
    reply # << >> =>
        /\ myTurn /\ inbox = << >> /\ last.hand_number = handId
        /\ resolver.resolving = nodeOf(state)
        /\ reply = <<[line |-> printed(handId, state),
                      action |-> _bet_to_action(resolver.last_bet)]>>

\* The way from the node that was solved leads on, if the hand does.
WayOn(cr, answered) ==
    \E i \in DOMAIN actions(cr.resolving) :
        /\ actions(cr.resolving)[i] = cr.last_bet
        /\ i = 1 => ~isEven(cr.resolving)
        /\ answered => ~(i = 2 /\ isTerminal(children(cr.resolving)[2]))

\* DeepStack has been asked in this hand, or it has had no turn in it yet.
DecidedInv ==
    /\ last.street \in {1, 2} /\ last.street <= state.round + 1
    /\ resolver.last_node.street = last.street
    /\ resolver.decision_id \in Nat \ {0}
    /\ resolver.position = viewingPlayer(handId) + 1
    /\ WayOn(resolver, reply = << >>)
UndecidedInv ==
    reply = << >> /\ state.round = 0 /\ Len(acts(state)) <= viewingPlayer(handId)

ResolverInv ==
    /\ DOMAIN resolver = {"decision_id", "position", "last_node", "last_bet", "resolving",
                          "range", "bound"}
    /\ last.hand_number \in Int /\ last.hand_number <= handId
    /\ playing => IF last.hand_number = handId THEN DecidedInv ELSE UndecidedInv

IInv == LinesInv /\ AnswerInv /\ ResolverInv

\* A bet is answered in its round or the next, a first action in its own.
LEMMA RoundGoesOn ==
  ASSUME NEW s, Ready(s), InPlay(s), NEW a \in Action, isValidAction(s, FALSE, a),
         ~doAction(s, a).finished
  PROVE  LET e == doAction(s, a)
         IN /\ e.round \in {0, 1} /\ s.round \in {0, 1} /\ s.round <= e.round
            /\ Len(acts(s)) = 0 => e.round = s.round /\ Len(acts(e)) = 1
<1> DEFINE e == doAction(s, a)
           k == Len(acts(s))
<1>1. s.round \in {0, 1} /\ a.type \in {"fold", "call", "raise"} /\ k \in Nat
  <2>1. s.round \in {0, 1} /\ k \in Nat
    BY NodeInPlay
  <2> QED BY <2>1, StoreKeepsState
<1>2. CASE a.type = "fold"
  <2>1. IsOver(e)
    BY <1>2, FoldInPlay
  <2> QED BY <2>1 DEF IsOver
<1>3. CASE a.type = "call"
  <2>1. e.round = (IF k = 0 THEN s.round ELSE 1) /\ Len(acts(e)) = IF k = 0 THEN 1 ELSE 0
    BY <1>3, CallInPlay
  <2> HIDE DEF e, k
  <2>2. e.round \in {0, 1} /\ s.round <= e.round /\ (k = 0 => e.round = s.round /\ Len(acts(e)) = 1)
    BY <2>1, <1>1
  <2> QED BY <2>2, <1>1 DEF e, k
<1>4. CASE a.type = "raise"
  <2>1. e.round = s.round /\ Len(acts(e)) = k + 1
    BY <1>4, RaiseInPlay
  <2> HIDE DEF e, k
  <2>2. e.round \in {0, 1} /\ s.round <= e.round /\ (k = 0 => e.round = s.round /\ Len(acts(e)) = 1)
    BY <2>1, <1>1
  <2> QED BY <2>2, <1>1 DEF e, k
<1> QED BY <1>1, <1>2, <1>3, <1>4

\* Lines that are added to those of the inbox.
LEMMA LinesAdded ==
  ASSUME NEW S, NEW old \in Seq(S), NEW x, NEW y
  PROVE  LET one == old \o (<<x>> \o << >>)
             two == old \o (<<x>> \o <<y>>)
             n == Len(old)
         IN /\ n \in Nat
            /\ \E T : one \in Seq(T)
            /\ one # << >> /\ Len(one) = n + 1 /\ one[n + 1] = x
            /\ \A i \in 1 .. n : one[i] = old[i]
            /\ \E T : two \in Seq(T)
            /\ two # << >> /\ Len(two) = n + 2 /\ two[n + 1] = x /\ two[n + 2] = y
            /\ \A i \in 1 .. n : two[i] = old[i]
<1> DEFINE T == S \cup {x, y}
           n == Len(old)
           lines1 == <<x>> \o << >>
           lines2 == <<x>> \o <<y>>
           one == old \o lines1
           two == old \o lines2
<1>1. /\ x \in T /\ y \in T
      /\ old \in Seq(T) /\ n \in Nat
  <2>1. x \in T /\ y \in T
    OBVIOUS
  <2>2. old \in Seq(S)
    OBVIOUS
  <2>3. n \in Nat /\ old = [i \in 1 .. n |-> old[i]] /\ \A i \in 1 .. n : old[i] \in S
    BY ONLY <2>2
  <2>4. \A i \in 1 .. n : old[i] \in T
    BY <2>3
  <2> HIDE DEF T, n
  <2>5. old \in [1 .. n -> T]
    BY <2>3, <2>4
  <2> QED BY <2>1, <2>3, <2>5, FunctionIsSeq
<1> HIDE DEF T
<1>2. /\ <<x>> \in Seq(T) /\ Len(<<x>>) = 1 /\ <<x>>[1] = x
      /\ <<y>> \in Seq(T) /\ Len(<<y>>) = 1 /\ <<y>>[1] = y
      /\ << >> \in Seq(T) /\ Len(<< >>) = 0
  BY <1>1
<1>3. lines1 \in Seq(T) /\ Len(lines1) = 1 /\ lines1[1] = x
  BY <1>2, Concatenated
<1>4. lines2 \in Seq(T) /\ Len(lines2) = 2 /\ lines2[1] = x /\ lines2[2] = y
  BY <1>2, Concatenated
<1> HIDE DEF lines1, lines2
<1>5. /\ one \in Seq(T) /\ Len(one) = n + 1 /\ one[n + 1] = x
      /\ \A i \in 1 .. n : one[i] = old[i]
  BY <1>1, <1>3, Concatenated
<1>6. /\ two \in Seq(T) /\ Len(two) = n + 2 /\ two[n + 1] = x /\ two[n + 2] = y
      /\ \A i \in 1 .. n : two[i] = old[i]
  BY <1>1, <1>4, Concatenated
<1>7. one # << >> /\ two # << >>
  BY <1>1, <1>5, <1>6
<1> QED BY <1>1, <1>5, <1>6, <1>7 DEF lines1, lines2

\* The dealer writes: when nothing before is a question, only the last line is.
LEMMA DealKeepsLines ==
  ASSUME LinesInv, playing, NEW a \in Action, isValidAction(state, FALSE, a), Deal(a),
         \A i \in 1 .. Len(inbox) : Unasked(inbox[i])
  PROVE  /\ LinesInv'
         /\ IF doAction(state, a).finished THEN handId' = handId + 1 /\ state' = initState
            ELSE handId' = handId /\ state' = doAction(state, a)
<1> DEFINE e == doAction(state, a)
           n == Len(inbox)
           x == printed(handId, e)
           y == printed(handId + 1, initState)
<1>1. handId \in Nat /\ matchHands \in Nat /\ handId < matchHands /\ Ready(state) /\ InPlay(state)
  BY SettingsAgree DEF LinesInv, playing
<1>2. IF e.finished THEN IsOver(e) ELSE Ready(e) /\ InPlay(e)
  BY <1>1, ActionInPlay
<1>3. IF e.finished THEN handId' = handId + 1 /\ state' = initState
      ELSE handId' = handId /\ state' = e
  BY DEF Deal, stateFinished
<1>4. inbox' = inbox \o (<<x>> \o IF e.finished /\ handId + 1 < matchHands THEN <<y>> ELSE << >>)
  BY DEF Deal, stateFinished
<1>5. e.finished => Unasked(x)
  BY <1>1, <1>2, LastLineIsNoQuestion DEF Unasked
<1>6. PICK S : inbox \in Seq(S)
  BY DEF LinesInv
<1>7. /\ n \in Nat
      /\ \E T : inbox \o (<<x>> \o << >>) \in Seq(T)
      /\ inbox \o (<<x>> \o << >>) # << >> /\ Len(inbox \o (<<x>> \o << >>)) = n + 1
      /\ (inbox \o (<<x>> \o << >>))[n + 1] = x
      /\ \A i \in 1 .. n : (inbox \o (<<x>> \o << >>))[i] = inbox[i]
      /\ \E T : inbox \o (<<x>> \o <<y>>) \in Seq(T)
      /\ inbox \o (<<x>> \o <<y>>) # << >> /\ Len(inbox \o (<<x>> \o <<y>>)) = n + 2
      /\ (inbox \o (<<x>> \o <<y>>))[n + 1] = x /\ (inbox \o (<<x>> \o <<y>>))[n + 2] = y
      /\ \A i \in 1 .. n : (inbox \o (<<x>> \o <<y>>))[i] = inbox[i]
  BY <1>6, LinesAdded
<1> HIDE DEF e, n, x, y
<1>8. CASE ~e.finished
  <2>1. /\ \E T : inbox' \in Seq(T)
        /\ inbox' # << >> /\ Len(inbox') = n + 1 /\ inbox'[n + 1] = x
        /\ \A i \in 1 .. n : inbox'[i] = inbox[i]
    BY <1>4, <1>7, <1>8
  <2>2. x = printed(handId', state') /\ handId' = handId /\ Ready(state') /\ InPlay(state')
    BY <1>2, <1>3, <1>8 DEF x
  <2>3. playing'
    BY <1>1, <2>2 DEF playing
  <2>4. \A i \in 1 .. n + 1 : Unasked(inbox'[i]) \/ i = n + 1
    <3>1. \A i \in 1 .. n + 1 : i \in 1 .. n \/ i = n + 1
      BY <1>7
    <3> QED BY <3>1, <2>1 DEF n
  <2> QED BY <1>1, <1>3, <1>8, <2>1, <2>2, <2>3, <2>4 DEF LinesInv, e
<1>9. CASE e.finished /\ handId + 1 < matchHands
  <2>1. /\ \E T : inbox' \in Seq(T)
        /\ inbox' # << >> /\ Len(inbox') = n + 2 /\ inbox'[n + 1] = x /\ inbox'[n + 2] = y
        /\ \A i \in 1 .. n : inbox'[i] = inbox[i]
    BY <1>4, <1>7, <1>9
  <2>2. y = printed(handId', state') /\ handId' = handId + 1 /\ Ready(state') /\ InPlay(state')
    BY <1>3, <1>9, InitIsReady, InitInPlay DEF y
  <2>3. playing'
    BY <1>9, <2>2 DEF playing
  <2>4. \A i \in 1 .. n + 2 : Unasked(inbox'[i]) \/ i = n + 2
    <3>1. \A i \in 1 .. n + 2 : i \in 1 .. n \/ i = n + 1 \/ i = n + 2
      BY <1>7
    <3> QED BY <3>1, <2>1, <1>5, <1>9 DEF n
  <2>5. handId' \in Nat /\ handId' <= matchHands
    BY <1>1, <1>9, <2>2
  <2> QED BY <1>3, <1>9, <2>1, <2>2, <2>3, <2>4, <2>5 DEF LinesInv, e
<1>10. CASE e.finished /\ ~(handId + 1 < matchHands)
  <2>1. /\ \E T : inbox' \in Seq(T)
        /\ inbox' # << >> /\ Len(inbox') = n + 1 /\ inbox'[n + 1] = x
        /\ \A i \in 1 .. n : inbox'[i] = inbox[i]
    BY <1>4, <1>7, <1>10
  <2>2. handId' \in Nat /\ handId' <= matchHands /\ handId' = handId + 1
    BY <1>1, <1>3, <1>10
  <2>3. ~playing'
    BY <1>10, <2>2 DEF playing
  <2>4. \A i \in 1 .. n + 1 : Unasked(inbox'[i])
    <3>1. \A i \in 1 .. n + 1 : i \in 1 .. n \/ i = n + 1
      BY <1>7
    <3> QED BY <3>1, <2>1, <1>5, <1>10 DEF n
  <2> QED BY <1>3, <1>10, <2>1, <2>2, <2>3, <2>4 DEF LinesInv, e
<1> QED BY <1>8, <1>9, <1>10

LEMMA InitIInv == Init => IInv
<1> SUFFICES ASSUME Init PROVE IInv
  OBVIOUS
<1>1. /\ handId = 0 /\ state = initState /\ reply = << >> /\ last = noSituation
      /\ inbox = <<printed(0, initState)>>
  BY DEF Init
<1>2. matchHands \in Nat /\ 0 < matchHands
  BY SettingsAgree
<1>3. LinesInv
  <2>1. Len(inbox) = 1 /\ inbox # << >> /\ inbox[1] = printed(handId, state)
        /\ inbox \in Seq({printed(0, initState)})
    BY <1>1
  <2>2. playing /\ Ready(state) /\ InPlay(state) /\ handId \in Nat /\ handId <= matchHands
    BY <1>1, <1>2, InitIsReady, InitInPlay DEF playing
  <2>3. \A i \in 1 .. Len(inbox) : i = Len(inbox)
    BY <2>1
  <2> QED BY <2>1, <2>2, <2>3 DEF LinesInv
<1>4. AnswerInv
  BY <1>1 DEF AnswerInv
<1>5. UndecidedInv
  <2>1. Len(acts(initState)) = 0 /\ initState.round = 0
    BY InitStateFacts DEF initState
  <2>2. viewingPlayer(0) \in {0, 1}
    BY Views
  <2> QED BY <2>1, <2>2, <1>1 DEF UndecidedInv
<1>6. ResolverInv
  <2>1. last.hand_number = -1
    BY <1>1 DEF noSituation
  <2>2. DOMAIN resolver = {"decision_id", "position", "last_node", "last_bet", "resolving",
                           "range", "bound"}
    BY DEF Init
  <2> QED BY <2>1, <2>2, <1>1, <1>5 DEF ResolverInv
<1> QED BY <1>3, <1>4, <1>6 DEF IInv

\* A new hand, or one that goes on: whoever acts, what is known of it holds on.
LEMMA DealKeepsResolver ==
  ASSUME LinesInv, ResolverInv, playing, NEW a \in Action, isValidAction(state, FALSE, a),
         reply' = << >>, UNCHANGED player,
         IF doAction(state, a).finished THEN handId' = handId + 1 /\ state' = initState
         ELSE handId' = handId /\ state' = doAction(state, a),
         last.hand_number # handId => ~myTurn,
         last.hand_number = handId /\ ~doAction(state, a).finished => WayOn(resolver, TRUE)
  PROVE  ResolverInv'
<1> DEFINE e == doAction(state, a)
<1>1. /\ last' = last /\ resolver' = resolver /\ last.hand_number \in Int
      /\ last.hand_number <= handId /\ handId \in Nat
      /\ Ready(state) /\ InPlay(state)
      /\ DOMAIN resolver = {"decision_id", "position", "last_node", "last_bet", "resolving",
                            "range", "bound"}
  BY DEF player, LinesInv, ResolverInv
<1>2. CASE e.finished
  <2>1. handId' = handId + 1 /\ state' = initState
    BY <1>2
  <2>2. last'.hand_number # handId' /\ last'.hand_number \in Int /\ last'.hand_number <= handId'
    BY <1>1, <2>1
  <2>3. Len(acts(initState)) = 0 /\ initState.round = 0
    BY InitStateFacts DEF initState
  <2>4. viewingPlayer(handId') \in {0, 1}
    BY <1>1, <2>1, Views
  <2>5. UndecidedInv'
    BY <2>1, <2>3, <2>4 DEF UndecidedInv
  <2> QED BY <1>1, <2>2, <2>5 DEF ResolverInv
<1>3. CASE ~e.finished
  <2>1. handId' = handId /\ state' = e
    BY <1>3
  <2>2. /\ e.round \in {0, 1} /\ state.round \in {0, 1} /\ state.round <= e.round
        /\ Len(acts(state)) = 0 => e.round = state.round /\ Len(acts(e)) = 1
    BY <1>1, <1>3, RoundGoesOn
  <2> HIDE DEF e
  <2>3. CASE last.hand_number = handId
    <3>1. DecidedInv
      BY <2>3 DEF ResolverInv
    <3>2. WayOn(resolver, TRUE)
      BY <2>3, <1>3 DEF e
    <3>3. last.street <= e.round + 1 /\ last.street \in {1, 2}
      BY <2>2, <3>1 DEF DecidedInv
    <3>4. (reply = << >>)' = TRUE
      OBVIOUS
    <3>5. WayOn(resolver', reply' = << >>)
      <4>1. (reply' = << >>) = TRUE
        OBVIOUS
      <4> QED BY <1>1, <3>2, <4>1
    <3>6. DecidedInv'
      BY <1>1, <2>1, <3>1, <3>3, <3>5 DEF DecidedInv
    <3> QED BY <1>1, <2>1, <2>3, <3>6 DEF ResolverInv
  <2>4. CASE last.hand_number # handId
    <3>1. UndecidedInv /\ ~myTurn
      BY <2>4 DEF ResolverInv
    <3>2. /\ Len(acts(state)) \in Nat /\ currentPlayer(state) = Len(acts(state)) % 2
      BY <1>1, ActorInPlay
    <3>3. viewingPlayer(handId) \in {0, 1}
      BY <1>1, Views
    <3>4. currentPlayer(state) # viewingPlayer(handId)
      BY <3>1 DEF myTurn
    <3>5. Len(acts(state)) = 0 /\ viewingPlayer(handId) = 1
      <4> DEFINE k == Len(acts(state))
                 v == viewingPlayer(handId)
      <4>1. k \in Nat /\ v \in {0, 1} /\ k <= v /\ k % 2 # v
        BY <3>1, <3>2, <3>3, <3>4 DEF UndecidedInv
      <4> HIDE DEF k, v
      <4>2. k = 0 \/ k = 1
        BY <4>1
      <4>3. 0 % 2 = 0 /\ 1 % 2 = 1
        OBVIOUS
      <4>4. k = 0 /\ v = 1
        BY <4>1, <4>2, <4>3
      <4> QED BY <4>4 DEF k, v
    <3>7. reply' = << >> /\ state'.round = 0 /\ Len(acts(state')) = 1 /\ viewingPlayer(handId') = 1
      BY <2>1, <2>2, <3>1, <3>5 DEF UndecidedInv
    <3>6. UndecidedInv'
      BY <3>7 DEF UndecidedInv
    <3> QED BY <1>1, <2>1, <2>4, <3>6 DEF ResolverInv
  <2> QED BY <2>3, <2>4
<1> QED BY <1>2, <1>3

LEMMA OtherActsKeepsInv ==
  ASSUME IInv, OtherActs
  PROVE  IInv'
<1>1. LinesInv /\ AnswerInv /\ ResolverInv
  BY DEF IInv
<1>2. playing /\ ~myTurn /\ UNCHANGED <<reply, player>>
  BY DEF OtherActs
<1>3. PICK a \in Others : isValidAction(state, FALSE, a) /\ Deal(a)
  BY DEF OtherActs
<1>4. a \in Action
  BY TwoPlayers DEF Others, Action, ActionTypes
<1>5. reply = << >> /\ reply' = << >>
  BY <1>1, <1>2 DEF AnswerInv
<1>6. ASSUME NEW i \in 1 .. Len(inbox) PROVE Unasked(inbox[i])
  <2>1. Unasked(inbox[i]) \/ i = Len(inbox)
    BY <1>1 DEF LinesInv
  <2>2. CASE i = Len(inbox)
    <3>1. inbox # << >>
      BY <2>2
    <3>2. inbox[i] = printed(handId, state) /\ InPlay(state) /\ handId \in Nat
      BY <1>1, <1>2, <2>2, <3>1 DEF LinesInv
    <3>3. currentPlayer(state) # viewingPlayer(handId)
      BY <1>2 DEF myTurn
    <3> QED BY <3>2, <3>3, QuestionIsRead DEF Unasked
  <2> QED BY <2>1, <2>2
<1>7. /\ LinesInv'
      /\ IF doAction(state, a).finished THEN handId' = handId + 1 /\ state' = initState
         ELSE handId' = handId /\ state' = doAction(state, a)
  BY <1>1, <1>2, <1>3, <1>4, <1>6, DealKeepsLines
<1>8. AnswerInv'
  BY <1>5 DEF AnswerInv
<1>9. last.hand_number = handId => WayOn(resolver, TRUE)
  <2>1. last.hand_number = handId => WayOn(resolver, reply = << >>)
    BY <1>1, <1>2 DEF ResolverInv, DecidedInv
  <2>2. (reply = << >>) = TRUE
    BY <1>5
  <2> QED BY <2>1, <2>2
<1>10. ResolverInv'
  BY <1>1, <1>2, <1>3, <1>4, <1>5, <1>7, <1>9, DealKeepsResolver
<1> QED BY <1>7, <1>8, <1>10 DEF IInv

\* The answer is what was solved for, so the dealer mends nothing.
LEMMA AnswerIsValid ==
  ASSUME IInv, reply # << >>
  PROVE  LET a == _bet_to_action(resolver.last_bet)
         IN /\ myTurn /\ playing /\ InPlay(state) /\ Ready(state)
            /\ reply = <<[line |-> printed(handId, state), action |-> a]>>
            /\ inbox = << >> /\ last.hand_number = handId
            /\ a \in Action /\ isValidAction(state, FALSE, a)
            /\ isValidAction(state, TRUE, a) /\ fixedAction(state, a) = a
            /\ ~doAction(state, a).finished => WayOn(resolver, TRUE)
<1> DEFINE a == _bet_to_action(resolver.last_bet)
           node == nodeOf(state)
<1>1. /\ myTurn /\ playing /\ inbox = << >> /\ last.hand_number = handId
      /\ resolver.resolving = node
      /\ reply = <<[line |-> printed(handId, state), action |-> a]>>
  BY DEF IInv, AnswerInv, myTurn
<1>2. InPlay(state) /\ Ready(state)
  BY <1>1 DEF IInv, LinesInv
<1>3. WayOn(resolver, reply = << >>)
  BY <1>1 DEF IInv, ResolverInv, DecidedInv
<1>4. PICK i \in DOMAIN actions(node) :
         actions(node)[i] = resolver.last_bet /\ (i = 1 => ~isEven(node))
  BY <1>1, <1>3 DEF WayOn
<1>5. a \in Action /\ isValidAction(state, FALSE, a)
  BY <1>2, <1>4, TreeActionIsValid
<1>6. isValidAction(state, TRUE, a)
  BY <1>5 DEF isValidAction
<1>7. fixedAction(state, a) = a
  <2>1. a = [type |-> a.type, size |-> a.size] /\ a.type \in {"fold", "call", "raise"}
        /\ (a.type # "raise" => a.size = 0) /\ a.size \in Int
    <3>1. \A b : LET c == _bet_to_action(b)
                 IN c = [type |-> c.type, size |-> c.size] /\ c.type \in {"fold", "call", "raise"}
                    /\ (c.type # "raise" => c.size = 0)
      BY DEF _bet_to_action
    <3>2. a.size \in Int
      BY <1>5 DEF Action
    <3> QED BY <3>1, <3>2
  <2> HIDE DEF a
  <2>2. CASE a.type = "raise"
    <3>1. a.size \in minSize(state) .. maxSize(state)
      BY <1>5, <2>2, TwoPlayers DEF isValidAction, SizeIsValid
    <3>2. minSize(state) \in Int /\ maxSize(state) \in Int
      BY <1>2, RaiseSizes
    <3>3. ~(a.size < minSize(state)) /\ ~(a.size > maxSize(state))
      BY <3>1, <3>2
    <3> QED BY <2>2, <3>3 DEF fixedAction
  <2>3. CASE a.type # "raise"
    BY <2>1, <2>3 DEF fixedAction
  <2> QED BY <2>2, <2>3
<1>8. ASSUME ~doAction(state, a).finished PROVE WayOn(resolver, TRUE)
  <2>1. i = 2 => ~isTerminal(children(node)[2])
    <3>1. i = 2 => a = _bet_to_action(actions(node)[2])
      BY <1>4
    <3>2. isTerminal(children(node)[2]) <=> doAction(state, _bet_to_action(actions(node)[2])).finished
      BY <1>2, CallChild DEF ChildIsNext
    <3> QED BY <1>8, <3>1, <3>2
  <2> QED BY <1>1, <1>4, <2>1 DEF WayOn
<1> HIDE DEF a
<1> QED BY <1>1, <1>2, <1>5, <1>6, <1>7, <1>8 DEF a

LEMMA TakesReplyKeepsInv ==
  ASSUME IInv, TakesReply
  PROVE  IInv'
<1> DEFINE a == _bet_to_action(resolver.last_bet)
<1>1. LinesInv /\ AnswerInv /\ ResolverInv
  BY DEF IInv
<1>2. reply # << >> /\ reply' = << >> /\ UNCHANGED player
  BY DEF TakesReply
<1>3. /\ myTurn /\ playing /\ inbox = << >> /\ last.hand_number = handId
      /\ reply = <<[line |-> printed(handId, state), action |-> a]>>
      /\ a \in Action /\ isValidAction(state, FALSE, a)
      /\ isValidAction(state, TRUE, a) /\ fixedAction(state, a) = a
      /\ ~doAction(state, a).finished => WayOn(resolver, TRUE)
  BY <1>2, AnswerIsValid
<1> HIDE DEF a
<1>4. Deal(a)
  <2>1. reply[1].action = a
    BY <1>3
  <2> QED BY <1>3, <2>1 DEF TakesReply
<1>5. \A i \in 1 .. Len(inbox) : FALSE
  BY <1>3
<1>6. /\ LinesInv'
      /\ IF doAction(state, a).finished THEN handId' = handId + 1 /\ state' = initState
         ELSE handId' = handId /\ state' = doAction(state, a)
  BY <1>1, <1>3, <1>4, <1>5, DealKeepsLines
<1>7. AnswerInv'
  BY <1>2 DEF AnswerInv
<1>8. ResolverInv'
  BY <1>1, <1>2, <1>3, <1>6, DealKeepsResolver
<1> QED BY <1>6, <1>7, <1>8 DEF IInv

\* The first line of the inbox, when it is a question: the only line there is.
\* The resolver solves the node of the dealer's state, and none of its asserts
\* fails on the way.
LEMMA QuestionIsSolved ==
  ASSUME IInv, inbox # << >>, isMyTurn(Head(inbox))
  PROVE  LET line == Head(inbox)
             s == parse_state(line)
             node == parsed_state_to_node(s)
             cr == asked(s)
             resolved == _resolve_node(cr, node)
         IN /\ playing /\ myTurn /\ Ready(state) /\ InPlay(state) /\ reply = << >>
            /\ line = printed(handId, state) /\ Tail(inbox) = << >>
            /\ node = nodeOf(state) /\ s.hand_number = handId
            /\ cr = IF last.hand_number = handId THEN resolver
                    ELSE [resolver EXCEPT !.last_node = noNode, !.decision_id = 0,
                                          !.position = viewingPlayer(handId) + 1]
            /\ resolveAsserts(cr, node)
            /\ DOMAIN resolved = DOMAIN resolver /\ resolved.resolving = node
            /\ resolved.decision_id \in Nat
            /\ resolved.position = viewingPlayer(handId) + 1
<1> DEFINE line == Head(inbox)
           s == parse_state(line)
           node == parsed_state_to_node(s)
           cr == asked(s)
           resolved == _resolve_node(cr, node)
           v == viewingPlayer(handId)
           k == Len(acts(state))
<1> SUFFICES /\ playing /\ myTurn /\ Ready(state) /\ InPlay(state) /\ reply = << >>
             /\ line = printed(handId, state) /\ Tail(inbox) = << >>
             /\ node = nodeOf(state) /\ s.hand_number = handId
             /\ cr = IF last.hand_number = handId THEN resolver
                     ELSE [resolver EXCEPT !.last_node = noNode, !.decision_id = 0,
                                           !.position = v + 1]
             /\ resolveAsserts(cr, node)
             /\ DOMAIN resolved = DOMAIN resolver /\ resolved.resolving = node
             /\ resolved.decision_id \in Nat
             /\ resolved.position = v + 1
  OBVIOUS
<1>1. Len(inbox) = 1 /\ playing /\ line = printed(handId, state) /\ Tail(inbox) = << >>
  <2>1. PICK S : inbox \in Seq(S)
    BY DEF IInv, LinesInv
  <2>2. 1 \in 1 .. Len(inbox) /\ line = inbox[1]
    BY <2>1
  <2>3. ~Unasked(inbox[1])
    BY <2>2 DEF Unasked
  <2>4. 1 = Len(inbox) /\ playing
    BY <2>2, <2>3 DEF IInv, LinesInv
  <2>5. inbox[Len(inbox)] = printed(handId, state)
    BY <2>4 DEF IInv, LinesInv
  <2>6. Tail(inbox) = << >>
    <3> DEFINE rest == Tail(inbox)
    <3>1. Len(rest) = 0 /\ rest \in Seq(S)
      BY <2>1, <2>4
    <3> HIDE DEF rest
    <3>2. rest = << >>
      BY <3>1
    <3> QED BY <3>2 DEF rest
  <2> QED BY <2>2, <2>4, <2>5, <2>6
<1>2. handId \in Nat /\ Ready(state) /\ InPlay(state) /\ v \in {0, 1} /\ reply = << >>
  <2>1. handId \in Nat /\ Ready(state) /\ InPlay(state)
    BY <1>1 DEF IInv, LinesInv
  <2>2. reply = << >>
    BY DEF IInv, AnswerInv
  <2> QED BY <2>1, <2>2, Views
<1>3. myTurn /\ node = nodeOf(state)
  <2>1. isMyTurn(printed(handId, state))
    BY <1>1
  <2>2. currentPlayer(state) = v
    BY <1>2, <2>1, QuestionIsRead
  <2>3. parsed_state_to_node(parse_state(printed(handId, state))) = nodeOf(state)
    BY <1>2, <2>2, QuestionIsRead
  <2> QED BY <1>1, <2>2, <2>3 DEF myTurn
<1>4. s.hand_number = handId /\ s.position = v + 1
  <2>1. line.hand_id = handId /\ line.position = v
    BY <1>1 DEF printed
  <2> QED BY <2>1 DEF parse_state
<1>5. node.street = s.current_street /\ node.current_player = v + 1 /\ node.street = state.round + 1
  <2>1. node.street = s.current_street
    BY DEF parsed_state_to_node
  <2> QED BY <2>1, <1>3 DEF nodeOf, myTurn
<1>6. state.round \in {0, 1} /\ k \in Nat /\ v = k % 2
  <2>1. state.round \in {0, 1} /\ k \in Nat /\ currentPlayer(state) = k % 2
    BY <1>2, NodeInPlay
  <2> QED BY <2>1, <1>3 DEF myTurn
<1>7. /\ DOMAIN resolver = {"decision_id", "position", "last_node", "last_bet", "resolving",
                            "range", "bound"}
      /\ last.hand_number \in Int /\ last.hand_number <= handId
      /\ IF last.hand_number = handId THEN DecidedInv ELSE UndecidedInv
  BY <1>1 DEF IInv, ResolverInv
<1> HIDE DEF line, s, node, v, k
<1>8. CASE last.hand_number = handId
  <2>1. DecidedInv
    BY <1>7, <1>8
  <2>2. /\ last.street \in {1, 2} /\ last.street <= state.round + 1
        /\ resolver.last_node.street = last.street
        /\ resolver.decision_id \in Nat /\ resolver.decision_id # 0
        /\ resolver.position = v + 1
        /\ WayOn(resolver, reply = << >>)
    BY <2>1 DEF DecidedInv, v
  <2>3. ~isNewHand(s)
    <3>1. last # noSituation
      BY <1>2, <1>8 DEF noSituation
    <3>2. ~(s.current_street < last.street)
      BY <2>2, <1>5, <1>6
    <3> QED BY <3>1, <3>2, <1>4, <1>8 DEF isNewHand
  <2>4. cr = resolver
    BY <2>3 DEF asked
  <2> HIDE DEF cr
  <2>5. resolved = [_update_invariant(cr, node) EXCEPT !.resolving = node]
    BY <2>2, <2>4 DEF _resolve_node, isFirstDecision
  <2>6. /\ DOMAIN _update_invariant(cr, node) = DOMAIN resolver
        /\ _update_invariant(cr, node).decision_id = resolver.decision_id
        /\ _update_invariant(cr, node).position = resolver.position
    BY <2>2, <2>4, <1>7 DEF _update_invariant
  <2>7. /\ DOMAIN resolved = DOMAIN resolver /\ resolved.resolving = node
        /\ resolved.decision_id \in Nat
        /\ resolved.position = v + 1
    <3> DEFINE u == _update_invariant(cr, node)
    <3>1. resolved = [u EXCEPT !.resolving = node] /\ "resolving" \in DOMAIN u
      BY <2>5, <2>6, <1>7
    <3> HIDE DEF u, resolved
    <3>2. /\ DOMAIN resolved = DOMAIN u /\ resolved.resolving = node
          /\ resolved.decision_id = u.decision_id /\ resolved.position = u.position
      BY <3>1, <2>6, <1>7 DEF u
    <3> QED BY <3>2, <2>2, <2>6 DEF u
  <2>8. resolveAsserts(cr, node)
    <3>1. cr.last_node # noNode
      BY <2>2, <2>4 DEF noNode
    <3>2. node.current_player = cr.position
      BY <2>2, <2>4, <1>5
    <3>3. CASE cr.last_node.street # node.street
      <4>1. cr.last_node.street + 1 = node.street
        BY <3>3, <2>2, <2>4, <1>5, <1>6
      <4>2. \E i \in DOMAIN actions(cr.resolving) :
               /\ actions(cr.resolving)[i] = cr.last_bet
               /\ ~(i = 2 /\ isTerminal(children(cr.resolving)[2]))
        <5>1. reply = << >>
          BY <1>2
        <5> QED BY <5>1, <2>2, <2>4 DEF WayOn
      <4> QED BY <3>1, <3>2, <3>3, <4>1, <4>2 DEF resolveAsserts
    <3>4. CASE cr.last_node.street = node.street
      BY <3>1, <3>2, <3>4, <2>2, <2>4 DEF resolveAsserts
    <3> QED BY <3>3, <3>4
  <2> QED BY <1>1, <1>2, <1>3, <1>4, <1>8, <2>4, <2>7, <2>8
<1>9. CASE last.hand_number # handId
  <2>1. state.round = 0 /\ k <= v
    BY <1>7, <1>9 DEF UndecidedInv, k, v
  <2>2. isNewHand(s)
    BY <1>4, <1>9 DEF isNewHand
  <2>3. cr = [resolver EXCEPT !.last_node = noNode, !.decision_id = 0, !.position = v + 1]
    BY <2>2, <1>4 DEF asked, start_new_hand
  <2> HIDE DEF cr
  <2>4. /\ DOMAIN cr = DOMAIN resolver /\ cr.last_node = noNode /\ cr.decision_id = 0
        /\ cr.position = v + 1
    BY <2>3, <1>7
  <2>5. CASE v = 0
    <3>1. isFirstDecision(cr)
      BY <2>4, <2>5 DEF isFirstDecision, P1
    <3>2. resolved = [cr EXCEPT !.range = starting_player_range, !.resolving = first_node]
      BY <3>1 DEF _resolve_node
    <3>3. nodeOf(state) = first_node
      <4>1. k = 0
        BY <2>1, <2>5, <1>6
      <4>2. state.spent[0] = arguments.ante /\ state.spent[1] = arguments.ante
        <5>1. ~betMade(state)
          BY <4>1, <1>2, ActorInPlay DEF betMade, k
        <5>2. lastRaise(allActions(state), 0) = arguments.ante
          BY LastRaise
        <5>3. Len(allActions(state)) = 0
          <6>1. state \in State /\ Len(allActions(state)) = Len(state.action[0]) + Len(state.action[1])
            BY <1>2, ActionsAreRead DEF InPlay
          <6>2. Len(state.action[0]) = 0
            BY <4>1, <2>1 DEF k, acts
          <6>3. state.action[1] = << >>
            BY <1>2, <2>1 DEF InPlay
          <6> QED BY <6>1, <6>2, <6>3
        <5> QED BY <1>2, <5>1, <5>2, <5>3 DEF InPlay
      <4> QED BY <4>2, <1>3, <1>5, <2>1, <2>5 DEF nodeOf, first_node, P1
    <3>4. resolveAsserts(cr, node)
      BY <3>1 DEF resolveAsserts
    <3>5. /\ DOMAIN resolved = DOMAIN resolver /\ resolved.resolving = node
          /\ resolved.decision_id \in Nat /\ resolved.position = v + 1
      <4> HIDE DEF resolved
      <4> QED BY <3>2, <3>3, <2>4, <1>3, <1>7
    <3> QED BY <1>1, <1>2, <1>3, <1>4, <1>9, <2>3, <3>4, <3>5
  <2>6. CASE v = 1
    <3>1. ~isFirstDecision(cr)
      BY <2>4, <2>6 DEF isFirstDecision, P1
    <3>2. resolved = [_update_invariant(cr, node) EXCEPT !.resolving = node]
      BY <3>1 DEF _resolve_node
    <3>3. _update_invariant(cr, node) =
            [cr EXCEPT !.range = starting_player_range, !.bound = starting_cfvs_p1]
      BY <2>4 DEF _update_invariant
    <3>4. /\ DOMAIN resolved = DOMAIN resolver /\ resolved.resolving = node
          /\ resolved.decision_id \in Nat /\ resolved.position = v + 1
      <4> HIDE DEF resolved
      <4> QED BY <3>2, <3>3, <2>4, <1>7
    <3>5. resolveAsserts(cr, node)
      BY <2>1, <2>4, <2>6, <1>5 DEF resolveAsserts, P2
    <3> QED BY <1>1, <1>2, <1>3, <1>4, <1>9, <2>3, <3>4, <3>5
  <2> QED BY <2>5, <2>6, <1>2
<1> QED BY <1>8, <1>9

LEMMA OurTurnKeepsInv ==
  ASSUME IInv, OurTurn
  PROVE  IInv'
<1> DEFINE line == Head(inbox)
           s == parse_state(line)
           node == parsed_state_to_node(s)
           resolved == _resolve_node(asked(s), node)
<1>1. /\ inbox # << >> /\ isMyTurn(line)
      /\ last' = [hand_number |-> s.hand_number, street |-> node.street]
      /\ inbox' = Tail(inbox) /\ UNCHANGED dealer
  BY DEF OurTurn
<1>2. PICK bet \in playable(resolved.resolving) :
         /\ resolver' = sampled(resolved, node, bet)
         /\ reply' = <<[line |-> line, action |-> _bet_to_action(bet)]>>
  BY DEF OurTurn
<1>3. /\ playing /\ myTurn /\ Ready(state) /\ InPlay(state)
      /\ line = printed(handId, state) /\ Tail(inbox) = << >>
      /\ node = nodeOf(state) /\ s.hand_number = handId
      /\ DOMAIN resolved = DOMAIN resolver /\ resolved.resolving = node
      /\ resolved.decision_id \in Nat
      /\ resolved.position = viewingPlayer(handId) + 1
  BY <1>1, QuestionIsSolved
<1> HIDE DEF line, s, node, resolved
<1>4. handId' = handId /\ state' = state /\ inbox' = << >>
  BY <1>1, <1>3 DEF dealer
<1>5. DOMAIN resolver = {"decision_id", "position", "last_node", "last_bet", "resolving",
                         "range", "bound"}
      /\ handId \in Nat /\ handId <= matchHands
  BY DEF IInv, ResolverInv, LinesInv
<1>6. /\ DOMAIN resolver' = DOMAIN resolver
      /\ resolver'.last_bet = bet /\ resolver'.resolving = node
      /\ resolver'.decision_id = resolved.decision_id + 1
      /\ resolver'.last_node = node
      /\ resolver'.position = viewingPlayer(handId) + 1
  BY <1>2, <1>3, <1>5 DEF sampled
<1>7. \E i \in DOMAIN actions(node) : actions(node)[i] = bet /\ (i = 1 => ~isEven(node))
  <2>1. PlayerNode(node)
    BY <1>3, NodeInPlay
  <2>2. actions(node)[1] = fold
    BY <2>1, ActionsOfNode
  <2>3. bet \in Range(actions(node)) /\ (isEven(node) => bet # fold)
    BY <1>2, <1>3 DEF playable
  <2>4. PICK i \in DOMAIN actions(node) : actions(node)[i] = bet
    BY <2>3 DEF Range
  <2> QED BY <2>2, <2>3, <2>4
<1>8. LinesInv'
  <2>1. Len(inbox') = 0 /\ inbox' \in Seq({})
    BY <1>4
  <2>2. \A i \in 1 .. Len(inbox') : FALSE
    BY <2>1
  <2>3. playing'
    BY <1>3, <1>4 DEF playing
  <2> QED BY <2>1, <2>2, <2>3, <1>3, <1>4, <1>5 DEF LinesInv
<1>9. myTurn' /\ playing' /\ last'.hand_number = handId' /\ reply' # << >>
  BY <1>1, <1>2, <1>3, <1>4 DEF myTurn, playing
<1>10. AnswerInv'
  BY <1>2, <1>3, <1>4, <1>6, <1>9 DEF AnswerInv
<1>11. DecidedInv'
  <2>1. node.street = state.round + 1 /\ state.round \in {0, 1}
    BY <1>3, NodeInPlay DEF nodeOf
  <2>2. last'.street = node.street
    BY <1>1
  <2>3. last'.street \in {1, 2} /\ last'.street <= state'.round + 1
    BY <2>1, <2>2, <1>4
  <2>4. resolver'.decision_id \in Nat \ {0}
    BY <1>3, <1>6
  <2>5. WayOn(resolver', reply' = << >>)
    <3>1. ~(reply' = << >>)
      BY <1>9
    <3> QED BY <3>1, <1>6, <1>7 DEF WayOn
  <2> QED BY <2>2, <2>3, <2>4, <2>5, <1>4, <1>6 DEF DecidedInv
<1>12. ResolverInv'
  <2>1. last'.hand_number \in Int /\ last'.hand_number <= handId'
    BY <1>4, <1>5, <1>9
  <2> QED BY <2>1, <1>5, <1>6, <1>9, <1>11 DEF ResolverInv
<1> QED BY <1>8, <1>10, <1>12 DEF IInv

LEMMA NotOurTurnKeepsInv ==
  ASSUME IInv, NotOurTurn
  PROVE  IInv'
<1>1. inbox # << >> /\ inbox' = Tail(inbox) /\ UNCHANGED <<dealer, reply, player>>
  BY DEF NotOurTurn
<1>2. /\ handId' = handId /\ state' = state /\ reply' = reply /\ last' = last
      /\ resolver' = resolver
  BY <1>1 DEF dealer, player
<1>3. PICK S : inbox \in Seq(S)
  BY DEF IInv, LinesInv
<1> DEFINE n == Len(inbox)
           rest == Tail(inbox)
<1>4. /\ n \in Nat /\ n > 0 /\ rest \in Seq(S) /\ Len(rest) = n - 1
      /\ \A i \in 1 .. n - 1 : rest[i] = inbox[i + 1] /\ i + 1 \in 1 .. n
  BY <1>1, <1>3
<1> HIDE DEF n, rest
<1>5. inbox' = rest
  BY <1>1 DEF rest
<1>6. \A i \in 1 .. n : Unasked(inbox[i]) \/ (i = n /\ playing)
  BY DEF IInv, LinesInv, n
<1>7. LinesInv'
  <2>1. playing' <=> playing
    BY <1>2 DEF playing
  <2>2. \A i \in 1 .. n - 1 : Unasked(inbox'[i]) \/ (i = n - 1 /\ playing)
    <3> TAKE i \in 1 .. n - 1
    <3>1. i + 1 \in 1 .. n /\ inbox'[i] = inbox[i + 1]
      BY <1>4, <1>5
    <3>2. Unasked(inbox[i + 1]) \/ (i + 1 = n /\ playing)
      BY <1>6, <3>1
    <3> QED BY <3>1, <3>2, <1>4
  <2>3. playing /\ inbox' # << >> => inbox'[Len(inbox')] = printed(handId, state)
    <3> SUFFICES ASSUME playing, inbox' # << >> PROVE inbox'[Len(inbox')] = printed(handId, state)
      OBVIOUS
    <3>1. inbox[n] = printed(handId, state)
      BY <1>1 DEF IInv, LinesInv, n
    <3>2. n - 1 > 0
      <4>1. Len(rest) # 0
        BY <1>4, <1>5
      <4> QED BY <4>1, <1>4
    <3>3. n - 1 \in 1 .. n - 1 /\ n - 1 + 1 = n
      BY <3>2, <1>4
    <3> QED BY <3>1, <3>3, <1>4, <1>5
  <2>4. Len(inbox') = n - 1
    BY <1>4, <1>5
  <2>5. \E T : inbox' \in Seq(T)
    BY <1>4, <1>5
  <2>6. /\ handId \in Nat /\ handId <= matchHands
        /\ playing => Ready(state) /\ InPlay(state)
    BY DEF IInv, LinesInv
  <2> QED BY <2>1, <2>2, <2>3, <2>4, <2>5, <2>6, <1>2 DEF LinesInv
<1>8. AnswerInv'
  <2>1. reply = << >>
    BY <1>1 DEF IInv, AnswerInv
  <2> QED BY <2>1, <1>2 DEF AnswerInv
<1>9. ResolverInv'
  BY <1>2 DEF IInv, ResolverInv, DecidedInv, UndecidedInv, playing
<1> QED BY <1>7, <1>8, <1>9 DEF IInv

\* The invariant is kept by every step.
LEMMA StepKeepsIInv == IInv /\ [Next]_vars => IInv'
<1> SUFFICES ASSUME IInv, [Next]_vars PROVE IInv'
  OBVIOUS
<1>1. CASE OtherActs
  BY <1>1, OtherActsKeepsInv
<1>2. CASE TakesReply
  BY <1>2, TakesReplyKeepsInv
<1>3. CASE NotOurTurn
  BY <1>3, NotOurTurnKeepsInv
<1>4. CASE OurTurn
  BY <1>4, OurTurnKeepsInv
<1>5. CASE UNCHANGED vars
  <2>1. /\ handId' = handId /\ state' = state /\ inbox' = inbox /\ reply' = reply
        /\ last' = last /\ resolver' = resolver
    BY <1>5 DEF vars, dealer, player
  <2> QED BY <2>1 DEF IInv, LinesInv, AnswerInv, ResolverInv, DecidedInv, UndecidedInv, playing, myTurn
<1> QED BY <1>1, <1>2, <1>3, <1>4, <1>5 DEF Next, Plays, Over

LEMMA IInvHolds == Spec => []IInv
BY InitIInv, StepKeepsIInv, PTL DEF Spec

\* What is read is what the dealer has.
LEMMA LinesReadState == IInv => ReadsTheState
<1> SUFFICES ASSUME IInv PROVE ReadsTheState
  OBVIOUS
<1>1. PICK S : inbox \in Seq(S)
  BY DEF IInv, LinesInv
<1>2. ASSUME upToDate
      PROVE  /\ isMyTurn(Head(inbox)) <=> myTurn
             /\ myTurn => parsed_state_to_node(parse_state(Head(inbox))) = nodeOf(state)
  <2>1. playing /\ inbox # << >> /\ Len(inbox) = 1 /\ Head(inbox) = inbox[1]
    BY <1>1, <1>2 DEF upToDate
  <2>2. Head(inbox) = printed(handId, state) /\ InPlay(state) /\ handId \in Nat
    BY <2>1 DEF IInv, LinesInv
  <2> QED BY <2>1, <2>2, QuestionIsRead DEF myTurn
<1>3. ASSUME NEW i \in 1 .. Len(inbox) - 1 PROVE ~isMyTurn(inbox[i])
  <2>1. i \in 1 .. Len(inbox) /\ i # Len(inbox)
    BY <1>1
  <2> QED BY <2>1 DEF IInv, LinesInv, Unasked
<1> QED BY <1>2, <1>3 DEF ReadsTheState

-----------------------------------------------------------------------------
(* The actions of a hand, and which of them are mine.                      *)

\* An action is one entry more, behind the others.
LEMMA EntriesGrow ==
  ASSUME NEW s, Ready(s), InPlay(s), NEW a \in Action, isValidAction(s, FALSE, a)
  PROVE  LET e == doAction(s, a)
             n == Len(entriesOf(s))
         IN /\ n \in Nat /\ DOMAIN entriesOf(s) = 1 .. n /\ DOMAIN entriesOf(e) = 1 .. n + 1
            /\ entriesOf(e)[n + 1] = [type |-> a.type, size |-> a.size, player |-> currentPlayer(s)]
            /\ \A i \in 1 .. n : entriesOf(e)[i] = entriesOf(s)[i]
            /\ s.round = 1 => e.action[0] = s.action[0]
<1> DEFINE t == StoreAction(s, a)
           e == doAction(s, a)
           p == currentPlayer(s)
           new == [type |-> a.type, size |-> a.size, player |-> p]
           A == s.action[0]
           B == s.action[1]
           before == entriesOf(s)
           now == entriesOf(e)
           m == Len(before)
<1> SUFFICES /\ m \in Nat /\ DOMAIN before = 1 .. m /\ DOMAIN now = 1 .. m + 1
             /\ now[m + 1] = new /\ \A i \in 1 .. m : now[i] = before[i]
             /\ s.round = 1 => e.action[0] = s.action[0]
  OBVIOUS
<1>1. /\ t \in State /\ ~t.finished /\ p \in Players /\ a.type \in {"fold", "call", "raise"}
      /\ \A r \in Rounds : r > t.round => t.action[r] = << >>
      /\ t.action = [s.action EXCEPT ![s.round] = Append(@, new)]
  <2>1. /\ t \in State /\ ~t.finished /\ p \in Players /\ a.type \in {"fold", "call", "raise"}
        /\ \A r \in Rounds : r > t.round => t.action[r] = << >>
        /\ Stored(t, s, a, p, RaiseTo(s, p, a.size))
    BY StoreKeepsState
  <2> QED BY <2>1 DEF Stored
<1>2. new \in Entry
  BY <1>1 DEF Entry, Action
<1>3. /\ s.round \in {0, 1} /\ s.action \in [{0, 1} -> Seq(Entry)]
      /\ A \in Seq(Entry) /\ B \in Seq(Entry)
      /\ s.round = 0 => B = << >>
  BY TwoPlayers DEF InPlay, State
<1>4. e = EndBetting(t)
  BY DEF doAction
<1> HIDE DEF t, e, p, new
<1>5. e.action = t.action
  BY <1>1, <1>4, EndBettingFacts
<1>6. e.action[0] = (IF s.round = 0 THEN Append(A, new) ELSE A)
      /\ e.action[1] = IF s.round = 0 THEN B ELSE Append(B, new)
  BY <1>1, <1>3, <1>5
<1>7. before = A \o B
      /\ now = IF s.round = 0 THEN Append(A, new) \o B ELSE A \o Append(B, new)
  BY <1>3, <1>6 DEF entriesOf
<1>8. s.round = 1 => e.action[0] = s.action[0]
  BY <1>6
<1> HIDE DEF A, B, before, now, m
<1>9. /\ Append(A, new) \in Seq(Entry) /\ Append(B, new) \in Seq(Entry)
      /\ Len(Append(A, new)) = Len(A) + 1 /\ Len(Append(B, new)) = Len(B) + 1
      /\ Append(A, new)[Len(A) + 1] = new /\ \A i \in 1 .. Len(A) : Append(A, new)[i] = A[i]
      /\ Append(B, new)[Len(B) + 1] = new /\ \A i \in 1 .. Len(B) : Append(B, new)[i] = B[i]
      /\ Len(A) \in Nat /\ Len(B) \in Nat /\ (B = << >> => Len(B) = 0)
  BY <1>2, <1>3
<1>10. A \in Seq(Entry) /\ Len(A) \in Nat /\ Len(B) \in Nat
  BY <1>3, <1>9
<1> DEFINE n == Len(A) + Len(B)
<1>11. /\ Len(A \o B) = n /\ DOMAIN (A \o B) = 1 .. n
       /\ \A i \in 1 .. Len(A) : (A \o B)[i] = A[i]
       /\ \A i \in Len(A) + 1 .. n : (A \o B)[i] = B[i - Len(A)]
  BY <1>3, Concatenated
<1>12. m = n
  BY <1>7, <1>11 DEF m
<1>13. CASE s.round = 0
  <2> DEFINE C == Append(A, new)
  <2>1. C \in Seq(Entry) /\ B \in Seq(Entry)
    BY <1>3, <1>9
  <2>2. /\ DOMAIN (C \o B) = 1 .. Len(C) + Len(B) /\ \A i \in 1 .. Len(C) : (C \o B)[i] = C[i]
    <3> HIDE DEF C
    <3> QED BY ONLY <2>1, Concatenated
  <2>3. Len(B) = 0 /\ n = Len(A) /\ Len(C) = n + 1
    BY <1>3, <1>9, <1>13
  <2>4. C[n + 1] = new /\ \A i \in 1 .. n : C[i] = A[i] /\ (A \o B)[i] = A[i]
    BY <1>9, <1>11, <2>3
  <2>5. now = C \o B
    BY <1>7, <1>13
  <2> HIDE DEF C, n
  <2>6. n \in Nat /\ DOMAIN (C \o B) = 1 .. n + 1 /\ n + 1 \in 1 .. n + 1
    BY <1>9, <2>2, <2>3
  <2>7. (C \o B)[n + 1] = new /\ \A i \in 1 .. n : (C \o B)[i] = (A \o B)[i]
    BY <2>2, <2>3, <2>4, <2>6
  <2>8. DOMAIN before = 1 .. n
    BY <1>7, <1>11
  <2> QED BY <1>7, <1>8, <1>12, <2>5, <2>6, <2>7, <2>8
<1>14. CASE s.round = 1
  <2> DEFINE C == Append(B, new)
  <2>1. /\ C \in Seq(Entry) /\ Len(C) = Len(B) + 1
        /\ C[Len(B) + 1] = new /\ \A i \in 1 .. Len(B) : C[i] = B[i]
    BY <1>9
  <2> HIDE DEF C
  <2>2. /\ DOMAIN (A \o C) = 1 .. Len(A) + Len(C) /\ \A i \in 1 .. Len(A) : (A \o C)[i] = A[i]
        /\ \A i \in Len(A) + 1 .. Len(A) + Len(C) : (A \o C)[i] = C[i - Len(A)]
    BY <1>10, <2>1, Concatenated
  <2>3. n \in Nat /\ Len(A) + Len(C) = n + 1 /\ (n + 1) - Len(A) = Len(B) + 1
        /\ n + 1 \in Len(A) + 1 .. n + 1
    BY <1>9, <2>1
  <2>4. (A \o C)[n + 1] = new
    BY <2>1, <2>2, <2>3
  <2>5. ASSUME NEW i \in 1 .. n PROVE (A \o C)[i] = (A \o B)[i]
    <3>1. CASE i \in 1 .. Len(A)
      BY <3>1, <1>11, <2>2
    <3>2. CASE i \in Len(A) + 1 .. n
      <4>1. i - Len(A) \in 1 .. Len(B) /\ i \in Len(A) + 1 .. Len(A) + Len(C)
        BY <3>2, <1>9, <2>3
      <4> QED BY <3>2, <4>1, <2>1, <1>11, <2>2
    <3>3. i \in 1 .. Len(A) \/ i \in Len(A) + 1 .. n
      <4> DEFINE x == Len(A)
                 y == Len(B)
      <4>1. x \in Nat /\ y \in Nat /\ i \in 1 .. x + y
        BY <1>10
      <4> HIDE DEF x, y
      <4>2. i \in 1 .. x \/ i \in x + 1 .. x + y
        BY <4>1
      <4> QED BY <4>2 DEF x, y
    <3> QED BY <3>1, <3>2, <3>3
  <2>6. now = A \o C
    BY <1>7, <1>14 DEF C
  <2> HIDE DEF n
  <2>7. DOMAIN (A \o C) = 1 .. n + 1
    BY <2>2, <2>3
  <2>8. DOMAIN before = 1 .. n
    BY <1>7, <1>11
  <2> QED BY <1>7, <1>8, <1>12, <2>3, <2>4, <2>5, <2>6, <2>7, <2>8
<1> QED BY <1>3, <1>13, <1>14

\* A number of a set of numbers has as many of them up to it as its place says.
LEMMA Places ==
  ASSUME NEW n \in Nat, NEW m \in SUBSET (1 .. n)
  PROVE  /\ IsFiniteSet(m) /\ Cardinality(m) \in Nat /\ (m = {} <=> Cardinality(m) = 0)
         /\ n + 1 \notin m /\ IsFiniteSet(m \cup {n + 1})
         /\ Cardinality(m \cup {n + 1}) = Cardinality(m) + 1
         /\ {j \in m : j <= n} = m
         /\ {j \in m \cup {n + 1} : j <= n + 1} = m \cup {n + 1}
         /\ \A i \in m : /\ {j \in m \cup {n + 1} : j <= i} = {j \in m : j <= i}
                         /\ Cardinality({j \in m : j <= i}) \in 1 .. Cardinality(m)
<1>1. IsFiniteSet(1 .. n)
  BY FS_Interval
<1>2. IsFiniteSet(m) /\ Cardinality(m) \in Nat
  BY <1>1, FS_Subset, FS_CardinalityType
<1>3. m = {} <=> Cardinality(m) = 0
  BY <1>2, FS_EmptySet
<1>4. n + 1 \notin m
  OBVIOUS
<1>5. IsFiniteSet(m \cup {n + 1}) /\ Cardinality(m \cup {n + 1}) = Cardinality(m) + 1
  BY <1>2, <1>4, FS_AddElement
<1>6. {j \in m : j <= n} = m /\ {j \in m \cup {n + 1} : j <= n + 1} = m \cup {n + 1}
  <2>1. \A j \in m : j <= n /\ j <= n + 1
    OBVIOUS
  <2>2. n + 1 <= n + 1
    OBVIOUS
  <2>3. {j \in m : j <= n} = m
    BY <2>1
  <2>4. {j \in m \cup {n + 1} : j <= n + 1} = m \cup {n + 1}
    BY <2>1, <2>2
  <2> QED BY <2>3, <2>4
<1>7. ASSUME NEW i \in m
      PROVE  /\ {j \in m \cup {n + 1} : j <= i} = {j \in m : j <= i}
             /\ Cardinality({j \in m : j <= i}) \in 1 .. Cardinality(m)
  <2> DEFINE U == {j \in m : j <= i}
  <2>1. {j \in m \cup {n + 1} : j <= i} = U
    OBVIOUS
  <2>2. U \subseteq m /\ i \in U
    OBVIOUS
  <2> HIDE DEF U
  <2>3. IsFiniteSet(U) /\ Cardinality(U) \in Nat /\ Cardinality(U) <= Cardinality(m)
    BY <1>2, <2>2, FS_Subset, FS_CardinalityType
  <2>4. Cardinality(U) # 0
    BY <2>2, <2>3, FS_EmptySet
  <2> QED BY <1>2, <2>1, <2>3, <2>4 DEF U
<1> QED BY <1>2, <1>3, <1>4, <1>5, <1>6, <1>7

\* The largest of them has the last place.
LEMMA LastPlace ==
  ASSUME NEW n \in Nat, NEW m \in SUBSET (1 .. n), m # {}
  PROVE  Max(m) \in m /\ {j \in m : j <= Max(m)} = m
<1> DEFINE T == {k \in Nat : \E i \in m : k = n - i}
<1>1. T \in SUBSET Nat /\ T # {} /\ \A i \in m : n - i \in T
  <2>1. T \in SUBSET Nat
    OBVIOUS
  <2>2. \A i \in m : n - i \in Nat
    OBVIOUS
  <2>3. \A i \in m : n - i \in T
    BY <2>2
  <2> HIDE DEF T
  <2> QED BY <2>1, <2>3
<1>2. PICK k \in T : \A j \in T : k <= j
  <2> HIDE DEF T
  <2> QED BY <1>1, LeastNatural
<1>3. PICK x \in m : k = n - x
  OBVIOUS
<1>4. \A y \in m : y \in Nat /\ x >= y
  BY <1>1, <1>2, <1>3
<1> HIDE DEF T
<1>5. Max(m) \in m /\ \A y \in m : Max(m) >= y
  BY <1>4 DEF Max
<1> QED BY <1>5

\* My entries after an action: one more if it is mine.
LEMMA MyEntriesGrow ==
  ASSUME NEW s, Ready(s), InPlay(s), NEW a \in Action, isValidAction(s, FALSE, a), NEW h
  PROVE  LET e == doAction(s, a)
             n == Len(entriesOf(s))
         IN /\ n \in Nat /\ myEntries(h, s) \in SUBSET (1 .. n)
            /\ myEntries(h, e) = IF currentPlayer(s) = viewingPlayer(h) THEN myEntries(h, s) \cup {n + 1}
                                 ELSE myEntries(h, s)
<1> DEFINE e == doAction(s, a)
           n == Len(entriesOf(s))
           new == [type |-> a.type, size |-> a.size, player |-> currentPlayer(s)]
           S == entriesOf(s)
           E == entriesOf(e)
<1>1. /\ n \in Nat /\ DOMAIN S = 1 .. n /\ DOMAIN E = 1 .. n + 1
      /\ E[n + 1] = new /\ \A i \in 1 .. n : E[i] = S[i]
  BY EntriesGrow
<1>2. new.player = currentPlayer(s)
  OBVIOUS
<1>3. /\ myEntries(h, s) = {i \in DOMAIN S : S[i].player = viewingPlayer(h)}
      /\ myEntries(h, e) = {i \in DOMAIN E : E[i].player = viewingPlayer(h)}
  BY DEF myEntries
<1> HIDE DEF e, n, S, E, new
<1>4. \A i : i \in 1 .. n + 1 <=> i \in 1 .. n \/ i = n + 1
  BY <1>1
<1>5. myEntries(h, s) \in SUBSET (1 .. n)
  BY <1>1, <1>3
<1>6. \A i : i \in myEntries(h, e) <=>
                i \in myEntries(h, s) \/ (i = n + 1 /\ currentPlayer(s) = viewingPlayer(h))
  <2>1. n + 1 \notin 1 .. n
    BY <1>1
  <2> QED BY <2>1, <1>1, <1>2, <1>3, <1>4
<1>7. CASE currentPlayer(s) = viewingPlayer(h)
  <2>1. myEntries(h, e) = myEntries(h, s) \cup {n + 1}
    BY <1>6, <1>7
  <2> QED BY <2>1, <1>1, <1>5, <1>7 DEF n, e
<1>8. CASE currentPlayer(s) # viewingPlayer(h)
  <2>1. myEntries(h, e) = myEntries(h, s)
    BY <1>6, <1>8
  <2> QED BY <2>1, <1>1, <1>5, <1>8 DEF n, e
<1> QED BY <1>7, <1>8

\* An answer, once it is played, is what DeepStack called it.
LEMMA AnswerIsBet ==
  ASSUME NEW s, InPlay(s), NEW i \in DOMAIN actions(nodeOf(s)), i = 1 => ~isEven(nodeOf(s)), NEW p,
         _bet_to_action(actions(nodeOf(s))[i]).type # "fold"
  PROVE  LET a == _bet_to_action(actions(nodeOf(s))[i])
         IN betOf([type |-> a.type, size |-> a.size, player |-> p]) = actions(nodeOf(s))[i]
<1> DEFINE node == nodeOf(s)
           a == _bet_to_action(actions(node)[i])
           x == [type |-> a.type, size |-> a.size, player |-> p]
           k == Len(get_possible_bets(node))
<1>1. PlayerNode(node)
  BY NodeInPlay
<1>2. /\ a.type = IF i = 1 THEN "fold" ELSE IF i = 2 THEN "call" ELSE "raise"
      /\ i > 2 => a.size = actions(node)[i]
  BY TreeActionIsValid
<1>3. k \in Nat /\ DOMAIN actions(node) = 1 .. 2 + k /\ actions(node)[2] = ccall
  BY <1>1, ActionsOfNode
<1>4. i # 1
  BY <1>2
<1>5. x.type = a.type /\ x.size = a.size
  OBVIOUS
<1>6. i = 2 \/ i > 2
  <2> HIDE DEF k
  <2> QED BY <1>3, <1>4
<1> HIDE DEF x, a, node
<1>7. CASE i = 2
  <2>1. x.type = "call"
    BY <1>2, <1>5, <1>7
  <2>2. betOf(x) = ccall
    BY <2>1 DEF betOf
  <2> QED BY <2>2, <1>3, <1>7 DEF x, a, node
<1>8. CASE i > 2
  <2>1. x.type = "raise" /\ x.size = actions(node)[i]
    BY <1>2, <1>5, <1>8
  <2>2. betOf(x) = actions(node)[i]
    BY <2>1 DEF betOf
  <2> QED BY <2>2 DEF x, a, node
<1> QED BY <1>6, <1>7, <1>8

\* What was bet before the board is what both have bet when it is dealt.
LEMMA FirstRoundBet ==
  ASSUME NEW s, InPlay(s), s.round = 1, acts(s) = << >>
  PROVE  s.spent[0] = betBeforeBoard(s) /\ s.spent[1] = betBeforeBoard(s)
<1> DEFINE all == allActions(s)
           A == s.action[0]
           n == Len(A)
           R == {i \in 1 .. n : all[i].action = "raise"}
           Q == {i \in DOMAIN A : A[i].type = "raise"}
<1>1. s \in State /\ s.action[1] = << >> /\ ~betMade(s)
  BY DEF InPlay, acts, betMade
<1>2. s.spent[0] = s.maxSpent /\ s.spent[1] = s.maxSpent /\ s.maxSpent = lastRaise(all, Len(all))
  BY <1>1 DEF InPlay
<1>3. A \in Seq(Entry)
  BY <1>1, TwoPlayers DEF State
<1>4. /\ n \in Nat /\ Len(all) = n + Len(s.action[1])
      /\ \A i \in 1 .. n : all[i] = read(A[i], i, 1)
  BY <1>1, ActionsAreRead
<1>5. Len(all) = n
  BY <1>1, <1>4
<1>6. \A i \in 1 .. n : /\ all[i].action = "raise" <=> A[i].type = "raise"
                        /\ all[i].raise_amount = A[i].size
  <2> TAKE i \in 1 .. n
  <2>1. all[i] = read(A[i], i, 1)
    BY <1>4
  <2> HIDE DEF all, A
  <2>2. all[i].action = name(A[i].type) /\ all[i].raise_amount = A[i].size
    BY <2>1 DEF read
  <2> QED BY <2>2 DEF name
<1>7. DOMAIN A = 1 .. n
  BY <1>3
<1> HIDE DEF all, A, n
<1>8. R = Q
  BY <1>6, <1>7
<1>9. lastRaise(all, n) = IF R = {} THEN arguments.ante ELSE all[Max(R)].raise_amount
  BY DEF lastRaise
<1>10. betBeforeBoard(s) = IF Q = {} THEN arguments.ante ELSE A[Max(Q)].size
  BY DEF betBeforeBoard, A
<1>11. R # {} => Max(R) \in 1 .. n
  <2>1. R \in SUBSET (1 .. n) /\ n \in Nat
    BY <1>4
  <2> HIDE DEF R
  <2>2. R # {} => Max(R) \in R
    BY <2>1, LastPlace
  <2> QED BY <2>1, <2>2
<1>12. lastRaise(all, n) = betBeforeBoard(s)
  <2> HIDE DEF R, Q
  <2> QED BY <1>6, <1>8, <1>9, <1>10, <1>11
<1> QED BY <1>2, <1>5, <1>12

\* While a hand goes on, the turn goes over, or a call ends the first round.
LEMMA TurnGoesOn ==
  ASSUME NEW s, Ready(s), InPlay(s), NEW a \in Action, isValidAction(s, FALSE, a),
         ~doAction(s, a).finished
  PROVE  LET e == doAction(s, a)
         IN \/ e.round = s.round /\ currentPlayer(e) = 1 - currentPlayer(s)
            \/ e.round = 1 /\ s.round = 0 /\ a.type = "call" /\ acts(e) = << >>
<1> DEFINE e == doAction(s, a)
           k == Len(acts(s))
           c == currentPlayer(s)
           d == currentPlayer(e)
<1> SUFFICES \/ e.round = s.round /\ d = 1 - c
             \/ e.round = 1 /\ s.round = 0 /\ a.type = "call" /\ acts(e) = << >>
  OBVIOUS
<1>1. s.round \in {0, 1} /\ k \in Nat /\ a.type \in {"fold", "call", "raise"} /\ c = k % 2
  <2>1. s.round \in {0, 1} /\ k \in Nat /\ c = k % 2
    BY NodeInPlay
  <2> QED BY <2>1, StoreKeepsState
<1>2. InPlay(e)
  BY ActionInPlay
<1>3. d = Len(acts(e)) % 2 /\ (acts(e) = << >> <=> Len(acts(e)) = 0)
  BY <1>2, ActorInPlay
<1>4. a.type # "fold"
  <2>1. a.type = "fold" => IsOver(e)
    BY FoldInPlay
  <2> QED BY <2>1 DEF IsOver
<1>5. CASE a.type = "call"
  <2>1. /\ e.finished <=> k # 0 /\ (s.round = 1 \/ s.maxSpent = arguments.stack)
        /\ e.round = IF k = 0 THEN s.round ELSE 1
        /\ Len(acts(e)) = IF k = 0 THEN 1 ELSE 0
    BY <1>5, CallInPlay
  <2> HIDE DEF e, k, c, d
  <2>2. CASE k = 0
    <3>1. d = 1 % 2 /\ c = 0 % 2 /\ e.round = s.round
      BY <2>1, <2>2, <1>1, <1>3
    <3> QED BY <3>1
  <2>3. CASE k # 0
    <3>1. e.round = 1 /\ s.round # 1 /\ acts(e) = << >>
      BY <2>1, <2>3, <1>3 DEF e
    <3> QED BY <3>1, <1>1, <1>5
  <2> QED BY <2>2, <2>3
<1>6. CASE a.type = "raise"
  <2>1. e.round = s.round /\ Len(acts(e)) = k + 1
    BY <1>6, RaiseInPlay
  <2> HIDE DEF e, k, c, d
  <2>2. d = (k + 1) % 2
    BY <2>1, <1>3
  <2>3. d = 1 - c
    BY <2>2, <1>1
  <2> QED BY <2>1, <2>3
<1> QED BY <1>1, <1>4, <1>5, <1>6

\* What a node has.
NodeFields == {"kind", "street", "current_player", "bets"}

\* A child of a node of a player: the board is dealt at it, the hand is over, or
\* it is the other's, in the same street.
LEMMA ChildFields ==
  ASSUME NEW node, PlayerNode(node), DOMAIN node = NodeFields, NEW i \in DOMAIN children(node)
  PROVE  LET child == children(node)[i]
         IN /\ DOMAIN child = NodeFields /\ child.street = node.street
            /\ isTerminal(child) \/ child.kind \in {"inner", "check"} \/ child.current_player = chance
            /\ child.current_player = chance => child.kind = "chance"
<1> DEFINE levels == get_possible_bets(node)
           k == Len(levels)
           child == children(node)[i]
           other == opponentActs(node)
<1>1. /\ k \in Nat /\ DOMAIN children(node) = 1 .. 2 + k
      /\ children(node)[1] = [other EXCEPT !.kind = "fold"]
      /\ children(node)[2] = ccallChild(node)
      /\ \A j \in 3 .. 2 + k : children(node)[j] = betChild(node, levels[j - 2])
  BY ActionsOfNode
<1>2. node.current_player \in {1, 2} /\ 3 - node.current_player # 0
  BY DEF PlayerNode
<1>3. /\ DOMAIN other = NodeFields /\ other.street = node.street
      /\ other.current_player = 3 - node.current_player
  BY DEF opponentActs, NodeFields
<1>4. /\ DOMAIN called(node) = NodeFields /\ called(node).street = node.street
      /\ DOMAIN called(other) = NodeFields /\ called(other).street = node.street
      /\ called(other).current_player = other.current_player
  <2> HIDE DEF other
  <2> QED BY <1>3 DEF called, NodeFields
<1> HIDE DEF levels, k, other
<1>5. i = 1 \/ i = 2 \/ i \in 3 .. 2 + k
  BY <1>1
<1>6. CASE i = 1
  <2>1. child = [other EXCEPT !.kind = "fold"]
    BY <1>1, <1>6
  <2> HIDE DEF child
  <2>2. DOMAIN child = NodeFields /\ child.kind = "fold" /\ child.street = node.street
        /\ child.current_player # 0
    BY <2>1, <1>2, <1>3 DEF NodeFields
  <2> QED BY <2>2 DEF child, isTerminal, chance
<1>7. CASE i = 2
  <2>1. child = ccallChild(node)
    BY <1>1, <1>7
  <2> HIDE DEF child
  <2>2. \/ child = [other EXCEPT !.kind = "check"]
        \/ child = [called(node) EXCEPT !.kind = "chance", !.current_player = chance]
        \/ child = [called(other) EXCEPT !.kind = "call"]
    BY <2>1 DEF ccallChild, other
  <2>3. CASE child = [other EXCEPT !.kind = "check"]
    <3>1. DOMAIN child = NodeFields /\ child.kind = "check" /\ child.street = node.street
          /\ child.current_player # 0
      BY <2>3, <1>2, <1>3 DEF NodeFields
    <3> QED BY <3>1 DEF child, chance
  <2>4. CASE child = [called(node) EXCEPT !.kind = "chance", !.current_player = chance]
    <3>1. DOMAIN child = NodeFields /\ child.kind = "chance" /\ child.street = node.street
          /\ child.current_player = chance
      BY <2>4, <1>4 DEF NodeFields
    <3> QED BY <3>1 DEF child
  <2>5. CASE child = [called(other) EXCEPT !.kind = "call"]
    <3>1. DOMAIN child = NodeFields /\ child.kind = "call" /\ child.street = node.street
          /\ child.current_player # 0
      BY <2>5, <1>2, <1>3, <1>4 DEF NodeFields
    <3> QED BY <3>1 DEF child, isTerminal, chance
  <2> QED BY <2>2, <2>3, <2>4, <2>5
<1>8. CASE i \in 3 .. 2 + k
  <2>1. child = betChild(node, levels[i - 2])
    BY <1>1, <1>8
  <2> HIDE DEF child
  <2>2. DOMAIN child = NodeFields /\ child.kind = "inner" /\ child.street = node.street
        /\ child.current_player # 0
    BY <2>1, <1>2, <1>3 DEF betChild, other, NodeFields
  <2> QED BY <2>2 DEF child, chance
<1> QED BY <1>5, <1>6, <1>7, <1>8

\* Of a node it is the street, the actor and the bets that say what a call does.
LEMMA SameCall ==
  ASSUME NEW a, NEW b, DOMAIN a = NodeFields, DOMAIN b = NodeFields, a.street = b.street,
         a.current_player = b.current_player, a.bets = b.bets
  PROVE  /\ ccallChild(a).current_player = ccallChild(b).current_player
         /\ ccallChild(a).bets = ccallChild(b).bets
<1>1. isEven(a) = isEven(b) /\ isTransition(a) = isTransition(b)
  BY DEF isEven, isTransition
<1>2. /\ DOMAIN called(a) = NodeFields /\ DOMAIN called(b) = NodeFields
      /\ called(a).bets = called(b).bets
      /\ DOMAIN opponentActs(a) = NodeFields /\ DOMAIN opponentActs(b) = NodeFields
      /\ opponentActs(a).current_player = opponentActs(b).current_player
      /\ opponentActs(a).bets = a.bets /\ opponentActs(b).bets = b.bets
  BY DEF called, opponentActs, NodeFields
<1>3. /\ DOMAIN called(opponentActs(a)) = NodeFields /\ DOMAIN called(opponentActs(b)) = NodeFields
      /\ called(opponentActs(a)).bets = called(opponentActs(b)).bets
      /\ called(opponentActs(a)).current_player = called(opponentActs(b)).current_player
  <2> DEFINE x == opponentActs(a)
             y == opponentActs(b)
  <2>1. DOMAIN x = NodeFields /\ DOMAIN y = NodeFields /\ x.current_player = y.current_player
        /\ x.bets = y.bets
    BY <1>2
  <2> HIDE DEF x, y
  <2>2. /\ DOMAIN called(x) = NodeFields /\ DOMAIN called(y) = NodeFields
        /\ called(x).bets = called(y).bets /\ called(x).current_player = called(y).current_player
    BY <2>1 DEF called, NodeFields
  <2> QED BY <2>2 DEF x, y
<1>4. CASE a.current_player = P1 /\ isEven(a)
  <2>1. /\ ccallChild(a) = [opponentActs(a) EXCEPT !.kind = "check"]
        /\ ccallChild(b) = [opponentActs(b) EXCEPT !.kind = "check"]
    BY <1>1, <1>4 DEF ccallChild
  <2> QED BY <2>1, <1>2 DEF NodeFields
<1>5. CASE ~(a.current_player = P1 /\ isEven(a)) /\ isTransition(a)
  <2>1. /\ ccallChild(a) = [called(a) EXCEPT !.kind = "chance", !.current_player = chance]
        /\ ccallChild(b) = [called(b) EXCEPT !.kind = "chance", !.current_player = chance]
    BY <1>1, <1>5 DEF ccallChild
  <2> QED BY <2>1, <1>2 DEF NodeFields
<1>6. CASE ~(a.current_player = P1 /\ isEven(a)) /\ ~isTransition(a)
  <2>1. /\ ccallChild(a) = [called(opponentActs(a)) EXCEPT !.kind = "call"]
        /\ ccallChild(b) = [called(opponentActs(b)) EXCEPT !.kind = "call"]
    BY <1>1, <1>6 DEF ccallChild
  <2> QED BY <2>1, <1>3 DEF NodeFields
<1> QED BY <1>4, <1>5, <1>6

-----------------------------------------------------------------------------
(* The invariant of the hand's history.                                    *)

\* Where my last action led, when the hand has come to s: to the node of s, if
\* the other is asked before the board; behind the board it was the way to it.
LedTo(child, s, mine) ==
    LET end == IF child.current_player = chance THEN child ELSE ccallChild(child)
    IN /\ s.round = 0 /\ ~mine =>
             /\ DOMAIN child = NodeFields /\ child.street = 1
             /\ child.current_player = currentPlayer(s) + 1
             /\ child.bets = <<s.spent[0], s.spent[1]>>
       /\ s.round = 1 => end.current_player = chance
                         /\ end.bets = <<betBeforeBoard(s), betBeforeBoard(s)>>

\* My own action leads to its child.
LEMMA LedByMe ==
  ASSUME NEW s, Ready(s), InPlay(s), s.round = 0,
         NEW i \in DOMAIN children(nodeOf(s)), i = 1 => ~isEven(nodeOf(s)),
         ~doAction(s, _bet_to_action(actions(nodeOf(s))[i])).finished, NEW mine
  PROVE  LedTo(children(nodeOf(s))[i], doAction(s, _bet_to_action(actions(nodeOf(s))[i])), mine)
<1> DEFINE node == nodeOf(s)
           child == children(node)[i]
           a == _bet_to_action(actions(node)[i])
           e == doAction(s, a)
<1>1. PlayerNode(node) /\ DOMAIN node = NodeFields /\ node.street = 1
  <2>1. DOMAIN node = NodeFields /\ node.street = s.round + 1
    BY DEF nodeOf, NodeFields
  <2> QED BY <2>1, NodeInPlay
<1>2. /\ DOMAIN child = NodeFields /\ child.street = 1
      /\ isTerminal(child) \/ child.kind \in {"inner", "check"} \/ child.current_player = chance
      /\ child.current_player = chance => child.kind = "chance"
  BY <1>1, ChildFields
<1>3. DOMAIN actions(node) = DOMAIN children(node)
  BY <1>1, ActionsOfNode
<1>4. a \in Action /\ isValidAction(s, FALSE, a)
  BY <1>3, TreeActionIsValid
<1>5. ChildIsNext(s, i)
  BY ChildrenAreNext
<1>6. /\ ~isTerminal(child)
      /\ child.current_player = chance <=> e.round > s.round
      /\ child.kind # "fold" => child.bets = <<e.spent[0], e.spent[1]>>
      /\ child.kind \in {"inner", "check"} => child.current_player = currentPlayer(e) + 1
  BY <1>5 DEF ChildIsNext
<1>7. child.bets = <<e.spent[0], e.spent[1]>>
  BY <1>6 DEF isTerminal
<1>8. InPlay(e)
  BY <1>4, ActionInPlay
<1>9. \/ e.round = s.round /\ currentPlayer(e) = 1 - currentPlayer(s)
      \/ e.round = 1 /\ s.round = 0 /\ a.type = "call" /\ acts(e) = << >>
  BY <1>4, TurnGoesOn
<1> HIDE DEF node, child, a, e
<1>10. CASE e.round = s.round
  <2>1. e.round = 0 /\ ~(e.round > s.round)
    BY <1>10
  <2>2. child.current_player = currentPlayer(e) + 1
    BY <2>1, <1>2, <1>6
  <2> QED BY <2>1, <2>2, <1>2, <1>7 DEF LedTo, node, child, a, e
<1>11. CASE e.round = 1 /\ acts(e) = << >>
  <2>1. child.current_player = chance
    BY <1>6, <1>11
  <2>2. e.spent[0] = betBeforeBoard(e) /\ e.spent[1] = betBeforeBoard(e)
    BY <1>8, <1>11, FirstRoundBet
  <2>3. child.bets = <<betBeforeBoard(e), betBeforeBoard(e)>>
    BY <2>2, <1>7
  <2> QED BY <2>1, <2>3, <1>11 DEF LedTo, node, child, a, e
<1> QED BY <1>9, <1>10, <1>11

\* The other does no more than call it, unless I am asked again before the board.
LEMMA LedByOther ==
  ASSUME NEW s, Ready(s), InPlay(s), NEW a \in Others, isValidAction(s, FALSE, a),
         ~doAction(s, a).finished, NEW v \in {0, 1}, currentPlayer(s) # v,
         NEW child, LedTo(child, s, FALSE)
  PROVE  LedTo(child, doAction(s, a), currentPlayer(doAction(s, a)) = v)
<1> DEFINE e == doAction(s, a)
           node == nodeOf(s)
           b == betBeforeBoard(e)
<1>1. a \in Action
  BY TwoPlayers DEF Others, Action, ActionTypes
<1>2. InPlay(e)
  BY <1>1, ActionInPlay
<1>3. \/ e.round = s.round /\ currentPlayer(e) = 1 - currentPlayer(s)
      \/ e.round = 1 /\ s.round = 0 /\ a.type = "call" /\ acts(e) = << >>
  BY <1>1, TurnGoesOn
<1>4. currentPlayer(s) \in {0, 1} /\ s.round \in {0, 1}
  BY NodeInPlay
<1>5. s.round = 1 => e.action[0] = s.action[0]
  BY <1>1, EntriesGrow
<1>6. PlayerNode(node) /\ DOMAIN node = NodeFields
  BY NodeInPlay DEF nodeOf, NodeFields
<1>7. ChildIsNext(s, 2)
  BY CallChild
<1>8. actions(node)[2] = ccall /\ children(node)[2] = ccallChild(node)
  BY <1>6, ActionsOfNode
<1>9. a.type = "call" => a = _bet_to_action(ccall)
  <2>1. a.type = "call" => a = [type |-> "call", size |-> 0]
    BY DEF Others
  <2>2. _bet_to_action(ccall) = [type |-> "call", size |-> 0]
    BY DEF _bet_to_action, ccall, fold
  <2> QED BY <2>1, <2>2
<1>10. a.type = "call" =>
         /\ ccallChild(node).current_player = chance <=> ~e.finished /\ e.round > s.round
         /\ isTerminal(ccallChild(node)) <=> e.finished
         /\ ccallChild(node).kind # "fold" => ccallChild(node).bets = <<e.spent[0], e.spent[1]>>
  <2>1. ASSUME a.type = "call" PROVE a = _bet_to_action(actions(node)[2])
    BY <1>8, <1>9, <2>1
  <2> QED BY <2>1, <1>7, <1>8 DEF ChildIsNext
<1> HIDE DEF e, node, b
<1>11. CASE e.round = s.round /\ currentPlayer(e) = 1 - currentPlayer(s)
  <2>1. currentPlayer(e) = v
    BY <1>4, <1>11
  <2>2. CASE s.round = 0
    BY <2>1, <2>2, <1>11 DEF LedTo, e
  <2>3. CASE s.round = 1
    <3>1. betBeforeBoard(e) = betBeforeBoard(s)
      BY <2>3, <1>5 DEF betBeforeBoard
    <3>2. e.round = 1
      BY <2>3, <1>11
    <3> QED BY <2>1, <2>3, <3>1, <3>2 DEF LedTo, e
  <2> QED BY <1>4, <2>2, <2>3
<1>12. CASE e.round = 1 /\ s.round = 0 /\ a.type = "call" /\ acts(e) = << >>
  <2>1. /\ DOMAIN child = NodeFields /\ child.street = 1
        /\ child.current_player = currentPlayer(s) + 1
        /\ child.bets = <<s.spent[0], s.spent[1]>>
    BY <1>12 DEF LedTo
  <2>2. node.street = 1 /\ node.current_player = currentPlayer(s) + 1
        /\ node.bets = <<s.spent[0], s.spent[1]>>
    BY <1>12 DEF node, nodeOf
  <2>3. /\ ccallChild(child).current_player = ccallChild(node).current_player
        /\ ccallChild(child).bets = ccallChild(node).bets
    BY <2>1, <2>2, <1>6, SameCall
  <2>4. ~e.finished /\ e.round > s.round
    BY <1>12 DEF e
  <2>5. /\ ccallChild(node).current_player = chance
        /\ ccallChild(node).bets = <<e.spent[0], e.spent[1]>>
    BY <2>4, <1>10, <1>12 DEF isTerminal
  <2>6. e.spent[0] = b /\ e.spent[1] = b
    BY <1>2, <1>12, FirstRoundBet DEF b, e
  <2>7. child.current_player # chance
    BY <2>1, <1>4 DEF chance
  <2>8. ccallChild(child).current_player = chance /\ ccallChild(child).bets = <<b, b>>
    BY <2>3, <2>5, <2>6
  <2> QED BY <2>7, <2>8, <1>12 DEF LedTo, b, e
<1> QED BY <1>3, <1>11, <1>12 DEF e

\* A range has an entry for each of my actions, and as many as are on their way;
\* the last of them is what was decided last.
RangeFits(range, hand, s, coming, bet) ==
    LET mine == myEntries(hand, s)
        place(i) == Cardinality({j \in mine : j <= i})
    IN /\ \E S : range \in Seq(S)
       /\ Len(range) = Cardinality(mine) + coming
       /\ \A i \in mine : range[place(i)].bet = betOf(entriesOf(s)[i])
       /\ Len(range) # 0 /\ range[Len(range)].bet = bet

\* My last action is one of the tree, and the way from it is known.
LedOn(cr, s, mine) ==
    \E i \in DOMAIN children(cr.resolving) :
        /\ actions(cr.resolving)[i] = cr.last_bet
        /\ LedTo(children(cr.resolving)[i], s, mine)

\* Nothing is left of the hands before; in this one the range is the history of
\* my actions, and the values are those of the last.
HistoryInv ==
    /\ starting_player_range = << >>
    /\ playing /\ last.hand_number = handId =>
          /\ resolver.bound = action_cfv(resolver.resolving, resolver.last_bet)
          /\ resolver.last_node = resolver.resolving
          /\ RangeFits(resolver.range, handId, state, Len(reply), resolver.last_bet)
          /\ reply = << >> /\ last.street = 1 => LedOn(resolver, state, myTurn)

LEMMA InitHistory == Init => HistoryInv
<1> SUFFICES ASSUME Init PROVE HistoryInv
  OBVIOUS
<1>1. last.hand_number = -1 /\ handId = 0 /\ starting_player_range = << >>
  BY DEF Init, noSituation
<1> QED BY <1>1 DEF HistoryInv

\* Before my first action none is mine.
LEMMA NoneOfMine ==
  ASSUME NEW s, InPlay(s), s.round = 0, NEW h \in Nat, Len(acts(s)) <= viewingPlayer(h),
         currentPlayer(s) = viewingPlayer(h)
  PROVE  myEntries(h, s) = {}
<1> DEFINE A == s.action[0]
           n == Len(A)
           v == viewingPlayer(h)
<1>1. s \in State /\ s.action[1] = << >>
  BY DEF InPlay
<1>2. A \in Seq(Entry) /\ acts(s) = A
  BY <1>1, TwoPlayers DEF State, acts
<1>3. \A i \in 1 .. n : A[i].player = (i - 1) % 2
  BY TwoPlayers DEF InPlay
<1>4. v \in {0, 1} /\ n \in Nat /\ n <= v /\ n % 2 = v
  BY <1>2, Views, ActorInPlay
<1>5. DOMAIN entriesOf(s) = 1 .. n /\ \A i \in 1 .. n : entriesOf(s)[i] = A[i]
  <2>1. entriesOf(s) = A \o << >>
    BY <1>1 DEF entriesOf
  <2> HIDE DEF A
  <2> QED BY <1>2, <2>1
<1> HIDE DEF A, n, v
<1>6. n = v
  <2>1. n = 0 \/ n = 1
    BY <1>4
  <2> QED BY <2>1, <1>4
<1>7. ASSUME NEW i \in 1 .. n PROVE entriesOf(s)[i].player # v
  <2>1. i = 1 /\ v = 1
    BY <1>4, <1>6
  <2>2. A[i].player = (1 - 1) % 2
    BY <1>3, <2>1
  <2> QED BY <2>1, <2>2, <1>5
<1> QED BY <1>5, <1>7 DEF myEntries, v

\* What the resolver has when it is asked: in this hand the range and the values
\* of its last action, over the board if there was one; in a new hand those it
\* starts with.
LEMMA ResolvedFrom ==
  ASSUME IInv, HistoryInv, inbox # << >>, isMyTurn(Head(inbox))
  PROVE  LET s == parse_state(Head(inbox))
             node == parsed_state_to_node(s)
             cr == asked(s)
             resolved == _resolve_node(cr, node)
         IN /\ last.hand_number = handId =>
                  /\ DecidedInv /\ ~isFirstDecision(cr)
                  /\ resolved.range = resolver.range
                  /\ resolved.bound = IF last.street # state.round + 1
                                      THEN chance_action_cfv(resolver.resolving, resolver.last_bet)
                                      ELSE resolver.bound
            /\ last.hand_number # handId =>
                  /\ resolved.range = << >> /\ myEntries(handId, state) = {} /\ state.round = 0
                  /\ ~isFirstDecision(cr) => resolved.bound = starting_cfvs_p1
<1> DEFINE s == parse_state(Head(inbox))
           node == parsed_state_to_node(s)
           cr == asked(s)
           resolved == _resolve_node(cr, node)
           v == viewingPlayer(handId)
<1>1. /\ playing /\ myTurn /\ InPlay(state) /\ node = nodeOf(state)
      /\ cr = IF last.hand_number = handId THEN resolver
              ELSE [resolver EXCEPT !.last_node = noNode, !.decision_id = 0, !.position = v + 1]
  BY QuestionIsSolved
<1>2. /\ DOMAIN resolver = {"decision_id", "position", "last_node", "last_bet", "resolving",
                            "range", "bound"}
      /\ IF last.hand_number = handId THEN DecidedInv ELSE UndecidedInv
      /\ starting_player_range = << >> /\ handId \in Nat
  BY <1>1 DEF IInv, LinesInv, ResolverInv, HistoryInv
<1>3. node.street = state.round + 1 /\ state.round \in {0, 1}
  BY <1>1, NodeInPlay DEF nodeOf
<1> HIDE DEF s, node, v
<1>4. ASSUME last.hand_number = handId
      PROVE  /\ DecidedInv /\ ~isFirstDecision(cr)
             /\ resolved.range = resolver.range
             /\ resolved.bound = IF last.street # state.round + 1
                                 THEN chance_action_cfv(resolver.resolving, resolver.last_bet)
                                 ELSE resolver.bound
  <2>1. DecidedInv /\ cr = resolver
    BY <1>1, <1>2, <1>4
  <2> HIDE DEF cr
  <2>2. resolver.decision_id # 0 /\ resolver.last_node.street = last.street /\ last.street \in {1, 2}
    BY <2>1 DEF DecidedInv
  <2>3. resolver.last_node # noNode
    BY <2>2 DEF noNode
  <2>4. ~isFirstDecision(cr)
    BY <2>1, <2>2 DEF isFirstDecision
  <2>5. resolved = [_update_invariant(resolver, node) EXCEPT !.resolving = node]
    BY <2>1, <2>4 DEF _resolve_node
  <2>6. _update_invariant(resolver, node) =
           IF last.street # state.round + 1
           THEN [resolver EXCEPT !.bound = chance_action_cfv(resolver.resolving, resolver.last_bet)]
           ELSE resolver
    BY <2>2, <2>3, <1>3 DEF _update_invariant
  <2> HIDE DEF resolved
  <2>7. CASE last.street # state.round + 1
    <3>1. resolved = [[resolver EXCEPT !.bound = chance_action_cfv(resolver.resolving, resolver.last_bet)]
                         EXCEPT !.resolving = node]
      BY <2>5, <2>6, <2>7
    <3> QED BY <3>1, <2>1, <2>4, <2>7, <1>2
  <2>8. CASE last.street = state.round + 1
    <3>1. resolved = [resolver EXCEPT !.resolving = node]
      BY <2>5, <2>6, <2>8
    <3> QED BY <3>1, <2>1, <2>4, <2>8, <1>2
  <2> QED BY <2>7, <2>8
<1>5. ASSUME last.hand_number # handId
      PROVE  /\ resolved.range = << >> /\ myEntries(handId, state) = {} /\ state.round = 0
             /\ ~isFirstDecision(cr) => resolved.bound = starting_cfvs_p1
  <2>1. /\ UndecidedInv
        /\ cr = [resolver EXCEPT !.last_node = noNode, !.decision_id = 0, !.position = v + 1]
    BY <1>1, <1>2, <1>5
  <2>2. cr.last_node = noNode /\ cr.decision_id = 0 /\ DOMAIN cr = DOMAIN resolver
    <3> HIDE DEF cr
    <3> QED BY <2>1, <1>2
  <2>3. myEntries(handId, state) = {} /\ state.round = 0
    BY <2>1, <1>1, <1>2, NoneOfMine DEF UndecidedInv, myTurn
  <2> HIDE DEF cr
  <2>4. CASE isFirstDecision(cr)
    <3>1. resolved = [cr EXCEPT !.range = starting_player_range, !.resolving = first_node]
      BY <2>4 DEF _resolve_node
    <3> HIDE DEF resolved
    <3> QED BY <3>1, <2>2, <2>3, <2>4, <1>2
  <2>5. CASE ~isFirstDecision(cr)
    <3>1. resolved = [_update_invariant(cr, node) EXCEPT !.resolving = node]
      BY <2>5 DEF _resolve_node
    <3>2. _update_invariant(cr, node) =
             [cr EXCEPT !.range = starting_player_range, !.bound = starting_cfvs_p1]
      BY <2>2 DEF _update_invariant
    <3> HIDE DEF resolved
    <3>3. resolved = [[cr EXCEPT !.range = starting_player_range, !.bound = starting_cfvs_p1]
                         EXCEPT !.resolving = node]
      BY <3>1, <3>2
    <3> QED BY <3>3, <2>2, <2>3, <1>2
  <2> QED BY <2>4, <2>5
<1> HIDE DEF cr, resolved
<1> QED BY <1>4, <1>5 DEF s, node, cr, resolved

\* A range fits on when the other acts, and when my answer is played.
LEMMA RangeAfterOther ==
  ASSUME NEW s, Ready(s), InPlay(s), NEW a \in Action, isValidAction(s, FALSE, a), NEW h,
         currentPlayer(s) # viewingPlayer(h), NEW range, NEW bet, RangeFits(range, h, s, 0, bet)
  PROVE  RangeFits(range, h, doAction(s, a), 0, bet)
<1> DEFINE e == doAction(s, a)
           n == Len(entriesOf(s))
           m == myEntries(h, s)
<1>1. n \in Nat /\ m \in SUBSET (1 .. n) /\ myEntries(h, e) = m
  BY MyEntriesGrow
<1>2. \A i \in 1 .. n : entriesOf(e)[i] = entriesOf(s)[i]
  BY EntriesGrow
<1> HIDE DEF e, n, m
<1>3. /\ \E S : range \in Seq(S)
      /\ Len(range) = Cardinality(m) + 0
      /\ \A i \in m : range[Cardinality({j \in m : j <= i})].bet = betOf(entriesOf(s)[i])
      /\ Len(range) # 0 /\ range[Len(range)].bet = bet
  BY DEF RangeFits, m
<1>4. \A i \in m : range[Cardinality({j \in m : j <= i})].bet = betOf(entriesOf(e)[i])
  BY <1>1, <1>2, <1>3
<1> QED BY <1>1, <1>3, <1>4 DEF RangeFits, e

LEMMA RangeAfterMe ==
  ASSUME NEW s, Ready(s), InPlay(s), NEW a \in Action, isValidAction(s, FALSE, a), NEW h,
         currentPlayer(s) = viewingPlayer(h), NEW range, NEW bet, RangeFits(range, h, s, 1, bet),
         betOf([type |-> a.type, size |-> a.size, player |-> currentPlayer(s)]) = bet
  PROVE  RangeFits(range, h, doAction(s, a), 0, bet)
<1> DEFINE e == doAction(s, a)
           n == Len(entriesOf(s))
           m == myEntries(h, s)
           M == m \cup {n + 1}
           place(i) == Cardinality({j \in M : j <= i})
<1>1. n \in Nat /\ m \in SUBSET (1 .. n) /\ myEntries(h, e) = M
  BY MyEntriesGrow
<1>2. /\ \A i \in 1 .. n : entriesOf(e)[i] = entriesOf(s)[i]
      /\ betOf(entriesOf(e)[n + 1]) = bet
  BY EntriesGrow
<1> HIDE DEF e, n, m
<1>3. /\ \E S : range \in Seq(S)
      /\ Len(range) = Cardinality(m) + 1
      /\ \A i \in m : range[Cardinality({j \in m : j <= i})].bet = betOf(entriesOf(s)[i])
      /\ Len(range) # 0 /\ range[Len(range)].bet = bet
  BY DEF RangeFits, m
<1>4. /\ Cardinality(m) \in Nat /\ Cardinality(M) = Cardinality(m) + 1
      /\ {j \in M : j <= n + 1} = M
      /\ \A i \in m : {j \in M : j <= i} = {j \in m : j <= i}
  BY <1>1, Places
<1>5. ASSUME NEW i \in M PROVE range[place(i)].bet = betOf(entriesOf(e)[i])
  <2>1. CASE i \in m
    <3>1. place(i) = Cardinality({j \in m : j <= i})
      BY <2>1, <1>4
    <3>2. entriesOf(e)[i] = entriesOf(s)[i]
      BY <2>1, <1>1, <1>2
    <3> HIDE DEF place
    <3> QED BY <2>1, <3>1, <3>2, <1>3
  <2>2. CASE i = n + 1
    <3>1. place(i) = Len(range)
      BY <2>2, <1>3, <1>4
    <3> HIDE DEF place
    <3> QED BY <2>2, <3>1, <1>2, <1>3
  <2> QED BY <2>1, <2>2
<1>6. Len(range) = Cardinality(M) + 0
  <2> HIDE DEF M
  <2> QED BY <1>3, <1>4
<1>7. \A i \in M : range[Cardinality({j \in M : j <= i})].bet = betOf(entriesOf(e)[i])
  BY <1>5
<1> HIDE DEF M
<1> QED BY <1>1, <1>3, <1>6, <1>7 DEF RangeFits, e

LEMMA EntriesOfPlay ==
  ASSUME NEW s \in State, NEW h
  PROVE  \E n \in Nat : myEntries(h, s) \in SUBSET (1 .. n)
<1> DEFINE m == myEntries(h, s)
<1>1. \E n \in Nat : m \in SUBSET (1 .. n)
  <2> DEFINE x == Len(s.action[0])
             y == Len(s.action[1])
  <2>1. s.action[0] \in Seq(Entry) /\ s.action[1] \in Seq(Entry)
    BY TwoPlayers DEF State
  <2>2. DOMAIN entriesOf(s) = 1 .. x + y /\ x \in Nat /\ y \in Nat
    BY <2>1, Concatenated DEF entriesOf
  <2>3. m \subseteq DOMAIN entriesOf(s)
    BY DEF myEntries
  <2> HIDE DEF m, x, y
  <2>4. x + y \in Nat
    BY <2>2
  <2> QED BY <2>2, <2>3, <2>4
<1> QED BY <1>1

\* A decision is one entry more.
LEMMA RangeDecided ==
  ASSUME NEW s \in State, NEW h, NEW range, NEW bet, NEW node, NEW next,
         RangeFits(range, h, s, 0, bet) \/ (range = << >> /\ myEntries(h, s) = {})
  PROVE  RangeFits(Append(range, [node |-> node, bet |-> next]), h, s, 1, next)
<1> DEFINE x == [node |-> node, bet |-> next]
           m == myEntries(h, s)
           longer == Append(range, x)
           place(i) == Cardinality({j \in m : j <= i})
<1>1. PICK n \in Nat : m \in SUBSET (1 .. n)
  BY EntriesOfPlay
<1> HIDE DEF m
<1>2. /\ \E S : range \in Seq(S)
      /\ Len(range) = Cardinality(m)
      /\ \A i \in m : range[place(i)].bet = betOf(entriesOf(s)[i])
  <2>1. CASE RangeFits(range, h, s, 0, bet)
    <3>1. /\ \E S : range \in Seq(S)
          /\ Len(range) = Cardinality(m) + 0
          /\ \A i \in m : range[place(i)].bet = betOf(entriesOf(s)[i])
      BY <2>1 DEF RangeFits, m
    <3>2. Cardinality(m) \in Nat
      BY <1>1, Places
    <3> HIDE DEF place
    <3> QED BY <3>1, <3>2
  <2>2. CASE range = << >> /\ m = {}
    <3>1. Cardinality(m) = 0
      BY <2>2, FS_EmptySet
    <3>2. range \in Seq({}) /\ Len(range) = 0
      BY <2>2
    <3> HIDE DEF place
    <3> QED BY <2>2, <3>1, <3>2
  <2> QED BY <2>1, <2>2 DEF m
<1>3. PICK S : range \in Seq(S)
  BY <1>2
<1> HIDE DEF x
<1>4. /\ longer \in Seq(S \cup {x}) /\ Len(longer) = Len(range) + 1 /\ Len(range) \in Nat
      /\ longer[Len(range) + 1] = x /\ \A i \in 1 .. Len(range) : longer[i] = range[i]
  BY <1>3
<1> HIDE DEF longer
<1>5. \A i \in m : place(i) \in 1 .. Len(range)
  <2>1. \A i \in m : /\ {j \in m \cup {n + 1} : j <= i} = {j \in m : j <= i}
                     /\ Cardinality({j \in m : j <= i}) \in 1 .. Cardinality(m)
    BY ONLY <1>1, Places
  <2>2. Len(range) = Cardinality(m)
    BY <1>2
  <2> QED BY <2>1, <2>2
<1>6. \A i \in m : longer[place(i)].bet = betOf(entriesOf(s)[i])
  <2> HIDE DEF place
  <2> QED BY <1>2, <1>4, <1>5
<1>7. Len(longer) = Cardinality(m) + 1 /\ Len(longer) # 0 /\ longer[Len(longer)].bet = next
  <2> HIDE DEF place
  <2> QED BY <1>2, <1>4 DEF x
<1> QED BY <1>4, <1>6, <1>7 DEF RangeFits, m, longer, x

\* The dealer plays an action of the hand: what is known of it goes on, if what
\* the action makes of it does.
LEMMA DealKeepsHistory ==
  ASSUME IInv, HistoryInv, playing, NEW a \in Action, isValidAction(state, FALSE, a), Deal(a),
         reply' = << >>, UNCHANGED player,
         last.hand_number = handId /\ ~doAction(state, a).finished =>
            /\ RangeFits(resolver.range, handId, doAction(state, a), 0, resolver.last_bet)
            /\ last.street = 1 =>
                  LedOn(resolver, doAction(state, a),
                        currentPlayer(doAction(state, a)) = viewingPlayer(handId))
  PROVE  HistoryInv'
<1> DEFINE e == doAction(state, a)
<1>1. /\ last' = last /\ resolver' = resolver /\ starting_player_range' = starting_player_range
      /\ starting_player_range = << >>
  BY DEF player, HistoryInv
<1>2. IF e.finished THEN handId' = handId + 1 /\ state' = initState
      ELSE handId' = handId /\ state' = e
  BY DEF Deal, stateFinished
<1>3. handId \in Nat /\ last.hand_number \in Int /\ last.hand_number <= handId
  BY DEF IInv, LinesInv, ResolverInv
<1> HIDE DEF e
<1> SUFFICES ASSUME playing', last'.hand_number = handId'
             PROVE  /\ resolver'.bound = action_cfv(resolver'.resolving, resolver'.last_bet)
                    /\ resolver'.last_node = resolver'.resolving
                    /\ RangeFits(resolver'.range, handId', state', Len(reply'), resolver'.last_bet)
                    /\ reply' = << >> /\ last'.street = 1 => LedOn(resolver', state', myTurn')
  BY <1>1 DEF HistoryInv
<1>4. ~e.finished
  BY <1>1, <1>2, <1>3
<1>5. handId' = handId /\ state' = e /\ last.hand_number = handId /\ Len(reply') = 0
  BY <1>1, <1>2, <1>4
<1>6. /\ resolver.bound = action_cfv(resolver.resolving, resolver.last_bet)
      /\ resolver.last_node = resolver.resolving
  BY <1>5 DEF HistoryInv
<1>7. /\ RangeFits(resolver.range, handId, e, 0, resolver.last_bet)
      /\ last.street = 1 => LedOn(resolver, e, currentPlayer(e) = viewingPlayer(handId))
  BY <1>4, <1>5 DEF e
<1>8. myTurn' = (currentPlayer(e) = viewingPlayer(handId))
  BY <1>5 DEF myTurn
<1>9. last.street = 1 => LedOn(resolver, e, myTurn')
  BY <1>7, <1>8
<1>10. RangeFits(resolver'.range, handId', state', Len(reply'), resolver'.last_bet)
  BY <1>1, <1>5, <1>7
<1> QED BY <1>1, <1>5, <1>6, <1>9, <1>10

LEMMA OtherActsKeepsHistory ==
  ASSUME IInv, HistoryInv, OtherActs
  PROVE  HistoryInv'
<1>1. playing /\ ~myTurn /\ reply' = reply /\ UNCHANGED player
  BY DEF OtherActs
<1>2. PICK a \in Others : isValidAction(state, FALSE, a) /\ Deal(a)
  BY DEF OtherActs
<1>3. a \in Action
  BY TwoPlayers DEF Others, Action, ActionTypes
<1>4. reply = << >> /\ Len(reply) = 0
  BY <1>1 DEF IInv, AnswerInv
<1>5. Ready(state) /\ InPlay(state) /\ handId \in Nat /\ currentPlayer(state) # viewingPlayer(handId)
  BY <1>1 DEF IInv, LinesInv, myTurn
<1>6. viewingPlayer(handId) \in {0, 1}
  BY <1>5, Views
<1>7. ASSUME last.hand_number = handId, ~doAction(state, a).finished
      PROVE  /\ RangeFits(resolver.range, handId, doAction(state, a), 0, resolver.last_bet)
             /\ last.street = 1 =>
                   LedOn(resolver, doAction(state, a),
                         currentPlayer(doAction(state, a)) = viewingPlayer(handId))
  <2>1. RangeFits(resolver.range, handId, state, Len(reply), resolver.last_bet)
    BY <1>1, <1>7 DEF HistoryInv
  <2>2. RangeFits(resolver.range, handId, state, 0, resolver.last_bet)
    BY <2>1, <1>4
  <2>3. RangeFits(resolver.range, handId, doAction(state, a), 0, resolver.last_bet)
    BY <2>2, <1>2, <1>3, <1>5, RangeAfterOther
  <2>4. ASSUME last.street = 1
        PROVE  LedOn(resolver, doAction(state, a),
                     currentPlayer(doAction(state, a)) = viewingPlayer(handId))
    <3>1. LedOn(resolver, state, myTurn)
      BY <1>1, <1>4, <1>7, <2>4 DEF HistoryInv
    <3>2. PICK i \in DOMAIN children(resolver.resolving) :
             /\ actions(resolver.resolving)[i] = resolver.last_bet
             /\ LedTo(children(resolver.resolving)[i], state, myTurn)
      BY <3>1 DEF LedOn
    <3>3. LedTo(children(resolver.resolving)[i], state, FALSE)
      <4>1. myTurn = FALSE
        BY <1>1 DEF myTurn
      <4> QED BY <3>2, <4>1
    <3>4. LedTo(children(resolver.resolving)[i], doAction(state, a),
                currentPlayer(doAction(state, a)) = viewingPlayer(handId))
      BY <3>3, <1>2, <1>5, <1>6, <1>7, LedByOther
    <3> QED BY <3>2, <3>4 DEF LedOn
  <2> QED BY <2>3, <2>4
<1>8. reply' = << >>
  BY <1>1, <1>4
<1> QED BY <1>1, <1>2, <1>3, <1>7, <1>8, DealKeepsHistory

LEMMA TakesReplyKeepsHistory ==
  ASSUME IInv, HistoryInv, TakesReply
  PROVE  HistoryInv'
<1> DEFINE a == _bet_to_action(resolver.last_bet)
           node == nodeOf(state)
<1>1. reply # << >> /\ reply' = << >> /\ UNCHANGED player
  BY DEF TakesReply
<1>2. /\ myTurn /\ playing /\ InPlay(state) /\ Ready(state) /\ last.hand_number = handId
      /\ reply = <<[line |-> printed(handId, state), action |-> a]>>
      /\ a \in Action /\ isValidAction(state, FALSE, a)
      /\ isValidAction(state, TRUE, a) /\ fixedAction(state, a) = a
  BY <1>1, AnswerIsValid
<1>3. resolver.resolving = node /\ WayOn(resolver, reply = << >>)
  BY <1>1, <1>2 DEF IInv, AnswerInv, ResolverInv, DecidedInv
<1>4. PICK i \in DOMAIN actions(node) :
         actions(node)[i] = resolver.last_bet /\ (i = 1 => ~isEven(node))
  BY <1>3 DEF WayOn
<1>5. a = _bet_to_action(actions(node)[i])
  BY <1>4
<1>6. DOMAIN children(node) = DOMAIN actions(node) /\ node.street = state.round + 1
      /\ state.round \in {0, 1}
  <2>1. PlayerNode(node) /\ state.round \in {0, 1}
    BY <1>2, NodeInPlay
  <2>2. node.street = state.round + 1
    BY DEF nodeOf
  <2> QED BY <2>1, <2>2, ActionsOfNode
<1> HIDE DEF a, node
<1>7. Deal(a) /\ Len(reply) = 1
  <2>1. reply[1].action = a /\ Len(reply) = 1
    BY <1>2
  <2> QED BY <1>2, <2>1 DEF TakesReply
<1>8. ASSUME last.hand_number = handId, ~doAction(state, a).finished
      PROVE  /\ RangeFits(resolver.range, handId, doAction(state, a), 0, resolver.last_bet)
             /\ last.street = 1 =>
                   LedOn(resolver, doAction(state, a),
                         currentPlayer(doAction(state, a)) = viewingPlayer(handId))
  <2>1. RangeFits(resolver.range, handId, state, Len(reply), resolver.last_bet)
    BY <1>2 DEF HistoryInv
  <2>2. RangeFits(resolver.range, handId, state, 1, resolver.last_bet)
    BY <2>1, <1>7
  <2>3. a.type # "fold"
    <3>1. a.type = "fold" => IsOver(doAction(state, a))
      BY <1>2, FoldInPlay
    <3> QED BY <3>1, <1>8 DEF IsOver
  <2>4. betOf([type |-> a.type, size |-> a.size, player |-> currentPlayer(state)]) = resolver.last_bet
    BY <2>3, <1>2, <1>4, <1>5, AnswerIsBet DEF node
  <2>5. currentPlayer(state) = viewingPlayer(handId)
    BY <1>2 DEF myTurn
  <2>6. RangeFits(resolver.range, handId, doAction(state, a), 0, resolver.last_bet)
    BY <2>2, <2>4, <2>5, <1>2, RangeAfterMe
  <2>7. ASSUME last.street = 1
        PROVE  LedOn(resolver, doAction(state, a),
                     currentPlayer(doAction(state, a)) = viewingPlayer(handId))
    <3>1. resolver.last_node = node /\ resolver.last_node.street = last.street
      BY <1>2, <1>3 DEF HistoryInv, IInv, ResolverInv, DecidedInv
    <3>2. state.round = 0
      BY <3>1, <2>7, <1>6
    <3>3. LedTo(children(node)[i], doAction(state, a),
                currentPlayer(doAction(state, a)) = viewingPlayer(handId))
      BY <3>2, <1>2, <1>4, <1>5, <1>6, <1>8, LedByMe DEF node
    <3> QED BY <3>3, <1>3, <1>4, <1>6 DEF LedOn
  <2> QED BY <2>6, <2>7
<1> QED BY <1>1, <1>2, <1>7, <1>8, DealKeepsHistory

LEMMA OurTurnKeepsHistory ==
  ASSUME IInv, HistoryInv, OurTurn
  PROVE  HistoryInv'
<1> DEFINE line == Head(inbox)
           s == parse_state(line)
           node == parsed_state_to_node(s)
           resolved == _resolve_node(asked(s), node)
<1>1. /\ inbox # << >> /\ isMyTurn(line) /\ handId' = handId /\ state' = state
      /\ starting_player_range' = starting_player_range
  BY DEF OurTurn, dealer, startAfter
<1>2. PICK bet \in playable(resolved.resolving) :
         /\ resolver' = sampled(resolved, node, bet)
         /\ reply' = <<[line |-> line, action |-> _bet_to_action(bet)]>>
  BY DEF OurTurn
<1>3. /\ playing /\ InPlay(state) /\ reply = << >>
      /\ DOMAIN resolved = DOMAIN resolver /\ resolved.resolving = node
      /\ DOMAIN resolver = {"decision_id", "position", "last_node", "last_bet", "resolving",
                            "range", "bound"}
  BY <1>1, QuestionIsSolved DEF IInv, ResolverInv
<1>4. RangeFits(resolved.range, handId, state, 0, resolver.last_bet)
      \/ (resolved.range = << >> /\ myEntries(handId, state) = {})
  <2>1. /\ last.hand_number = handId => resolved.range = resolver.range
        /\ last.hand_number # handId => resolved.range = << >> /\ myEntries(handId, state) = {}
    BY <1>1, ResolvedFrom
  <2>2. ASSUME last.hand_number = handId
        PROVE  RangeFits(resolver.range, handId, state, 0, resolver.last_bet)
    <3>1. RangeFits(resolver.range, handId, state, Len(reply), resolver.last_bet)
      BY <1>3, <2>2 DEF HistoryInv
    <3>2. Len(reply) = 0
      BY <1>3
    <3> QED BY <3>1, <3>2
  <2> HIDE DEF resolved
  <2> QED BY <2>1, <2>2
<1> HIDE DEF line, s, node, resolved
<1>5. RangeFits(Append(resolved.range, [node |-> resolved.resolving, bet |-> bet]),
                handId, state, 1, bet)
  BY <1>3, <1>4, RangeDecided DEF InPlay
<1>6. /\ resolver'.bound = action_cfv(node, bet) /\ resolver'.last_bet = bet
      /\ resolver'.resolving = node /\ resolver'.last_node = node
      /\ resolver'.range = Append(resolved.range, [node |-> resolved.resolving, bet |-> bet])
  BY <1>2, <1>3 DEF sampled
<1>7. reply' # << >> /\ Len(reply') = 1
  BY <1>2
<1>8. RangeFits(resolver'.range, handId', state', Len(reply'), resolver'.last_bet)
  BY <1>1, <1>5, <1>6, <1>7
<1>9. starting_player_range' = << >>
  BY <1>1 DEF HistoryInv
<1> QED BY <1>6, <1>7, <1>8, <1>9 DEF HistoryInv

LEMMA StepKeepsHistory == IInv /\ HistoryInv /\ [Next]_vars => HistoryInv'
<1> SUFFICES ASSUME IInv, HistoryInv, [Next]_vars PROVE HistoryInv'
  OBVIOUS
<1>1. CASE OtherActs
  BY <1>1, OtherActsKeepsHistory
<1>2. CASE TakesReply
  BY <1>2, TakesReplyKeepsHistory
<1>3. CASE OurTurn
  BY <1>3, OurTurnKeepsHistory
<1>4. CASE NotOurTurn \/ UNCHANGED vars
  <2>1. /\ handId' = handId /\ state' = state /\ reply' = reply /\ last' = last
        /\ resolver' = resolver /\ starting_player_range' = starting_player_range
    BY <1>4 DEF NotOurTurn, vars, dealer, player
  <2> QED BY <2>1 DEF HistoryInv, playing, myTurn
<1> QED BY <1>1, <1>2, <1>3, <1>4 DEF Next, Plays, Over

LEMMA HistoryHolds == Spec => []HistoryInv
<1>1. Init => HistoryInv
  BY InitHistory
<1>2. IInv /\ HistoryInv /\ [Next]_vars => HistoryInv'
  BY StepKeepsHistory
<1> QED BY <1>1, <1>2, IInvHolds, PTL DEF Spec

-----------------------------------------------------------------------------
(* The theorems.                                                           *)

\* DeepStack knows when it is asked, and then the street, the actor and both
\* bets, though it never plays the game through: the last two actions and the
\* last raise before them tell (get_next_situation, protocol_to_node.lua).
THEOREM LinesAreUnderstood == Spec => []ReadsTheState
BY LinesReadState, IInvHolds, PTL

\* What DeepStack answers is valid as it stands in the state the dealer is in
\* (compute_action, isValidAction).
THEOREM AnswersAreTaken == Spec => []AnswersAreValid
<1>1. IInv => AnswersAreValid
  <2> SUFFICES ASSUME IInv, reply # << >>
               PROVE  /\ myTurn /\ reply[1].line = printed(handId, state)
                      /\ isValidAction(state, FALSE, reply[1].action)
    BY DEF AnswersAreValid
  <2> DEFINE a == _bet_to_action(resolver.last_bet)
  <2>1. /\ myTurn /\ reply = <<[line |-> printed(handId, state), action |-> a]>>
        /\ isValidAction(state, FALSE, a)
    BY AnswerIsValid
  <2> HIDE DEF a
  <2>2. reply[1].line = printed(handId, state) /\ reply[1].action = a
    BY <2>1
  <2> QED BY <2>1, <2>2
<1> QED BY <1>1, IInvHolds, PTL

\* DeepStack's tree and the dealer's engine have the same rules: every child of
\* a node is what doAction makes of its action (tree_builder.lua, game.c).
THEOREM TreeFollowsTheGame == Spec => []TreeIsTheGame
<1>1. IInv => TreeIsTheGame
  <2> SUFFICES ASSUME IInv, playing PROVE TreeIsTheGame
    BY DEF TreeIsTheGame
  <2>1. Ready(state) /\ InPlay(state)
    BY DEF IInv, LinesInv
  <2>2. ASSUME NEW i \in DOMAIN children(nodeOf(state)), i = 1 => ~isEven(nodeOf(state))
        PROVE  ChildIsNext(state, i)
    BY <2>1, <2>2, ChildrenAreNext
  <2> QED BY <2>2 DEF TreeIsTheGame, ChildIsNext
<1> QED BY <1>1, IInvHolds, PTL

\* No assert of the parser, nor of the resolver between one decision and the
\* next, ever fails (protocol_to_node.lua, continual_resolving.lua).
THEOREM NoAssertFails == Spec => []AssertsHold
<1>1. IInv => AssertsHold
  <2> SUFFICES ASSUME IInv, inbox # << >>
               PROVE  LET s == parse_state(Head(inbox))
                      IN /\ parseAsserts(Head(inbox))
                         /\ isMyTurn(Head(inbox)) =>
                               resolveAsserts(asked(s), parsed_state_to_node(s))
    BY DEF AssertsHold
  <2>1. PICK S : inbox \in Seq(S)
    BY DEF IInv, LinesInv
  <2>2. Head(inbox) = inbox[1] /\ 1 \in 1 .. Len(inbox)
    BY <2>1
  <2>3. parseAsserts(Head(inbox))
    <3>1. CASE Unasked(inbox[1])
      BY <3>1, <2>2 DEF Unasked
    <3>2. CASE ~Unasked(inbox[1])
      <4>1. 1 = Len(inbox) /\ playing
        BY <2>2, <3>2 DEF IInv, LinesInv
      <4>2. inbox[1] = printed(handId, state) /\ InPlay(state) /\ handId \in Nat
        BY <4>1 DEF IInv, LinesInv
      <4> QED BY <2>2, <4>2, QuestionIsRead
    <3> QED BY <3>1, <3>2
  <2>4. isMyTurn(Head(inbox)) => LET s == parse_state(Head(inbox))
                                 IN resolveAsserts(asked(s), parsed_state_to_node(s))
    BY QuestionIsSolved
  <2> QED BY <2>3, <2>4
<1> QED BY <1>1, IInvHolds, PTL

\* DeepStack's range is always that of its actions in this hand, each once, in
\* order and no other (start_new_hand, _resolve_node, _sample_bet; the clone of
\* the starting range).
THEOREM RangeIsKept == Spec => []RangeIsMyHistory
<1>1. IInv /\ HistoryInv => RangeIsMyHistory
  <2> SUFFICES ASSUME IInv, HistoryInv, playing, last.hand_number = handId, reply = << >>
               PROVE  RangeIsMyHistory
    BY DEF RangeIsMyHistory
  <2>1. RangeFits(resolver.range, handId, state, Len(reply), resolver.last_bet) /\ Len(reply) = 0
    BY DEF HistoryInv
  <2> DEFINE m == myEntries(handId, state)
             place(i) == Cardinality({j \in m : j <= i})
  <2>2. PICK n \in Nat : m \in SUBSET (1 .. n)
    <3>1. state \in State
      BY DEF IInv, LinesInv, InPlay
    <3> QED BY <3>1, EntriesOfPlay
  <2> HIDE DEF m
  <2>3. Cardinality(m) \in Nat
    BY <2>2, Places
  <2>4. /\ Len(resolver.range) = Cardinality(m) + 0
        /\ \A i \in m : resolver.range[place(i)].bet = betOf(entriesOf(state)[i])
    BY <2>1 DEF RangeFits, m
  <2> HIDE DEF place
  <2>5. Len(resolver.range) = Cardinality(m)
    BY <2>3, <2>4
  <2> QED BY <2>4, <2>5 DEF RangeIsMyHistory, m, place
<1> QED BY <1>1, IInvHolds, HistoryHolds, PTL

\* Whatever the delay, a node is solved with the values of DeepStack's last
\* action in this hand, over the board if that, and no more than a call, led to
\* it (_update_invariant, get_chance_action_cfv).
THEOREM BoundIsKept == Spec => []BoundIsMyLastAction
<1>1. IInv /\ HistoryInv => BoundIsMyLastAction
  <2> DEFINE s == parse_state(Head(inbox))
             ask == asked(s)
             cr == _resolve_node(ask, nodeOf(state))
             root == cr.bound.node
             m == myEntries(handId, state)
  <2> SUFFICES ASSUME IInv, HistoryInv, upToDate, myTurn, ~isFirstDecision(ask)
               PROVE  IF m = {} THEN cr.bound = starting_cfvs_p1 /\ state.round = 0
                      ELSE /\ cr.bound.bet = betOf(entriesOf(state)[Max(m)])
                           /\ cr.bound.board <=> root.street = 1 /\ state.round = 1
                           /\ cr.bound.board => leadsToBoard(root, cr.bound.bet, betBeforeBoard(state))
    BY DEF BoundIsMyLastAction
  <2>1. playing /\ inbox # << >> /\ InPlay(state) /\ handId \in Nat
    BY DEF upToDate, IInv, LinesInv
  <2>2. isMyTurn(Head(inbox)) /\ parsed_state_to_node(s) = nodeOf(state)
    <3>1. IInv => ReadsTheState
      BY LinesReadState
    <3> QED BY <3>1 DEF ReadsTheState
  <2>3. /\ last.hand_number = handId =>
              /\ DecidedInv
              /\ cr.bound = IF last.street # state.round + 1
                            THEN chance_action_cfv(resolver.resolving, resolver.last_bet)
                            ELSE resolver.bound
        /\ last.hand_number # handId =>
              /\ m = {} /\ state.round = 0
              /\ ~isFirstDecision(ask) => cr.bound = starting_cfvs_p1
    BY <2>1, <2>2, ResolvedFrom
  <2> HIDE DEF s, ask, cr, m
  <2>4. CASE last.hand_number # handId
    BY <2>3, <2>4
  <2>5. CASE last.hand_number = handId
    <3>1. reply = << >> /\ Len(reply) = 0
      BY <2>1, <2>2, QuestionIsSolved
    <3>2. /\ resolver.bound = action_cfv(resolver.resolving, resolver.last_bet)
          /\ resolver.last_node = resolver.resolving
          /\ RangeFits(resolver.range, handId, state, Len(reply), resolver.last_bet)
          /\ last.street = 1 => LedOn(resolver, state, myTurn)
      BY <2>1, <2>5, <3>1 DEF HistoryInv
    <3>3. last.street \in {1, 2} /\ last.street <= state.round + 1
          /\ resolver.resolving.street = last.street
      BY <2>3, <2>5, <3>2 DEF DecidedInv
    <3>4. state.round \in {0, 1}
      BY <2>1, NodeInPlay
    <3>5. m # {} /\ resolver.last_bet = betOf(entriesOf(state)[Max(m)])
      <4> DEFINE place(i) == Cardinality({j \in m : j <= i})
      <4>1. /\ Len(resolver.range) = Cardinality(m) + 0
            /\ \A i \in m : resolver.range[place(i)].bet = betOf(entriesOf(state)[i])
            /\ Len(resolver.range) # 0 /\ resolver.range[Len(resolver.range)].bet = resolver.last_bet
        BY <3>1, <3>2 DEF RangeFits, m
      <4>2. PICK n \in Nat : m \in SUBSET (1 .. n)
        BY <2>1, EntriesOfPlay DEF m, InPlay
      <4>3. Cardinality(m) \in Nat /\ (m = {} <=> Cardinality(m) = 0)
        BY <4>2, Places
      <4>4. m # {} /\ Len(resolver.range) = Cardinality(m)
        <5> HIDE DEF place
        <5> QED BY <4>1, <4>3
      <4>5. Max(m) \in m /\ {j \in m : j <= Max(m)} = m
        BY <4>2, <4>4, LastPlace
      <4>6. place(Max(m)) = Len(resolver.range)
        BY <4>4, <4>5
      <4> HIDE DEF place
      <4> QED BY <4>1, <4>4, <4>5, <4>6
    <3>6. CASE last.street # state.round + 1
      <4>1. last.street = 1 /\ state.round = 1
        BY <3>3, <3>4, <3>6
      <4>2. /\ cr.bound.bet = resolver.last_bet /\ root = resolver.resolving /\ cr.bound.board = TRUE
        BY <2>3, <2>5, <3>6 DEF chance_action_cfv
      <4>3. PICK i \in DOMAIN children(root) :
               actions(root)[i] = resolver.last_bet /\ LedTo(children(root)[i], state, myTurn)
        BY <4>1, <4>2, <3>2 DEF LedOn
      <4>4. leadsToBoard(root, cr.bound.bet, betBeforeBoard(state))
        BY <4>1, <4>2, <4>3 DEF leadsToBoard, LedTo
      <4> QED BY <4>1, <4>2, <4>4, <3>3, <3>5
    <3>7. CASE last.street = state.round + 1
      <4>1. /\ cr.bound.bet = resolver.last_bet /\ root = resolver.resolving /\ cr.bound.board = FALSE
        BY <2>3, <2>5, <3>2, <3>7 DEF action_cfv
      <4>2. ~(root.street = 1 /\ state.round = 1)
        BY <4>1, <3>3, <3>7
      <4> QED BY <4>1, <4>2, <3>5
    <3> QED BY <3>6, <3>7
  <2> QED BY <2>4, <2>5
<1> QED BY <1>1, IInvHolds, HistoryHolds, PTL

=============================================================================
