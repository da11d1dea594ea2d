---------------------------- MODULE MatchProofs ----------------------------
(***************************************************************************)
(* The button, for any number of players and hands; every card once, for   *)
(* any deck and any number of players and cards; and every board of an     *)
(* all-in hand once, for any number of cards.                              *)
(***************************************************************************)
EXTENDS Match, Dealing, AllInBoards, GameProofs

-----------------------------------------------------------------------------
(* The button.                                                             *)

\* The inductive invariant: ButtonFollowsHand, of a table with a hand number.
ButtonInv ==
    /\ match \in TableWith(match.state, match.totalValue)
    /\ ButtonFollowsHand

\* Moving the button by one is counting one hand more (dealer.c, setUpNewHand).
LEMMA ButtonMoves ==
  ASSUME NEW n \in Nat, n > 0, NEW h \in Nat
  PROVE  ((h % n) + 1) % n = (h + 1) % n
<1>1. h % n \in 0 .. n - 1
  OBVIOUS
<1>2. CASE (h % n) + 1 < n
  <2>1. (h % n) + 1 \in 0 .. n - 1
    BY <1>1, <1>2
  <2>2. (h + 1) % n = (h % n) + 1
    BY <2>1, <1>1, ModuloShift
  <2>3. ((h % n) + 1) % n = (h % n) + 1
    BY <2>1
  <2> QED BY <2>2, <2>3
<1>3. CASE (h % n) + 1 = n
  <2>1. (h + 1) % n = 0
    BY <1>1, <1>3, ModuloShift
  <2>2. n % n = 0
    BY ModuloOfMultiple, n = 1 * n + 0
  <2> QED BY <1>3, <2>1, <2>2
<1> QED BY <1>1, <1>2, <1>3

\* One action keeps the button where the number of hands puts it.
LEMMA PlayKeepsButton ==
  ASSUME ButtonInv, Play
  PROVE  ButtonInv'
<1>1. PICK a \in Actions : match' = transact(match, a)
  BY DEF Play
<1> DEFINE after == act(match, a)
           total == addValues(after)
           counted == [after EXCEPT !.totalValue = total]
<1>2. /\ after \in TableWith(after.state, match.totalValue)
      /\ after.handId = match.handId /\ after.player0Seat = match.player0Seat
  BY ActFields DEF ButtonInv
<1>3. CASE ~stateFinished(after.state)
  <2>1. match' = after
    BY <1>1, <1>3 DEF transact
  <2> HIDE DEF after
  <2> QED BY <1>2, <1>3, <2>1 DEF ButtonInv, TableWith, ButtonFollowsHand, stateFinished
<1>4. CASE stateFinished(after.state)
  <2>1. match' = setUpNewHand(counted)
    BY <1>1, <1>4 DEF transact
  <2> HIDE DEF after, total
  <2>2. /\ counted \in TableWith(after.state, total)
        /\ counted.handId = match.handId /\ counted.player0Seat = match.player0Seat
    BY <1>2, CountedFields DEF TableWith
  <2> HIDE DEF counted
  <2>3. /\ match' \in TableWith(initState, total)
        /\ match'.handId = match.handId + 1
        /\ match'.player0Seat = IF fixedSeats THEN match.player0Seat
                                ELSE (match.player0Seat + 1) % numPlayers
    BY <2>1, <2>2, SetUpNewHandFields DEF TableWith
  <2>4. ~initState.finished
    BY DEF initState
  <2>5. ~fixedSeats => (match.player0Seat + 1) % numPlayers = (match.handId + 1) % numPlayers
    BY GameAssumption, ButtonMoves DEF ButtonInv, TableWith, ButtonFollowsHand
  <2> QED BY <2>3, <2>4, <2>5 DEF ButtonInv, TableWith, ButtonFollowsHand
<1> QED BY <1>3, <1>4

\* The button is a function of the number of hands that were played, and no
\* hand is under way that is finished (dealer.c, gameLoop and setUpNewHand).
THEOREM ButtonIsRight == Spec => []ButtonFollowsHand
<1>1. Init => ButtonInv
  <2>1. ~fixedSeats => 0 % numPlayers = 0
    BY GameAssumption, ModuloOfMultiple, 0 = 0 * numPlayers + 0
  <2> QED BY <2>1 DEF Init, firstHand, initState, ButtonInv, TableWith, ButtonFollowsHand
<1>2. ButtonInv /\ [Next]_match => ButtonInv'
  <2>1. ButtonInv /\ Play => ButtonInv'
    BY PlayKeepsButton
  <2>2. ButtonInv /\ match' = match => ButtonInv'
    BY DEF ButtonInv, TableWith, ButtonFollowsHand
  <2> QED BY <2>1, <2>2 DEF Next, Over
<1>3. ButtonInv => ButtonFollowsHand
  BY DEF ButtonInv
<1> QED BY <1>1, <1>2, <1>3, PTL DEF Spec

-----------------------------------------------------------------------------
(* Dealing.                                                                *)

\* A pair of digits to base n is known by its number.
LEMMA DigitsDiffer ==
  ASSUME NEW n \in Nat, NEW a \in Nat, NEW b \in Nat, NEW x \in 0 .. n - 1, NEW y \in 0 .. n - 1,
         a * n + x = b * n + y
  PROVE  a = b /\ x = y
<1>1. \A c, d \in Nat : c < d => (c + 1) * n <= d * n
  <2>1. ASSUME NEW c \in Nat, NEW d \in Nat, c < d
        PROVE  (c + 1) * n <= d * n
    <3>1. PICK e \in Nat : d = c + 1 + e
      BY <2>1, d - c - 1 \in Nat
    <3>2. d * n = (c + 1) * n + e * n /\ e * n \in Nat /\ (c + 1) * n \in Nat
      BY <3>1
    <3> QED BY <3>2
  <2> QED BY <2>1
<1>2. a * n \in Nat /\ b * n \in Nat /\ (a + 1) * n = a * n + n /\ (b + 1) * n = b * n + n
  OBVIOUS
<1>3. ~(a < b)
  BY <1>1, <1>2
<1>4. ~(b < a)
  BY <1>1, <1>2
<1> QED BY <1>3, <1>4

\* The two loops of dealCards put no card into the deck twice.
LEMMA DeckHasCardsOnce ==
  /\ numCardsOfDeck \in Nat
  /\ newDeck \in [0 .. numCardsOfDeck - 1 -> Cards]
  /\ \A i, j \in 0 .. numCardsOfDeck - 1 : newDeck[i] = newDeck[j] => i = j
<1>1. numCardsOfDeck \in Nat /\ numRanks \in Nat /\ numRanks > 0
  BY DeckAssumption DEF numCardsOfDeck
<1>2. newDeck \in [0 .. numCardsOfDeck - 1 -> Cards]
  BY DEF newDeck, Cards
<1>3. ASSUME NEW k \in 0 .. numCardsOfDeck - 1
      PROVE  /\ k % numRanks \in 0 .. numRanks - 1
             /\ k \div numRanks \in 0 .. numSuits - 1
             /\ k = (k \div numRanks) * numRanks + (k % numRanks)
  <2>1. k \in Nat /\ k < numSuits * numRanks
    BY <1>1 DEF numCardsOfDeck
  <2> DEFINE q == k \div numRanks
             m == k % numRanks
  <2>2. q \in Nat /\ m \in 0 .. numRanks - 1 /\ k = q * numRanks + m
    BY <1>1, <2>1
  <2>3. q < numSuits
    <3> HIDE DEF q, m
    <3>1. SUFFICES ASSUME q >= numSuits PROVE FALSE
      BY <2>2, DeckAssumption
    <3>2. PICK e \in Nat : q = numSuits + e
      BY <3>1, <2>2, DeckAssumption, q - numSuits \in Nat
    <3>3. q * numRanks = numSuits * numRanks + e * numRanks /\ e * numRanks \in Nat
      BY <3>2, <1>1, DeckAssumption
    <3>4. numSuits * numRanks \in Nat
      BY DeckAssumption
    <3> QED BY <3>3, <3>4, <2>1, <2>2
  <2> QED BY <2>2, <2>3, DeckAssumption
<1>4. ASSUME NEW i \in 0 .. numCardsOfDeck - 1, NEW j \in 0 .. numCardsOfDeck - 1,
             newDeck[i] = newDeck[j]
      PROVE  i = j
  <2> DEFINE rank(k) == MAX_RANKS - numRanks + (k % numRanks)
             suit(k) == MAX_SUITS - numSuits + (k \div numRanks)
  <2>1. rank(i) * MAX_SUITS + suit(i) = rank(j) * MAX_SUITS + suit(j)
    BY <1>4 DEF newDeck, makeCard
  <2>2. /\ rank(i) \in Nat /\ suit(i) \in 0 .. MAX_SUITS - 1
        /\ rank(j) \in Nat /\ suit(j) \in 0 .. MAX_SUITS - 1
    BY <1>3, DeckAssumption
  <2>3. rank(i) = rank(j) /\ suit(i) = suit(j)
    <3> HIDE DEF rank, suit
    <3> QED BY <2>1, <2>2, DigitsDiffer, DeckAssumption
  <2>4. i % numRanks = j % numRanks /\ i \div numRanks = j \div numRanks
    BY <1>3, <2>3, DeckAssumption
  <2> QED BY <2>4, <1>3
<1> QED BY <1>1, <1>2, <1>4

\* The inductive invariant: EveryCardOnce, of arrays of cards of the right size.
DealInv ==
    /\ deck \in [0 .. numCardsOfDeck - 1 -> Cards]
    /\ dealt \in Seq(Cards) /\ Len(dealt) <= numPlaces
    /\ EveryCardOnce

LEMMA DealInitInv == DealInit => DealInv
<1> SUFFICES ASSUME DealInit PROVE DealInv
  OBVIOUS
<1>1. deck = newDeck /\ dealt = << >> /\ Range(dealt) = {} /\ Len(dealt) = 0
  BY DEF DealInit, Range
<1>2. numLeft = numCardsOfDeck /\ left = 0 .. numCardsOfDeck - 1
  BY <1>1, DeckHasCardsOnce DEF numLeft, left
<1>3. {newDeck[i] : i \in 0 .. numCardsOfDeck - 1} = Cards
  BY DEF Cards, newDeck
<1>4. IsInjective(dealt)
  BY <1>1 DEF IsInjective
<1>5. dealt \in Seq(Cards) /\ Len(dealt) <= numPlaces
  BY <1>1, DeckAssumption
<1> QED BY <1>1, <1>2, <1>3, <1>4, <1>5, DeckHasCardsOnce DEF DealInv, EveryCardOnce

\* dealCard keeps the account: the card drawn at i is dealt, and the last card
\* that was left is at i now, or was the one drawn.
LEMMA DealCardInv == DealInv /\ dealCard => DealInv'
<1> SUFFICES ASSUME DealInv, dealCard PROVE DealInv'
  OBVIOUS
<1> DEFINE N == numLeft
<1>1. PICK i \in left : dealt' = Append(dealt, deck[i]) /\ deck' = [deck EXCEPT ![i] = deck[N - 1]]
  BY DEF dealCard, afterDrawing
<1>2. /\ numCardsOfDeck \in Nat /\ Len(dealt) \in Nat /\ Len(dealt) < numPlaces
      /\ numPlaces <= numCardsOfDeck /\ numPlaces \in Nat
  <2>1. dealt \in Seq(Cards) /\ Len(dealt) < numPlaces
    BY DEF DealInv, dealCard
  <2>2. numPlaces \in 0 .. numCardsOfDeck
    BY DeckAssumption DEF numCardsOfDeck
  <2> QED BY <2>1, <2>2, DeckHasCardsOnce
<1>3. /\ N \in Nat /\ N > 0 /\ N <= numCardsOfDeck /\ left = 0 .. N - 1
  BY <1>2 DEF numLeft, left
<1>4. deck \in [0 .. numCardsOfDeck - 1 -> Cards] /\ dealt \in Seq(Cards) /\ deck[i] \in Cards
  <2>1. i \in 0 .. numCardsOfDeck - 1
    BY <1>2, <1>3
  <2> QED BY <2>1 DEF DealInv
<1>5. /\ dealt' \in Seq(Cards) /\ Len(dealt') = Len(dealt) + 1
      /\ \A k \in 1 .. Len(dealt) : dealt'[k] = dealt[k]
      /\ dealt'[Len(dealt) + 1] = deck[i]
  BY <1>1, <1>4
<1>6. numLeft' = N - 1 /\ left' = 0 .. N - 2
  BY <1>2, <1>5, <1>3 DEF numLeft, left
<1>7. \A k \in left' : k \in left /\ deck'[k] = IF k = i THEN deck[N - 1] ELSE deck[k]
  <2> SUFFICES ASSUME NEW k \in left'
               PROVE  k \in left /\ deck'[k] = IF k = i THEN deck[N - 1] ELSE deck[k]
    OBVIOUS
  <2>1. k \in 0 .. N - 2 /\ N - 2 < numCardsOfDeck /\ N \in Int
    BY <1>2, <1>3, <1>6
  <2>2. k \in left /\ k \in DOMAIN deck
    BY <2>1, <1>2, <1>3, <1>4
  <2> HIDE DEF N
  <2> QED BY <2>2, <1>1
<1>8. N - 1 \in left
  BY <1>3
<1>9. DOMAIN dealt = 1 .. Len(dealt) /\ DOMAIN dealt' = 1 .. Len(dealt) + 1
  BY <1>4, <1>5, <1>2
<1>10. Range(dealt') = Range(dealt) \cup {deck[i]}
  BY <1>5, <1>9, <1>2 DEF Range
<1>11. /\ \A k, l \in left : deck[k] = deck[l] => k = l
       /\ \A k \in left : deck[k] \notin Range(dealt)
       /\ Range(dealt) \cup {deck[k] : k \in left} = Cards
       /\ IsInjective(dealt)
  BY DEF DealInv, EveryCardOnce
<1>12. (deck \in [0 .. numCardsOfDeck - 1 -> Cards])' /\ (Len(dealt) <= numPlaces)'
  BY <1>1, <1>2, <1>3, <1>4, <1>5
<1>13. IsInjective(dealt')
  <2>1. deck[i] \notin Range(dealt)
    BY <1>11
  <2>2. \A k \in 1 .. Len(dealt) : dealt[k] # deck[i]
    BY <2>1, <1>9 DEF Range
  <2>3. \A k, l \in 1 .. Len(dealt) : dealt[k] = dealt[l] => k = l
    BY <1>11, <1>9 DEF IsInjective
  <2> QED BY <1>2, <1>5, <1>9, <2>2, <2>3 DEF IsInjective
<1>14. \A k, l \in left' : deck'[k] = deck'[l] => k = l
  <2> SUFFICES ASSUME NEW k \in left', NEW l \in left', deck'[k] = deck'[l] PROVE k = l
    OBVIOUS
  <2>1. k \in 0 .. N - 2 /\ l \in 0 .. N - 2 /\ k # N - 1 /\ l # N - 1
    BY <1>6, <1>3
  <2> QED BY <2>1, <1>7, <1>8, <1>11
<1>15. \A k \in left' : deck'[k] \notin Range(dealt')
  <2> SUFFICES ASSUME NEW k \in left' PROVE deck'[k] \notin Range(dealt')
    OBVIOUS
  <2>1. k \in 0 .. N - 2 /\ k # N - 1
    BY <1>6, <1>3
  <2>2. CASE k = i
    BY <2>1, <2>2, <1>7, <1>8, <1>10, <1>11
  <2>3. CASE k # i
    BY <2>1, <2>3, <1>7, <1>10, <1>11
  <2> QED BY <2>2, <2>3
<1>16. Range(dealt') \cup {deck'[k] : k \in left'} = Cards
  <2>1. ASSUME NEW k \in left'
        PROVE  deck'[k] \in Cards
    BY <1>7, <1>8, <1>11
  <2>2. ASSUME NEW k \in left
        PROVE  deck[k] \in Range(dealt') \cup {deck'[l] : l \in left'}
    <3>1. CASE k = i
      BY <3>1, <1>10
    <3>2. CASE k # i /\ k # N - 1
      <4>1. k \in left' /\ deck'[k] = deck[k]
        BY <3>2, <1>3, <1>6, <1>7
      <4> QED BY <4>1
    <3>3. CASE k # i /\ k = N - 1
      <4>1. i \in left' /\ deck'[i] = deck[k]
        BY <3>3, <1>3, <1>6, <1>7
      <4> QED BY <4>1
    <3> QED BY <3>1, <3>2, <3>3
  <2>3. \A c \in Cards : c \in Range(dealt) \/ \E k \in left : c = deck[k]
    BY <1>11
  <2>4. Range(dealt') \subseteq Cards
    BY <1>10, <1>11
  <2> QED BY <2>1, <2>2, <2>3, <2>4, <1>10
<1> QED BY <1>5, <1>12, <1>13, <1>14, <1>15, <1>16 DEF DealInv, EveryCardOnce

LEMMA DealNextInv == DealInv /\ [DealNext]_deal => DealInv'
<1>1. CASE dealCard
  BY <1>1, DealCardInv
<1>2. CASE UNCHANGED deal
  BY <1>2 DEF deal, DealInv, EveryCardOnce, left, numLeft
<1> QED BY <1>1, <1>2 DEF DealNext, Dealt

\* dealCards deals no card twice and loses none, whatever the deck, the number
\* of players and cards, and the numbers that are drawn.
THEOREM NoCardTwice == DealSpec => []EveryCardOnce
<1>1. DealInv => EveryCardOnce
  BY DEF DealInv
<1> QED BY DealInitInv, DealNextInv, <1>1, PTL DEF DealSpec

-----------------------------------------------------------------------------
(* The boards of an all-in hand.  A board is kept as its cards in          *)
(* ascending order, and the loop counts down in the order that looks at    *)
(* the highest card first.                                                 *)

Ascending(k, n) == {u \in [0 .. k - 1 -> 0 .. n - 1] : \A i, j \in 0 .. k - 1 : i < j => u[i] < u[j]}

Above(k, v, u) ==
    \E d \in 0 .. k - 1 : /\ u[d] < v[d]
                          /\ \A j \in 0 .. k - 1 : d < j => v[j] = u[j]

\* The cards of a board are at least one apart each.
LEMMA CardsApart ==
  ASSUME NEW k \in Nat, NEW n \in Nat, NEW u \in Ascending(k, n)
  PROVE  /\ \A j \in 0 .. k - 1 : j <= u[j] /\ u[j] <= n - k + j
         /\ \A i, j \in 0 .. k - 1 : i <= j => u[i] + (j - i) <= u[j]
<1>1. \A j \in 0 .. k - 1 : u[j] \in Int /\ 0 <= u[j] /\ u[j] <= n - 1
  BY DEF Ascending
<1>2. \A i, j \in 0 .. k - 1 : i < j => u[i] < u[j]
  BY DEF Ascending
<1>3. ASSUME NEW i \in 0 .. k - 1 PROVE \A j \in 0 .. k - 1 : i <= j => u[i] + (j - i) <= u[j]
  <2> DEFINE Bad == {m \in 0 .. k - 1 - i : ~(u[i] + m <= u[i + m])}
  <2>1. Bad = {}
    <3> SUFFICES ASSUME Bad # {} PROVE FALSE
      OBVIOUS
    <3>1. PICK m \in Bad : \A l \in Bad : m <= l
      <4>1. Bad \in SUBSET Nat
        OBVIOUS
      <4> HIDE DEF Bad
      <4> QED BY <4>1, LeastNatural
    <3>2. m \in Nat /\ m # 0 /\ m <= k - 1 - i /\ ~(u[i] + m <= u[i + m])
      BY <3>1, <1>1
    <3>3. m - 1 \notin Bad
      BY <3>1, <3>2
    <3>4. u[i] + (m - 1) <= u[i + (m - 1)]
      BY <3>2, <3>3
    <3> DEFINE a == i + (m - 1)
               b == i + m
    <3>5. a \in 0 .. k - 1 /\ b \in 0 .. k - 1 /\ a < b
      BY <3>2
    <3>6. u[a] < u[b] /\ u[a] \in Int /\ u[b] \in Int /\ u[i] \in Int
      BY <3>5, <1>1, <1>2
    <3> QED BY <3>2, <3>4, <3>6
  <2>2. ASSUME NEW j \in 0 .. k - 1, i <= j PROVE u[i] + (j - i) <= u[j]
    <3>1. j - i \in 0 .. k - 1 - i /\ i + (j - i) = j
      BY <2>2
    <3>2. j - i \notin Bad
      BY <2>1
    <3> QED BY <3>1, <3>2
  <2> QED BY <2>2
<1>4. ASSUME NEW j \in 0 .. k - 1 PROVE j <= u[j] /\ u[j] <= n - k + j
  <2>1. 0 \in 0 .. k - 1 /\ k - 1 \in 0 .. k - 1 /\ 0 <= j /\ j <= k - 1
    OBVIOUS
  <2>2. u[0] + (j - 0) <= u[j] /\ u[j] + (k - 1 - j) <= u[k - 1]
    BY <2>1, <1>3
  <2>3. u[0] \in Int /\ u[j] \in Int /\ u[k - 1] \in Int /\ 0 <= u[0] /\ u[k - 1] <= n - 1
    BY <2>1, <1>1
  <2> QED BY <2>2, <2>3
<1> QED BY <1>3, <1>4

\* Different boards are different sets of cards.
LEMMA BoardsDiffer ==
  ASSUME NEW k \in Nat, NEW n \in Nat, NEW u \in Ascending(k, n), NEW v \in Ascending(k, n),
         Range(u) = Range(v)
  PROVE  u = v
<1>1. /\ u \in [0 .. k - 1 -> 0 .. n - 1] /\ v \in [0 .. k - 1 -> 0 .. n - 1]
      /\ \A i, j \in 0 .. k - 1 : i < j => u[i] < u[j] /\ v[i] < v[j]
  BY DEF Ascending
<1> DEFINE Bad == {i \in 0 .. k - 1 : u[i] # v[i]}
<1> SUFFICES ASSUME Bad # {} PROVE FALSE
  <2>1. SUFFICES ASSUME Bad = {} PROVE u = v
    OBVIOUS
  <2>2. \A i \in 0 .. k - 1 : u[i] = v[i]
    BY <2>1
  <2> HIDE DEF Bad
  <2> QED BY <1>1, <2>2
<1>2. PICK m \in Bad : \A l \in Bad : m <= l
  <2>1. Bad \in SUBSET Nat
    OBVIOUS
  <2> HIDE DEF Bad
  <2> QED BY <2>1, LeastNatural
<1>3. m \in 0 .. k - 1 /\ u[m] # v[m] /\ \A l \in 0 .. k - 1 : l < m => u[l] = v[l]
  BY <1>2
<1>4. u[m] \in Int /\ v[m] \in Int
  BY <1>1, <1>3
<1>5. PICK j \in 0 .. k - 1 : v[j] = u[m]
  BY <1>1, <1>3 DEF Range
<1>6. PICK l \in 0 .. k - 1 : u[l] = v[m]
  BY <1>1, <1>3 DEF Range
<1> HIDE DEF Bad
<1>7. j < m \/ m < j
  BY <1>3, <1>5
<1>8. l < m \/ m < l
  BY <1>3, <1>6
<1>9. m < j
  BY <1>1, <1>3, <1>5, <1>7
<1>10. m < l
  BY <1>1, <1>3, <1>6, <1>8
<1>11. v[m] < u[m] /\ u[m] < v[m]
  BY <1>1, <1>3, <1>5, <1>6, <1>9, <1>10
<1> QED BY <1>4, <1>11

\* The lowest board is below all others.
LEMMA LowestBoard ==
  ASSUME NEW k \in Nat, NEW n \in Nat, NEW v \in Ascending(k, n), NEW u,
         NEW b \in 0 .. k, \A j \in 0 .. k - 1 : j < b => u[j] = j,
         \A j \in 0 .. k - 1 : b <= j => v[j] = u[j]
  PROVE  Above(k, v, u) \/ \A j \in 0 .. k - 1 : v[j] = u[j]
<1>1. \A j \in 0 .. k - 1 : v[j] \in Int /\ j <= v[j]
  <2>1. \A j \in 0 .. k - 1 : j <= v[j]
    BY CardsApart
  <2> QED BY <2>1 DEF Ascending
<1> DEFINE Bad == {i \in 0 .. k - 1 : v[k - 1 - i] # u[k - 1 - i]}
<1>2. CASE Bad = {}
  <2>1. ASSUME NEW j \in 0 .. k - 1 PROVE v[j] = u[j]
    <3>1. k - 1 - j \in 0 .. k - 1 /\ k - 1 - (k - 1 - j) = j
      OBVIOUS
    <3>2. k - 1 - j \notin Bad
      BY <1>2
    <3> QED BY <3>1, <3>2
  <2> QED BY <2>1
<1>3. CASE Bad # {}
  <2>1. PICK m \in Bad : \A l \in Bad : m <= l
    <3>1. Bad \in SUBSET Nat
      OBVIOUS
    <3> HIDE DEF Bad
    <3> QED BY <3>1, <1>3, LeastNatural
  <2> DEFINE d == k - 1 - m
  <2>2. d \in 0 .. k - 1 /\ v[d] # u[d]
    BY <2>1
  <2>3. ASSUME NEW j \in 0 .. k - 1, d < j PROVE v[j] = u[j]
    <3>1. /\ k - 1 - j \in 0 .. k - 1 /\ k - 1 - (k - 1 - j) = j
          /\ m \in Int /\ ~(m <= k - 1 - j)
      BY <2>1, <2>3
    <3>2. k - 1 - j \notin Bad
      <4> HIDE DEF Bad
      <4> QED BY <3>1, <2>1
    <3> QED BY <3>1, <3>2
  <2> HIDE DEF d
  <2>4. d < b
    BY <2>2
  <2>5. u[d] < v[d]
    BY <2>2, <2>4, <1>1
  <2> QED BY <2>2, <2>3, <2>5 DEF Above
<1> QED BY <1>2, <1>3

\* A board has as many cards as it should have, and every such set is a board.
LEMMA BoardIsASubset ==
  ASSUME NEW k \in Nat, NEW n \in Nat, NEW u \in Ascending(k, n)
  PROVE  Range(u) \in kSubset(k, 0 .. n - 1)
<1>1. /\ u \in [0 .. k - 1 -> 0 .. n - 1]
      /\ \A i, j \in 0 .. k - 1 : i < j => u[i] < u[j]
  BY DEF Ascending
<1>2. Range(u) \in SUBSET (0 .. n - 1)
  BY <1>1 DEF Range
<1>3. ASSUME NEW i \in 0 .. k - 1, NEW j \in 0 .. k - 1, u[i] = u[j] PROVE i = j
  <2>1. u[i] \in Int /\ u[j] \in Int /\ (i < j => u[i] < u[j]) /\ (j < i => u[j] < u[i])
    BY <1>1
  <2> QED BY <1>3, <2>1
<1>4. u \in Surjection(0 .. k - 1, Range(u)) /\ u \in Injection(0 .. k - 1, Range(u))
  BY <1>1, <1>3 DEF Surjection, Injection, IsInjective, Range
<1>5. IsFiniteSet(0 .. k - 1) /\ Cardinality(0 .. k - 1) = k
  <2>1. IsFiniteSet(0 .. k - 1) /\ Cardinality(0 .. k - 1) = IF 0 > k - 1 THEN 0 ELSE (k - 1) - 0 + 1
    BY FS_Interval
  <2> QED BY <2>1
<1>6. Cardinality(Range(u)) = k
  BY <1>4, <1>5, FS_Surjection
<1> QED BY <1>2, <1>6 DEF kSubset

LEMMA SubsetIsABoard ==
  ASSUME NEW n \in Nat
  PROVE  \A k \in Nat : \A S \in kSubset(k, 0 .. n - 1) : \E u \in Ascending(k, n) : Range(u) = S
<1> DEFINE IsBoard(k, S) == \E u \in Ascending(k, n) : Range(u) = S
           Bad == {k \in Nat : \E S \in kSubset(k, 0 .. n - 1) : ~IsBoard(k, S)}
<1> SUFFICES ASSUME Bad # {} PROVE FALSE
  OBVIOUS
<1>1. PICK m \in Bad : \A l \in Bad : m <= l
  <2>1. Bad \in SUBSET Nat
    OBVIOUS
  <2> HIDE DEF Bad
  <2> QED BY <2>1, LeastNatural
<1>2. PICK S \in kSubset(m, 0 .. n - 1) : ~IsBoard(m, S)
  BY <1>1
<1>3. /\ m \in Nat /\ S \in SUBSET (0 .. n - 1) /\ Cardinality(S) = m
      /\ IsFiniteSet(S)
  <2>1. IsFiniteSet(0 .. n - 1)
    BY FS_Interval
  <2> QED BY <1>1, <1>2, <2>1, FS_Subset DEF kSubset
<1>4. \A l \in Nat : l < m => \A X \in kSubset(l, 0 .. n - 1) : IsBoard(l, X)
  <2>1. ASSUME NEW l \in Nat, l < m PROVE l \notin Bad
    <3>1. ~(m <= l)
      BY <2>1, <1>3
    <3> HIDE DEF Bad
    <3> QED BY <3>1, <1>1
  <2> QED BY <2>1
<1> HIDE DEF Bad
<1>5. CASE m = 0
  <2>1. S = {}
    BY <1>3, <1>5, FS_EmptySet
  <2> DEFINE u == [i \in 0 .. m - 1 |-> 0]
  <2>2. 0 .. m - 1 = {}
    BY <1>5
  <2>3. u \in Ascending(m, n) /\ Range(u) = S
    BY <2>1, <2>2 DEF Ascending, Range
  <2> QED BY <2>3, <1>2
<1>6. CASE m # 0
  <2> DEFINE T == {d \in 0 .. n - 1 : n - 1 - d \in S}
  <2>1. PICK d \in T : \A e \in T : d <= e
    <3>1. PICK y \in S : TRUE
      BY <1>3, <1>6, FS_EmptySet
    <3>2. n - 1 - y \in T
      <4>1. y \in 0 .. n - 1
        BY <1>3, <3>1
      <4>2. n - 1 - y \in 0 .. n - 1 /\ n - 1 - (n - 1 - y) = y
        BY <4>1
      <4> QED BY <4>2, <3>1
    <3>3. T \in SUBSET Nat /\ T # {}
      BY <3>2
    <3> HIDE DEF T
    <3> QED BY <3>3, LeastNatural
  <2> DEFINE x == n - 1 - d
  <2>2. x \in S /\ x \in 0 .. n - 1
    BY <2>1
  <2>3. ASSUME NEW y \in S, y # x PROVE y < x
    <3>1. y \in 0 .. n - 1
      BY <1>3
    <3>2. n - 1 - y \in 0 .. n - 1 /\ n - 1 - (n - 1 - y) = y
      BY <3>1
    <3>3. n - 1 - y \in T
      BY <3>2
    <3>4. d <= n - 1 - y
      <4> HIDE DEF T
      <4> QED BY <3>3, <2>1
    <3> QED BY <3>1, <3>4, <2>1, <2>3
  <2> HIDE DEF x, T
  <2>4. S \ {x} \in kSubset(m - 1, 0 .. n - 1)
    <3>1. Cardinality(S \ {x}) = m - 1
      BY <1>3, <2>2, FS_RemoveElement
    <3> QED BY <3>1, <1>3 DEF kSubset
  <2>5. m - 1 \in Nat /\ m - 1 < m
    BY <1>3, <1>6
  <2>6. PICK v \in Ascending(m - 1, n) : Range(v) = S \ {x}
    BY <1>4, <2>4, <2>5
  <2>7. /\ v \in [0 .. m - 2 -> 0 .. n - 1]
        /\ \A i, j \in 0 .. m - 2 : i < j => v[i] < v[j]
        /\ \A i \in 0 .. m - 2 : v[i] \in S /\ v[i] # x
        /\ \A y \in S \ {x} : \E i \in 0 .. m - 2 : v[i] = y
    <3>1. m - 1 - 1 = m - 2
      BY <1>3
    <3>2. /\ v \in [0 .. m - 2 -> 0 .. n - 1]
          /\ \A i, j \in 0 .. m - 2 : i < j => v[i] < v[j]
      BY <2>6, <3>1 DEF Ascending
    <3> QED BY <2>6, <3>2 DEF Range
  <2> DEFINE u == [i \in 0 .. m - 1 |-> IF i = m - 1 THEN x ELSE v[i]]
  <2>8. u \in [0 .. m - 1 -> 0 .. n - 1]
    <3>1. ASSUME NEW i \in 0 .. m - 1 PROVE (IF i = m - 1 THEN x ELSE v[i]) \in 0 .. n - 1
      <4>1. i = m - 1 \/ i \in 0 .. m - 2
        BY <1>3
      <4> QED BY <4>1, <2>2, <2>7
    <3> QED BY <3>1
  <2>9. ASSUME NEW i \in 0 .. m - 1, NEW j \in 0 .. m - 1, i < j PROVE u[i] < u[j]
    <3>1. i \in 0 .. m - 2
      BY <2>9, <1>3
    <3>2. u[i] = v[i] /\ v[i] \in S /\ v[i] # x
      BY <3>1, <2>7, <1>3
    <3>3. CASE j = m - 1
      BY <3>2, <3>3, <2>3
    <3>4. CASE j # m - 1
      <4>1. j \in 0 .. m - 2
        BY <3>4, <1>3
      <4> QED BY <3>1, <3>2, <3>4, <4>1, <2>7, <2>9
    <3> QED BY <3>3, <3>4
  <2>10. u \in Ascending(m, n)
    BY <2>8, <2>9 DEF Ascending
  <2>11. Range(u) = S
    <3>1. ASSUME NEW y \in S PROVE \E i \in 0 .. m - 1 : u[i] = y
      <4>1. CASE y = x
        <5>1. m - 1 \in 0 .. m - 1
          BY <1>3, <1>6
        <5> QED BY <5>1, <4>1
      <4>2. CASE y # x
        <5>1. PICK i \in 0 .. m - 2 : v[i] = y
          BY <4>2, <2>7
        <5>2. i \in 0 .. m - 1 /\ i # m - 1
          BY <5>1, <1>3
        <5> QED BY <5>1, <5>2
      <4> QED BY <4>1, <4>2
    <3>2. ASSUME NEW i \in 0 .. m - 1 PROVE u[i] \in S
      <4>1. i = m - 1 \/ i \in 0 .. m - 2
        BY <1>3
      <4> QED BY <4>1, <2>2, <2>7
    <3> QED BY <3>1, <3>2 DEF Range
  <2> QED BY <2>10, <2>11, <1>2
<1> QED BY <1>5, <1>6

\* Counting down passes no board over.
LEMMA NextBoard ==
  ASSUME NEW k \in Nat, NEW n \in Nat, NEW u \in Ascending(k, n), NEW b \in 0 .. k - 1,
         \A j \in 0 .. k - 1 : j < b => u[j] = j, u[b] # b,
         NEW w, w = [j \in 0 .. k - 1 |-> IF j > b THEN u[j] ELSE u[b] - 1 - (b - j)]
  PROVE  /\ w \in Ascending(k, n)
         /\ \A v \in Ascending(k, n) : Above(k, v, w) <=> Above(k, v, u) \/ v = u
<1>1. /\ u \in [0 .. k - 1 -> 0 .. n - 1] /\ \A j \in 0 .. k - 1 : u[j] \in Int /\ u[j] \in 0 .. n - 1
      /\ \A i, j \in 0 .. k - 1 : i < j => u[i] < u[j]
  BY DEF Ascending
<1>2. b < u[b]
  <2>1. b <= u[b]
    BY CardsApart
  <2> QED BY <2>1, <1>1
<1>3. \A j \in 0 .. k - 1 : /\ j > b => w[j] = u[j]
                            /\ j <= b => w[j] = u[b] - 1 - (b - j)
  OBVIOUS
<1>4. w \in Ascending(k, n)
  <2>1. ASSUME NEW j \in 0 .. k - 1
        PROVE  (IF j > b THEN u[j] ELSE u[b] - 1 - (b - j)) \in 0 .. n - 1
    BY <1>1, <1>2
  <2>2. w \in [0 .. k - 1 -> 0 .. n - 1]
    BY <2>1
  <2>3. ASSUME NEW i \in 0 .. k - 1, NEW j \in 0 .. k - 1, i < j PROVE w[i] < w[j]
    <3>1. CASE j <= b
      BY <3>1, <2>3, <1>1, <1>3
    <3>2. CASE i <= b /\ b < j
      <4>1. w[i] = u[b] - 1 - (b - i) /\ w[j] = u[j] /\ u[b] < u[j]
        BY <3>2, <1>1, <1>3
      <4> QED BY <4>1, <3>2, <1>1
    <3>3. CASE b < i
      BY <3>3, <2>3, <1>1, <1>3
    <3> QED BY <3>1, <3>2, <3>3
  <2> QED BY <2>2, <2>3 DEF Ascending
<1>5. ASSUME NEW v \in Ascending(k, n), Above(k, v, u) \/ v = u PROVE Above(k, v, w)
  <2>1. \A j \in 0 .. k - 1 : v[j] \in Int
    BY DEF Ascending
  <2>2. w[b] < u[b]
    BY <1>1, <1>3
  <2>3. CASE v = u
    BY <2>2, <2>3, <1>3 DEF Above
  <2>4. CASE Above(k, v, u)
    <3>1. PICK d \in 0 .. k - 1 : u[d] < v[d] /\ \A j \in 0 .. k - 1 : d < j => v[j] = u[j]
      BY <2>4 DEF Above
    <3>2. CASE d < b
      <4>1. v[b] = u[b] /\ \A j \in 0 .. k - 1 : b < j => v[j] = w[j]
        BY <3>1, <3>2, <1>3
      <4> QED BY <4>1, <2>2 DEF Above
    <3>3. CASE b <= d
      <4>1. w[d] <= u[d] /\ w[d] \in Int
        BY <3>3, <1>1, <1>3
      <4>2. w[d] < v[d]
        BY <4>1, <3>1, <2>1, <1>1
      <4>3. \A j \in 0 .. k - 1 : d < j => v[j] = w[j]
        BY <3>1, <3>3, <1>3
      <4> QED BY <4>2, <4>3 DEF Above
    <3> QED BY <3>2, <3>3
  <2> QED BY <1>5, <2>3, <2>4
<1>6. ASSUME NEW v \in Ascending(k, n), Above(k, v, w) PROVE Above(k, v, u) \/ v = u
  <2>1. /\ v \in [0 .. k - 1 -> 0 .. n - 1] /\ \A j \in 0 .. k - 1 : v[j] \in Int
    BY DEF Ascending
  <2>2. PICK d \in 0 .. k - 1 : w[d] < v[d] /\ \A j \in 0 .. k - 1 : d < j => v[j] = w[j]
    BY <1>6 DEF Above
  <2>3. CASE b < d
    <3>1. u[d] < v[d] /\ \A j \in 0 .. k - 1 : d < j => v[j] = u[j]
      BY <2>2, <2>3, <1>3
    <3> QED BY <3>1 DEF Above
  <2>4. CASE d = b
    <3>1. u[b] - 1 < v[b] /\ \A j \in 0 .. k - 1 : b < j => v[j] = u[j]
      <4>1. w[b] < v[b] /\ \A j \in 0 .. k - 1 : b < j => v[j] = w[j]
        BY <2>2, <2>4
      <4>2. w[b] = u[b] - 1 /\ \A j \in 0 .. k - 1 : b < j => w[j] = u[j]
        BY <1>1, <1>3
      <4> QED BY <4>1, <4>2
    <3>2. CASE u[b] < v[b]
      BY <3>1, <3>2 DEF Above
    <3>3. CASE u[b] = v[b]
      <4>1. \A j \in 0 .. k - 1 : b <= j => v[j] = u[j]
        BY <3>1, <3>3
      <4>2. Above(k, v, u) \/ \A j \in 0 .. k - 1 : v[j] = u[j]
        <5>1. b \in 0 .. k
          OBVIOUS
        <5> QED BY <5>1, <4>1, LowestBoard
      <4> QED BY <4>2, <2>1, <1>1
    <3>4. u[b] < v[b] \/ u[b] = v[b]
      BY <3>1, <2>1, <1>1
    <3> QED BY <3>2, <3>3, <3>4
  <2>5. CASE d < b
    <3>1. v[b] = w[b] /\ w[b] = u[b] - 1 - (b - b) /\ w[d] = u[b] - 1 - (b - d)
      BY <2>2, <2>5, <1>3
    <3>2. v[d] + (b - d) <= v[b]
      BY <2>5, CardsApart
    <3>3. v[b] \in Int /\ v[d] \in Int /\ u[b] \in Int /\ w[d] < v[d] /\ b \in Int /\ d \in Int
      BY <1>1, <2>1, <2>2
    <3> QED BY ONLY <3>1, <3>2, <3>3
  <2> QED BY <2>3, <2>4, <2>5
<1> QED BY <1>4, <1>5, <1>6

LEMMA PositionIsFirst ==
  ASSUME numCards \in Nat
  PROVE  /\ position \in 0 .. numCards
         /\ \A j \in 0 .. numCards - 1 : j < position => used[j] = j
         /\ position # numCards => used[position] # position
<1> DEFINE P == {i \in Indices : used[i] # i} \cup {numCards}
<1>1. P \in SUBSET Nat /\ P # {} /\ \A i \in P : i \in 0 .. numCards
  BY DEF Indices
<1>2. \E m \in P : \A i \in P : m <= i
  <2> HIDE DEF P
  <2> QED BY <1>1, LeastNatural
<1>3. position \in P /\ \A i \in P : position <= i
  <2>1. position = CHOOSE m \in P : \A i \in P : m <= i
    BY DEF position, Min
  <2> HIDE DEF P
  <2> QED BY <1>2, <2>1
<1>4. position \in 0 .. numCards /\ (position # numCards => used[position] # position)
  BY <1>1, <1>3
<1>5. ASSUME NEW j \in 0 .. numCards - 1, j < position PROVE used[j] = j
  <2>1. ~(position <= j)
    BY <1>4, <1>5
  <2>2. j \notin P
    <3> HIDE DEF P
    <3> QED BY <2>1, <1>3
  <2> QED BY <2>2 DEF Indices
<1> QED BY <1>4, <1>5

\* The boards that were counted are those above the one that comes next.
counted == {v \in Ascending(numCards, deckSize) : done \/ Above(numCards, v, used)}

BoardsInv ==
    /\ numCards \in Nat /\ deckSize \in Nat /\ done \in BOOLEAN
    /\ used \in Ascending(numCards, deckSize)
    /\ boards = {Range(v) : v \in counted}
    /\ IsFiniteSet(boards) /\ numBoards = Cardinality(boards)

LEMMA BoardsBegin == BoardsInit => BoardsInv
<1> SUFFICES ASSUME BoardsInit PROVE BoardsInv
  OBVIOUS
<1>1. /\ numCards \in Nat /\ deckSize \in Nat /\ numCards <= deckSize /\ done = FALSE
      /\ used = [i \in 0 .. numCards - 1 |-> deckSize - numCards + i]
      /\ numBoards = 0 /\ boards = {}
  BY BoardsAssumption DEF BoardsInit, Indices
<1>2. used \in Ascending(numCards, deckSize)
  BY <1>1 DEF Ascending
<1>3. ASSUME NEW v \in Ascending(numCards, deckSize), Above(numCards, v, used) PROVE FALSE
  <2>1. PICK d \in 0 .. numCards - 1 : used[d] < v[d]
    BY <1>3 DEF Above
  <2>2. v[d] <= deckSize - numCards + d /\ v[d] \in Int
    <3>1. v[d] <= deckSize - numCards + d
      BY <1>1, CardsApart
    <3> QED BY <3>1 DEF Ascending
  <2> QED BY <1>1, <2>1, <2>2
<1>4. counted = {}
  BY <1>1, <1>3 DEF counted
<1> QED BY <1>1, <1>2, <1>4, FS_EmptySet DEF BoardsInv

LEMMA BoardsCount == BoardsInv /\ [BoardsNext]_counter => BoardsInv'
<1> SUFFICES ASSUME BoardsInv, [BoardsNext]_counter PROVE BoardsInv'
  OBVIOUS
<1>1. CASE BoardsStay \/ UNCHANGED counter
  BY <1>1 DEF BoardsStay, counter, BoardsInv, counted
<1>2. CASE Evaluate
  <2> DEFINE k == numCards
             n == deckSize
  <2>1. /\ ~done /\ numCards' = numCards /\ deckSize' = deckSize
        /\ boards' = boards \cup {Range(used)} /\ numBoards' = numBoards + 1
        /\ \/ position = k /\ done' = TRUE /\ used' = used
           \/ position # k /\ done' = FALSE /\ used' = afterDecrement(position)
    BY <1>2 DEF Evaluate, BoardsInv
  <2>2. /\ k \in Nat /\ n \in Nat /\ used \in Ascending(k, n)
        /\ boards = {Range(v) : v \in counted}
        /\ IsFiniteSet(boards) /\ numBoards = Cardinality(boards)
        /\ counted = {v \in Ascending(k, n) : Above(k, v, used)}
    BY <2>1 DEF BoardsInv, counted
  <2>3. /\ position \in 0 .. k
        /\ \A j \in 0 .. k - 1 : j < position => used[j] = j
        /\ position # k => used[position] # position
    BY <2>2, PositionIsFirst
  <2>4. Range(used) \notin boards
    <3> SUFFICES ASSUME NEW v \in counted, Range(used) = Range(v) PROVE FALSE
      BY <2>2
    <3>1. v = used /\ Above(k, v, used)
      BY <2>2, BoardsDiffer
    <3>2. PICK d \in 0 .. k - 1 : used[d] < used[d]
      BY <3>1 DEF Above
    <3>3. used[d] \in Int
      BY <2>2 DEF Ascending
    <3> QED BY <3>2, <3>3
  <2>5. IsFiniteSet(boards') /\ numBoards' = Cardinality(boards')
    BY <2>1, <2>2, <2>4, FS_AddElement
  <2>6. used' \in Ascending(k, n) /\ \A v : v \in counted' <=> v \in counted \/ v = used
    <3>1. CASE position = k
      <4>1. done' = TRUE /\ used' = used
        BY <3>1, <2>1
      <4>2. ASSUME NEW v \in Ascending(k, n) PROVE Above(k, v, used) \/ v = used
        <5>1. Above(k, v, used) \/ \A j \in 0 .. k - 1 : v[j] = used[j]
          <6>1. \A j \in 0 .. k - 1 : j < k => used[j] = j
            BY <2>3, <3>1
          <6>2. k \in 0 .. k /\ \A j \in 0 .. k - 1 : k <= j => v[j] = used[j]
            BY <2>2
          <6> QED BY <6>1, <6>2, <2>2, LowestBoard
        <5> QED BY <5>1, <2>2 DEF Ascending
      <4>3. counted' = Ascending(k, n)
        BY <4>1, <2>1 DEF counted
      <4> QED BY <4>1, <4>2, <4>3, <2>2
    <3>2. CASE position # k
      <4> DEFINE b == position
      <4>1. done' = FALSE /\ b \in 0 .. k - 1
            /\ used' = [j \in 0 .. k - 1 |-> IF j > b THEN used[j] ELSE used[b] - 1 - (b - j)]
        BY <3>2, <2>1, <2>2, <2>3 DEF afterDecrement, Indices
      <4> HIDE DEF b
      <4>2. /\ \A j \in 0 .. k - 1 : j < b => used[j] = j
            /\ used[b] # b
        BY <3>2, <2>3 DEF b
      <4>3. /\ used' \in Ascending(k, n)
            /\ \A v \in Ascending(k, n) : Above(k, v, used') <=> Above(k, v, used) \/ v = used
        BY <4>1, <4>2, <2>2, NextBoard
      <4>4. counted' = {v \in Ascending(k, n) : Above(k, v, used')}
        BY <4>1, <2>1 DEF counted
      <4> QED BY <4>3, <4>4, <2>2
    <3> QED BY <3>1, <3>2
  <2>7. boards' = {Range(v) : v \in counted'}
    BY <2>1, <2>2, <2>6
  <2> QED BY <2>1, <2>2, <2>5, <2>6, <2>7 DEF BoardsInv
<1> QED BY <1>1, <1>2 DEF BoardsNext

\* For any number of cards to come from any number that are left: the loop ends
\* with every board evaluated, each one time.
THEOREM BoardsAreAll == BoardsSpec => []EveryBoardOnce
<1>1. BoardsInv => EveryBoardOnce
  <2> SUFFICES ASSUME BoardsInv, done PROVE boards = kSubset(numCards, 0 .. deckSize - 1)
    BY DEF EveryBoardOnce, BoardsInv
  <2>1. counted = Ascending(numCards, deckSize)
    BY DEF counted
  <2>2. numCards \in Nat /\ deckSize \in Nat /\ boards = {Range(v) : v \in counted}
    BY DEF BoardsInv
  <2>3. \A v \in counted : Range(v) \in kSubset(numCards, 0 .. deckSize - 1)
    BY <2>1, <2>2, BoardIsASubset
  <2>4. \A S \in kSubset(numCards, 0 .. deckSize - 1) : \E v \in counted : Range(v) = S
    BY <2>1, <2>2, SubsetIsABoard
  <2> QED BY <2>2, <2>3, <2>4
<1> QED BY <1>1, BoardsBegin, BoardsCount, PTL DEF BoardsSpec

=============================================================================
