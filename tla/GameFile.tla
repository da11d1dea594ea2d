------------------------------ MODULE GameFile ------------------------------
(***************************************************************************)
(* readGame and printGame of ACPCServer/game.c: the file that tells every  *)
(* program which game is played.  Its lines come in any order; one may be  *)
(* missing, come again, or have too few or too many numbers.  A program    *)
(* reads the file into memory that is not cleared, and checks at the end   *)
(* what it has.                                                            *)
(*                                                                         *)
(* A line is its field and its numbers.  Left out: comments, unknown       *)
(* fields, lines longer than MAX_LINE_LEN, and numbers below zero or above *)
(* INT32_MAX, which readItems would take.                                  *)
(***************************************************************************)
EXTENDS Sums, Sequences

CONSTANTS
    MAX_PLAYERS, MAX_ROUNDS, MAX_HOLE_CARDS,
    suitLimit, rankLimit,   \* MAX_SUITS and MAX_RANKS
    Memory,              \* the numbers that malloc may leave in a field
    Files,               \* the definitions as they were meant to be
    OddLines,            \* lines that may be in them by mistake
    MaxMistakes          \* bound: lines that are lost or too many

UINT8_MAX == 255

seats == 0 .. MAX_PLAYERS - 1
rounds == 0 .. MAX_ROUNDS - 1

\* The fields with a number for each player or round, those of them whose
\* numbers are counted, and those with a single number.
ofPlayers == {"stack", "blind"}
arrays == ofPlayers \cup {"raiseSize", "firstPlayer", "maxRaises", "numBoardCards"}
counted == {"stack", "blind", "raiseSize", "numBoardCards"}
single == {"numPlayers", "numRounds", "numSuits", "numRanks", "numHoleCards"}
betting == {"limit", "nolimit"}

\* enum BettingType
limitBetting == 0
noLimitBetting == 1

\* How many numbers readItems is told to read: for raiseSize it is MAX_PLAYERS,
\* although the array has MAX_ROUNDS entries (see overrun).
arrayLen(f) == IF f \in ofPlayers \cup {"raiseSize"} THEN MAX_PLAYERS ELSE MAX_ROUNDS

FileLine == [field : arrays \cup single \cup betting, values : Seq(0 .. INT32_MAX)]

\* The limits are those of game.h, or such that so many sizes of raises as there can
\* be players do not reach beyond the struct, which ends with whole words.
ASSUME FileAssumption ==
    /\ MAX_ROUNDS \in 1 .. 4 /\ MAX_PLAYERS \in MAX_ROUNDS .. 10
    /\ MAX_PLAYERS - MAX_ROUNDS - 1 <= (8 + 3 * MAX_ROUNDS) \div 4
    /\ suitLimit \in Nat /\ rankLimit \in Nat /\ MAX_HOLE_CARDS \in Nat
    /\ Memory \subseteq Nat /\ Files \subseteq Seq(FileLine) /\ OddLines \subseteq FileLine

-----------------------------------------------------------------------------
(* Reading.                                                                *)

\* Read is how many items of a field were read last.  The literal 4 that the code
\* has for stackRead is MAX_ROUNDS, up to which it sets the stacks.
newGameWith(stacks, unset) ==
    [stack |-> [p \in seats |-> IF p < MAX_ROUNDS THEN INT32_MAX ELSE unset],
     blind |-> [p \in seats |-> unset], raiseSize |-> [r \in rounds |-> unset],
     numBoardCards |-> [r \in rounds |-> unset],
     read |-> [f \in counted |-> IF f = "stack" THEN stacks ELSE 0],
     firstPlayer |-> [r \in rounds |-> 1], maxRaises |-> [r \in rounds |-> UINT8_MAX],
     bettingType |-> limitBetting, numPlayers |-> 0, numRounds |-> 0,
     numSuits |-> 0, numRanks |-> 0, numHoleCards |-> 0]
newGame_AllStacks(unset) == newGameWith(MAX_PLAYERS, unset)
newGame(unset) == newGameWith(MAX_ROUNDS, unset)

\* readItems into an array: so many numbers as there are, and as it can hold.
readItems(array, values) ==
    [k \in DOMAIN array |-> IF k < Len(values) THEN values[k + 1] ELSE array[k]]
itemsRead(f, values) == IF Len(values) < arrayLen(f) THEN Len(values) ELSE arrayLen(f)

\* Numbers of bytes lose what is above them (SCNu8).
ofBytes == {"firstPlayer", "maxRaises", "numBoardCards"} \cup single
asStored(l) ==
    [k \in 1 .. Len(l.values) |->
        IF l.field \in ofBytes THEN l.values[k] % (UINT8_MAX + 1) ELSE l.values[k]]

\* Byte i behind bettingType, when these numbers have been written from raiseSize on,
\* each with its lowest byte first.
byteOf(word, i) == (word \div <<1, 256, 65536, 16777216>>[(i % 4) + 1]) % (UINT8_MAX + 1)
byteAt(values, i, old) ==
    LET k == MAX_ROUNDS + 2 + i \div 4
    IN IF k <= itemsRead("raiseSize", values) THEN byteOf(values[k], i) ELSE old

\* Sizes of raises beyond MAX_ROUNDS go where the struct goes on: into bettingType,
\* and with four bytes each into the fields behind it.
overrun(game, values) ==
    IF itemsRead("raiseSize", values) <= MAX_ROUNDS THEN game
    ELSE [game EXCEPT
             !.bettingType = values[MAX_ROUNDS + 1],
             !.numPlayers = byteAt(values, 0, @), !.numRounds = byteAt(values, 1, @),
             !.firstPlayer = [r \in rounds |-> byteAt(values, 2 + r, @[r])],
             !.maxRaises = [r \in rounds |-> byteAt(values, 2 + MAX_ROUNDS + r, @[r])],
             !.numSuits = byteAt(values, 2 + 2 * MAX_ROUNDS, @),
             !.numRanks = byteAt(values, 3 + 2 * MAX_ROUNDS, @),
             !.numHoleCards = byteAt(values, 4 + 2 * MAX_ROUNDS, @),
             !.numBoardCards = [r \in rounds |-> byteAt(values, 5 + 2 * MAX_ROUNDS + r, @[r])]]

readLine(game, l) ==
    LET f == l.field
        values == asStored(l)
    IN CASE f \in betting ->
              [game EXCEPT !.bettingType = IF f = "nolimit" THEN noLimitBetting ELSE limitBetting]
         [] f = "raiseSize" ->
              overrun([game EXCEPT !.raiseSize = readItems(@, values),
                                   !.read[f] = itemsRead(f, values)], values)
         [] f \in single -> [game EXCEPT ![f] = IF values = << >> THEN @ ELSE values[1]]
         [] f \in counted \ {"raiseSize"} ->
              [game EXCEPT ![f] = readItems(@, values), !.read[f] = itemsRead(f, values)]
         [] OTHER -> [game EXCEPT ![f] = readItems(@, values)]

\* What is read of the first lines, for every number of them.
linesRead(game, lines) ==
    LET after[n \in 0 .. Len(lines)] == IF n = 0 THEN game ELSE readLine(after[n - 1], lines[n])
    IN after

\* The cards of all hands and of the board.
cardsOf(g) ==
    g.numHoleCards * g.numPlayers
        + SumTo([r \in 1 .. g.numRounds |-> g.numBoardCards[r - 1]], g.numRounds)

\* The checks at the end.
accepted(game) ==
    /\ game.numRounds \in 1 .. MAX_ROUNDS
    /\ game.numPlayers \in 2 .. MAX_PLAYERS
    /\ game.read["stack"] >= game.numPlayers
    /\ game.read["blind"] >= game.numPlayers
    /\ \A p \in 0 .. game.numPlayers - 1 : game.blind[p] <= game.stack[p]
    /\ game.bettingType = limitBetting => game.read["raiseSize"] >= game.numRounds
    /\ \A r \in 0 .. game.numRounds - 1 : game.firstPlayer[r] \in 1 .. game.numPlayers
    /\ game.numSuits \in 1 .. suitLimit /\ game.numRanks \in 1 .. rankLimit
    /\ game.numHoleCards \in 1 .. MAX_HOLE_CARDS
    /\ game.read["numBoardCards"] >= game.numRounds
    /\ cardsOf(game) <= game.numSuits * game.numRanks

\* The game that is returned, as far as a program looks at it: players are
\* counted from 0 in it, and a no-limit game has no sizes of raises.
returned(game) ==
    LET players == 0 .. game.numPlayers - 1
        ownRounds == 0 .. game.numRounds - 1
    IN [numPlayers |-> game.numPlayers, numRounds |-> game.numRounds,
        bettingType |-> game.bettingType,
        stack |-> [p \in players |-> game.stack[p]],
        blind |-> [p \in players |-> game.blind[p]],
        raiseSize |-> [r \in ownRounds |->
                          IF game.bettingType = noLimitBetting THEN 0 ELSE game.raiseSize[r]],
        firstPlayer |-> [r \in ownRounds |-> game.firstPlayer[r] - 1],
        maxRaises |-> [r \in ownRounds |-> game.maxRaises[r]],
        numSuits |-> game.numSuits, numRanks |-> game.numRanks,
        numHoleCards |-> game.numHoleCards,
        numBoardCards |-> [r \in ownRounds |-> game.numBoardCards[r]]]

\* NULL, or the game.
outcome(game) == IF accepted(game) THEN {returned(game)} ELSE {}

readGame(lines, unset) == outcome(linesRead(newGame(unset), lines)[Len(lines)])

-----------------------------------------------------------------------------
(* printGame.                                                              *)

arrayLine(f, n, array, shift) ==
    <<[field |-> f, values |-> [k \in 1 .. n |-> array[k - 1] + shift]]>>
numberLine(f, value) == <<[field |-> f, values |-> <<value>>]>>

\* A line that would say what readGame takes anyway is not printed.
unlessAll(array, value, text) == IF \A k \in DOMAIN array : array[k] = value THEN << >> ELSE text

printFirstPlayer_FromZero(g) == arrayLine("firstPlayer", g.numRounds, g.firstPlayer, 0)
printFirstPlayer(g) == arrayLine("firstPlayer", g.numRounds, g.firstPlayer, 1)
printGame(g) ==
    <<[field |-> IF g.bettingType = noLimitBetting THEN "nolimit" ELSE "limit", values |-> << >>]>>
    \o numberLine("numPlayers", g.numPlayers) \o numberLine("numRounds", g.numRounds)
    \o unlessAll(g.stack, INT32_MAX, arrayLine("stack", g.numPlayers, g.stack, 0))
    \o arrayLine("blind", g.numPlayers, g.blind, 0)
    \o (IF g.bettingType = limitBetting THEN arrayLine("raiseSize", g.numRounds, g.raiseSize, 0)
        ELSE << >>)
    \o unlessAll(g.firstPlayer, 0, printFirstPlayer(g))
    \o unlessAll(g.maxRaises, UINT8_MAX, arrayLine("maxRaises", g.numRounds, g.maxRaises, 0))
    \o numberLine("numSuits", g.numSuits) \o numberLine("numRanks", g.numRanks)
    \o numberLine("numHoleCards", g.numHoleCards)
    \o arrayLine("numBoardCards", g.numRounds, g.numBoardCards, 0)

-----------------------------------------------------------------------------
(* A program reads a file that somebody has written with a few mistakes.   *)

VARIABLES
    unread,      \* the lines of the definition that come
    game,        \* what was read so far, into each memory
    mistakes     \* how many mistakes the file has had so far

definition == <<unread, game, mistakes>>

noGame == [m \in Memory |-> newGame(m)]

FileInit == unread \in Files /\ game = noGame /\ mistakes = 0

readsLine(l) == game' = [m \in Memory |-> readLine(game[m], l)]

ReadLine ==
    /\ unread # << >>
    /\ readsLine(Head(unread)) /\ unread' = Tail(unread)
    /\ UNCHANGED mistakes

MissLine ==
    /\ unread # << >> /\ mistakes < MaxMistakes
    /\ unread' = Tail(unread) /\ mistakes' = mistakes + 1
    /\ UNCHANGED game

ReadOddLine ==
    /\ mistakes < MaxMistakes /\ mistakes' = mistakes + 1
    /\ \E l \in OddLines : readsLine(l)
    /\ UNCHANGED unread

FileNext == ReadLine \/ MissLine \/ ReadOddLine

FileSpec == FileInit /\ [][FileNext]_definition

-----------------------------------------------------------------------------
\* The games that the program may have when it comes to the end of the file.
games == IF unread = << >> THEN UNION {outcome(game[m]) : m \in Memory} ELSE {}

Engine(g) == INSTANCE Game WITH
    numPlayers <- g.numPlayers, numRounds <- g.numRounds, stack <- g.stack,
    blind <- g.blind, raiseSize <- g.raiseSize,
    noLimit <- g.bettingType = noLimitBetting,
    firstPlayer <- g.firstPlayer, maxRaises <- g.maxRaises, MaxNumActions <- 64

\* Programs that read the same file agree: whatever lines it has, in whatever
\* order, they all refuse it or all have the same game, of numbers that a line or
\* a default has set, which is what module Game assumes of a game and has cards
\* enough for every hand.
ReadersAgree ==
    /\ unread = << >> => \A m, n \in Memory : outcome(game[m]) = outcome(game[n])
    /\ \A g \in games :
          /\ Engine(g)!GameAssumption
          /\ g.numBoardCards \in [Engine(g)!Rounds -> Nat]
          /\ cardsOf(g) <= g.numSuits * g.numRanks

\* An accepted game that printGame prints is read back as the same game, what is
\* not printed included: except when there are more players than MAX_ROUNDS and
\* none has a limit, whose stacks are not printed and not set by readGame; and when
\* a list of raises has made bettingType a number that is none, which is printed as
\* a limit game without its raises.
hasType(g) == g.bettingType \in {limitBetting, noLimitBetting}
unlimited(g) == \A p \in DOMAIN g.stack : g.stack[p] = INT32_MAX
GameIsReadBack ==
    \A g \in games, m \in Memory :
        ~(unlimited(g) /\ g.numPlayers > MAX_ROUNDS) /\ hasType(g) => readGame(printGame(g), m) = {g}

\* What one program prints every program reads as the game the first one has, and
\* programs that read the same file have the same game.
GameFilesAreRead == ReadersAgree /\ GameIsReadBack

=============================================================================
