---------------------------- MODULE AllInBoards -----------------------------
(***************************************************************************)
(* The inner loop of ACPCServer/all_in_expectation.c: the value of a hand  *)
(* whose players are all-in is the average over every board that may still *)
(* be dealt.  The boards are enumerated by counting down: used[] holds the *)
(* indices, into the deck of the cards left, of the cards of one board.    *)
(***************************************************************************)
EXTENDS Integers, FiniteSets, FiniteSetsExt, Functions

CONSTANTS MaxCards, MaxDeck     \* bounds: cards to come, cards left

ASSUME BoardsAssumption == MaxCards \in Nat /\ MaxDeck \in Nat

VARIABLES
    numCards, deckSize,
    used,               \* used[i], for the numCards cards to come
    numBoards,
    boards,             \* the boards that were evaluated (not in the code)
    done

counter == <<numCards, deckSize, used, numBoards, boards, done>>

Indices == 0 .. numCards - 1

\* The hands in ascending order, starting with the highest.
BoardsInit ==
    /\ numCards \in 0 .. MaxCards /\ deckSize \in numCards .. MaxDeck
    /\ used = [i \in Indices |-> deckSize - numCards + i]
    /\ numBoards = 0 /\ boards = {} /\ done = FALSE

\* The first card that can be decremented; numCards when there is none.
position == Min({i \in Indices : used[i] # i} \cup {numCards})

\* All earlier cards get the highest index left to them.
afterDecrement_KeepsEarlier(i) == [used EXCEPT ![i] = @ - 1]
afterDecrement(i) == [j \in Indices |-> IF j > i THEN used[j] ELSE used[i] - 1 - (i - j)]

Evaluate ==
    /\ ~done
    /\ boards' = boards \cup {Range(used)} /\ numBoards' = numBoards + 1
    /\ IF position = numCards THEN done' = TRUE /\ UNCHANGED used
       ELSE used' = afterDecrement(position) /\ UNCHANGED done
    /\ UNCHANGED <<numCards, deckSize>>

BoardsStay == done /\ UNCHANGED counter

BoardsNext == Evaluate \/ BoardsStay

BoardsSpec == BoardsInit /\ [][BoardsNext]_counter

-----------------------------------------------------------------------------
\* The average is over every board that may come, each counted once, with its
\* cards different from each other.
EveryBoardOnce ==
    done => /\ boards = kSubset(numCards, 0 .. deckSize - 1)
            /\ numBoards = Cardinality(boards)

=============================================================================
