-------------------------------- MODULE Pool --------------------------------
(***************************************************************************)
(* What the linked-list pools of bm_server.c hold: the entries in use, the *)
(* newest first, and the entries that were removed, the last one first.    *)
(* Entries are numbered in the order in which malloc made them.            *)
(***************************************************************************)
EXTENDS Naturals, Sequences, SequencesExt

\* The items of a list that are in S, in their order, and those that are not.
Only(list, S) ==
    LET kept[n \in 0 .. Len(list)] ==
            IF n = 0 THEN << >>
            ELSE IF list[n] \in S THEN Append(kept[n - 1], list[n]) ELSE kept[n - 1]
    IN kept[Len(list)]

Without(list, S) == Only(list, Range(list) \ S)

newLLPool == [list |-> << >>, free |-> << >>]

\* The entry the next item goes to: the last one removed, or a new one.
NextEntry(pool) ==
    IF pool.free # << >> THEN Head(pool.free) ELSE Len(pool.list) + 1

LLPoolAddItem(pool) ==
    [list |-> <<NextEntry(pool)>> \o pool.list,
     free |-> IF pool.free # << >> THEN Tail(pool.free) ELSE << >>]

LLPoolRemoveEntry(pool, e) ==
    [list |-> Without(pool.list, {e}), free |-> <<e>> \o pool.free]

\* A loop over the list that removes the entries in S.
LLPoolRemoveAll(pool, S) ==
    [list |-> Without(pool.list, S), free |-> Reverse(Only(pool.list, S)) \o pool.free]

=============================================================================
