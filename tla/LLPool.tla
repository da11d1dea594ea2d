------------------------------- MODULE LLPool -------------------------------
(***************************************************************************)
(* The pools of bm_server.c as they are stored: entries linked by next and *)
(* prev, a free list that shares the links, and the loop in which every    *)
(* user of a pool walks over it, and may remove the entry it is at.        *)
(***************************************************************************)
EXTENDS Pool, FiniteSets

CONSTANT MaxEntries      \* bound: entries malloc makes

ASSUME LLPoolAssumption == MaxEntries \in Nat

NULL == 0
Entries == 1 .. MaxEntries

VARIABLES
    head, free,          \* of the pool
    next, prev,          \* of every entry; 0 is NULL
    numEntries,
    made,                \* entries malloc has made (not in the code)
    cur,                 \* the entry the walk is at; NULL when nobody walks
    todo                 \* entries the walk has still to visit (not in the code)

links == <<head, free, next, prev, numEntries, made, cur, todo>>

\* The entries that are linked from e on.
Linked(e) ==
    LET from[n \in 0 .. MaxEntries] ==
            [q \in Entries \cup {NULL} |->
                IF q = NULL \/ n = 0 THEN << >> ELSE <<q>> \o from[n - 1][next[q]]]
    IN from[MaxEntries][e]

LinksInit ==
    /\ head = NULL /\ free = NULL
    /\ next = [e \in Entries |-> NULL] /\ prev = [e \in Entries |-> NULL]
    /\ numEntries = 0 /\ made = 0 /\ cur = NULL /\ todo = {}

\* The entry the next item goes to, and the free list without it.
nextEntry_New == made + 1
nextEntry == IF free # NULL THEN free ELSE made + 1
freeAfterAdding == IF free # NULL THEN next[free] ELSE free

\* LLPoolAddItem.  prev of the new head of the free list is left as it was.
AddItem ==
    LET entry == nextEntry
    IN /\ entry \in Entries
       /\ free' = freeAfterAdding
       /\ made' = IF free # NULL THEN made ELSE made + 1
       /\ next' = [next EXCEPT ![entry] = head]
       /\ prev' = [e \in Entries |-> IF e = entry THEN NULL
                                     ELSE IF e = head THEN entry ELSE prev[e]]
       /\ head' = entry
       /\ numEntries' = numEntries + 1
       /\ UNCHANGED <<cur, todo>>

\* LLPoolRemoveEntry.  prev of the removed entry is left as it was.
prevAfterRemoving_FreeUnlinked(entry) ==
    [e \in Entries |-> IF e = next[entry] THEN prev[entry] ELSE prev[e]]
prevAfterRemoving(entry) ==
    [e \in Entries |-> IF e = free THEN entry
                       ELSE IF e = next[entry] THEN prev[entry] ELSE prev[e]]

unlinked(entry) ==
    /\ IF prev[entry] # NULL
       THEN next' = [next EXCEPT ![prev[entry]] = next[entry], ![entry] = free] /\ UNCHANGED head
       ELSE next' = [next EXCEPT ![entry] = free] /\ head' = next[entry]
    /\ prev' = prevAfterRemoving(entry)
    /\ free' = entry
    /\ numEntries' = numEntries - 1
    /\ UNCHANGED made

InUse == Range(Linked(head))

\* A removal outside of a walk, as finishedJob's callers could ask for.
RemoveEntry == cur = NULL /\ (\E e \in InUse : unlinked(e)) /\ UNCHANGED <<cur, todo>>

\* for( cur = first; cur; cur = next ) { next = LLPoolNextEntry( cur ); ... }
StartWalk ==
    /\ cur = NULL
    /\ cur' = head /\ todo' = InUse
    /\ UNCHANGED <<head, free, next, prev, numEntries, made>>

\* The walk is done with cur: next was read before the body ran.
following_AfterBody == next'[cur]
following == next[cur]

Keep ==
    /\ cur # NULL
    /\ UNCHANGED <<head, free, next, prev, numEntries, made>>
    /\ cur' = following /\ todo' = todo \ {cur}

RemoveCurrent ==
    /\ cur # NULL
    /\ unlinked(cur)
    /\ cur' = following /\ todo' = todo \ {cur}

LinksNext == AddItem \/ RemoveEntry \/ StartWalk \/ Keep \/ RemoveCurrent

LinksSpec == LinksInit /\ [][LinksNext]_links

-----------------------------------------------------------------------------
\* The asserts of the pool: every link forward has its link back, in the list
\* and, where prev is not always kept, in the free list; and no entry is in both.
\* numEntries, which writeQueueStatus and startMatchJob trust, is the length.
ListsAreSound ==
    /\ \A first \in {head, free} : \A e \in Range(Linked(first)) :
          next[e] # NULL => prev[next[e]] = e
    /\ InUse \cap Range(Linked(free)) = {}
    /\ head # NULL => prev[head] = NULL
    /\ numEntries = Len(Linked(head)) /\ made = numEntries + Len(Linked(free))

\* A walk visits every entry that was there when it started, whatever it
\* removes and whatever is added meanwhile, and never a removed one.
WalkVisitsAll == IF cur = NULL THEN todo = {} ELSE todo = Range(Linked(cur))

\* What every user of a pool relies on.
PoolIsSound == ListsAreSound /\ WalkVisitsAll

\* The stored lists are the lists of EntryPool.
P == INSTANCE EntryPool WITH pool <- [list |-> Linked(head), free |-> Linked(free)]
ImplementsPool == P!Spec

=============================================================================
