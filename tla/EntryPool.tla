----------------------------- MODULE EntryPool ------------------------------
(***************************************************************************)
(* What a pool promises to bm_server: a list to which entries are added    *)
(* and from which any entry is removed.  LLPool implements it.             *)
(***************************************************************************)
EXTENDS Pool

VARIABLE pool

Init == pool = newLLPool
Add == pool' = LLPoolAddItem(pool)
RemoveAny == \E i \in DOMAIN pool.list : pool' = LLPoolRemoveEntry(pool, pool.list[i])

Spec == Init /\ [][Add \/ RemoveAny]_pool

=============================================================================
