---------------------------- MODULE MCJobClients ----------------------------
(***************************************************************************)
(* A user with one connection at a time, two games, of one of which one    *)
(* job may run at a time and of the other two, one bot at a time, and up   *)
(* to two matches: two players of the client, the client and a bot, two    *)
(* bots, which are too many, and a number of runs that is refused.  The    *)
(* entries of both pools are given back and used again.                    *)
(***************************************************************************)
EXTENDS JobClients

mcUsers == <<"u">>
mcJobs == [g \in Games |-> IF g = "limit" THEN 2 ELSE 1]
mcRuns == [g \in Games |-> 2]
mcSpecs == {[game |-> "nolimit", numRuns |-> 2, players |-> <<"LOCAL", "LOCAL">>],
            [game |-> "limit", numRuns |-> 1, players |-> <<"LOCAL", "bot">>],
            [game |-> "nolimit", numRuns |-> 1, players |-> <<"bot", "bot">>],
            [game |-> "limit", numRuns |-> -1, players |-> <<"LOCAL", "bot">>]}
=============================================================================
