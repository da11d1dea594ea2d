------------------------------ MODULE MCBmLive ------------------------------
(***************************************************************************)
(* Two users who ask for matches again and again, of which one may run at  *)
(* a time: each match is served, whoever else asks.                        *)
(***************************************************************************)
EXTENDS BmServer

mcUsers == <<"u", "v">>
mcJobs == [g \in Games |-> 1]
mcRuns == [g \in Games |-> 1]
mcSpecs == {[game |-> "limit", numRuns |-> 1, players |-> <<"LOCAL", "LOCAL">>]}
=============================================================================
