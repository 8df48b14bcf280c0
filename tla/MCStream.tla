------------------------------ MODULE MCStream -------------------------------
(* Clients that ask for one topic, for both, or for one of them twice, with   *)
(* and without a backfill and a limit.                                        *)
EXTENDS Stream, TLC

MCRequests == {
    [topics |-> <<"transactions">>, backfill |-> 2, limit |-> 0],
    [topics |-> <<"faults", "transactions">>, backfill |-> 1, limit |-> 0],
    [topics |-> <<"transactions", "faults">>, backfill |-> 0, limit |-> 1],
    [topics |-> <<"transactions", "transactions">>, backfill |-> 1, limit |-> 2]}

Symmetry == Permutations(Client)
=============================================================================
