-------------------------------- MODULE MCP2P --------------------------------
(* Small networks running the token ledger with two tokens and two          *)
(* accounts: a token moves back or forth, and moving one from an empty      *)
(* account is rejected.  So the hash a node reports for a transfer depends  *)
(* on what it executed before, and so does whether it accepts it.           *)
EXTENDS P2PNetwork, TLC

CONSTANTS n1, n2, n3, s1, s2, A, B

Engine == INSTANCE ExecutionEngine WITH Account <- {A, B}

MCState == {(A :> a) @@ (B :> 2 - a) : a \in 0 .. 2}
MCInitialState == (A :> 1) @@ (B :> 1)
Transfer(from, to) == [type |-> "transfer", from |-> from, to |-> to, amount |-> 1]
MCTx == {Transfer(A, B), Transfer(B, A)}
MCExecute(w, tx) == Engine!execute(w, tx)

MCHash == MCState \X BOOLEAN
MCStateHash == [w \in MCState |-> <<w, FALSE>>]
MCCorruptHash == [w \in MCState |-> <<w, TRUE>>]
\* A corrupted hash sorts before the true one or after it, as their first
\* different characters have it.
MCHashRank == [h \in MCHash |->
    3 * h[1][A] + (IF ~ h[2] THEN 1 ELSE IF h[1][A] = 1 THEN 2 ELSE 0)]

\* Honest nodes are interchangeable, and so are callers.
MCSymmetry == Permutations({n1, n2}) \cup Permutations({s1, s2})
=============================================================================
