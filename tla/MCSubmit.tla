------------------------------ MODULE MCSubmit -------------------------------
(* Two requests over two nodes; every round of answers of theirs is possible. *)
EXTENDS Submit

CONSTANTS n1, n2, h1, h2, r1, r2

MCHashRank == [h \in {h1, h2} |-> IF h = h1 THEN 1 ELSE 2]
=============================================================================
