----------------------------- MODULE MCConsensus -----------------------------
(* A small instance of ConsensusRound: all results of up to four nodes over      *)
(* three hashes, the third ranked between the other two.                    *)
EXTENDS ConsensusRound, TLC

CONSTANTS n1, n2, n3, n4, hA, hB, hC

MCHashRank == (hA :> 1) @@ (hB :> 3) @@ (hC :> 2)
=============================================================================
