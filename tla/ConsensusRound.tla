--------------------------- MODULE ConsensusRound ----------------------------
(***************************************************************************)
(* One call of run_consensus on any results, and what its ConsensusResult  *)
(* promises to the callers (network.py, p2p_network.py).                   *)
(***************************************************************************)
EXTENDS Consensus

VARIABLES
    results,       \* the NodeResults handed to run_consensus
    public_keys,   \* the nodes whose public key is known ({}: none supplied)
    cr             \* the ConsensusResult, None before the call

vars == <<results, public_keys, cr>>

Init ==
    /\ results \in Results
    /\ public_keys \in {{}} \cup {Node} \cup {Node \ {n} : n \in Node}
    /\ cr = None

\* One call of run_consensus.
RunConsensus ==
    /\ cr = None
    /\ cr' = run_consensus(results, public_keys)
    /\ UNCHANGED <<results, public_keys>>

Next == RunConsensus

Spec == Init /\ [][Next]_vars

-----------------------------------------------------------------------------
(* Properties                                                              *)

TypeOK ==
    /\ results \in Results
    /\ public_keys \subseteq Node
    /\ cr \in ConsensusResults \cup {None}

Counted == verified_results(results, public_keys)

\* Every node that answered is classified exactly once by run_consensus
\* (honest or faulty, never both, never dropped), and total_nodes counts them.
EveryoneClassified ==
    cr # None =>
        /\ cr.honest_nodes \cup cr.faulty_nodes = DOMAIN results
        /\ cr.honest_nodes \cap cr.faulty_nodes = {}
        /\ cr.invalid_sig_nodes \subseteq cr.faulty_nodes
        /\ cr.total_nodes = Cardinality(DOMAIN results)

\* If more than half of the counted results report h, then whatever the
\* others report (forged, missing, colluding, tie-break aimed hashes) the
\* agreed hash is h and exactly the nodes that did not back it are faulty.
HonestMajorityWins ==
    cr # None =>
        \A h \in Hash :
            2 * Votes(results, Counted, h) > Cardinality(Counted) =>
                /\ cr.agreed_hash = h
                /\ cr.faulty_nodes = DOMAIN results \ VotersFor(results, Counted, h)

\* With a threshold above one half, consensus_reached means that no other
\* hash could have been agreed: it has at most as many votes as are left,
\* so the tie-break of _select_winner never decides a reached round.
ReachedIsUnambiguous ==
    cr # None /\ cr.consensus_reached /\ 2 * ThresholdNum > ThresholdDen =>
        \A h \in VotedHashes(results, Counted) \ {cr.agreed_hash} :
            Votes(results, Counted, h) < Votes(results, Counted, cr.agreed_hash)

\* A group of liars too small to meet the threshold among the counted
\* results cannot make run_consensus report a reached consensus on a hash
\* that only they reported.
SmallCoalitionCannotForge ==
    cr # None /\ cr.consensus_reached =>
        \A L \in SUBSET Counted :
            ~ MeetsThreshold(Cardinality(L), Cardinality(Counted)) =>
                \E n \in Counted \ L : results[n].hash = cr.agreed_hash

\* The tolerance consensus.py documents (lines 20 to 24): with a threshold
\* above one half, consensus on h is reached as long as no more than
\* floor(n * (1 - t)) of all n nodes lie, sign badly or do not respond.
ToleratesDocumentedFaults ==
    cr # None /\ 2 * ThresholdNum > ThresholdDen =>
        \A h \in Hash :
            MeetsThreshold(Votes(results, Counted, h), Cardinality(Node)) =>
                cr.agreed_hash = h /\ cr.consensus_reached

\* A result without a verifying signature has no influence: the outcome for
\* the other nodes is that of the same call without it.
UnsignedHasNoInfluence ==
    cr # None /\ public_keys # {} =>
        LET without == run_consensus([n \in Counted |-> results[n]], public_keys)
        IN  /\ cr.agreed_hash = without.agreed_hash
            /\ cr.honest_nodes = without.honest_nodes
            /\ cr.consensus_reached = without.consensus_reached
=============================================================================
