------------------------------ MODULE Consensus ------------------------------
(***************************************************************************)
(* The consensus layer, ecn/consensus.py: one call of run_consensus over   *)
(* the signed results of a round.                                          *)
(*                                                                         *)
(* Results are a function from the nodes that answered to what each one    *)
(* reported; the lists of node ids of the code are sets, because every     *)
(* node answers a round at most once and nothing depends on list order.    *)
(* A hash is an opaque value; what matters of its text is the              *)
(* lexicographic order that breaks ties, which HashRank gives.             *)
(***************************************************************************)
EXTENDS Integers, FiniteSets, Values

CONSTANTS
    Node,          \* the node identifiers
    Hash,          \* the state hashes nodes may report
    HashRank,      \* position of a hash in the lexicographic order
    ThresholdNum,  \* quorum_threshold is ThresholdNum / ThresholdDen
    ThresholdDen

ASSUME NodeFinite == IsFiniteSet(Node) /\ Node # {}

ASSUME HashOrder ==
    /\ HashRank \in [Hash -> Nat]
    /\ \A g, h \in Hash : HashRank[g] = HashRank[h] => g = h
    /\ None \notin Hash

\* p2p_network._get_quorum_threshold accepts exactly the values in (0, 1].
ASSUME ThresholdInRange ==
    /\ ThresholdNum \in Nat \ {0}
    /\ ThresholdDen \in Nat \ {0}
    /\ ThresholdNum <= ThresholdDen

-----------------------------------------------------------------------------
(* What the code computes, for any results res and any known keys.         *)

\* A NodeResult: the hash and whether its signature verifies under the
\* node's key (a missing signature does not).
NodeResult == [hash : Hash, sigOk : BOOLEAN]

\* The results of a round: those of the nodes that answered.
Results == UNION {[S -> NodeResult] : S \in SUBSET Node}

\* The values of a ConsensusResult.
ConsensusResults ==
    [agreed_hash : Hash \cup {None}, honest_nodes : SUBSET Node,
     faulty_nodes : SUBSET Node, invalid_sig_nodes : SUBSET Node,
     total_nodes : Nat, consensus_reached : BOOLEAN]

\* Results that are counted: with no keys at all verification is skipped,
\* otherwise the key must be known and the signature must verify.
verified_results(res, keys) ==
    {n \in DOMAIN res : keys = {} \/ (n \in keys /\ res[n].sigOk)}

\* The nodes of V that reported h.
VotersFor(res, V, h) == {n \in V : res[n].hash = h}

\* The hashes that got a vote: the keys of the Counter vote_counts.
VotedHashes(res, V) == {res[n].hash : n \in V}

\* vote_counts[h] of the Counter.
Votes(res, V, h) == Cardinality(VotersFor(res, V, h))

\* Mutant: the comparison the wrong way round.
candidates_FewestVotes(res, V) ==
    {h \in VotedHashes(res, V) :
        \A g \in VotedHashes(res, V) : Votes(res, V, g) >= Votes(res, V, h)}

\* The hashes with the most votes.
candidates(res, V) ==
    {h \in VotedHashes(res, V) :
        \A g \in VotedHashes(res, V) : Votes(res, V, g) <= Votes(res, V, h)}

\* Mutant: the tie-break applied to all hashes.
_select_winner_AnyVotes(res, V) ==
    CHOOSE h \in VotedHashes(res, V) :
        \A g \in VotedHashes(res, V) : HashRank[h] <= HashRank[g]

\* Most votes; among equals the lexicographically smallest hash.
_select_winner(res, V) ==
    CHOOSE h \in candidates(res, V) :
        \A g \in candidates(res, V) : HashRank[h] <= HashRank[g]

\* Mutant: the fraction compared with the share of faults.
MeetsThreshold_FaultShare(votes, total_verified) ==
    votes * ThresholdDen >= (ThresholdDen - ThresholdNum) * total_verified

\* agree_fraction >= quorum_threshold.  The denominator is the number of
\* counted results (the sum of the Counter's values), not the network size.
MeetsThreshold(votes, total_verified) ==
    votes * ThresholdDen >= ThresholdNum * total_verified

\* Mutant: any agreed hash counts as consensus.
ConsensusResult_NoThreshold(agreed, votes, total_verified, honest, faulty, invalid) ==
    [agreed_hash       |-> agreed,
     honest_nodes      |-> honest,
     faulty_nodes      |-> faulty,
     invalid_sig_nodes |-> invalid,
     total_nodes       |-> Cardinality(honest) + Cardinality(faulty),
     consensus_reached |-> agreed # None /\ total_verified > 0]

\* The constructor of ConsensusResult, for an agreed hash that was voted.
ConsensusResult(agreed, votes, total_verified, honest, faulty, invalid) ==
    [agreed_hash       |-> agreed,
     honest_nodes      |-> honest,
     faulty_nodes      |-> faulty,
     invalid_sig_nodes |-> invalid,
     total_nodes       |-> Cardinality(honest) + Cardinality(faulty),
     consensus_reached |-> /\ agreed # None
                           /\ total_verified > 0
                           /\ MeetsThreshold(votes, total_verified)]

\* Mutant: results with a bad signature are dropped from the report.
run_consensus_InvalidDropped(res, keys) ==
    LET V       == verified_results(res, keys)
        invalid == DOMAIN res \ V
        agreed  == _select_winner(res, V)
        honest  == VotersFor(res, V, agreed)
    IN  IF V = {}
        THEN ConsensusResult(None, 0, 0, {}, DOMAIN res, invalid)
        ELSE ConsensusResult(agreed, Votes(res, V, agreed), Cardinality(V),
                             honest, V \ honest, invalid)

\* Mutant: results with a bad signature vote.
run_consensus_InvalidVote(res, keys) ==
    LET V       == verified_results(res, keys)
        invalid == DOMAIN res \ V
        agreed  == _select_winner(res, DOMAIN res)
        honest  == VotersFor(res, V, agreed)
    IN  IF V = {}
        THEN ConsensusResult(None, 0, 0, {}, DOMAIN res, invalid)
        ELSE ConsensusResult(agreed, Votes(res, V, agreed), Cardinality(V),
                             honest, (V \ honest) \cup invalid, invalid)

\* run_consensus(results, public_keys, quorum_threshold).
run_consensus(res, keys) ==
    LET V       == verified_results(res, keys)
        invalid == DOMAIN res \ V
        agreed  == _select_winner(res, V)
        honest  == VotersFor(res, V, agreed)
    IN  IF V = {}  \* no results, or every signature was rejected
        THEN ConsensusResult(None, 0, 0, {}, DOMAIN res, invalid)
        ELSE ConsensusResult(agreed, Votes(res, V, agreed), Cardinality(V),
                             honest, (V \ honest) \cup invalid, invalid)

=============================================================================
