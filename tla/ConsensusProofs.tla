--------------------------- MODULE ConsensusProofs ---------------------------
(***************************************************************************)
(* What run_consensus guarantees for every set of nodes, every set of      *)
(* hashes and every threshold.  TLC checks the same properties on the      *)
(* instance of MCConsensus.                                                *)
(***************************************************************************)
EXTENDS ConsensusRound, ConsensusLemmas, TLAPS

-----------------------------------------------------------------------------
(* The invariant every property of a call rests on: the stored result is    *)
(* run_consensus of the stored arguments.                                   *)
ResultIsComputed ==
    /\ results \in Results
    /\ public_keys \subseteq Node
    /\ cr # None => cr = run_consensus(results, public_keys)

\* A call of run_consensus stores its result and leaves its arguments alone.
THEOREM SpecResultIsComputed == Spec => []ResultIsComputed
<1>1. Init => ResultIsComputed
  BY DEF Init, ResultIsComputed
<1>2. ResultIsComputed /\ [Next]_vars => ResultIsComputed'
  BY DEF ResultIsComputed, Next, RunConsensus, vars
<1> QED
  BY <1>1, <1>2, PTL DEF Spec

\* Type correctness: run_consensus returns a ConsensusResult for every round.
THEOREM SpecTypeOK == Spec => []TypeOK
<1>1. ResultIsComputed => TypeOK
  BY RunConsensusType DEF ResultIsComputed, TypeOK
<1> QED
  BY <1>1, SpecResultIsComputed, PTL

\* The counted results are among the results, and finitely many.
LEMMA CountedFacts ==
    ASSUME ResultIsComputed
    PROVE  /\ DOMAIN results \subseteq Node
           /\ IsFiniteSet(DOMAIN results)
           /\ Counted \subseteq DOMAIN results
           /\ IsFiniteSet(Counted)
           /\ \A n \in DOMAIN results : results[n].hash \in Hash
<1>1. PICK S \in SUBSET Node : results \in [S -> NodeResult]
  BY DEF ResultIsComputed, Results
<1>2. DOMAIN results = S
  BY <1>1
<1>3. IsFiniteSet(S)
  BY <1>1, NodeFinite, FS_Subset
<1>4. Counted \in SUBSET S
  BY <1>2 DEF Counted, verified_results
<1>5. IsFiniteSet(Counted)
  BY <1>3, <1>4, FS_Subset
<1>6. \A n \in S : results[n].hash \in Hash
  BY <1>1 DEF NodeResult
<1> QED
  BY <1>2, <1>3, <1>4, <1>5, <1>6

\* The result record when some result was counted.
LEMMA ResultWhenCounted ==
    ASSUME ResultIsComputed, cr # None, Counted # {}
    PROVE  LET w == _select_winner(results, Counted)
           IN  /\ cr.agreed_hash = w
               /\ cr.honest_nodes = VotersFor(results, Counted, w)
               /\ cr.faulty_nodes = DOMAIN results \ VotersFor(results, Counted, w)
               /\ cr.invalid_sig_nodes = DOMAIN results \ Counted
               /\ cr.total_nodes = Cardinality(cr.honest_nodes) + Cardinality(cr.faulty_nodes)
               /\ cr.consensus_reached <=>
                     MeetsThreshold(Votes(results, Counted, w), Cardinality(Counted))
               /\ w \in VotedHashes(results, Counted)
               /\ w \in Hash
               /\ \A g \in VotedHashes(results, Counted) :
                     Votes(results, Counted, g) <= Votes(results, Counted, w)
<1> DEFINE w == _select_winner(results, Counted)
           hon == VotersFor(results, Counted, w)
           inv == DOMAIN results \ Counted
<1>1. Counted \subseteq DOMAIN results
  BY CountedFacts
<1>2. (Counted \ hon) \cup inv = DOMAIN results \ hon
  BY <1>1 DEF VotersFor
<1>3. cr = ConsensusResult(w, Votes(results, Counted, w), Cardinality(Counted),
                           hon, (Counted \ hon) \cup inv, inv)
  BY DEF ResultIsComputed, run_consensus, Counted
<1>4. /\ w \in VotedHashes(results, Counted)
      /\ \A g \in VotedHashes(results, Counted) :
             Votes(results, Counted, g) <= Votes(results, Counted, w)
  BY CountedFacts, WinnerHasMostVotes
<1>5. w \in Hash
  BY <1>4, CountedFacts DEF VotedHashes
<1>7. w # None /\ Cardinality(Counted) > 0
  <2>1. w # None
    BY <1>5, HashOrder
  <2>2. Cardinality(Counted) \in Nat /\ Cardinality(Counted) # 0
    BY CountedFacts, FS_CardinalityType, FS_EmptySet
  <2> QED
    BY <2>1, <2>2
<1> HIDE DEF w, hon, inv
<1>6. /\ cr.agreed_hash = w
      /\ cr.honest_nodes = hon
      /\ cr.faulty_nodes = (Counted \ hon) \cup inv
      /\ cr.invalid_sig_nodes = inv
      /\ cr.total_nodes = Cardinality(hon) + Cardinality((Counted \ hon) \cup inv)
      /\ cr.consensus_reached <=>
            MeetsThreshold(Votes(results, Counted, w), Cardinality(Counted))
  BY <1>3, <1>7 DEF ConsensusResult
<1> QED
  BY <1>2, <1>4, <1>5, <1>6 DEF w, hon, inv

\* The result record when nothing was counted.
LEMMA ResultWhenNoneCounted ==
    ASSUME ResultIsComputed, cr # None, Counted = {}
    PROVE  /\ cr.agreed_hash = None
           /\ cr.honest_nodes = {}
           /\ cr.faulty_nodes = DOMAIN results
           /\ cr.invalid_sig_nodes = DOMAIN results
           /\ cr.total_nodes = Cardinality(DOMAIN results)
           /\ ~ cr.consensus_reached
<1>1. cr = ConsensusResult(None, 0, 0, {}, DOMAIN results, DOMAIN results)
  BY DEF ResultIsComputed, run_consensus, Counted
<1>2. Cardinality({}) + Cardinality(DOMAIN results) = Cardinality(DOMAIN results)
  BY CountedFacts, FS_EmptySet, FS_CardinalityType
<1> QED
  BY <1>1, <1>2 DEF ConsensusResult

-----------------------------------------------------------------------------
(* The theorems                                                            *)

\* Every node that answered is classified once, for every network.
THEOREM SpecEveryoneClassified == Spec => []EveryoneClassified
<1>1. ASSUME ResultIsComputed, cr # None
      PROVE  EveryoneClassified
  <2>1. CASE Counted = {}
    BY <1>1, <2>1, ResultWhenNoneCounted DEF EveryoneClassified
  <2>2. CASE Counted # {}
    <3> DEFINE hon == VotersFor(results, Counted, _select_winner(results, Counted))
               D == DOMAIN results
    <3>1. hon \subseteq Counted /\ Counted \subseteq D /\ IsFiniteSet(D)
      BY <1>1, CountedFacts DEF VotersFor
    <3>2. /\ cr.honest_nodes = hon
          /\ cr.faulty_nodes = D \ hon
          /\ cr.invalid_sig_nodes = D \ Counted
          /\ cr.total_nodes = Cardinality(cr.honest_nodes) + Cardinality(cr.faulty_nodes)
      BY <1>1, <2>2, ResultWhenCounted
    <3> HIDE DEF hon, D
    <3>3. D \cap hon = hon
      BY <3>1
    <3>4. /\ Cardinality(D \ hon) = Cardinality(D) - Cardinality(hon)
          /\ Cardinality(D) \in Nat
          /\ Cardinality(hon) \in Nat
      <4>1. hon \in SUBSET D
        BY <3>1
      <4>2. IsFiniteSet(hon)
        BY <4>1, <3>1, FS_Subset
      <4> QED
        BY <4>2, <3>1, <3>3, FS_Difference, FS_CardinalityType
    <3>5. cr.total_nodes = Cardinality(D)
      BY <3>2, <3>4
    <3> QED
      BY <3>1, <3>2, <3>5 DEF EveryoneClassified, D
  <2> QED
    BY <2>1, <2>2
<1>2. ResultIsComputed => EveryoneClassified
  BY <1>1 DEF EveryoneClassified
<1> QED
  BY <1>2, SpecResultIsComputed, PTL

\* More than half of the counted results decide, for every network.
THEOREM SpecHonestMajorityWins == Spec => []HonestMajorityWins
<1>1. ASSUME ResultIsComputed, cr # None, NEW h \in Hash,
             2 * Votes(results, Counted, h) > Cardinality(Counted)
      PROVE  /\ cr.agreed_hash = h
             /\ cr.faulty_nodes = DOMAIN results \ VotersFor(results, Counted, h)
  <2>1. _select_winner(results, Counted) = h /\ Counted # {}
    BY <1>1, CountedFacts, MajorityWins
  <2> QED
    BY <1>1, <2>1, ResultWhenCounted
<1>2. ResultIsComputed => HonestMajorityWins
  BY <1>1 DEF HonestMajorityWins
<1> QED
  BY <1>2, SpecResultIsComputed, PTL

\* A reached consensus is never decided by the tie-break.
THEOREM SpecReachedIsUnambiguous == Spec => []ReachedIsUnambiguous
<1>1. ASSUME ResultIsComputed, cr # None, cr.consensus_reached,
             2 * ThresholdNum > ThresholdDen,
             NEW h \in VotedHashes(results, Counted) \ {cr.agreed_hash}
      PROVE  Votes(results, Counted, h) < Votes(results, Counted, cr.agreed_hash)
  <2> DEFINE w == cr.agreed_hash
             t == Cardinality(Counted)
  <2>1. Counted # {}
    BY <1>1, ResultWhenNoneCounted
  <2>2. IsFiniteSet(Counted) /\ t \in Nat \ {0}
    BY <1>1, <2>1, CountedFacts, FS_CardinalityType, FS_EmptySet
  <2>3. MeetsThreshold(Votes(results, Counted, w), t)
    BY <1>1, <2>1, ResultWhenCounted
  <2>4. Votes(results, Counted, h) \in Nat /\ Votes(results, Counted, w) \in Nat
    BY <2>2, VotesType
  <2>5. Votes(results, Counted, w) + Votes(results, Counted, h) <= t
    BY <1>1, <2>2, VotesDisjoint
  <2> HIDE DEF w, t
  <2>6. 2 * Votes(results, Counted, w) > t
    BY <1>1, <2>2, <2>3, <2>4, ThresholdIsMajority
  <2>7. Votes(results, Counted, h) < Votes(results, Counted, w)
    BY <2>2, <2>4, <2>5, <2>6
  <2> QED
    BY <2>7 DEF w
<1>2. ResultIsComputed => ReachedIsUnambiguous
  BY <1>1 DEF ReachedIsUnambiguous
<1> QED
  BY <1>2, SpecResultIsComputed, PTL

\* Too few liars cannot forge a reached consensus, for every threshold.
THEOREM SpecSmallCoalitionCannotForge == Spec => []SmallCoalitionCannotForge
<1>1. ASSUME ResultIsComputed, cr # None, cr.consensus_reached,
             NEW L \in SUBSET Counted,
             ~ MeetsThreshold(Cardinality(L), Cardinality(Counted))
      PROVE  \E n \in Counted \ L : results[n].hash = cr.agreed_hash
  <2> DEFINE B == VotersFor(results, Counted, cr.agreed_hash)
             t == Cardinality(Counted)
  <2>1. Counted # {}
    BY <1>1, ResultWhenNoneCounted
  <2>2. IsFiniteSet(Counted) /\ IsFiniteSet(L)
    BY <1>1, CountedFacts, FS_Subset
  <2>3. MeetsThreshold(Cardinality(B), t)
    BY <1>1, <2>1, ResultWhenCounted DEF Votes
  <2>4. SUFFICES ASSUME B \subseteq L PROVE FALSE
    BY DEF VotersFor
  <2>5. B \in SUBSET L
    BY <2>4
  <2>6. Cardinality(B) <= Cardinality(L) /\ IsFiniteSet(B)
    BY <2>2, <2>5, FS_Subset
  <2>7. Cardinality(B) \in Nat /\ Cardinality(L) \in Nat /\ t \in Nat
    BY <2>2, <2>6, FS_CardinalityType
  <2> HIDE DEF B, t
  <2>8. Cardinality(B) * ThresholdDen <= Cardinality(L) * ThresholdDen
    BY <2>6, <2>7, ThresholdInRange, ProductMonotone
  <2>9. /\ Cardinality(B) * ThresholdDen \in Nat
        /\ Cardinality(L) * ThresholdDen \in Nat
        /\ ThresholdNum * t \in Nat
    BY <2>7, ThresholdInRange
  <2> QED
    BY <1>1, <2>3, <2>8, <2>9 DEF MeetsThreshold, t
<1>2. ResultIsComputed => SmallCoalitionCannotForge
  BY <1>1 DEF SmallCoalitionCannotForge
<1> QED
  BY <1>2, SpecResultIsComputed, PTL

\* The documented tolerance, for every network and every threshold above
\* one half.
THEOREM SpecToleratesDocumentedFaults == Spec => []ToleratesDocumentedFaults
<1>1. ASSUME ResultIsComputed, cr # None, 2 * ThresholdNum > ThresholdDen, NEW h \in Hash,
             MeetsThreshold(Votes(results, Counted, h), Cardinality(Node))
      PROVE  cr.agreed_hash = h /\ cr.consensus_reached
  <2> DEFINE v == Votes(results, Counted, h)
             w == _select_winner(results, Counted)
             t == Cardinality(Counted)
             n == Cardinality(Node)
  <2>1. IsFiniteSet(Counted) /\ Counted \in SUBSET Node
    BY <1>1, CountedFacts
  <2>2. n \in Nat \ {0} /\ t \in Nat /\ t <= n
    BY <2>1, NodeFinite, FS_CardinalityType, FS_EmptySet, FS_Subset
  <2>3. v \in Nat /\ v <= t
    BY <2>1, VotesType
  <2> HIDE DEF v, w, t, n
  <2>4. 2 * v > n
    BY <1>1, <2>2, <2>3, ThresholdIsMajority DEF v, n
  <2>5. w = h /\ Counted # {}
    <3>1. 2 * Votes(results, Counted, h) > Cardinality(Counted)
      BY <2>2, <2>3, <2>4 DEF v, t
    <3> QED
      BY <1>1, <3>1, CountedFacts, MajorityWins DEF w
  <2>6. /\ cr.agreed_hash = w
        /\ cr.consensus_reached <=> MeetsThreshold(Votes(results, Counted, w), t)
    BY <1>1, <2>5, ResultWhenCounted DEF w, t
  <2>8. MeetsThreshold(v, t)
    <3>1. v * ThresholdDen >= ThresholdNum * n
      BY <1>1 DEF MeetsThreshold, v, n
    <3>2. t * ThresholdNum <= n * ThresholdNum
      BY <2>2, ThresholdInRange, ProductMonotone
    <3>3. /\ t * ThresholdNum = ThresholdNum * t
          /\ n * ThresholdNum = ThresholdNum * n
      BY <2>2, ThresholdInRange
    <3>4. v * ThresholdDen \in Nat /\ ThresholdNum * t \in Nat /\ ThresholdNum * n \in Nat
      BY <2>2, <2>3, ThresholdInRange
    <3> QED
      BY <3>1, <3>2, <3>3, <3>4 DEF MeetsThreshold
  <2> QED
    BY <2>5, <2>6, <2>8 DEF v
<1>2. ResultIsComputed => ToleratesDocumentedFaults
  BY <1>1 DEF ToleratesDocumentedFaults
<1> QED
  BY <1>2, SpecResultIsComputed, PTL

\* A call without the results that are not counted counts the same votes.
LEMMA OnlyCountedMatter ==
    ASSUME NEW res, NEW keys, keys # {}
    PROVE  LET V       == verified_results(res, keys)
               without == [n \in V |-> res[n]]
           IN  /\ verified_results(without, keys) = V
               /\ \A h : /\ VotersFor(without, V, h) = VotersFor(res, V, h)
                         /\ Votes(without, V, h) = Votes(res, V, h)
               /\ _select_winner(without, V) = _select_winner(res, V)
<1> DEFINE V       == verified_results(res, keys)
           without == [n \in V |-> res[n]]
<1>1. /\ DOMAIN without = V
      /\ \A n \in V : without[n] = res[n] /\ n \in keys /\ res[n].sigOk
  BY DEF verified_results
<1>2. verified_results(without, keys) = V
  <2> HIDE DEF without, V
  <2> QED
    BY <1>1 DEF verified_results
<1> HIDE DEF without, V
<1>3. \A h : VotersFor(without, V, h) = VotersFor(res, V, h)
  BY <1>1 DEF VotersFor
<1>4. \A h : Votes(without, V, h) = Votes(res, V, h)
  BY <1>3 DEF Votes
<1>5. VotedHashes(without, V) = VotedHashes(res, V)
  BY <1>1 DEF VotedHashes
<1>6. candidates(without, V) = candidates(res, V)
  BY <1>4, <1>5 DEF candidates
<1>7. _select_winner(without, V) = _select_winner(res, V)
  BY <1>6 DEF _select_winner
<1> QED
  BY <1>2, <1>3, <1>4, <1>7 DEF V, without

\* Signature checking in run_consensus: a result that is not signed by the
\* node's own key changes neither the agreed hash nor who is honest nor
\* whether consensus is reached, for every round.
THEOREM SpecUnsignedHasNoInfluence == Spec => []UnsignedHasNoInfluence
<1>1. ASSUME ResultIsComputed, cr # None, public_keys # {}
      PROVE  LET without == run_consensus([n \in Counted |-> results[n]], public_keys)
             IN  /\ cr.agreed_hash = without.agreed_hash
                 /\ cr.honest_nodes = without.honest_nodes
                 /\ cr.consensus_reached = without.consensus_reached
  <2> DEFINE signed == [n \in Counted |-> results[n]]
             w      == _select_winner(results, Counted)
             total  == Cardinality(Counted)
             hon    == VotersFor(results, Counted, w)
  <2>1. /\ verified_results(signed, public_keys) = Counted
        /\ \A h : /\ VotersFor(signed, Counted, h) = VotersFor(results, Counted, h)
                  /\ Votes(signed, Counted, h) = Votes(results, Counted, h)
        /\ _select_winner(signed, Counted) = w
    BY <1>1, OnlyCountedMatter DEF Counted
  <2>2. cr = run_consensus(results, public_keys)
    BY <1>1 DEF ResultIsComputed
  <2>3. CASE Counted = {}
    <3> DEFINE without == run_consensus(signed, public_keys)
    <3>1. PICK F1, I1 : cr = ConsensusResult(None, 0, 0, {}, F1, I1)
      BY <2>2, <2>3 DEF run_consensus, Counted
    <3>2. PICK F2, I2 : without = ConsensusResult(None, 0, 0, {}, F2, I2)
      BY <2>1, <2>3 DEF run_consensus
    <3>3. /\ cr.agreed_hash = without.agreed_hash
          /\ cr.honest_nodes = without.honest_nodes
          /\ cr.consensus_reached = without.consensus_reached
      <4> HIDE DEF without
      <4> QED
        BY <3>1, <3>2 DEF ConsensusResult
    <3> QED
      BY <3>3
  <2>4. CASE Counted # {}
    <3> DEFINE without == run_consensus(signed, public_keys)
    <3>1. PICK F1, I1 : cr = ConsensusResult(w, Votes(results, Counted, w), total, hon, F1, I1)
      BY <2>2, <2>4 DEF run_consensus, Counted
    <3>2. PICK F2, I2 : without = ConsensusResult(w, Votes(results, Counted, w), total, hon, F2, I2)
      <4>1. run_consensus(signed, public_keys)
               = ConsensusResult(w, Votes(signed, Counted, w), total,
                                 VotersFor(signed, Counted, w),
                                 (Counted \ VotersFor(signed, Counted, w))
                                     \cup (DOMAIN signed \ Counted),
                                 DOMAIN signed \ Counted)
        BY <2>1, <2>4 DEF run_consensus
      <4> QED
        BY <4>1, <2>1
    <3>3. /\ cr.agreed_hash = without.agreed_hash
          /\ cr.honest_nodes = without.honest_nodes
          /\ cr.consensus_reached = without.consensus_reached
      <4> HIDE DEF w, hon, total, without
      <4> QED
        BY <3>1, <3>2 DEF ConsensusResult
    <3> QED
      BY <3>3
  <2> QED
    BY <2>3, <2>4
<1>2. ResultIsComputed => UnsignedHasNoInfluence
  BY <1>1 DEF UnsignedHasNoInfluence
<1> QED
  BY <1>2, SpecResultIsComputed, PTL
=============================================================================
