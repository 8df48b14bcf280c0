--------------------------- MODULE ConsensusLemmas ---------------------------
(***************************************************************************)
(* Facts about the operators of Consensus for every set of nodes, every    *)
(* set of hashes and every threshold: votes are counted once, a winner     *)
(* exists and has the most votes, a threshold above one half is a majority.*)
(***************************************************************************)
EXTENDS Consensus, FiniteSetTheorems, TLAPS

\* Every non-empty set of naturals has a least element.
LEMMA LeastNat ==
    ASSUME NEW S, S \subseteq Nat, S # {}
    PROVE  \E m \in S : \A k \in S : m <= k
<1> DEFINE R == OpToRel(<, Nat)
<1>1. IsWellFoundedOn(R, Nat)
  BY NatLessThanWellFounded
<1>2. \A x, y \in Nat : x < y => <<x, y>> \in R
  BY DEF OpToRel
<1> HIDE DEF R
<1>3. PICK m \in S : \A k \in S : ~ (<<k, m>> \in R)
  BY <1>1, WFMin
<1>4. ASSUME NEW k \in S
      PROVE  m <= k
  <2>1. k \in Nat /\ m \in Nat
    OBVIOUS
  <2>2. ~ (k < m)
    BY <2>1, <1>2, <1>3
  <2> QED
    BY <2>1, <2>2
<1> QED
  BY <1>4

\* Every non-empty bounded set of naturals has a greatest element.
LEMMA GreatestNat ==
    ASSUME NEW S, S \subseteq Nat, S # {}, NEW b \in Nat, \A k \in S : k <= b
    PROVE  \E m \in S : \A k \in S : k <= m
<1> DEFINE T == {b - k : k \in S}
<1>1. T \subseteq Nat /\ T # {}
  <2>1. \A k \in S : b - k \in Nat
    OBVIOUS
  <2>2. PICK k \in S : TRUE
    OBVIOUS
  <2>3. b - k \in T
    OBVIOUS
  <2> QED
    BY <2>1, <2>3
<1>2. PICK t \in T : \A u \in T : t <= u
  BY <1>1, LeastNat
<1>3. PICK m \in S : t = b - m
  OBVIOUS
<1>4. ASSUME NEW k \in S
      PROVE  k <= m
  <2>1. b - k \in T
    OBVIOUS
  <2> QED
    BY <2>1, <1>2, <1>3
<1> QED
  BY <1>4

-----------------------------------------------------------------------------

\* Counted results of a finite set: how many vote for h.
LEMMA VotesType ==
    ASSUME NEW res, NEW V, IsFiniteSet(V), NEW h
    PROVE  /\ IsFiniteSet(VotersFor(res, V, h))
           /\ Votes(res, V, h) \in Nat
           /\ Votes(res, V, h) <= Cardinality(V)
<1>1. VotersFor(res, V, h) \in SUBSET V
  BY DEF VotersFor
<1> QED
  BY <1>1, FS_Subset, FS_CardinalityType DEF Votes

\* Voters for two different hashes are different nodes.
LEMMA VotesDisjoint ==
    ASSUME NEW res, NEW V, IsFiniteSet(V), NEW g, NEW h, g # h
    PROVE  Votes(res, V, g) + Votes(res, V, h) <= Cardinality(V)
<1> DEFINE G == VotersFor(res, V, g)
           H == VotersFor(res, V, h)
<1>1. G \cap H = {} /\ (G \cup H) \in SUBSET V
  BY DEF VotersFor
<1>2. IsFiniteSet(G) /\ IsFiniteSet(H)
  BY VotesType
<1>3. Cardinality(G \cup H) = Cardinality(G) + Cardinality(H) - Cardinality(G \cap H)
  BY <1>2, FS_Union
<1>4. Cardinality(G \cup H) <= Cardinality(V)
  BY <1>1, FS_Subset
<1>5. Cardinality(G \cap H) = 0
  BY <1>1, FS_EmptySet
<1>6. Cardinality(G) \in Nat /\ Cardinality(H) \in Nat
  BY <1>2, FS_CardinalityType
<1> HIDE DEF G, H
<1>7. Cardinality(G) + Cardinality(H) <= Cardinality(V)
  BY <1>3, <1>4, <1>5, <1>6
<1> QED
  BY <1>7 DEF G, H, Votes

\* _select_winner returns a hash somebody reported, with the most votes.
LEMMA WinnerHasMostVotes ==
    ASSUME NEW res, NEW V, IsFiniteSet(V), V # {},
           \A n \in V : res[n].hash \in Hash
    PROVE  /\ _select_winner(res, V) \in VotedHashes(res, V)
           /\ \A g \in VotedHashes(res, V) :
                  Votes(res, V, g) <= Votes(res, V, _select_winner(res, V))
<1> DEFINE VH == VotedHashes(res, V)
           C  == candidates(res, V)
           counts == {Votes(res, V, h) : h \in VH}
           ranks  == {HashRank[h] : h \in C}
<1>1. VH # {} /\ VH \subseteq Hash
  BY DEF VotedHashes
<1>2. C # {}
  <2>1. \A h \in VH : Votes(res, V, h) \in Nat /\ Votes(res, V, h) <= Cardinality(V)
    BY VotesType
  <2>2. counts \subseteq Nat /\ counts # {} /\ \A k \in counts : k <= Cardinality(V)
    BY <1>1, <2>1
  <2>3. Cardinality(V) \in Nat
    BY FS_CardinalityType
  <2> HIDE DEF counts
  <2>4. PICK m \in counts : \A k \in counts : k <= m
    BY <2>2, <2>3, GreatestNat
  <2> USE DEF counts
  <2>5. PICK h \in VH : m = Votes(res, V, h)
    OBVIOUS
  <2>6. \A g \in VH : Votes(res, V, g) <= Votes(res, V, h)
    BY <2>4, <2>5
  <2> QED
    BY <2>6 DEF candidates
<1>3. PICK w \in C : \A g \in C : HashRank[w] <= HashRank[g]
  <2>1. C \subseteq Hash
    BY <1>1 DEF candidates
  <2>2. ranks \subseteq Nat /\ ranks # {}
    BY <1>2, <2>1, HashOrder
  <2> HIDE DEF ranks
  <2>3. PICK m \in ranks : \A k \in ranks : m <= k
    BY <2>2, LeastNat
  <2> USE DEF ranks
  <2>4. PICK h \in C : m = HashRank[h]
    OBVIOUS
  <2>5. \A g \in C : HashRank[h] <= HashRank[g]
    BY <2>3, <2>4
  <2> QED
    BY <2>5
<1>4. _select_winner(res, V) \in C
  BY <1>3 DEF _select_winner
<1> QED
  BY <1>4 DEF candidates

\* More than half of the counted results decide the winner.
LEMMA MajorityWins ==
    ASSUME NEW res, NEW V, IsFiniteSet(V), \A n \in V : res[n].hash \in Hash,
           NEW h, 2 * Votes(res, V, h) > Cardinality(V)
    PROVE  _select_winner(res, V) = h /\ h \in VotedHashes(res, V) /\ V # {}
<1> DEFINE w == _select_winner(res, V)
<1>1. Cardinality(V) \in Nat /\ Votes(res, V, h) \in Nat /\ Votes(res, V, w) \in Nat
  BY VotesType, FS_CardinalityType
<1>2. h \in VotedHashes(res, V) /\ V # {}
  <2>1. Cardinality(VotersFor(res, V, h)) # 0
    BY <1>1 DEF Votes
  <2>2. VotersFor(res, V, h) # {}
    BY <2>1, FS_EmptySet
  <2> QED
    BY <2>2 DEF VotersFor, VotedHashes
<1>3. Votes(res, V, h) <= Votes(res, V, w)
  BY <1>2, WinnerHasMostVotes
<1> HIDE DEF w
<1>4. w = h
  <2>1. SUFFICES ASSUME w # h PROVE FALSE
    OBVIOUS
  <2>2. Votes(res, V, w) + Votes(res, V, h) <= Cardinality(V)
    BY <2>1, VotesDisjoint
  <2> QED
    BY <1>1, <1>3, <2>2
<1> QED
  BY <1>2, <1>4 DEF w

\* A product of naturals grows with each factor.
LEMMA ProductMonotone ==
    ASSUME NEW a \in Nat, NEW b \in Nat, NEW c \in Nat, a <= b
    PROVE  a * c <= b * c
<1>1. b * c = a * c + (b - a) * c
  OBVIOUS
<1>2. (b - a) * c \in Nat
  OBVIOUS
<1>3. a * c \in Nat
  OBVIOUS
<1> QED
  BY <1>1, <1>2, <1>3

\* Meeting a threshold above one half takes more than half of the votes.
LEMMA ThresholdIsMajority ==
    ASSUME NEW v \in Nat, NEW t \in Nat \ {0},
           2 * ThresholdNum > ThresholdDen, MeetsThreshold(v, t)
    PROVE  2 * v > t
<1> DEFINE N == ThresholdNum
           D == ThresholdDen
<1>1. N \in Nat /\ D \in Nat
  BY ThresholdInRange
<1>2. v * D >= N * t
  BY DEF MeetsThreshold
<1> HIDE DEF N, D
<1>3. SUFFICES ASSUME 2 * v <= t PROVE FALSE
  OBVIOUS
<1>4. (2 * v) * D <= t * D
  BY <1>1, <1>3, ProductMonotone
<1>5. (D + 1) * t <= (2 * N) * t
  <2>1. D + 1 <= 2 * N
    BY <1>1 DEF N, D
  <2> QED
    BY <2>1, <1>1, ProductMonotone
<1>6. (D + 1) * t = t * D + t
  BY <1>1
<1>7. (2 * v) * D = 2 * (v * D) /\ (2 * N) * t = 2 * (N * t)
  BY <1>1
<1>8. v * D \in Nat /\ N * t \in Nat /\ t * D \in Nat
  BY <1>1
<1> QED
  BY <1>2, <1>4, <1>5, <1>6, <1>7, <1>8

\* run_consensus returns a ConsensusResult for the results of any nodes.
LEMMA RunConsensusType ==
    ASSUME NEW res \in Results, NEW keys
    PROVE  run_consensus(res, keys) \in ConsensusResults
<1> DEFINE V   == verified_results(res, keys)
           D   == DOMAIN res
           w   == _select_winner(res, V)
           hon == VotersFor(res, V, w)
<1>1. PICK S \in SUBSET Node : res \in [S -> NodeResult]
  BY DEF Results
<1>2. D \in SUBSET Node /\ V \in SUBSET D /\ hon \in SUBSET V
  BY <1>1 DEF verified_results, VotersFor
<1>3. /\ \A T \in SUBSET Node : IsFiniteSet(T) /\ Cardinality(T) \in Nat
      /\ \A n \in V : res[n].hash \in Hash
  <2>1. ASSUME NEW T \in SUBSET Node
        PROVE  IsFiniteSet(T) /\ Cardinality(T) \in Nat
    BY NodeFinite, FS_Subset, FS_CardinalityType
  <2>2. \A n \in V : res[n].hash \in Hash
    BY <1>1, <1>2 DEF NodeResult
  <2> QED
    BY <2>1, <2>2
<1>4. \A a, v, t, H, F, I :
         a \in Hash \cup {None} /\ H \in SUBSET Node /\ F \in SUBSET Node /\ I \in SUBSET Node
         => ConsensusResult(a, v, t, H, F, I) \in ConsensusResults
  <2> SUFFICES ASSUME NEW a, NEW v, NEW t, NEW H, NEW F, NEW I,
                      a \in Hash \cup {None}, H \in SUBSET Node,
                      F \in SUBSET Node, I \in SUBSET Node
               PROVE  ConsensusResult(a, v, t, H, F, I) \in ConsensusResults
    OBVIOUS
  <2>1. Cardinality(H) + Cardinality(F) \in Nat
    BY <1>3
  <2>2. (a # None /\ t > 0 /\ MeetsThreshold(v, t)) \in BOOLEAN
    OBVIOUS
  <2> QED
    BY <2>1, <2>2 DEF ConsensusResult, ConsensusResults
<1>5. CASE V = {}
  <2>1. run_consensus(res, keys) = ConsensusResult(None, 0, 0, {}, D, D \ V)
    BY <1>5 DEF run_consensus
  <2> QED
    BY <2>1, <1>2, <1>4
<1>6. CASE V # {}
  <2>1. w \in Hash
    <3>1. IsFiniteSet(V)
      BY <1>2, <1>3
    <3>2. w \in VotedHashes(res, V)
      BY <1>3, <1>6, <3>1, WinnerHasMostVotes
    <3> QED
      BY <1>3, <3>2 DEF VotedHashes
  <2>2. run_consensus(res, keys) =
           ConsensusResult(w, Votes(res, V, w), Cardinality(V), hon,
                           (V \ hon) \cup (D \ V), D \ V)
    BY <1>6 DEF run_consensus
  <2>3. /\ hon \in SUBSET Node
        /\ (V \ hon) \cup (D \ V) \in SUBSET Node
        /\ D \ V \in SUBSET Node
    BY <1>2
  <2> HIDE DEF hon, D, V, w
  <2> QED
    BY <2>1, <2>2, <2>3, <1>4
<1> QED
  BY <1>5, <1>6
=============================================================================
