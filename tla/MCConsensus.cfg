CONSTANTS
    n1 = n1
    n2 = n2
    n3 = n3
    n4 = n4
    hA = hA
    hB = hB
    hC = hC
    Node = {n1, n2, n3, n4}
    Hash = {hA, hB, hC}
    HashRank <- MCHashRank
    ThresholdNum = 51
    ThresholdDen = 100
    None = None
SPECIFICATION Spec
INVARIANTS
    EveryoneClassified
    HonestMajorityWins
    ReachedIsUnambiguous
    SmallCoalitionCannotForge
    ToleratesDocumentedFaults
    UnsignedHasNoInfluence
CHECK_DEADLOCK FALSE
