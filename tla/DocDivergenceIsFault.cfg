CONSTANTS
    n1 = n1
    n2 = n2
    n3 = n3
    s1 = s1
    s2 = s2
    A = A
    B = B
    None = None
    Error = Error
    State <- MCState
    InitialState <- MCInitialState
    Tx <- MCTx
    Execute <- MCExecute
    Hash <- MCHash
    HashRank <- MCHashRank
    compute_state_hash <- MCStateHash
    _corrupt_hash <- MCCorruptHash
    ThresholdNum = 51
    ThresholdDen = 100
    RoundTimeout = 1
    RehabWindow = 2
    MinResponses = 1
    Node = {n1, n2, n3}
    Malicious = {}
    Slot = {s1, s2}
    SuspectThreshold = 3
    ExcludedThreshold = 5
    MaxFaults = 0
SPECIFICATION Spec
INVARIANT DocDivergenceIsFault
