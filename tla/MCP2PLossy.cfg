CONSTANTS
    n1 = n1
    n2 = n2
    n3 = n3
    s1 = s1
    s2 = s2
    A = A
    B = B
    None = None
    Error = Error
    State <- MCState
    InitialState <- MCInitialState
    Tx <- MCTx
    Execute <- MCExecute
    Hash <- MCHash
    HashRank <- MCHashRank
    compute_state_hash <- MCStateHash
    _corrupt_hash <- MCCorruptHash
    ThresholdNum = 51
    ThresholdDen = 100
    RoundTimeout = 0
    RehabWindow = 1
    MinResponses = 1
    Node = {n1, n2, n3}
    Malicious = {n3}
    Slot = {s1}
    SuspectThreshold = 1
    ExcludedThreshold = 2
    MaxFaults = 2
SPECIFICATION LiveSpec
INVARIANTS
    LockStep
    LiarsDetected
    AgreedHashIsHonest
PROPERTIES
    BroadcastTerminates
    SuspicionIsResolved
