CONSTANTS
    n1 = n1
    n2 = n2
    h1 = h1
    h2 = h2
    r1 = r1
    r2 = r2
    None = None
    Node = {n1, n2}
    Hash = {h1, h2}
    HashRank <- MCHashRank
    ThresholdNum = 51
    ThresholdDen = 100
    Request = {r1, r2}
    MaxFailures = 1
    MaxCrashes = 2
SPECIFICATION LiveSpec
INVARIANTS
    ChargedExactlyOnce
    ChargeIsEvidenced
    UsageCoversLedger
    RoundsAreConsecutive
    AnsweredForItsOwnRound
    StreamFollowsAudit
PROPERTIES
    StatusNeverRegresses
    EveryRequestAnswered
CHECK_DEADLOCK FALSE
