CONSTANTS
    A = A
    B = B
    C = C
    p1 = p1
    p2 = p2
    bob = bob
    Place = {port, shop}
    Party = {ann, bob}
    Check = {seal}
    Reason = {mould}
    None = None
    Error = Error
    MaxBalance = 10
    MaxTrace = 4
    Account <- MCAccount
    Product <- MCProduct
    State <- MCState
    Tx <- MCTx
    ResetStates <- MCResetStates
    Execute <- MCExecute
SPECIFICATION ManagerSpec
INVARIANTS
    TraceReplays
    SupplyConserved
    CustodyFollowsTrace
    QuarantineHolds
