CONSTANTS
    Client = {c1, c2}
    Poller = {p1}
    Requests <- MCRequests
    MaxLen = 2
    QueueSize = 2
    MaxRounds = 3
    MaxRestarts = 1
SPECIFICATION Spec
SYMMETRY Symmetry
INVARIANTS
    InOrder
    MissedOnlyInTheGap
    QueuesAreOwned
    PollDeliversBuffered
