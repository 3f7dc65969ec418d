SPECIFICATION FairSpec
CONSTANTS
    p1 = p1
    p2 = p2
    None = None
    Peers <- MCPeers
    Kept <- MCKept
    Backlog = 2
    InitialPolls = 2
    GeneralPolls = 3
    IdlePolls = 5
    Lifetime = 9
    ReadAttempts = 2
    MaxPending = 2
    RapidThreshold = 3
    BackoffRejects = 2
INVARIANTS
    NothingInherited
    SlotIsBounded
    RefusedOnlyAfterBurst
PROPERTIES
    WaitingEnds
