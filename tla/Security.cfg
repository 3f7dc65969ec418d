SPECIFICATION FairSecuritySpec
CONSTANTS
    SeedLevels <- MCSeedLevels
    TriedSubFunctions <- MCSubFunctions
    MaxAttempts <- MCMaxAttempts
    LockoutMs <- MCLockoutMs
    Forever <- MCForever
    FailClosed = TRUE
    ReadFaults = TRUE
    SaveFaults = TRUE
INVARIANTS
    AttemptBudget
    LockoutServed
    FailClosedServed
    OneKeyPerSeed
PROPERTIES
    LockoutExpires
