SPECIFICATION FairSpec
CONSTANTS
    SeedLevels <- MCSeedLevels
    SubFunctions <- MCSubFunctions
    MaxAttempts <- MCMaxAttempts
    LockoutMs <- MCLockoutMs
    Forever <- MCForever
    S3Ms <- MCS3Ms
    CommModes <- MCCommModes
    StrictProgramming = FALSE
    SafetySystemEnabled = TRUE
    PlatformFaults = TRUE
INVARIANTS
    PrivilegeOfThisSession
    TransferOfThisSession
    DefaultSessionIsClean
PROPERTIES
    LockoutOnlyByTime
    RefusalChangesNothing
    SessionEnds
