SPECIFICATION FairSpec
CONSTANTS
    P2Star <- MCP2Star
    S3Ms <- MCS3
    MaxPending <- MCMaxPending
    ClockMax <- MCClockMax
    StepMaxes <- MCStepMaxes
INVARIANTS
    AnswerInTime
    WaitIsCapped
    NoOrphan
    AbortOnce
    FinalIsFinal
PROPERTIES
    SessionSurvives
    Promised
