SPECIFICATION Spec
CONSTANTS
    P2Star <- MCP2Star
    S3Ms <- MCS3
    MaxPending <- MCMaxPending
    ClockMax <- MCClockMax
    StepMaxes <- MCStepMaxes
INVARIANTS
    AbortCalledOnce
