SPECIFICATION Spec
CONSTANTS
    d1 = d1
    d2 = d2
    None = None
    Table <- MCTable
    PersistMax <- MCPersistMax
    Bits <- MCBits
    RecordOrder <- MCRecordOrder
INVARIANTS
    ClearIsDurable
PROPERTIES
    PermanentSurvives
    ResetKeeps
