SPECIFICATION Spec
CONSTANTS
    schema = schema
    sec = sec
    app = app
    v1 = v1
    v2 = v2
    Keys <- MCKeys
    Vals <- MCVals
    Writes <- MCWrites
    Schema = schema
    Sec = sec
    Current = Current
    Junk = Junk
    Gone = Gone
    None = None
    Cap <- MCCap
    MaxGen = 3
    MaxFaults = 1
INVARIANTS
    AckedIsDurable
    BanksOrdered
PROPERTIES
    Atomic
