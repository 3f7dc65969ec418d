SPECIFICATION FairSpec
CONSTANTS
    ecu = ecu
    tester = tester
    long = long
    short = short
    ask = ask
    load = load
    Nodes <- MCNodes
    Msgs <- MCMsgs
    Plans <- MCPlans
    Cells <- MCCells
    RxBuf = 4
    BlockSize <- MCBlockSize
    StMin <- MCStMin
    SnMod = 3
    First = tester
    BsTimeout = 3
    CrTimeout = 4
    Lag = 1
    Patient = TRUE
    MaxFaults = 2
    None = None
INVARIANTS
    DeliveredWhole
PROPERTIES
    Recovers
