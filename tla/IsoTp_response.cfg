SPECIFICATION Spec
CONSTANTS
    ecu = ecu
    tester = tester
    long = long
    short = short
    ask = ask
    load = load
    Nodes <- MCNodes
    Msgs <- MCMsgs
    Plans <- MCPlans
    Cells <- MCCells
    RxBuf = 4
    BlockSize <- MCBlockSize
    StMin <- MCStMin
    SnMod = 3
    First = tester
    BsTimeout = 3
    CrTimeout = 4
    Lag = 1
    Patient = FALSE
    MaxFaults = 0
    None = None
INVARIANTS
    DeliveredWhole
