SPECIFICATION Spec
CONSTANTS
    i1 = i1
    i2 = i2
    i3 = i3
    i4 = i4
    fast = fast
    slow = slow
    Ids <- MCIds
    MinSession <- MCMinSession
    Secured <- MCSecured
    Requests <- MCRequests
    Slots = 3
    Modes <- MCModes
    Interval <- MCInterval
    Default = 1
    Sessions <- MCSessions
    MailBoxes = 1
    None = None
INVARIANTS
    NoPeriodLost
    QuietInDefault
PROPERTIES
    AllOrNone
