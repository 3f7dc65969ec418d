SPECIFICATION Spec
CONSTANTS
    Top <- MCTop
    Base <- MCBase
    Extent <- MCExtent
    Asked <- MCAsked
    Capacity <- MCCapacity
    MaxSeq <- MCMaxSeq
    Configs <- MCConfigs
    Records <- MCAllRecords
    FlashFaults = TRUE
    Noise = TRUE
INVARIANTS
    OutsideUntouched
    AcceptedIsImage
    PolicySeesAll
    NothingLost
    TesterInStep
    PolicyToldWithoutUploads
    UploadFaithful
