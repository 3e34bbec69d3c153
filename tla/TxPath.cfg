CONSTANTS
    MinNonPtpTag = 1
    MaxNonPtpTag = 3
    MinPtpTag = 4
    MaxPtpTag = 5
    NumTds = 3
    StopQueueTh = 1
    Budget = 2
    MaxFrames = 4
SPECIFICATION Spec
CHECK_DEADLOCK FALSE
INVARIANTS
    TypeOK
    StatusMatchesSlot
    NoSequencingFault
    TagsMatchRing
PROPERTIES
    WireOrder
    TxQueueRefined
    TxFramesComplete
