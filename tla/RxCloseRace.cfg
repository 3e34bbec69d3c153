CONSTANTS
    NumRds = 3
    PrevRxSkbNum = 3
    DataWuPerFrame = 1
    Budget = 2
    MaxFrames = 3
    MaxDataWus = 3
    MaxAllocFail = 1
SPECIFICATION Spec
CHECK_DEADLOCK FALSE
INVARIANT
    RxDmaStoppedAtFree
