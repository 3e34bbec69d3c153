CONSTANTS
    Clients = {c1, c2}
    None = None
    Modes = {"GC", "PPS"}
    Sec = 3
    TrigDelayTick = 2
    Deltas <- DeltasByMode
    SetTimes = {5}
    MaxOps = 2
    MaxLatency = 1
    MaxDrift = 2
    MaxTime = 16
SPECIFICATION Spec
CHECK_DEADLOCK FALSE
INVARIANTS
    TypeOK
    GettimexBracketed
    PpsAdjtimeExact
    InStepNoTimeout
PROPERTIES
    OpsComplete
