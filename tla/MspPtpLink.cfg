CONSTANTS
    Freqs = {37}
    Shift = 2
    Million = 4
    MaxPpm = 1
    MaxAdjust = 1
    Module = FALSE
SPECIFICATION Spec
CHECK_DEADLOCK FALSE
INVARIANT
    MspPtpClockLive
