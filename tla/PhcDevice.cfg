SPECIFICATION Spec
CONSTANTS
    Freqs = {37, 101}
    Shift = 2
    Million = 4
    MaxPpm = 8
    MaxAdjust = 3
INVARIANT AdjfineRounded
CHECK_DEADLOCK FALSE
