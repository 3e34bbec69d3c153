CONSTANTS
    NsPerSec = 10
    FracNum = 4
    MaxSec = 2
    MaxDelta = 25
    DelayNs = {0, 3, 12}
    DelayFrac = {0, 3}
    RegHalf = 2
SPECIFICATION Spec
INVARIANT
    AdjtimeExact
