SYMMETRY NidSymmetry
CONSTANTS
    Nids = {a1, a2}
    SecurityProfile = "standard"
    MaxSkew = 2
    Ttl = 1
    MaxAttempts = 2
    MaxEpoch = 3
    MaxTime = 1
    MaxPublished = 2
    MaxWrites = 1
    MaxFrames = 1
SPECIFICATION Spec
INVARIANTS
    NoSplit
PROPERTIES
    FenceHolds
    NeverRollsBack
