CONSTANTS
    o1 = o1
    o2 = o2
    c1 = c1
    c2 = c2
    r1 = r1
    r2 = r2
    r3 = r3
    k1 = k1
    k2 = k2
    b1 = b1
    b2 = b2
    None = None
    CtxIds = {c1, c2}
    ResvIds = {r1, r2, r3}
    Owners = {o1}
    Keys = {k1, k2}
    Bindings = {b1, b2}
    Requests <- MCRequests
    BaseVersions = {1, 2}
    SupportedOps = {"create", "append", "fork", "reset", "release"}
    MaxContexts = 2
    DefaultTtl = 3
    MaxTtl = 2
    TombstoneSeconds = 1
    IdempotencyTtl = 1
    MaxTime = 3
SPECIFICATION Spec
SYMMETRY Symmetry
INVARIANTS
    ReservationExclusive
    WithinQuota
    BusyIffHeld
    BoundedLifetime
    TranscriptCoherent
    StatusTruthful
    ReceiptsUnique
PROPERTIES
    HistoryFinal
