SPECIFICATION Spec
CONSTANTS
    Agents = {a1}
    Tasks = {t1, t2}
    Actions <- MCActions
    Budgets = {0, 3}
    CgnLimit = 5
    BanOn <- MCBanOn
    RejectOn <- MCRejectOn
    ThrottleOn <- MCThrottleOn
    MinAssurance = 1
    CacheTtl = 2
    BanTtl = 2
    DenyUnavailable = FALSE
    Sources = 1
    Slots = 1
    Incidents <- MCIncidents
    MaxTime = 4
    MaxEntries = 2
    MaxRequests = 3
INVARIANTS
    ReportsHeard
    SlotsMatchRunning
SYMMETRY TaskSymmetry
CHECK_DEADLOCK FALSE
