CONSTANTS
    None = None
    Callers = {p1, p2}
    AgentNids = {}
    NodeNids = {n1}
    GroupNids = {g1}
    SessionNids = {s1, s2}
    TokenIds = {t1}
    PendingIds = {d1, d2, d3}
    Backend = "memory"
    Tiers = {"allowlist", "token", "queue"}
    Endpoints <- EndpointsByTier
    AgentValidity = 1
    NodeValidity = 2
    GroupValidity = 1
    SessionTtls = {1}
    RenewalWindow = 1
    TokenTtls = {0, 1}
    TokenMaxTtl = 0
    MaxQueue = 1
    MaxSerial = 3
    MaxTime = 1
SPECIFICATION Spec
SYMMETRY Symmetry
INVARIANT
    EnrollmentSound
PROPERTIES
    RevocationFinal
    CascadeComplete
CHECK_DEADLOCK FALSE
