CONSTANTS
    Peers = {p1, p2}
    Hellos <- ClientHellos
    ServerProfile <- Profile
    ShortMax = 2
    FrameLens = {1, 3}
    Clients = {p1}
    MaxUp = 2
    MaxDown = 1
SPECIFICATION Spec
CHECK_DEADLOCK FALSE
INVARIANTS
    SessionsAgree
PROPERTIES
    ClientsHeard
