\* The serving loop with its default encoding.
CONSTANTS
    Peers = {p1}
    Clients = {p1}
    Hellos <- MsgPackHellos
    ServerProfile <- Profile
    ShortMax = 2
    FrameLens = {1}
    MaxUp = 1
    MaxDown = 0
SPECIFICATION Spec
CHECK_DEADLOCK FALSE
PROPERTIES
    RequestsServed
