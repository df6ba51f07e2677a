SPECIFICATION Spec
CONSTANTS
    AcmeClients = {a1}
    OtherClients = {o1}
    Nids = {n1}
    MaxCalls = 2
    MaxFaults = 1
    MaxNonces = 7
INVARIANTS
    CertPerAnswer
PROPERTY CallSucceeds
CHECK_DEADLOCK FALSE
