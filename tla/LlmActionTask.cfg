CONSTANTS
    first = first
    second = second
    Calls <- BothCalls
    Modes <- CallModes
    Keys = {k1}
    NoCall = NoCall
SPECIFICATION Spec
INVARIANTS
    GuardDecides
PROPERTIES
    NoCommitAfterCancel
    TaskSettles
    ReservationSettles
CHECK_DEADLOCK FALSE
