CONSTANTS
    NodeIds <- Ids
    MaxDagNodes = 4
    Runs = {r1}
    Tasks <- AllTasks
    ErrorCodes <- Codes
    MaxConcurrentNodes = 2
    MaxDelegateDepth = 3
    CallbackMaxRetries = 3
SPECIFICATION Spec
INVARIANTS
    LaunchJustified
    SagaReverses
    FailureJustified
    NoNodeForgotten
PROPERTY
    Terminates
