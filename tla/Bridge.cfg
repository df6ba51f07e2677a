SPECIFICATION BridgeSpec
CONSTANTS
    Nodes <- MCNodes
    Hosts <- MCHosts
    Inputs <- MCInputs
    Requests = {r1, r2}
    HttpStatuses = {403, 404, 503}
    DispatchErrors = {"CLIENT-CONFLICT", "LIMIT-RATE"}
INVARIANTS
    ToolsRunAsAsked
PROPERTIES
    PostsAnswered
CHECK_DEADLOCK FALSE
