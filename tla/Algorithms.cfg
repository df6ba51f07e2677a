\* The pure algorithms on every input of their bounded families.
SPECIFICATION Spec
CONSTANTS
    NodeIds = {1, 2, 3, 4}
    MaxDagNodes = 3
    MaxEdges = 3
    Schema <- SchemaDef
    DefaultLimit = 2
    MaxLimit = 3
    MaxRows = 7
    AbsoluteMaxDepth = 3
    MaxDepth = 4
    MaxInputMappingDepth = 2
    Wide <- WideDef
    MaxLeaseOps = 4
    MaxEvents = 2
    MaxCuts = 2
INVARIANTS
    AcceptsExactlyTheSound
    EnginesAgree
    PagesPartition
    ExpansionExact
    ConditionsEvaluate
    TranscriptExact
    LeaseExclusive
    TopologyRoundTrip
    VerifierExact
CHECK_DEADLOCK FALSE
