SPECIFICATION ServicesSpec
CONSTANTS
    sale = sale
    bundle = bundle
    Rules = {sale, bundle}
    Priority <- MCPriority
    Editors = {e1}
    Editable = {sale}
    MaxClock = 2
    MaxEdits = 1
    o1 = o1
    o2 = o2
    o3 = o3
    b1 = b1
    b2 = b2
    b3 = b3
    Operations = {o1, o2, o3}
    Batches = {b1, b2, b3}
    Contents <- MCContents
    Posts = {p1, p2}
    None = none
    MaxFaults = 2
    MaxTopics = 2
    MaxPrimary = 3
    MaxFallback = 2
INVARIANTS
    ServicesTypeOK
    AnnouncedOnce
    StatusesTellTruth
    AnswerTellsTruth
PROPERTIES
    SettlesAsPromised
    WorkerKeepsGoing
    BatchesSettle
    EveryQuestionAnswered
CHECK_DEADLOCK FALSE
