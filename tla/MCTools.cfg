SPECIFICATION Spec
CONSTANTS
    Paths <- MCPaths
    Above <- MCAbove
    AgentSource = {}
    Runs <- MCRuns
    Slots <- MCSlots
    Requests = {"q"}
    Plans <- MCPlans
    Asked <- MCAsked
    RepairPaths = {"b"}
    Disks <- MCDisks
    MaxWorkers = 2
    MaxBatch = 3
    NoPath = NoPath
    Stem <- MCStem
    Flat <- MCFlat
    CodeFiles = {"a"}
    MaxTasks = 3
    CharsPerToken = 2
    SummaryLines = 2
    TranscriptLines = 2
    StopWords = {"the"}
INVARIANTS
    TypeOK
    GentleCallsKeepText
    StatusIsOwnResult
    BatchWritesStand
PROPERTIES
    VisitsEnd
CHECK_DEADLOCK FALSE
