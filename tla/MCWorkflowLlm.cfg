SPECIFICATION Spec
CONSTANTS
    a = a
    b = b
    c = c
    f = f
    TaskIds = {a, b, c}
    Kind <- MixedKind
    Style <- Named
    PlanPrio <- MixedPrio
    Initial <- NoTasks
    Required = {}
    Fallback <- FallbackA
    Existing = {}
    Recognised = {}
    Goals = {"question", "project", "tool_use"}
    LlmReflects = TRUE
    LlmStatuses = {"todo"}
    LlmPrios = {9}
    AgentsCrash = TRUE
    MaxPlan = 2
    MaxBatch = 2
    MaxPlannerCycles = 3
    MaxReplan = 2
    MaxStuck = 3
    PlannerCycleCap = 2
    CycleBound = 4
    AttemptBound = 0
INVARIANTS
    TypeOK
    
    ReplansBounded
    PlannerEntriesAccounted
    
PROPERTIES
    PlannerKeepsDone
    RefinesGoalLoop
