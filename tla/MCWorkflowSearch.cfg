SPECIFICATION Spec
CONSTANTS
    a = a
    b = b
    c = c
    f = f
    TaskIds = {a, b, c, f}
    Kind <- SearchKind
    Style <- Named
    PlanPrio <- SearchPrio
    Initial <- NoTasks
    Required = {}
    Fallback <- FallbackF
    Existing = {}
    Recognised = {}
    Goals = {"tool_use"}
    LlmReflects = FALSE
    LlmStatuses = {}
    LlmPrios = {}
    AgentsCrash = FALSE
    MaxPlan = 3
    MaxBatch = 8
    MaxPlannerCycles = 5
    MaxReplan = 3
    MaxStuck = 3
    PlannerCycleCap = 4
    CycleBound = 9
    AttemptBound = 9
PROPERTY
    SearchMarksOnlySearch
