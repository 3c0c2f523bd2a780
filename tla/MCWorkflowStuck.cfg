SPECIFICATION Spec
CONSTANTS
    a = a
    b = b
    c = c
    f = f
    TaskIds = {a, b, c, f}
    Kind <- FileKind
    Style <- Named
    PlanPrio <- FilePrio
    Initial <- NoTasks
    Required = {}
    Fallback <- FallbackF
    Existing = {}
    Recognised = {}
    Goals = {"project"}
    LlmReflects = TRUE
    LlmStatuses = {}
    LlmPrios = {}
    AgentsCrash = FALSE
    MaxPlan = 3
    MaxBatch = 8
    MaxPlannerCycles = 5
    MaxReplan = 3
    MaxStuck = 3
    PlannerCycleCap = 4
    CycleBound = 9
    AttemptBound = 9
INVARIANT
    StuckRoundsBounded
