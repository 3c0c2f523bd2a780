------------------------------ MODULE Workflow ------------------------------
(***************************************************************************)
(* One run of the goal-driven workflow of agentflow/graph/workflow.py: the *)
(* compiled LangGraph of eleven nodes, from the conversation manager to    *)
(* the memory node, with the planner / executor / reflector loop in the    *)
(* middle.                                                                 *)
(*                                                                         *)
(* A step of the model is one node together with the routing function that *)
(* follows it, as one LangGraph superstep: the node rewrites the workflow  *)
(* state and the router picks the node of the next step.  The state that   *)
(* decides routes is kept in full (task queue in list order, tool results, *)
(* plan, verdict and counters).  What a language model, a tool or the      *)
(* network returns is a nondeterministic choice.  Texts are abstracted to  *)
(* what the reflector compares: a task's goal text and its tool action.    *)
(***************************************************************************)
EXTENDS Integers, Sequences, FiniteSets, SequencesExt

CONSTANTS
    TaskIds,            \* the task ids that plans, templates and fallbacks use
    Kind,               \* task id -> what its tool and action do (Kinds)
    Style,              \* task id -> how its goal text relates to its action
    PlanPrio,           \* task id -> the priority its definition carries
    Initial,            \* tasks of the matching blueprint/template, <<>> if none
    Required,           \* required_ids of the matching template, {} if none
    Fallback,           \* tasks _generate_stuck_tasks knows for this goal
    Existing,           \* tasks whose file is on disk before the run
    Recognised,         \* tasks a template finds on disk: see PlanFromTemplate
    Goals,              \* goal types the analyzer may return
    LlmReflects,        \* TRUE: the reflector's LLM answers with valid JSON
    LlmStatuses,        \* statuses that LLM may write into a task
    LlmPrios,           \* priorities that LLM may write into a task
    AgentsCrash,        \* TRUE: an agent's run() may raise
    MaxPlan,            \* most tasks in one LLM plan (8 in the code)
    MaxBatch,           \* most tasks in one parallel batch (8 in the code)
    MaxPlannerCycles, MaxReplan, MaxStuck, PlannerCycleCap,  \* TerminationPolicy
    CycleBound,         \* planner calls before LangGraph's recursion limit
    AttemptBound        \* executions of one task that the history counts

Kinds == {"write", "edit", "read", "tool", "search", "python", "knowledge"}
Styles == {"named", "mention", "action"}
Statuses == {"todo", "running", "done", "failed", "blocked", "skipped"}
GoalTypes == {"other", "question", "analysis", "document", "translation",
              "editing", "coding", "project", "search", "tool_use"}
Nodes == {"conversation_manager", "goal_analyzer", "knowledge", "planner",
          "query_rewriter", "search", "tool_executor", "python", "reflector",
          "answer", "memory"}

Task == [id : TaskIds, status : Statuses, prio : Nat]
Result == [task : TaskIds, ok : BOOLEAN]

ASSUME TaskAssumption ==
    /\ Kind \in [TaskIds -> Kinds]
    /\ Style \in [TaskIds -> Styles]
    /\ PlanPrio \in [TaskIds -> Nat]
    /\ Initial \in Seq(TaskIds)
    /\ \A j, k \in DOMAIN Initial : Initial[j] = Initial[k] => j = k
    /\ Fallback \in Seq(TaskIds)
    /\ Required \subseteq TaskIds
    /\ Existing \subseteq TaskIds /\ Recognised \subseteq TaskIds
ASSUME EnvironmentAssumption ==
    /\ Goals \subseteq GoalTypes
    /\ LlmReflects \in BOOLEAN /\ AgentsCrash \in BOOLEAN
    /\ LlmStatuses \subseteq Statuses \ {"running"}
    /\ LlmPrios \subseteq Nat
ASSUME PolicyAssumption ==
    /\ MaxPlan \in Nat \ {0} /\ MaxBatch \in Nat \ {0, 1}
    /\ MaxPlannerCycles \in Nat \ {0} /\ MaxReplan \in Nat \ {0}
    /\ MaxStuck \in Nat \ {0} /\ PlannerCycleCap \in Nat \ {0}
    /\ CycleBound \in Nat /\ AttemptBound \in Nat

VARIABLES
    pc,         \* the node the next step runs, or "end" / "aborted"
    goal,       \* goal_analysis.goal_type
    queue,      \* task_queue: the serialized tasks, in list order
    results,    \* tool_results of the last execution
    plan,       \* plan: none yet, open, or with goal_completed/direct_answer
    llmError,   \* _llm_error is set
    verdict,    \* _reflection_result
    replans,    \* _replan_count
    cycles,     \* _planner_cycle_count
    genFailed,  \* _generation_failed
    attempts,   \* history: how often each task was handed to its tool
    written,    \* history: the tasks whose tool really succeeded
    uncapped,   \* history: planner entries that no cap of the policy counts
    stuckRun    \* history: consecutive stuck rounds sent to the planner

control == <<pc, goal, plan, llmError, verdict, replans, cycles, genFailed>>
history == <<attempts, written, uncapped, stuckRun>>
vars == <<pc, goal, queue, results, plan, llmError, verdict, replans, cycles,
          genFailed, attempts, written, uncapped, stuckRun>>

-----------------------------------------------------------------------------
(* The task queue: a list of tasks with distinct ids, addressed by          *)
(* position.                                                                *)

AtMost(n, bound) == IF n <= bound THEN n ELSE bound
Ids(q) == {q[i].id : i \in DOMAIN q}
Todo(q) == {i \in DOMAIN q : q[i].status = "todo"}
OnDisk == Existing \cup written
IsFileCreation(t) == Kind[t] \in {"write", "edit"}
HasFileCreation(q) == \E i \in DOMAIN q : IsFileCreation(q[i].id)

NewTask(t, s) == [id |-> t, status |-> s, prio |-> PlanPrio[t]]
Added(q, ts) == q \o [k \in DOMAIN ts |-> NewTask(ts[k], "todo")]
Marked(q, S, s) ==
    [i \in DOMAIN q |-> IF i \in S THEN [q[i] EXCEPT !.status = s] ELSE q[i]]

(* Mutant: DONE tasks are replaced as well.                                 *)
ReissuedOverDone(q, ts) ==
    [i \in DOMAIN q |-> IF q[i].id \in ts THEN NewTask(q[i].id, "todo") ELSE q[i]]

(* TaskQueue.add of ids that are already queued: the new definition         *)
(* replaces the old one, unless the old one is DONE.                        *)
Reissued(q, ts) ==
    [i \in DOMAIN q |-> IF q[i].id \in ts /\ q[i].status # "done"
                        THEN NewTask(q[i].id, "todo") ELSE q[i]]

(* The first position of S, by descending priority and then list order:     *)
(* max(todo, key=priority), and the order of TaskQueue.all.                 *)
IsForemost(q, S, i) ==
    \A j \in S : \/ q[i].prio > q[j].prio
                 \/ q[i].prio = q[j].prio /\ i <= j
Foremost(q, S) == CHOOSE i \in S : IsForemost(q, S, i)
IsFirst(S, i) == \A j \in S : i <= j

-----------------------------------------------------------------------------
(* Routing.                                                                 *)

(* Mutant: the routers' special case for knowledge tasks is missing.        *)
NextNodeWithoutKnowledge(q, idle, onKnowledge) ==
    IF Todo(q) = {} THEN idle
    ELSE LET kind == Kind[q[Foremost(q, Todo(q))].id]
         IN  CASE kind = "search" -> "query_rewriter"
               [] kind = "python" -> "python"
               [] kind = "knowledge" -> "None"
               [] OTHER -> "tool_executor"

(* The node of the highest-priority TODO task, idle when there is none.     *)
NextNode(q, idle, onKnowledge) ==
    IF Todo(q) = {} THEN idle
    ELSE LET kind == Kind[q[Foremost(q, Todo(q))].id]
         IN  CASE kind = "search" -> "query_rewriter"
               [] kind = "python" -> "python"
               [] kind = "knowledge" -> onKnowledge
               [] OTHER -> "tool_executor"

(* Mutant: the route is decided on the queue as it was before the node.     *)
RouteAfterExecutorStale(q, res) ==
    IF res # <<>> /\ ~Last(res).ok THEN "reflector"
    ELSE NextNode(queue, "reflector", "reflector")
RouteAfterExecutor(q, res) ==
    IF res # <<>> /\ ~Last(res).ok THEN "reflector"
    ELSE NextNode(q, "reflector", "reflector")

RouteAfterPlanner(q, p, v) ==
    IF v = "done" \/ p = "completed" THEN "answer"
    ELSE NextNode(q, "reflector", "reflector")

(* Mutant: off by one.                                                      *)
AnswersOnReplanLate(n) == n > MaxReplan
AnswersOnReplan(n) == n >= MaxReplan

(* Mutant: the cycle cap is dropped.                                        *)
AnswersWhenStuckByRounds(rounds) == rounds >= MaxStuck
(* The stuck counter is incremented in the router, on a copy of the state   *)
(* that LangGraph drops: every stuck round is the first one it sees.        *)
AnswersWhenStuck(rounds) == rounds >= MaxStuck \/ cycles >= PlannerCycleCap

IsStuck(q, v) == v = "next" /\ Todo(q) = {}

RouteAfterReflector(q, v, n) ==
    CASE v \in {"done", "unset"} -> "answer"
      [] v = "replan" -> IF AnswersOnReplan(n) THEN "answer" ELSE "planner"
      [] v = "next" -> NextNode(q, IF AnswersWhenStuck(1) THEN "answer" ELSE "planner",
                                "planner")

-----------------------------------------------------------------------------
Init ==
    /\ pc = "conversation_manager"
    /\ goal = "other"
    /\ queue = <<>> /\ results = <<>>
    /\ plan = "none" /\ llmError = FALSE /\ verdict = "unset"
    /\ replans = 0 /\ cycles = 0 /\ genFailed = FALSE
    /\ attempts = [t \in TaskIds |-> 0] /\ written = {}
    /\ uncapped = 0 /\ stuckRun = 0

ConversationManager ==
    /\ pc = "conversation_manager"
    /\ pc' = "goal_analyzer"
    /\ UNCHANGED <<goal, queue, results, plan, llmError, verdict, replans,
                   cycles, genFailed, attempts, written, uncapped, stuckRun>>

-----------------------------------------------------------------------------
(* Goal analysis.  The user's source mode overrides the detected type, then *)
(* the router decides between retrieval, planning and a direct answer.      *)

Informational == {"other", "question", "analysis", "document", "search"}
KnowledgeTypes == {"question", "analysis", "document"}

GoalType(detected, mode) ==
    IF detected \notin Informational THEN detected
    ELSE CASE mode = "knowledge" -> IF detected = "other" THEN "question" ELSE detected
           [] mode = "web" -> "search"
           [] mode = "auto" -> detected

RouteAfterGoalAnalyzer(type, mode, source) ==
    IF mode = "knowledge" THEN "knowledge"
    ELSE IF type \in {"other", "translation", "editing"} THEN "answer"
    ELSE IF type \in KnowledgeTypes
         THEN IF source = "general" THEN "answer" ELSE "knowledge"
    ELSE "planner"

(* fallback is the default goal of an unreachable LLM: type "other" and an  *)
(* error that later makes the planner skip planning.                        *)
GoalAnalyzer ==
    /\ pc = "goal_analyzer"
    /\ \E detected \in Goals, mode \in {"auto", "web", "knowledge"},
          source \in {"general", "local"}, fallback \in BOOLEAN :
         /\ goal' = GoalType(IF fallback THEN "other" ELSE detected, mode)
         /\ llmError' = fallback
         /\ pc' = RouteAfterGoalAnalyzer(goal', mode, IF fallback THEN "local" ELSE source)
    /\ UNCHANGED <<queue, results, plan, verdict, replans, cycles, genFailed,
                   attempts, written, uncapped, stuckRun>>

(* run() raised: no goal analysis, so the router sees an empty type and the *)
(* planner reads the default "other".                                       *)
GoalAnalyzerCrash ==
    /\ pc = "goal_analyzer" /\ AgentsCrash
    /\ goal' = "other"
    /\ \E mode \in {"auto", "knowledge"} :
         pc' = RouteAfterGoalAnalyzer("", mode, "")
    /\ UNCHANGED <<queue, results, plan, llmError, verdict, replans, cycles,
                   genFailed, attempts, written, uncapped, stuckRun>>

Knowledge ==
    /\ pc = "knowledge"
    /\ pc' = "planner"
    /\ UNCHANGED <<goal, queue, results, plan, llmError, verdict, replans,
                   cycles, genFailed, attempts, written, uncapped, stuckRun>>

-----------------------------------------------------------------------------
(* The planner node: PlannerAgent.run yields a queue q, a plan p and an     *)
(* error flag, then the node counts the cycle and may force completion.     *)

ForcedToComplete(q, p, count) ==
    p # "completed" /\ Todo(q) = {} /\ count >= MaxPlannerCycles

Planned(q, p, err) ==
    /\ queue' = q
    /\ llmError' = err
    /\ cycles' = cycles + 1
    /\ LET forced == ForcedToComplete(q, p, cycles + 1)
       IN  /\ plan' = IF forced /\ p # "none" THEN "completed" ELSE p
           /\ verdict' = IF forced THEN "done" ELSE verdict
    /\ pc' = RouteAfterPlanner(q, plan', verdict')
    /\ UNCHANGED <<goal, results, replans, genFailed, attempts, written,
                   uncapped, stuckRun>>

DirectAnswerTypes == {"other", "translation", "editing", "question"}
PlansWithLlm == goal \notin DirectAnswerTypes /\ ~llmError

(* A goal type that needs no planning: the queue is emptied.                *)
PlanDirectAnswer ==
    /\ goal \in DirectAnswerTypes
    /\ Planned(<<>>, "completed", llmError)

(* Degraded mode: an earlier LLM error skips planning.                      *)
PlanDegraded ==
    /\ goal \notin DirectAnswerTypes /\ llmError
    /\ Planned(queue, "completed", llmError)

(* A project's empty queue is filled from its blueprint or template.  A     *)
(* template marks a task DONE when its path is among the files found, but   *)
(* these are named relative to the project's directory and the task's path  *)
(* begins with that directory: only one that exists a second time below it  *)
(* (app/app/main.py for app/main.py) is recognised.                         *)
PlanFromTemplate ==
    /\ PlansWithLlm /\ goal = "project"
    /\ queue = <<>> /\ Initial # <<>>
    /\ Planned([k \in DOMAIN Initial |->
                  NewTask(Initial[k], IF Required # {} /\ Initial[k] \in Recognised
                                      THEN "done" ELSE "todo")],
               "open", llmError)

(* The LLM plans tasks, new ones and ones it re-issues under a queued id;   *)
(* both flows merge them into the queue.                                    *)
PlanTasks ==
    /\ PlansWithLlm
    /\ ~(goal = "project" /\ queue = <<>> /\ Initial # <<>>)
    /\ \E again \in SUBSET Ids(queue),
          fresh \in BoundedSeq(TaskIds \ Ids(queue), MaxPlan) :
         /\ Cardinality(again) + Len(fresh) \in 1 .. MaxPlan
         /\ \A j, k \in DOMAIN fresh : j # k => fresh[j] # fresh[k]
         /\ Planned(Added(Reissued(queue, again), fresh), "open", llmError)

(* The LLM says that the goal is completed.  In the non-project flow this   *)
(* is also the outcome when both planners fail.                             *)
PlanCompleted ==
    /\ PlansWithLlm
    /\ ~(goal = "project" /\ queue = <<>> /\ Initial # <<>>)
    /\ Planned(queue, "completed", llmError)

(* Both planners fail on a project: with an empty queue the degraded direct *)
(* answer, recorded as an LLM error; otherwise an empty plan, still open.   *)
PlanNothing ==
    /\ PlansWithLlm /\ goal = "project"
    /\ \/ queue = <<>> /\ Initial = <<>> /\ Planned(queue, "completed", TRUE)
       \/ queue # <<>> /\ Planned(queue, "open", llmError)

(* run() raised: safe_run returns the state as it was and the node still    *)
(* counts the cycle.                                                        *)
PlannerCrash ==
    /\ AgentsCrash
    /\ Planned(queue, plan, llmError)

Planner ==
    /\ pc = "planner" /\ cycles < CycleBound
    /\ \/ PlanDirectAnswer \/ PlanDegraded \/ PlanFromTemplate \/ PlanTasks
       \/ PlanCompleted \/ PlanNothing \/ PlannerCrash

-----------------------------------------------------------------------------
(* The search chain: it ends in the answer, whatever the queue still holds. *)

(* Marks the first TODO task of the list as running, whatever its tool.     *)
QueryRewriter ==
    /\ pc = "query_rewriter"
    /\ \E i \in Todo(queue) :
         IsFirst(Todo(queue), i) /\ queue' = Marked(queue, {i}, "running")
    /\ pc' = "search"
    /\ stuckRun' = 0
    /\ UNCHANGED <<goal, results, plan, llmError, verdict, replans, cycles,
                   genFailed, attempts, written, uncapped>>

(* Mutant: the task's tool is looked at.                                    *)
SearchedByTool(q) ==
    Marked(q, {i \in DOMAIN q : q[i].status = "running" /\ Kind[q[i].id] = "search"}, "done")
(* After the search every running task becomes DONE.                        *)
Searched(q) == Marked(q, {i \in DOMAIN q : q[i].status = "running"}, "done")

Search ==
    /\ pc = "search"
    /\ queue' = Searched(queue)
    /\ pc' = "answer"
    /\ UNCHANGED <<goal, results, plan, llmError, verdict, replans, cycles,
                   genFailed, attempts, written, uncapped, stuckRun>>

-----------------------------------------------------------------------------
(* Tool execution.                                                          *)

Candidates == {i \in Todo(queue) : Kind[queue[i].id] \in {"write", "read", "search"}}
Writes(S) == {i \in S : Kind[queue[i].id] = "write"}
TopWrites ==
    {i \in Writes(Candidates) :
        \A j \in Writes(Candidates) : queue[j].prio <= queue[i].prio}
Selected == TopWrites \cup (Candidates \ Writes(Candidates))

(* Batch order: the writes, then the reads and searches, each in list order.*)
Before(i, j) ==
    IF (i \in TopWrites) = (j \in TopWrites) THEN i < j ELSE i \in TopWrites

(* _select_parallel_tasks: empty unless at least two tasks can run together.*)
ParallelTasks ==
    IF Cardinality(Selected) < 2 THEN {}
    ELSE {i \in Selected : Cardinality({j \in Selected : Before(j, i)}) < MaxBatch}

BatchOrders(S) ==
    {b \in [1 .. Cardinality(S) -> S] :
        \A j, k \in DOMAIN b : j < k => Before(b[j], b[k])}

Attempted(ts) ==
    [t \in TaskIds |-> IF t \in ts THEN AtMost(attempts[t] + 1, AttemptBound)
                       ELSE attempts[t]]
Outcome(b, ok) == [k \in DOMAIN b |-> [task |-> queue[b[k]].id, ok |-> b[k] \in ok]]

(* Mutant: one success marks the whole batch.                               *)
FinishedTogether(S, ok) == Marked(queue, S, IF ok # {} THEN "done" ELSE "failed")
(* Mutant: a failed task goes back to the queue for another try.            *)
FinishedWithRetry(S, ok) == Marked(Marked(queue, ok, "done"), S \ ok, "todo")
Finished(S, ok) == Marked(Marked(queue, ok, "done"), S \ ok, "failed")

(* Runs the tasks at the positions of the sequence b; those in ok succeed,  *)
(* at the first call or after the one argument repair the node attempts.    *)
Executed(b, ok) ==
    /\ queue' = Finished(ToSet(b), ok)
    /\ results' = Outcome(b, ok)
    /\ pc' = RouteAfterExecutor(queue', results')
    /\ attempts' = Attempted({queue[i].id : i \in ToSet(b)})
    /\ written' = written \cup {queue[i].id : i \in ok}
    /\ stuckRun' = 0
    /\ UNCHANGED <<goal, plan, llmError, verdict, replans, cycles, genFailed, uncapped>>

ToolExecutorBatch ==
    /\ pc = "tool_executor" /\ ParallelTasks # {}
    /\ \E b \in BatchOrders(ParallelTasks), ok \in SUBSET ParallelTasks :
         Executed(b, ok)

ToolExecutorSingle ==
    /\ pc = "tool_executor" /\ ParallelTasks = {}
    /\ \E next \in Todo(queue) :
         /\ IsForemost(queue, Todo(queue), next)
         /\ \E ok \in SUBSET {next} : Executed(<<next>>, ok)

(* The repaired re-execution of a failed batch member is outside any try:   *)
(* when it raises at the k-th task, the run aborts with the rest running.   *)
ToolExecutorBatchRaises ==
    /\ pc = "tool_executor" /\ AgentsCrash /\ ParallelTasks # {}
    /\ \E b \in BatchOrders(ParallelTasks), k \in 1 .. Cardinality(ParallelTasks) :
       \E ok \in SUBSET (ParallelTasks \ {b[k]}) :
         LET settled == {b[j] : j \in 1 .. (k - 1)}
         IN  /\ queue' = Marked(Marked(Marked(queue, ParallelTasks, "running"),
                                       settled \cap ok, "done"), settled \ ok, "failed")
             /\ written' = written \cup {queue[i].id : i \in ok}
    /\ attempts' = Attempted({queue[i].id : i \in ParallelTasks})
    /\ pc' = "aborted"
    /\ UNCHANGED <<goal, results, plan, llmError, verdict, replans, cycles,
                   genFailed, uncapped, stuckRun>>

(* The python node takes the first python task of the list.                 *)
Python ==
    /\ pc = "python"
    /\ LET mine == {i \in DOMAIN queue : /\ Kind[queue[i].id] = "python"
                                         /\ queue[i].status \in {"todo", "running"}}
       IN  \E i \in mine :
             IsFirst(mine, i) /\ \E ok \in SUBSET {i} : Executed(<<i>>, ok)

-----------------------------------------------------------------------------
(* The reflector, rule evaluation.  A tool result carries no task id, only  *)
(* a name: the tool's action when it succeeded, the task's goal when it     *)
(* failed (the python node reports the goal both times).                    *)

GoalText(t) == IF Style[t] = "action" THEN Kind[t] ELSE t
ResultName(r) ==
    IF r.ok /\ Kind[r.task] # "python" THEN Kind[r.task] ELSE GoalText(r.task)
Mentions(t, name) == Style[t] = "mention" /\ name = Kind[t]

(* The position of the task a result is attributed to, 0 when there is none.*)
Match(q, r, used) ==
    LET free == DOMAIN q \ used
        exact == {i \in free : ResultName(r) = GoalText(q[i].id)}
        mention == {i \in free : /\ q[i].status \notin {"todo", "running"}
                                 /\ Mentions(q[i].id, ResultName(r))}
    IN  IF exact # {} THEN Foremost(q, exact)
        ELSE IF mention # {} THEN Foremost(q, mention) ELSE 0

(* Results are attributed in order and use up a task each.                  *)
Matches(q) ==
    LET used[k \in 0 .. Len(results)] ==
            IF k = 0 THEN {} ELSE used[k - 1] \cup {Match(q, results[k], used[k - 1])}
    IN  [k \in DOMAIN results |-> Match(q, results[k], used[k - 1])]

HasTemplate == goal = "project" /\ Required # {}
TemplateDone(q) ==
    /\ HasTemplate
    /\ \A t \in Required : \E i \in DOMAIN q : q[i].id = t /\ q[i].status = "done"

(* Mutant: FAILED tasks are not looked for.                                 *)
AllProjectTasksDoneUnchecked(q) == Todo(q) = {} /\ HasFileCreation(q)
AllProjectTasksDone(q) ==
    /\ q # <<>> /\ HasFileCreation(q)
    /\ \A i \in DOMAIN q : q[i].status = "done"

RuleCompletes(q, q1) ==
    IF HasTemplate THEN TemplateDone(q1)
    ELSE IF goal \in {"project", "coding"} THEN AllProjectTasksDone(q)
    ELSE Todo(q) = {}

(* settled: the updates were already applied to the shared Task objects     *)
(* while the template was consulted, whoever decides in the end.            *)
RuleEvaluation(q, m) ==
    LET credited(ok) ==
            {i \in DOMAIN q : \E k \in DOMAIN results : m[k] = i /\ results[k].ok = ok}
        found == {i \in Todo(q) : HasTemplate /\ q[i].id \in ToSet(Initial) \cap Recognised}
        updated == Marked(Marked(Marked(q, credited(TRUE), "done"),
                                 credited(FALSE), "failed"), found, "done")
        allOk == /\ results # <<>> /\ \A k \in DOMAIN results : results[k].ok
                 /\ HasFileCreation(q)
    IN  [queue |-> updated,
         completed |-> allOk /\ RuleCompletes(q, updated),
         replan |-> \/ credited(FALSE) # {}
                    \/ results = <<>> /\ \E i \in DOMAIN q : q[i].status = "failed"]

(* The template was consulted: the updates are already in the shared Task   *)
(* objects, whoever decides in the end.                                     *)
Settled(q) ==
    /\ HasTemplate /\ results # <<>> /\ HasFileCreation(q)
    /\ \A k \in DOMAIN results : results[k].ok

(* What the LLM may answer about the queue q: any verdict, with at most one *)
(* task updated, one added and one removed per answer.                      *)
UpdatesAt(q, i) ==
    {[q EXCEPT ![i] = [id |-> q[i].id, status |-> s, prio |-> p]] :
        s \in LlmStatuses \cup {q[i].status}, p \in LlmPrios \cup {q[i].prio}}
Additions(q) == {q} \cup {Added(q, <<t>>) : t \in TaskIds \ Ids(q)}
Removals(q) == {q} \cup {RemoveAt(q, i) : i \in DOMAIN q}

LlmUpdates(q) == {q} \cup UNION {UpdatesAt(q, i) : i \in DOMAIN q}
LlmAdditions(q) == UNION {Additions(u) : u \in LlmUpdates(q)}
LlmQueues(q) == UNION {Removals(u) : u \in LlmAdditions(q)}

(* The rules decide when they see neither a failure nor a stuck queue;      *)
(* otherwise the LLM does, and the rules again when it fails to.            *)
EvaluationsFrom(rule) ==
    LET base == IF Settled(queue) THEN rule.queue ELSE queue
    IN  IF rule.completed \/ (~rule.replan /\ Todo(base) # {})
        THEN {rule}
        ELSE {RuleEvaluation(base, m) : m \in {Matches(base)}}
             \cup IF LlmReflects
                  THEN [queue : LlmQueues(base), completed : BOOLEAN, replan : BOOLEAN]
                  ELSE {}
Evaluations ==
    UNION {EvaluationsFrom(rule) : rule \in {RuleEvaluation(queue, m) : m \in {Matches(queue)}}}

-----------------------------------------------------------------------------
(* The reflector node.                                                      *)

FallbackRank(t) == CHOOSE k \in DOMAIN Fallback : Fallback[k] = t
FallbackOrders(S) ==
    {s \in [1 .. Cardinality(S) -> S] :
        \A j, k \in DOMAIN s : j < k => FallbackRank(s[j]) < FallbackRank(s[k])}

Generated == ToSet(Fallback) \ OnDisk
(* Mutant: the check for a queued id is missing.                            *)
GeneratedAlways(q) == Generated
(* Fallback tasks are added unless the queue already has their id.          *)
GeneratedFor(q) == Generated \ Ids(q)

(* The end of ReflectionAgent.run and the router.                           *)
Reflected(q, v, n) ==
    /\ queue' = q
    /\ verdict' = v
    /\ replans' = n
    /\ pc' = RouteAfterReflector(q, v, n)
    /\ uncapped' = IF pc' = "planner" /\ n = replans /\ ~IsStuck(q, v)
                   THEN uncapped + 1 ELSE uncapped
    /\ stuckRun' = IF pc' = "planner" /\ IsStuck(q, v)
                   THEN AtMost(stuckRun + 1, MaxStuck) ELSE 0
    /\ UNCHANGED <<goal, results, plan, llmError, cycles, attempts, written>>

(* An empty queue: a project gets its fallback tasks, the rest is done.     *)
ReflectEmptyQueue ==
    /\ queue = <<>>
    /\ IF goal = "project" /\ Generated # {}
       THEN \E s \in FallbackOrders(Generated) : Reflected(Added(queue, s), "next", replans)
       ELSE Reflected(queue, "done", replans)
    /\ UNCHANGED genFailed

ReflectQueue ==
    /\ queue # <<>>
    /\ \E e \in Evaluations :
         LET stuck == IF e.completed THEN ~HasFileCreation(e.queue)
                      ELSE Todo(e.queue) = {}
         IN  \E s \in FallbackOrders(IF stuck THEN GeneratedFor(e.queue) ELSE {}) :
             \E q \in {Added(e.queue, s)} :
               LET completed == \/ IF stuck THEN Generated = {} ELSE e.completed
                                \/ TemplateDone(q)
               IN  /\ genFailed' = (genFailed \/ (stuck /\ Generated = {}))
                   /\ IF completed THEN Reflected(q, "done", replans)
                      ELSE IF e.replan THEN Reflected(q, "replan", replans + 1)
                      ELSE Reflected(q, "next", replans)

(* run() raised: the verdict and the queue of before stay, and are routed.  *)
ReflectorCrash ==
    /\ AgentsCrash
    /\ Reflected(queue, verdict, replans)
    /\ UNCHANGED genFailed

Reflector ==
    /\ pc = "reflector"
    /\ ReflectEmptyQueue \/ ReflectQueue \/ ReflectorCrash

-----------------------------------------------------------------------------
Answer ==
    /\ pc = "answer"
    /\ pc' = "memory"
    /\ UNCHANGED <<goal, queue, results, plan, llmError, verdict, replans,
                   cycles, genFailed, attempts, written, uncapped, stuckRun>>

Memory ==
    /\ pc = "memory"
    /\ pc' = "end"
    /\ UNCHANGED <<goal, queue, results, plan, llmError, verdict, replans,
                   cycles, genFailed, attempts, written, uncapped, stuckRun>>

(* LangGraph's recursion limit, or a cancelled request, may strike between  *)
(* any two supersteps.                                                      *)
RecursionLimitHit ==
    /\ pc \in Nodes
    /\ pc' = "aborted"
    /\ UNCHANGED <<goal, queue, results, plan, llmError, verdict, replans,
                   cycles, genFailed, attempts, written, uncapped, stuckRun>>

Finish == pc \in {"end", "aborted"} /\ UNCHANGED vars

Step ==
    \/ ConversationManager \/ GoalAnalyzer \/ GoalAnalyzerCrash \/ Knowledge
    \/ Planner \/ QueryRewriter \/ Search
    \/ ToolExecutorBatch \/ ToolExecutorSingle \/ ToolExecutorBatchRaises
    \/ Python \/ Reflector \/ Answer \/ Memory

Next == Step \/ RecursionLimitHit \/ Finish

Spec == Init /\ [][Next]_vars

(* LangGraph schedules the next superstep as long as there is one.          *)
FairSpec == Spec /\ WF_vars(Step)

-----------------------------------------------------------------------------
(* Every variable has its type.  The values of pc are the nodes that the    *)
(* edges of build_workflow know: a router never names another one.          *)
TypeOK ==
    /\ pc \in Nodes \cup {"end", "aborted"}
    /\ goal \in GoalTypes
    /\ queue \in Seq(Task)
    /\ results \in Seq(Result)
    /\ plan \in {"none", "open", "completed"}
    /\ llmError \in BOOLEAN
    /\ verdict \in {"unset", "done", "next", "replan"}
    /\ replans \in Nat /\ cycles \in Nat
    /\ genFailed \in BOOLEAN
    /\ attempts \in [TaskIds -> Nat]
    /\ written \subseteq TaskIds
    /\ uncapped \in Nat /\ stuckRun \in Nat

(* The queue is keyed by task id: whatever mix of merging, re-issuing,      *)
(* fallback generation and LLM edits built it, no id occurs twice, so that  *)
(* TaskQueue._find_index, which returns the first match, finds the task.    *)
UniqueIds ==
    \A i, j \in DOMAIN queue : queue[i].id = queue[j].id => i = j

(* A run asks for at most MaxReplan re-plans, and while it is inside the    *)
(* loop at least one is left: termination.py's max_replan_count holds over  *)
(* any order of failures, crashes and LLM verdicts.                         *)
ReplansBounded ==
    /\ replans <= MaxReplan
    /\ pc \notin {"answer", "memory", "end", "aborted"} => replans < MaxReplan

(* Every planner call is paid for: by the cycle cap, by a counted re-plan,  *)
(* or it is one of the uncapped entries (a "knowledge" task on top of the   *)
(* queue, or a crashed reflector whose old verdict is routed again).        *)
PlannerEntriesAccounted ==
    /\ cycles <= PlannerCycleCap + replans + uncapped
    /\ pc = "planner" => cycles < PlannerCycleCap + replans + uncapped

(* No task is left "running" when the run moves on: only during a search,   *)
(* or in a run that an exception aborted.  The frontend's task tree would   *)
(* otherwise show it running for ever.                                      *)
RunningOnlyDuringSearch ==
    \A i \in DOMAIN queue : queue[i].status = "running" => pc \in {"search", "aborted"}

(* The planner never takes back finished work: its merge leaves each DONE   *)
(* task where it is (TaskQueue.add, backlog P1-PLAN-1), in the project and  *)
(* the non-project flow, and it empties only a queue that was empty.        *)
PlannerKeepsDone ==
    [][pc = "planner" =>
         \A i \in DOMAIN queue : queue[i].status = "done" =>
            i \in DOMAIN queue' /\ queue'[i] = queue[i]]_vars

(* A DONE task really ran, or its file was there: no result of one task is  *)
(* credited to another that failed or never started.                        *)
DoneMeansRan ==
    \A i \in DOMAIN queue :
       queue[i].status = "done" /\ Kind[queue[i].id] # "search" => queue[i].id \in OnDisk

(* Work that succeeded is not done again: no later step hands the task to   *)
(* its tool a second time, across failures, re-plans and re-issued ids.     *)
NoWorkRedone ==
    [][\A t \in written : attempts'[t] = attempts[t]]_vars

(* A task is executed again only because the planner issued it again: at    *)
(* most once per planner call, and once more when a fallback brought it.    *)
RetriesNeedPlanner ==
    \A t \in TaskIds :
        attempts[t] <= cycles + (IF t \in ToSet(Fallback) THEN 1 ELSE 0)

(* The reflector ends a project or coding run as completed only when it is: *)
(* the template's required tasks are done, or every task of the queue is    *)
(* and one of them created a file that is on disk.                          *)
CompletionIsEarned ==
    /\ pc = "answer" /\ verdict = "done" /\ plan # "completed"
    /\ ~genFailed /\ queue # <<>> /\ goal \in {"project", "coding"}
    => \/ TemplateDone(queue)
       \/ /\ \A i \in DOMAIN queue : queue[i].status = "done"
          /\ \E i \in DOMAIN queue : IsFileCreation(queue[i].id) /\ queue[i].id \in OnDisk

(* The run ends, though tools fail, plans come back empty and the planner   *)
(* re-issues what failed: the caps alone close the planner-reflector loop.  *)
RunEnds == <>(pc \in {"end", "aborted"})

-----------------------------------------------------------------------------
(* What comments, docstrings and documents say of this code.                *)

(* workflow.py:646 and :686 speak of "the first TODO search task" and "the  *)
(* first RUNNING search task": a search step touches search tasks only.     *)
SearchMarksOnlySearch ==
    [][(pc = "query_rewriter" \/ pc = "search") =>
         \A i \in DOMAIN queue :
            queue'[i].status # queue[i].status => Kind[queue[i].id] = "search"]_vars

(* README.md:78 "Planner cycles, replans and stuck rounds each have a cap": *)
(* the stuck round number MaxStuck is not sent to the planner again.        *)
StuckRoundsBounded == stuckRun < MaxStuck

(* workflow.py:969 "Writes must share the top priority (order matters)": a  *)
(* write is not started while a file task of higher priority is waiting.    *)
WritesInPriorityOrder ==
    [][\A i, j \in DOMAIN queue :
         /\ queue[i].status = "todo" /\ queue[j].status = "todo"
         /\ Kind[queue[i].id] = "write" /\ Kind[queue[j].id] = "tool"
         /\ queue[j].prio > queue[i].prio
         /\ attempts'[queue[i].id] > attempts[queue[i].id]
         => attempts'[queue[j].id] > attempts[queue[j].id]]_vars

(* reflection/agent.py:652 "check for failed tasks to avoid silent false    *)
(* completion", README.md:77 "reflection fires on failure": the reflector   *)
(* does not declare a goal completed over a failed task for which no        *)
(* re-plan was ever asked.                                                  *)
NoSilentFalseCompletion ==
    pc = "answer" /\ verdict = "done" /\ plan # "completed" /\ ~genFailed /\ replans = 0 =>
        \A i \in DOMAIN queue : queue[i].status # "failed"
=============================================================================
