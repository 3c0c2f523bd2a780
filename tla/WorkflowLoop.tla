---------------------------- MODULE WorkflowLoop ----------------------------
(* The workflow of module Workflow as an implementation of GoalLoop.        *)
EXTENDS Workflow

StageOf(node) ==
    CASE node \in {"conversation_manager", "goal_analyzer", "knowledge"} -> "analysis"
      [] node = "planner" -> "planning"
      [] node \in {"query_rewriter", "search", "tool_executor", "python"} -> "execution"
      [] node = "reflector" -> "reflection"
      [] node \in {"answer", "memory"} -> "answer"
      [] node \in {"end", "aborted"} -> "over"

WithStatus(q, S) == {q[i].id : i \in {j \in DOMAIN q : q[j].status \in S}}

Loop == INSTANCE GoalLoop WITH
    Known <- TaskIds,
    Cap <- PlannerCycleCap,
    stage <- StageOf(pc),
    open <- WithStatus(queue, {"todo", "running"}),
    done <- WithStatus(queue, {"done"}),
    rounds <- cycles,
    excused <- replans + uncapped

(* The compiled graph of build_workflow implements the goal loop: whatever  *)
(* the nodes, the routers, the parallel batches and the attribution of      *)
(* results do, execution only uses up open tasks, planning never takes back *)
(* finished work, and every return to the planner is paid for.              *)
RefinesGoalLoop == Loop!Spec
=============================================================================
