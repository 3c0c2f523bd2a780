------------------------------ MODULE GoalLoop ------------------------------
(***************************************************************************)
(* What the goal-driven workflow promises about one run, without its       *)
(* nodes, its routers and the order of its queue: analyse the goal, plan   *)
(* tasks, execute open tasks, reflect, and answer.  Execution uses up open *)
(* tasks, and only planning and reflection open any; finished work is      *)
(* undone by nothing but reflection; and every planning round is paid for, *)
(* by the cap or by an excuse that a reflection has noted.                 *)
(***************************************************************************)
EXTENDS Naturals

CONSTANTS
    Known,    \* the tasks a run may have
    Cap     \* planning rounds that need no excuse

VARIABLES
    stage,      \* what the run is doing
    open,       \* the tasks still to be executed
    done,       \* the tasks that are finished
    rounds,     \* planning rounds so far
    excused     \* planning rounds granted beyond the cap
vars == <<stage, open, done, rounds, excused>>

Stages == {"analysis", "planning", "execution", "reflection", "answer", "over"}
MayPlan(r, e) == r < Cap + e

Init ==
    /\ stage = "analysis"
    /\ open = {} /\ done = {}
    /\ rounds = 0 /\ excused = 0

Goes(stages) ==
    /\ stage' \in stages
    /\ stage' = "planning" => MayPlan(rounds', excused')
    /\ stage' = "execution" => open' # {}

Analyse ==
    /\ stage = "analysis" /\ Goes({"analysis", "planning", "answer"})
    /\ UNCHANGED <<open, done, rounds, excused>>

Plan ==
    /\ stage = "planning" /\ Goes({"execution", "reflection", "answer"})
    /\ open' \subseteq Known
    /\ done \subseteq done' /\ done' \subseteq Known
    /\ rounds' = rounds + 1 /\ UNCHANGED excused

Execute ==
    /\ stage = "execution" /\ Goes({"execution", "reflection", "answer"})
    /\ \E S \in SUBSET open :
         /\ S # {}
         /\ open' = open \ S
         /\ done \subseteq done' /\ done' \subseteq done \cup S
    /\ UNCHANGED <<rounds, excused>>

Reflect ==
    /\ stage = "reflection" /\ Goes({"planning", "execution", "answer"})
    /\ open' \subseteq Known /\ done' \subseteq Known
    /\ excused' \in {excused, excused + 1} /\ UNCHANGED rounds

(* The answer is given, or the run is cut off: by LangGraph's recursion     *)
(* limit, the request's deadline, or an exception in the middle of a batch. *)
End ==
    /\ stage = "answer" /\ stage' \in {"answer", "over"}
    /\ UNCHANGED <<open, done, rounds, excused>>

CutOff ==
    /\ stage # "over" /\ stage' = "over"
    /\ open' \subseteq open
    /\ done \subseteq done' /\ done' \subseteq done \cup open
    /\ UNCHANGED <<rounds, excused>>

Next == Analyse \/ Plan \/ Execute \/ Reflect \/ End \/ CutOff

Spec == Init /\ [][Next]_vars
=============================================================================
