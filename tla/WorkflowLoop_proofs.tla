------------------------ MODULE WorkflowLoop_proofs ------------------------
(***************************************************************************)
(* Proof that the workflow implements the goal loop, for every task set,   *)
(* policy and choice of the LLM: initial states map to initial states, and *)
(* every node's step maps to a step of GoalLoop or leaves its state alone. *)
(***************************************************************************)
EXTENDS WorkflowLoop, Workflow_proofs

Open(q) == WithStatus(q, {"todo", "running"})
Done(q) == WithStatus(q, {"done"})
IdsAt(q, S) == {q[i].id : i \in S}

-----------------------------------------------------------------------------
(* What a rewriting of the queue does to the sets of open and done tasks.   *)

LEMMA StatusIds ==
    ASSUME NEW q \in Seq(Task), NEW S
    PROVE  WithStatus(q, S) \subseteq TaskIds
BY QueueElement DEF WithStatus, Task

(* Positions of F were open and become FAILED, or DONE when they are in D.  *)
Settles(q, r, F, D) ==
    /\ DOMAIN r = DOMAIN q /\ Unique(q)
    /\ F \subseteq DOMAIN q /\ D \subseteq F
    /\ \A i \in F : q[i].status \in {"todo", "running"}
    /\ \A i \in DOMAIN q :
          r[i] = IF i \in D THEN [q[i] EXCEPT !.status = "done"]
                 ELSE IF i \in F THEN [q[i] EXCEPT !.status = "failed"] ELSE q[i]

(* Then their ids, and no others, are no longer open, and those in D done.  *)
LEMMA Settling ==
    ASSUME NEW q \in Seq(Task), NEW r, NEW F, NEW D, Settles(q, r, F, D)
    PROVE  /\ IdsAt(q, F) \subseteq Open(q)
           /\ Open(r) = Open(q) \ IdsAt(q, F)
           /\ Done(r) = Done(q) \cup IdsAt(q, D)
<1> \A i \in DOMAIN q :
       /\ r[i].id = q[i].id
       /\ r[i].status = IF i \in D THEN "done" ELSE IF i \in F THEN "failed" ELSE q[i].status
  BY QueueElement DEF Task, Settles
<1> USE DEF Settles
<1>1. IdsAt(q, F) \subseteq Open(q)
  BY DEF IdsAt, Open, WithStatus
<1>2. Open(r) \subseteq Open(q) \ IdsAt(q, F)
  <2>1. SUFFICES ASSUME NEW i \in DOMAIN q, r[i].status \in {"todo", "running"}
                 PROVE  q[i].id \in Open(q) \ IdsAt(q, F)
    BY DEF Open, WithStatus
  <2>2. i \notin F
    BY <2>1
  <2>3. q[i].id \in Open(q)
    BY <2>1, <2>2 DEF Open, WithStatus
  <2>4. q[i].id \notin IdsAt(q, F)
    BY <2>2 DEF IdsAt, Unique
  <2>5. QED
    BY <2>3, <2>4
<1>3. Open(q) \ IdsAt(q, F) \subseteq Open(r)
  BY DEF Open, WithStatus, IdsAt
<1>4. Done(r) \subseteq Done(q) \cup IdsAt(q, D)
  BY DEF Done, WithStatus, IdsAt
<1>5. Done(q) \cup IdsAt(q, D) \subseteq Done(r)
  <2>1. ASSUME NEW i \in DOMAIN q, q[i].status = "done"
        PROVE  q[i].id \in Done(r)
    BY <2>1 DEF Done, WithStatus
  <2>2. ASSUME NEW i \in D
        PROVE  q[i].id \in Done(r)
    BY <2>2 DEF Done, WithStatus
  <2>3. QED
    BY <2>1, <2>2 DEF Done, WithStatus, IdsAt
<1>6. QED
  BY <1>1, <1>2, <1>3, <1>4, <1>5

(* A merge that keeps the DONE tasks keeps their ids done.                  *)
LEMMA KeepingDone ==
    ASSUME NEW q, NEW r, KeepsDone(q, r)
    PROVE  Done(q) \subseteq Done(r)
BY DEF KeepsDone, Done, WithStatus

(* A router names a node of the execution only for a TODO task.             *)
LEMMA ExecutionNeedsTodo ==
    ASSUME NEW q, NEW idle \in {"reflector", "answer", "planner"},
           NEW onKnowledge \in {"reflector", "planner"},
           StageOf(NextNode(q, idle, onKnowledge)) = "execution"
    PROVE  Open(q) # {}
<1>1. Todo(q) # {}
  BY DEF NextNode, StageOf
<1>2. QED
  BY <1>1 DEF Todo, Open, WithStatus

-----------------------------------------------------------------------------
(* The search node runs for a task that the query rewriter made running.    *)
SearchHasTask ==
    pc = "search" => \E i \in DOMAIN queue : queue[i].status = "running"

LEMMA SearchStep == TypeOK /\ SearchHasTask /\ [Next]_vars => SearchHasTask'
<1> SUFFICES ASSUME TypeOK, SearchHasTask, [Next]_vars, pc' = "search"
             PROVE  \E i \in DOMAIN queue' : queue'[i].status = "running"
  BY DEF SearchHasTask
<1>1. CASE QueryRewriter
  <2>1. PICK i \in Todo(queue) : queue' = Marked(queue, {i}, "running")
    BY <1>1 DEF QueryRewriter
  <2>2. i \in DOMAIN queue /\ queue[i] \in Task
    BY <2>1, QueueElement DEF Todo, TypeOK
  <2>3. i \in DOMAIN queue' /\ queue'[i].status = "running"
    BY <2>1, <2>2 DEF Marked, Task
  <2>4. QED
    BY <2>3
<1>2. CASE Planner
  <2>1. PICK q \in Seq(Task), p \in Plans, err \in BOOLEAN : Planned(q, p, err)
    BY <1>2, PlannerCases DEF PlannerOutcome
  <2>2. pc' # "search"
    BY <2>1, RouteTypes DEF Planned, RouteAfterPlanner, Nodes
  <2>3. QED
    BY <2>2
<1>3. CASE Reflector
  <2>1. PICK q \in Seq(Task), v \in Verdicts, n \in Nat : ReflectorOutcome(q, v, n)
    BY <1>3, ReflectorCases
  <2>2. pc' # "search"
    BY <2>1, ReflectedRoute DEF ReflectorOutcome
  <2>3. QED
    BY <2>2
<1>4. CASE ToolExecutorBatch \/ ToolExecutorSingle \/ Python
  <2>1. pc' # "search"
    BY <1>4, ExecutionCases, ExecutedType
  <2>2. QED
    BY <2>1
<1>5. CASE GoalAnalyzer \/ GoalAnalyzerCrash
  <2>1. pc' # "search"
    BY <1>5, GoalRouted DEF GoalAnalyzer, GoalAnalyzerCrash
  <2>2. QED
    BY <2>1
<1>6. CASE \/ ConversationManager \/ Knowledge \/ Search \/ ToolExecutorBatchRaises
           \/ Answer \/ Memory \/ RecursionLimitHit
  BY <1>6 DEF ConversationManager, Knowledge, Search, ToolExecutorBatchRaises,
              Answer, Memory, RecursionLimitHit
<1>7. CASE Finish \/ UNCHANGED vars
  BY <1>7 DEF SearchHasTask, Finish, vars
<1>8. QED
  BY <1>1, <1>2, <1>3, <1>4, <1>5, <1>6, <1>7 DEF Next, Step

-----------------------------------------------------------------------------
(* Executions.                                                              *)

(* A tool execution runs a nonempty set of open positions.                  *)
LEMMA ExecutedOpen ==
    ASSUME TypeOK, ToolExecutorBatch \/ ToolExecutorSingle \/ Python
    PROVE  \E n \in Nat : \E b \in [1 .. n -> DOMAIN queue], ok \in SUBSET DOMAIN queue :
              /\ Executed(b, ok)
              /\ ToSet(b) # {}
              /\ \A i \in ToSet(b) \cup ok : queue[i].status \in {"todo", "running"}
<1>1. CASE ToolExecutorBatch
  <2>1. PICK b \in BatchOrders(ParallelTasks), ok \in SUBSET ParallelTasks : Executed(b, ok)
    BY <1>1 DEF ToolExecutorBatch
  <2>2. /\ ParallelTasks \in SUBSET DOMAIN queue
        /\ Cardinality(ParallelTasks) \in Nat
        /\ b \in [1 .. Cardinality(ParallelTasks) -> DOMAIN queue]
    BY <2>1, BatchType
  <2>3. \A i \in ParallelTasks : queue[i].status = "todo"
    BY DEF ParallelTasks, Selected, TopWrites, Writes, Candidates, Todo
  <2>4. ToSet(b) \subseteq ParallelTasks
    BY <2>1 DEF BatchOrders, ToSet
  <2>5. ToSet(b) # {}
    <3>1. Len(queue) \in Nat /\ DOMAIN queue = 1 .. Len(queue)
      BY LenProperties DEF TypeOK
    <3>2. IsFiniteSet(ParallelTasks)
      <4>1. IsFiniteSet(DOMAIN queue)
        BY <3>1, FS_Interval
      <4>2. QED
        BY <2>2, <4>1, FS_Subset
    <3>3. Cardinality(ParallelTasks) # 0
      BY <1>1, <3>2, FS_EmptySet DEF ToolExecutorBatch
    <3>4. 1 \in DOMAIN b
      BY <2>2, <3>3
    <3>5. QED
      BY <3>4 DEF ToSet
  <2>6. ok \in SUBSET DOMAIN queue
    BY <2>1, <2>2
  <2>7. QED
    BY <2>1, <2>2, <2>3, <2>4, <2>5, <2>6
<1>2. ASSUME NEW i \in DOMAIN queue, NEW ok \in SUBSET {i}, Executed(<<i>>, ok),
             queue[i].status \in {"todo", "running"}
      PROVE  \E n \in Nat : \E b \in [1 .. n -> DOMAIN queue], o \in SUBSET DOMAIN queue :
                /\ Executed(b, o)
                /\ ToSet(b) # {}
                /\ \A j \in ToSet(b) \cup o : queue[j].status \in {"todo", "running"}
  <2>1. 1 \in Nat /\ <<i>> \in [1 .. 1 -> DOMAIN queue] /\ ok \in SUBSET DOMAIN queue
    OBVIOUS
  <2>2. ToSet(<<i>>) = {i}
    BY DEF ToSet
  <2>3. QED
    BY <1>2, <2>1, <2>2
<1>3. CASE ToolExecutorSingle
  <2>1. PICK i \in Todo(queue) : \E ok \in SUBSET {i} : Executed(<<i>>, ok)
    BY <1>3 DEF ToolExecutorSingle
  <2>2. i \in DOMAIN queue /\ queue[i].status \in {"todo", "running"}
    BY <2>1 DEF Todo
  <2>3. QED
    BY <1>2, <2>1, <2>2
<1>4. CASE Python
  <2>1. PICK i \in DOMAIN queue : /\ queue[i].status \in {"todo", "running"}
                                  /\ \E ok \in SUBSET {i} : Executed(<<i>>, ok)
    BY <1>4 DEF Python
  <2>2. QED
    BY <1>2, <2>1
<1>5. QED
  BY <1>1, <1>3, <1>4

(* A tool execution uses up a nonempty set of open tasks, and finishes      *)
(* nothing else.                                                            *)
LEMMA ExecutionSettles ==
    ASSUME TypeOK, UniqueIds, ToolExecutorBatch \/ ToolExecutorSingle \/ Python
    PROVE  /\ \E S \in SUBSET Open(queue) :
                 /\ S # {}
                 /\ Open(queue') = Open(queue) \ S
                 /\ Done(queue) \subseteq Done(queue')
                 /\ Done(queue') \subseteq Done(queue) \cup S
           /\ StageOf(pc') \in {"execution", "reflection"}
           /\ StageOf(pc') = "execution" => Open(queue') # {}
           /\ UNCHANGED <<replans, cycles, uncapped>>
<1>1. PICK n \in Nat : \E b \in [1 .. n -> DOMAIN queue], ok \in SUBSET DOMAIN queue :
             /\ Executed(b, ok) /\ ToSet(b) # {}
             /\ \A i \in ToSet(b) \cup ok : queue[i].status \in {"todo", "running"}
  BY ExecutedOpen
<1>2. PICK b \in [1 .. n -> DOMAIN queue], ok \in SUBSET DOMAIN queue :
             /\ Executed(b, ok) /\ ToSet(b) # {}
             /\ \A i \in ToSet(b) \cup ok : queue[i].status \in {"todo", "running"}
  BY <1>1
<1>3. /\ queue \in Seq(Task) /\ queue' \in Seq(Task) /\ DOMAIN queue' = DOMAIN queue
      /\ pc' \in {"reflector", "query_rewriter", "python", "tool_executor"}
  BY <1>2, ExecutedType DEF TypeOK
<1>4. PICK F : F = ToSet(b) \cup ok
  OBVIOUS
<1>5. F \in SUBSET DOMAIN queue /\ F # {} /\ ok \in SUBSET F
  BY <1>2, <1>4 DEF ToSet
<1>6. PICK S : S = ToSet(b) \ ok
  OBVIOUS
<1>7. queue' = Marked(Marked(queue, ok, "done"), S, "failed")
  BY <1>2, <1>6 DEF Executed, Finished
<1>8. \A i \in DOMAIN queue :
         queue'[i] = IF i \in S THEN [Marked(queue, ok, "done")[i] EXCEPT !.status = "failed"]
                     ELSE Marked(queue, ok, "done")[i]
  BY <1>7 DEF Marked
<1>9. \A i \in DOMAIN queue :
         Marked(queue, ok, "done")[i] =
            IF i \in ok THEN [queue[i] EXCEPT !.status = "done"] ELSE queue[i]
  BY DEF Marked
<1>10. \A i \in DOMAIN queue :
         queue'[i] = IF i \in ok THEN [queue[i] EXCEPT !.status = "done"]
                     ELSE IF i \in F THEN [queue[i] EXCEPT !.status = "failed"] ELSE queue[i]
  BY <1>4, <1>6, <1>8, <1>9
<1>11. /\ IdsAt(queue, F) \subseteq Open(queue)
       /\ Open(queue') = Open(queue) \ IdsAt(queue, F)
       /\ Done(queue') = Done(queue) \cup IdsAt(queue, ok)
  <2>1. Unique(queue)
    BY DEF Unique, UniqueIds
  <2>2. \A i \in F : queue[i].status \in {"todo", "running"}
    BY <1>2, <1>4
  <2>3. QED
    <3>1. Settles(queue, queue', F, ok)
      BY <1>3, <1>5, <1>10, <2>1, <2>2 DEF Settles
    <3>2. QED
      BY <1>3, <3>1, Settling
<1>12. IdsAt(queue, F) # {} /\ IdsAt(queue, ok) \subseteq IdsAt(queue, F)
  BY <1>5 DEF IdsAt
<1>13. StageOf(pc') \in {"execution", "reflection"}
  BY <1>3 DEF StageOf
<1>14. ASSUME StageOf(pc') = "execution"
       PROVE  Open(queue') # {}
  <2>1. pc' # "reflector"
    BY <1>14 DEF StageOf
  <2>2. pc' = NextNode(queue', "reflector", "reflector")
    BY <1>2, <2>1 DEF Executed, RouteAfterExecutor
  <2>3. QED
    BY <1>14, <2>2, ExecutionNeedsTodo
<1>15. UNCHANGED <<replans, cycles, uncapped>>
  BY <1>2 DEF Executed
<1>16. QED
  BY <1>11, <1>12, <1>13, <1>14, <1>15

(* The search uses up the running task.                                     *)
LEMMA SearchSettles ==
    ASSUME TypeOK, UniqueIds, SearchHasTask, Search
    PROVE  \E S \in SUBSET Open(queue) :
              /\ S # {}
              /\ Open(queue') = Open(queue) \ S
              /\ Done(queue) \subseteq Done(queue')
              /\ Done(queue') \subseteq Done(queue) \cup S
<1>1. PICK F : F = {i \in DOMAIN queue : queue[i].status = "running"}
  OBVIOUS
<1>2. queue' = Marked(queue, F, "done")
  BY <1>1 DEF Search, Searched
<1>3. /\ queue \in Seq(Task) /\ queue' \in Seq(Task) /\ DOMAIN queue' = DOMAIN queue
  BY <1>2, MarkedType DEF TypeOK, Statuses
<1>4. F \in SUBSET DOMAIN queue /\ F \in SUBSET F /\ F # {}
  BY <1>1 DEF Search, SearchHasTask
<1>5. \A i \in DOMAIN queue :
         queue'[i] = IF i \in F THEN [queue[i] EXCEPT !.status = "done"]
                     ELSE IF i \in F THEN [queue[i] EXCEPT !.status = "failed"] ELSE queue[i]
  BY <1>2 DEF Marked
<1>6. Unique(queue) /\ \A i \in F : queue[i].status \in {"todo", "running"}
  BY <1>1 DEF Unique, UniqueIds
<1>7. Settles(queue, queue', F, F)
  BY <1>3, <1>4, <1>5, <1>6 DEF Settles
<1>8. /\ IdsAt(queue, F) \subseteq Open(queue)
      /\ Open(queue') = Open(queue) \ IdsAt(queue, F)
      /\ Done(queue') = Done(queue) \cup IdsAt(queue, F)
  BY <1>3, <1>7, Settling
<1>9. IdsAt(queue, F) # {}
  BY <1>4 DEF IdsAt
<1>10. QED
  BY <1>8, <1>9

(* A batch that raises opens nothing and finishes open tasks only.          *)
LEMMA RaisedBatch ==
    ASSUME TypeOK, ToolExecutorBatchRaises
    PROVE  /\ Open(queue') \subseteq Open(queue)
           /\ Done(queue) \subseteq Done(queue')
           /\ Done(queue') \subseteq Done(queue) \cup Open(queue)
<1>1. PICK b \in BatchOrders(ParallelTasks), k \in 1 .. Cardinality(ParallelTasks) :
      \E ok \in SUBSET (ParallelTasks \ {b[k]}) :
        queue' = Marked(Marked(Marked(queue, ParallelTasks, "running"),
                               {b[j] : j \in 1 .. (k - 1)} \cap ok, "done"),
                        {b[j] : j \in 1 .. (k - 1)} \ ok, "failed")
  BY DEF ToolExecutorBatchRaises
<1>2. PICK ok \in SUBSET ParallelTasks :
        queue' = Marked(Marked(Marked(queue, ParallelTasks, "running"),
                               {b[j] : j \in 1 .. (k - 1)} \cap ok, "done"),
                        {b[j] : j \in 1 .. (k - 1)} \ ok, "failed")
  BY <1>1
<1>3. PICK settled : settled = {b[j] : j \in 1 .. (k - 1)}
  OBVIOUS
<1>4. settled \subseteq ParallelTasks
  <2>1. Cardinality(ParallelTasks) \in Nat /\ b \in [1 .. Cardinality(ParallelTasks) -> ParallelTasks]
    BY BatchType DEF BatchOrders
  <2>2. \A j \in 1 .. (k - 1) : j \in 1 .. Cardinality(ParallelTasks)
    BY <2>1
  <2>3. QED
    BY <1>3, <2>1, <2>2
<1>5. /\ queue \in Seq(Task) /\ \A i \in DOMAIN queue : queue[i] \in Task
      /\ \A i \in ParallelTasks : i \in DOMAIN queue /\ queue[i].status = "todo"
  BY QueueElement DEF TypeOK, ParallelTasks, Selected, TopWrites, Writes, Candidates, Todo
<1>6. PICK d, f : d = settled \cap ok /\ f = settled \ ok
  OBVIOUS
<1>7. queue' = Marked(Marked(Marked(queue, ParallelTasks, "running"), d, "done"), f, "failed")
  BY <1>2, <1>3, <1>6
<1>8. PICK r1 : r1 = Marked(queue, ParallelTasks, "running")
  OBVIOUS
<1>9. PICK r2 : r2 = Marked(r1, d, "done")
  OBVIOUS
<1>10. queue' = Marked(r2, f, "failed")
  BY <1>7, <1>8, <1>9
<1>11. DOMAIN queue' = DOMAIN queue /\ DOMAIN r1 = DOMAIN queue /\ DOMAIN r2 = DOMAIN queue
  BY <1>8, <1>9, <1>10 DEF Marked
<1>12. \A i \in DOMAIN queue : i \notin ParallelTasks => queue'[i] = queue[i]
  BY <1>4, <1>6, <1>8, <1>9, <1>10, <1>11 DEF Marked
<1>13. \A i \in DOMAIN queue : queue'[i].id = queue[i].id
  <2>1. \A i \in DOMAIN queue : r1[i] \in Task /\ r1[i].id = queue[i].id
    BY <1>5, <1>8 DEF Marked, Task, Statuses
  <2>2. \A i \in DOMAIN queue : r2[i] \in Task /\ r2[i].id = queue[i].id
    BY <1>9, <1>11, <2>1 DEF Marked, Task, Statuses
  <2>3. QED
    BY <1>10, <1>11, <2>2 DEF Marked, Task
<1>14. Open(queue') \subseteq Open(queue)
  BY <1>5, <1>11, <1>12, <1>13 DEF Open, WithStatus
<1>15. Done(queue) \subseteq Done(queue')
  <2>1. SUFFICES ASSUME NEW i \in DOMAIN queue, queue[i].status = "done"
                 PROVE  queue[i].id \in Done(queue')
    BY DEF Done, WithStatus
  <2>2. i \notin ParallelTasks
    BY <1>5, <2>1
  <2>3. QED
    BY <1>11, <1>12, <2>1, <2>2 DEF Done, WithStatus
<1>16. Done(queue') \subseteq Done(queue) \cup Open(queue)
  <2>1. SUFFICES ASSUME NEW i \in DOMAIN queue, queue'[i].status = "done"
                 PROVE  queue'[i].id \in Done(queue) \cup Open(queue)
    BY <1>11 DEF Done, WithStatus
  <2>2. CASE i \in ParallelTasks
    BY <1>5, <1>13, <2>2 DEF Open, WithStatus
  <2>3. CASE i \notin ParallelTasks
    BY <1>12, <2>1, <2>3 DEF Done, WithStatus
  <2>4. QED
    BY <2>2, <2>3
<1>17. QED
  BY <1>14, <1>15, <1>16

-----------------------------------------------------------------------------
(* The refinement.                                                          *)

LoopInv == TypeOK /\ UniqueIds /\ Accounting /\ EmptyUntilPlanned /\ SearchHasTask

(* The abstract state, with the names of the mapping.                       *)
LEMMA Mapped ==
    /\ Loop!vars = <<StageOf(pc), Open(queue), Done(queue), cycles, replans + uncapped>>
    /\ Loop!vars' = <<StageOf(pc'), Open(queue'), Done(queue'), cycles', replans' + uncapped'>>
BY DEF Loop!vars, Open, Done

(* The excuses of a round are the counted and the uncounted ones together.  *)
LEMMA ExcusesAdd ==
    ASSUME NEW c \in Nat, NEW cap \in Nat, NEW m \in Nat, NEW n \in Nat, c < cap + m + n
    PROVE  c < cap + (m + n)
OBVIOUS

(* Every step of the workflow keeps the invariant of the refinement.        *)
LEMMA LoopInvStep == LoopInv /\ [Next]_vars => LoopInv'
BY TypeStep, UniqueStep, AccountingStep, EmptyStep, SearchStep DEF LoopInv

(* Every step maps to the step of the goal loop that its node stands for,   *)
(* or, for the query rewriter, to none.                                     *)
LEMMA RefinementStep == LoopInv /\ [Next]_vars => [Loop!Next]_(Loop!vars)
<1> SUFFICES ASSUME LoopInv, [Next]_vars PROVE [Loop!Next]_(Loop!vars)
  OBVIOUS
<1>1. LoopInv'
  BY LoopInvStep
<1>2. TypeOK /\ TypeOK' /\ UniqueIds /\ EmptyUntilPlanned /\ SearchHasTask
  BY <1>1 DEF LoopInv
<1>3. StageOf(pc') = "planning" => Loop!MayPlan(cycles', replans' + uncapped')
  <2>1. Accounting'
    BY <1>1 DEF LoopInv
  <2>2. StageOf(pc') = "planning" => pc' = "planner"
    BY <1>2 DEF StageOf, TypeOK, Nodes
  <2>3. pc' = "planner" => cycles' < PlannerCycleCap + (replans' + uncapped')
    <3>1. /\ PlannerCycleCap \in Nat /\ cycles' \in Nat
          /\ replans' \in Nat /\ uncapped' \in Nat
      BY <1>2, PolicyAssumption DEF TypeOK
    <3>2. pc' = "planner" => cycles' < PlannerCycleCap + replans' + uncapped'
      BY <2>1 DEF Accounting, PlannerEntriesAccounted
    <3>3. QED
      BY <3>1, <3>2, ExcusesAdd
  <2>4. QED
    BY <2>2, <2>3 DEF Loop!MayPlan
<1>4. CASE ConversationManager \/ GoalAnalyzer \/ GoalAnalyzerCrash \/ Knowledge
  <2>1. /\ pc \in Outside /\ pc' \in {"goal_analyzer", "knowledge", "answer", "planner"}
        /\ UNCHANGED <<queue, cycles, replans, uncapped>>
    <3>1. CASE ConversationManager \/ Knowledge
      BY <3>1 DEF ConversationManager, Knowledge, Outside
    <3>2. CASE GoalAnalyzer
      BY <3>2, GoalRouted DEF GoalAnalyzer, Outside
    <3>3. CASE GoalAnalyzerCrash
      BY <3>3, GoalRouted DEF GoalAnalyzerCrash, Outside
    <3>4. QED
      BY <1>4, <3>1, <3>2, <3>3
  <2>2. StageOf(pc) = "analysis" /\ StageOf(pc') \in {"analysis", "planning", "answer"}
    BY <2>1 DEF StageOf, Outside
  <2>3. Loop!Analyse
    BY <1>3, <2>1, <2>2 DEF Loop!Analyse, Loop!Goes
  <2>4. QED
    BY <2>3 DEF Loop!Next
<1>5. CASE Planner
  <2>1. PICK q \in Seq(Task), p \in Plans, err \in BOOLEAN : PlannerOutcome(q, p, err)
    BY <1>2, <1>5, PlannerCases
  <2>2. /\ Planned(q, p, err) /\ queue' = q /\ pc = "planner"
        /\ cycles' = cycles + 1 /\ UNCHANGED <<replans, uncapped>>
    BY <1>5, <2>1 DEF PlannerOutcome, Planned, Planner
  <2>3. pc' = "answer" \/ pc' = NextNode(queue', "reflector", "reflector")
    BY <2>2 DEF Planned, RouteAfterPlanner
  <2>4. /\ StageOf(pc) = "planning" /\ StageOf(pc') \in {"execution", "reflection", "answer"}
        /\ StageOf(pc') # "planning"
    <3>1. NextNode(queue', "reflector", "reflector")
             \in {"reflector", "query_rewriter", "python", "tool_executor"}
      BY DEF NextNode
    <3>2. QED
      BY <2>2, <2>3, <3>1 DEF StageOf
  <2>5. StageOf(pc') = "execution" => Open(queue') # {}
    <3>1. StageOf("answer") # "execution"
      BY DEF StageOf
    <3>2. QED
      BY <2>3, <3>1, ExecutionNeedsTodo
  <2>6. Done(queue) \subseteq Done(queue')
    <3>1. KeepsDone(queue, queue')
      BY <1>2, <2>1, <2>2 DEF PlannerOutcome, EmptyUntilPlanned, KeepsDone
    <3>2. QED
      BY <3>1, KeepingDone
  <2>7. Open(queue') \subseteq TaskIds /\ Done(queue') \subseteq TaskIds
    BY <2>2, StatusIds DEF Open, Done
  <2>8. Loop!Plan
    BY <2>2, <2>4, <2>5, <2>6, <2>7 DEF Loop!Plan, Loop!Goes, Open, Done
  <2>9. QED
    BY <2>8 DEF Loop!Next
<1>6. CASE QueryRewriter
  <2>1. PICK i \in Todo(queue) : queue' = Marked(queue, {i}, "running")
    BY <1>6 DEF QueryRewriter
  <2>2. \A j \in DOMAIN queue : queue[j] \in Task
    BY <1>2, QueueElement DEF TypeOK
  <2>3. /\ DOMAIN queue' = DOMAIN queue
        /\ \A j \in DOMAIN queue :
              /\ queue'[j].id = queue[j].id
              /\ queue'[j].status = IF j = i THEN "running" ELSE queue[j].status
    BY <2>1, <2>2 DEF Marked, Task
  <2>4. queue[i].status = "todo"
    BY DEF Todo
  <2>5. Open(queue') = Open(queue) /\ Done(queue') = Done(queue)
    BY <2>3, <2>4 DEF Open, Done, WithStatus
  <2>6. StageOf(pc') = StageOf(pc) /\ UNCHANGED <<cycles, replans, uncapped>>
    BY <1>6 DEF QueryRewriter, StageOf
  <2>7. UNCHANGED Loop!vars
    BY <2>5, <2>6, Mapped
  <2>8. QED
    BY <2>7
<1>7. CASE Search
  <2>1. PICK S \in SUBSET Open(queue) :
               /\ S # {} /\ Open(queue') = Open(queue) \ S
               /\ Done(queue) \subseteq Done(queue') /\ Done(queue') \subseteq Done(queue) \cup S
    BY <1>2, <1>7, SearchSettles
  <2>2. /\ StageOf(pc) = "execution" /\ StageOf(pc') = "answer"
        /\ UNCHANGED <<cycles, replans, uncapped>>
    BY <1>7 DEF Search, StageOf
  <2>3. Loop!Execute
    BY <2>1, <2>2 DEF Loop!Execute, Loop!Goes, Open, Done
  <2>4. QED
    BY <2>3 DEF Loop!Next
<1>8. CASE ToolExecutorBatch \/ ToolExecutorSingle \/ Python
  <2>1. /\ StageOf(pc') \in {"execution", "reflection"}
        /\ StageOf(pc') = "execution" => Open(queue') # {}
        /\ UNCHANGED <<replans, cycles, uncapped>>
    BY <1>2, <1>8, ExecutionSettles
  <2>2. PICK S \in SUBSET Open(queue) :
               /\ S # {} /\ Open(queue') = Open(queue) \ S
               /\ Done(queue) \subseteq Done(queue') /\ Done(queue') \subseteq Done(queue) \cup S
    BY <1>2, <1>8, ExecutionSettles
  <2>3. StageOf(pc) = "execution"
    BY <1>8 DEF ToolExecutorBatch, ToolExecutorSingle, Python, StageOf
  <2>4. Loop!Execute
    BY <2>1, <2>2, <2>3 DEF Loop!Execute, Loop!Goes, Open, Done
  <2>5. QED
    BY <2>4 DEF Loop!Next
<1>9. CASE ToolExecutorBatchRaises
  <2>1. /\ Open(queue') \subseteq Open(queue)
        /\ Done(queue) \subseteq Done(queue')
        /\ Done(queue') \subseteq Done(queue) \cup Open(queue)
    BY <1>2, <1>9, RaisedBatch
  <2>2. /\ StageOf(pc) # "over" /\ StageOf(pc') = "over"
        /\ UNCHANGED <<cycles, replans, uncapped>>
    BY <1>9 DEF ToolExecutorBatchRaises, StageOf
  <2>3. Loop!CutOff
    BY <2>1, <2>2 DEF Loop!CutOff, Open, Done
  <2>4. QED
    BY <2>3 DEF Loop!Next
<1>10. CASE Reflector
  <2>1. PICK q \in Seq(Task), v \in Verdicts, n \in Nat : ReflectorOutcome(q, v, n)
    BY <1>2, <1>10, ReflectorCases
  <2>2. /\ Reflected(q, v, n) /\ queue' = q /\ replans' = n /\ pc = "reflector"
        /\ UNCHANGED cycles
    BY <1>10, <2>1 DEF ReflectorOutcome, Reflected, Reflector
  <2>3. \/ pc' \in {"answer", "planner"}
        \/ \E idle \in {"answer", "planner"} : pc' = NextNode(queue', idle, "planner")
    BY <2>2 DEF Reflected, RouteAfterReflector, Verdicts
  <2>4. pc' \in {"answer", "planner", "query_rewriter", "python", "tool_executor"}
    BY <2>2, ReflectedRoute
  <2>5. StageOf(pc) = "reflection" /\ StageOf(pc') \in {"planning", "execution", "answer"}
    BY <2>2, <2>4 DEF StageOf
  <2>6. StageOf(pc') = "execution" => Open(queue') # {}
    <3>1. StageOf("answer") # "execution" /\ StageOf("planner") # "execution"
      BY DEF StageOf
    <3>2. QED
      BY <2>3, <3>1, ExecutionNeedsTodo
  <2>7. Open(queue') \subseteq TaskIds /\ Done(queue') \subseteq TaskIds
    BY <2>2, StatusIds DEF Open, Done
  <2>8. replans' + uncapped' \in {replans + uncapped, replans + uncapped + 1}
    <3>1. n = replans \/ n = replans + 1
      BY <2>1 DEF ReflectorOutcome
    <3>2. /\ uncapped' = uncapped \/ uncapped' = uncapped + 1
          /\ n # replans => uncapped' = uncapped
      BY <2>2 DEF Reflected
    <3>3. replans \in Nat /\ uncapped \in Nat
      BY <1>2 DEF TypeOK
    <3>4. QED
      BY <2>2, <3>1, <3>2, <3>3
  <2>9. Loop!Reflect
    BY <1>3, <2>2, <2>5, <2>6, <2>7, <2>8 DEF Loop!Reflect, Loop!Goes, Open, Done
  <2>10. QED
    BY <2>9 DEF Loop!Next
<1>11. CASE Answer \/ Memory
  <2>1. /\ StageOf(pc) = "answer" /\ StageOf(pc') \in {"answer", "over"}
        /\ UNCHANGED <<queue, cycles, replans, uncapped>>
    BY <1>11 DEF Answer, Memory, StageOf
  <2>2. Loop!End
    BY <2>1 DEF Loop!End
  <2>3. QED
    BY <2>2 DEF Loop!Next
<1>12. CASE RecursionLimitHit
  <2>1. /\ StageOf(pc) # "over" /\ StageOf(pc') = "over"
        /\ UNCHANGED <<queue, cycles, replans, uncapped>>
    BY <1>12 DEF RecursionLimitHit, StageOf, Nodes
  <2>2. Loop!CutOff
    BY <2>1 DEF Loop!CutOff
  <2>3. QED
    BY <2>2 DEF Loop!Next
<1>13. CASE Finish \/ UNCHANGED vars
  <2>1. UNCHANGED <<pc, queue, cycles, replans, uncapped>>
    BY <1>13 DEF Finish, vars
  <2>2. UNCHANGED Loop!vars
    BY <2>1, Mapped
  <2>3. QED
    BY <2>2
<1>14. QED
  BY <1>4, <1>5, <1>6, <1>7, <1>8, <1>9, <1>10, <1>11, <1>12, <1>13 DEF Next, Step

LEMMA RefinementInit == Init => Loop!Init
BY DEF Init, Loop!Init, StageOf, WithStatus

(* Whatever the planner, the tools and the reflector return, the compiled   *)
(* graph implements the goal loop: execution uses up open tasks and opens   *)
(* none, planning takes back no finished work, and every return to the      *)
(* planner is paid for.                                                     *)
THEOREM WorkflowImplementsLoop == Spec => RefinesGoalLoop
<1>1. Init => LoopInv
  <2>1. Init => TypeOK
    BY InitType
  <2>2. Init => UniqueIds /\ EmptyUntilPlanned /\ SearchHasTask
    BY DEF Init, UniqueIds, EmptyUntilPlanned, SearchHasTask
  <2>3. Init => Accounting
    BY PolicyAssumption DEF Init, Accounting, PlannerEntriesAccounted
  <2>4. QED
    BY <2>1, <2>2, <2>3 DEF LoopInv
<1>2. QED
  BY <1>1, RefinementInit, LoopInvStep, RefinementStep, PTL
     DEF Spec, RefinesGoalLoop, Loop!Spec
=============================================================================
