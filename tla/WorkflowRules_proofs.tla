------------------------ MODULE WorkflowRules_proofs ------------------------
(***************************************************************************)
(* Proofs about runs whose reflector decides by its rules: its LLM is      *)
(* unreachable, or answers with nothing it can parse.  Then no step takes  *)
(* a task out of the queue or opens it again, except the planner, so that  *)
(* the queue tells of every task what became of it.  The theorems name     *)
(* what else they need as hypotheses.  Without each of these the code does *)
(* break the property, and so none of them is an assumption of the model:  *)
(*   - an LLM may reopen, remove or complete what it likes;                *)
(*   - results carry no task id, and a goal that names or mentions an      *)
(*     action attracts the results of other tasks;                         *)
(*   - the search chain marks tasks DONE that are no searches;             *)
(*   - a planner that crashes over and over is made to complete.           *)
(***************************************************************************)
EXTENDS WorkflowLoop_proofs, WellFoundedInduction

-----------------------------------------------------------------------------
(* What the steps make of the queue.                                        *)

LEMMA MarkedAt ==
    ASSUME NEW q \in Seq(Task), NEW S, NEW s \in Statuses, NEW i \in DOMAIN q
    PROVE  /\ i \in DOMAIN Marked(q, S, s)
           /\ Marked(q, S, s)[i].id = q[i].id
           /\ Marked(q, S, s)[i].status = IF i \in S THEN s ELSE q[i].status
<1>1. q[i] \in Task
  BY QueueElement
<1>2. QED
  BY <1>1 DEF Marked, Task

(* What a planner call makes of the queue: it keeps tasks, re-issues tasks  *)
(* that are not DONE, adds new ones, or, when the queue is empty, takes     *)
(* over a template in which the tasks found on disk are DONE.               *)
PlansFrom(q, r) ==
    /\ Ids(q) \subseteq Ids(r)
    /\ \A j \in DOMAIN r :
         \/ j \in DOMAIN q /\ r[j] = q[j]
         \/ /\ r[j].status = "todo"
            /\ IF j \in DOMAIN q THEN r[j].id = q[j].id /\ q[j].status # "done"
               ELSE r[j].id \notin Ids(q)
         \/ r[j].id \in Recognised /\ r[j].id \notin Ids(q)

LEMMA PlannerPlans ==
    ASSUME TypeOK, EmptyUntilPlanned, Planner
    PROVE  /\ PlansFrom(queue, queue')
           /\ cycles' = cycles + 1
           /\ UNCHANGED <<goal, results, genFailed, attempts, written>>
<1>1. queue \in Seq(Task)
  BY DEF TypeOK
<1>2. PlansFrom(queue, queue)
  BY DEF PlansFrom
<1>3. CASE PlanDirectAnswer
  <2>1. queue = <<>>
    BY <1>3 DEF PlanDirectAnswer, EmptyUntilPlanned
  <2>2. QED
    BY <1>2, <1>3, <2>1 DEF PlanDirectAnswer, Planned
<1>4. CASE PlanDegraded \/ PlanCompleted \/ PlanNothing \/ PlannerCrash
  BY <1>2, <1>4 DEF PlanDegraded, PlanCompleted, PlanNothing, PlannerCrash, Planned
<1>5. CASE PlanFromTemplate
  <2> DEFINE Status(k) == IF Required # {} /\ Initial[k] \in Recognised THEN "done" ELSE "todo"
  <2>1. PICK r : /\ r = [k \in DOMAIN Initial |-> NewTask(Initial[k], Status(k))]
                 /\ Planned(r, "open", llmError)
    BY <1>5 DEF PlanFromTemplate
  <2>2. queue = <<>>
    BY <1>5 DEF PlanFromTemplate
  <2>3. Ids(queue) = {} /\ DOMAIN queue = {}
    BY <2>2 DEF Ids
  <2>4. \A j \in DOMAIN r : r[j].status = "todo" \/ r[j].id \in Recognised
    BY <2>1 DEF NewTask
  <2>5. PlansFrom(queue, r)
    BY <2>3, <2>4 DEF PlansFrom
  <2>6. QED
    BY <2>1, <2>5 DEF Planned
<1>6. CASE PlanTasks
  <2>1. PICK again \in SUBSET Ids(queue), fresh \in BoundedSeq(TaskIds \ Ids(queue), MaxPlan) :
               Planned(Added(Reissued(queue, again), fresh), "open", llmError)
    BY <1>6 DEF PlanTasks
  <2>2. PICK m \in 0 .. MaxPlan : fresh \in [1 .. m -> TaskIds \ Ids(queue)]
    BY <2>1 DEF BoundedSeq, SeqOf
  <2>3. m \in Nat /\ fresh \in [1 .. m -> TaskIds]
    BY <2>2
  <2>4. fresh \in Seq(TaskIds)
    BY <2>3, FunctionIsSeq
  <2>5. PICK r : r = Reissued(queue, again)
    OBVIOUS
  <2>6. r \in Seq(Task) /\ DOMAIN r = DOMAIN queue
    BY <1>1, <2>5, ReissuedType
  <2>7. PICK r2 : r2 = Added(r, fresh)
    OBVIOUS
  <2>8. /\ \A i \in DOMAIN r : i \in DOMAIN r2 /\ r2[i] = r[i]
        /\ \A i \in DOMAIN r2 \ DOMAIN r :
             /\ i - Len(r) \in DOMAIN fresh
             /\ r2[i].status = "todo" /\ r2[i].id = fresh[i - Len(r)]
    BY <2>4, <2>6, <2>7, AddedType
  <2>9. \A i \in DOMAIN queue :
           \/ r[i] = queue[i]
           \/ r[i].status = "todo" /\ r[i].id = queue[i].id /\ queue[i].status # "done"
    BY <2>5 DEF Reissued, NewTask
  <2>10. \A k \in DOMAIN fresh : fresh[k] \notin Ids(queue)
    BY <2>2
  <2>11. Ids(queue) \subseteq Ids(r2)
    BY <2>6, <2>8, <2>9 DEF Ids
  <2>12. PlansFrom(queue, r2)
    BY <2>6, <2>8, <2>9, <2>10, <2>11 DEF PlansFrom
  <2>13. QED
    BY <2>1, <2>5, <2>7, <2>12 DEF Planned
<1>7. QED
  BY <1>3, <1>4, <1>5, <1>6 DEF Planner

(* What an execution makes of the queue: open tasks, those of F, become     *)
(* DONE or FAILED, each has its result, and is counted once.                *)
Runs(F, ok) ==
    /\ ok \subseteq F /\ F \subseteq DOMAIN queue
    /\ \A i \in F : queue[i].status \in {"todo", "running"}
    /\ DOMAIN queue' = DOMAIN queue
    /\ \A i \in DOMAIN queue :
         /\ queue'[i].id = queue[i].id
         /\ queue'[i].status = IF i \in ok THEN "done"
                               ELSE IF i \in F THEN "failed" ELSE queue[i].status
    /\ \A k \in DOMAIN results' :
         \E i \in F : results'[k].task = queue[i].id /\ results'[k].ok = (i \in ok)
    /\ written' = written \cup IdsAt(queue, ok)
(* An execution is counted once, and only for tasks of F.                   *)
Counts(F) ==
    \A t \in TaskIds : \/ attempts'[t] = attempts[t]
                       \/ attempts'[t] <= attempts[t] + 1 /\ t \in IdsAt(queue, F)

LEMMA AttemptsCounted ==
    ASSUME TypeOK, NEW S, attempts' = Attempted(IdsAt(queue, S))
    PROVE  Counts(S)
BY PolicyAssumption DEF Counts, Attempted, AtMost, TypeOK

LEMMA ExecutionRuns ==
    ASSUME TypeOK, ToolExecutorBatch \/ ToolExecutorSingle \/ Python
    PROVE  /\ \E F, ok : Runs(F, ok) /\ Counts(F)
           /\ UNCHANGED <<goal, plan, verdict, cycles, genFailed>>
           /\ pc' \in {"reflector", "query_rewriter", "python", "tool_executor"}
<1>1. PICK n \in Nat : \E b \in [1 .. n -> DOMAIN queue], ok \in SUBSET DOMAIN queue :
             /\ Executed(b, ok)
             /\ \A i \in ToSet(b) \cup ok : queue[i].status \in {"todo", "running"}
  BY ExecutedOpen
<1>2. PICK b \in [1 .. n -> DOMAIN queue], ok \in SUBSET DOMAIN queue :
             /\ Executed(b, ok)
             /\ \A i \in ToSet(b) \cup ok : queue[i].status \in {"todo", "running"}
  BY <1>1
<1>3. /\ queue \in Seq(Task) /\ DOMAIN queue' = DOMAIN queue
      /\ pc' \in {"reflector", "query_rewriter", "python", "tool_executor"}
  BY <1>2, ExecutedType DEF TypeOK
<1>4. PICK F : F = ToSet(b) \cup ok
  OBVIOUS
<1>5. /\ F \in SUBSET DOMAIN queue /\ ok \in SUBSET F /\ ToSet(b) \in SUBSET F
      /\ \A k \in DOMAIN b : b[k] \in F
  BY <1>2, <1>4 DEF ToSet
<1>6. PICK r : r = Marked(queue, ok, "done")
  OBVIOUS
<1>7. r \in Seq(Task) /\ DOMAIN r = DOMAIN queue
  BY <1>3, <1>6, MarkedType DEF Statuses
<1>8. queue' = Marked(r, ToSet(b) \ ok, "failed")
  BY <1>2, <1>6 DEF Executed, Finished
<1>9. ASSUME NEW i \in DOMAIN queue
      PROVE  /\ queue'[i].id = queue[i].id
             /\ queue'[i].status = IF i \in ok THEN "done"
                                   ELSE IF i \in F THEN "failed" ELSE queue[i].status
  <2>1. /\ r[i].id = queue[i].id
        /\ r[i].status = IF i \in ok THEN "done" ELSE queue[i].status
    BY <1>3, <1>6, MarkedAt DEF Statuses
  <2>2. /\ queue'[i].id = r[i].id
        /\ queue'[i].status = IF i \in ToSet(b) \ ok THEN "failed" ELSE r[i].status
    BY <1>7, <1>8, MarkedAt DEF Statuses
  <2>3. QED
    BY <1>4, <2>1, <2>2
<1>10. \A k \in DOMAIN results' :
         \E i \in F : results'[k].task = queue[i].id /\ results'[k].ok = (i \in ok)
  BY <1>2, <1>5 DEF Executed, Outcome
<1>11. written' = written \cup IdsAt(queue, ok)
  BY <1>2 DEF Executed, IdsAt
<1>12. Counts(F)
  <2>1. Counts(ToSet(b))
    BY <1>2, AttemptsCounted DEF Executed, IdsAt
  <2>2. IdsAt(queue, ToSet(b)) \subseteq IdsAt(queue, F)
    BY <1>5 DEF IdsAt
  <2>3. QED
    BY <2>1, <2>2 DEF Counts
<1>13. Runs(F, ok)
  BY <1>2, <1>3, <1>4, <1>5, <1>9, <1>10, <1>11 DEF Runs
<1>14. QED
  BY <1>2, <1>3, <1>12, <1>13 DEF Executed

(* A batch that raises counts the tasks it had started.                     *)
LEMMA RaisedCounts ==
    ASSUME TypeOK, ToolExecutorBatchRaises
    PROVE  /\ Counts(ParallelTasks)
           /\ ParallelTasks \subseteq DOMAIN queue
           /\ \A i \in ParallelTasks : queue[i].status = "todo"
           /\ pc' = "aborted" /\ cycles' = cycles
<1>1. attempts' = Attempted(IdsAt(queue, ParallelTasks))
  BY DEF ToolExecutorBatchRaises, IdsAt
<1>2. QED
  BY <1>1, AttemptsCounted
     DEF ToolExecutorBatchRaises, ParallelTasks, Selected, TopWrites, Writes, Candidates, Todo

(* The search chain marks tasks as running and then as DONE.                *)
Moves(q, r, from, to) ==
    /\ DOMAIN r = DOMAIN q
    /\ \A i \in DOMAIN q : /\ r[i].id = q[i].id
                           /\ \/ r[i].status = q[i].status
                              \/ q[i].status = from /\ r[i].status = to

LEMMA SearchMoves ==
    ASSUME TypeOK
    PROVE  /\ QueryRewriter => Moves(queue, queue', "todo", "running")
           /\ Search => Moves(queue, queue', "running", "done")
           /\ QueryRewriter \/ Search =>
                UNCHANGED <<goal, results, plan, verdict, cycles, genFailed, attempts, written>>
<1>1. queue \in Seq(Task) /\ {"running", "done"} \subseteq Statuses
  BY DEF TypeOK, Statuses
<1>2. ASSUME QueryRewriter
      PROVE  Moves(queue, queue', "todo", "running")
  <2>1. PICK i \in Todo(queue) : queue' = Marked(queue, {i}, "running")
    BY <1>2 DEF QueryRewriter
  <2>2. QED
    BY <1>1, <2>1, MarkedAt, MarkedType DEF Moves, Todo
<1>3. ASSUME Search
      PROVE  Moves(queue, queue', "running", "done")
  <2>1. PICK S : /\ S = {i \in DOMAIN queue : queue[i].status = "running"}
                 /\ queue' = Marked(queue, S, "done")
    BY <1>3 DEF Search, Searched
  <2>2. QED
    BY <1>1, <2>1, MarkedAt, MarkedType DEF Moves
<1>4. QED
  BY <1>2, <1>3 DEF QueryRewriter, Search

-----------------------------------------------------------------------------
(* The reflector under the rules.                                           *)

(* Some tasks became DONE or FAILED.                                        *)
Closes(q, r) ==
    /\ DOMAIN r = DOMAIN q
    /\ \A i \in DOMAIN q : /\ r[i].id = q[i].id
                           /\ r[i].status \in {q[i].status, "done", "failed"}

LEMMA RuleCloses ==
    ASSUME NEW q \in Seq(Task), NEW m
    PROVE  Closes(q, RuleEvaluation(q, m).queue)
<1>1. PICK S1, S2, S3 :
         RuleEvaluation(q, m).queue
            = Marked(Marked(Marked(q, S1, "done"), S2, "failed"), S3, "done")
  BY DEF RuleEvaluation
<1>2. {"done", "failed"} \subseteq Statuses
  BY DEF Statuses
<1>3. PICK r1 : r1 = Marked(q, S1, "done")
  OBVIOUS
<1>4. r1 \in Seq(Task) /\ Closes(q, r1)
  BY <1>2, <1>3, MarkedType, MarkedAt DEF Closes
<1>5. PICK r2 : r2 = Marked(r1, S2, "failed")
  OBVIOUS
<1>6. r2 \in Seq(Task) /\ Closes(r1, r2)
  BY <1>2, <1>4, <1>5, MarkedType, MarkedAt DEF Closes
<1>7. PICK r3 : r3 = Marked(r2, S3, "done")
  OBVIOUS
<1>8. Closes(r2, r3)
  BY <1>2, <1>6, <1>7, MarkedType, MarkedAt DEF Closes
<1>9. RuleEvaluation(q, m).queue = r3
  BY <1>1, <1>3, <1>5, <1>7
<1>10. QED
  BY <1>4, <1>6, <1>8, <1>9 DEF Closes

(* The queues on which a reflection may decide: the one it found, or, when  *)
(* a template was consulted, the one with the updates already in it.        *)
Bases == {queue, RuleEvaluation(queue, Matches(queue)).queue}

LEMMA BaseType ==
    ASSUME queue \in Seq(Task), NEW b \in Bases
    PROVE  b \in Seq(Task) /\ (Unique(queue) => Unique(b)) /\ Closes(queue, b)
<1>1. Closes(queue, queue)
  BY DEF Closes
<1>2. QED
  BY <1>1, RuleEvaluationFrom, RuleCloses DEF Bases, QueueFrom

LEMMA RulesDecide ==
    ASSUME ~LlmReflects, NEW e \in Evaluations
    PROVE  \E b \in Bases : e = RuleEvaluation(b, Matches(b))
BY DEF Evaluations, EvaluationsFrom, Bases

(* A reflection appends fallback tasks to an evaluated queue.               *)
Appends(r, s) ==
    /\ queue' = Added(r, s)
    /\ s \in Seq(TaskIds) /\ Distinct(s)
    /\ \A k \in DOMAIN s : s[k] \in Generated \ Ids(r)

LEMMA ReflectorAppends ==
    ASSUME TypeOK, Reflector
    PROVE  /\ \E r, s : /\ Appends(r, s)
                        /\ r = queue \/ \E e \in Evaluations : r = e.queue
           /\ UNCHANGED <<goal, results, plan, cycles, attempts, written>>
<1>1. \A q, v, n : Reflected(q, v, n)
         => queue' = q /\ UNCHANGED <<goal, results, plan, cycles, attempts, written>>
  BY DEF Reflected
<1>2. <<>> \in Seq(TaskIds) /\ Distinct(<<>>) /\ Added(queue, <<>>) = queue
  <2>1. queue \o <<>> = queue
    BY DEF TypeOK
  <2>2. [k \in DOMAIN <<>> |-> NewTask(<<>>[k], "todo")] = <<>>
    OBVIOUS
  <2>3. QED
    BY <2>1, <2>2 DEF Added, Distinct
<1>3. queue' = queue => Appends(queue, <<>>)
  BY <1>2 DEF Appends
<1>4. CASE ReflectEmptyQueue
  <2>1. CASE goal = "project" /\ Generated # {}
    <3>1. PICK s \in FallbackOrders(Generated) : Reflected(Added(queue, s), "next", replans)
      BY <1>4, <2>1 DEF ReflectEmptyQueue
    <3>2. s \in Seq(TaskIds) /\ Distinct(s) /\ \A k \in DOMAIN s : s[k] \in Generated
      BY FallbackOrderType
    <3>3. Ids(queue) = {}
      BY <1>4 DEF ReflectEmptyQueue, Ids
    <3>4. Appends(queue, s)
      BY <1>1, <3>1, <3>2, <3>3 DEF Appends
    <3>5. QED
      BY <1>1, <3>1, <3>4
  <2>2. CASE ~(goal = "project" /\ Generated # {})
    BY <1>1, <1>3, <1>4, <2>2 DEF ReflectEmptyQueue
  <2>3. QED
    BY <2>1, <2>2
<1>5. CASE ReflectQueue
  <2> DEFINE Stuck(e) == IF e.completed THEN ~HasFileCreation(e.queue)
                         ELSE Todo(e.queue) = {}
             Missing(e) == IF Stuck(e) THEN GeneratedFor(e.queue) ELSE {}
  <2>1. \E e \in Evaluations : \E s \in FallbackOrders(Missing(e)) :
           \E v, n : Reflected(Added(e.queue, s), v, n)
    <3>1. PICK e \in Evaluations : \E s \in FallbackOrders(Missing(e)) :
            \E q \in {Added(e.queue, s)} :
              LET completed == \/ IF Stuck(e) THEN Generated = {} ELSE e.completed
                               \/ TemplateDone(q)
              IN  IF completed THEN Reflected(q, "done", replans)
                  ELSE IF e.replan THEN Reflected(q, "replan", replans + 1)
                  ELSE Reflected(q, "next", replans)
      BY <1>5 DEF ReflectQueue
    <3>2. PICK s \in FallbackOrders(Missing(e)) : \E v, n : Reflected(Added(e.queue, s), v, n)
      BY <3>1
    <3>3. QED
      BY <3>2
  <2>2. PICK e \in Evaluations : \E s \in FallbackOrders(Missing(e)) :
           \E v, n : Reflected(Added(e.queue, s), v, n)
    BY <2>1
  <2>3. PICK s \in FallbackOrders(Missing(e)) : \E v, n : Reflected(Added(e.queue, s), v, n)
    BY <2>2
  <2>4. /\ s \in Seq(TaskIds) /\ Distinct(s)
        /\ \A k \in DOMAIN s : s[k] \in Generated /\ s[k] \notin Ids(e.queue)
    BY <2>3, FallbackOrderType DEF GeneratedFor
  <2>5. Appends(e.queue, s)
    BY <1>1, <2>3, <2>4 DEF Appends
  <2>6. QED
    BY <1>1, <2>3, <2>5
<1>6. CASE ReflectorCrash
  BY <1>1, <1>3, <1>6 DEF ReflectorCrash
<1>7. QED
  BY <1>4, <1>5, <1>6 DEF Reflector

(* Under the rules no task of the queue is opened or removed; what is added *)
(* is a fallback task whose file is missing.                                *)
Reflects(q, r) ==
    /\ \A i \in DOMAIN q : /\ i \in DOMAIN r /\ r[i].id = q[i].id
                           /\ r[i].status \in {q[i].status, "done", "failed"}
    /\ \A j \in DOMAIN r \ DOMAIN q :
         /\ r[j].status = "todo"
         /\ r[j].id \in ToSet(Fallback) \ (OnDisk \cup Ids(q))

LEMMA ReflectorReflects ==
    ASSUME TypeOK, ~LlmReflects, Reflector
    PROVE  /\ Reflects(queue, queue')
           /\ UNCHANGED <<goal, results, plan, cycles, attempts, written>>
<1>1. PICK r, s : /\ Appends(r, s)
                  /\ r = queue \/ \E e \in Evaluations : r = e.queue
  BY ReflectorAppends
<1>2. queue \in Seq(Task)
  BY DEF TypeOK
<1>3. r \in Seq(Task) /\ Closes(queue, r)
  <2>1. CASE r = queue
    BY <1>2, <2>1 DEF Closes
  <2>2. CASE \E e \in Evaluations : r = e.queue
    <3>1. PICK b \in Bases : r = RuleEvaluation(b, Matches(b)).queue
      BY <2>2, RulesDecide
    <3>2. b \in Seq(Task) /\ Closes(queue, b)
      BY <1>2, BaseType
    <3>3. r \in Seq(Task) /\ Closes(b, r)
      BY <3>1, <3>2, RuleEvaluationFrom, RuleCloses DEF QueueFrom
    <3>4. QED
      BY <3>2, <3>3 DEF Closes
  <2>3. QED
    BY <1>1, <2>1, <2>2
<1>4. /\ \A i \in DOMAIN r : i \in DOMAIN queue' /\ queue'[i] = r[i]
      /\ \A i \in DOMAIN queue' \ DOMAIN r :
           /\ i - Len(r) \in DOMAIN s
           /\ queue'[i].status = "todo" /\ queue'[i].id = s[i - Len(r)]
  BY <1>1, <1>3, AddedType DEF Appends
<1>5. Ids(r) = Ids(queue)
  BY <1>3, SameIds DEF Closes
<1>6. Reflects(queue, queue')
  BY <1>1, <1>3, <1>4, <1>5 DEF Reflects, Appends, Closes, Generated
<1>7. QED
  BY <1>6, ReflectorAppends

-----------------------------------------------------------------------------
(* Every execution is paid for by a planner call.                           *)

Extra(t) == IF t \in ToSet(Fallback) THEN 1 ELSE 0
(* A task that is not queued was never run; an open one has a run left.     *)
RunsLeft ==
    /\ RetriesNeedPlanner
    /\ pc # "aborted" =>
         /\ \A t \in TaskIds : t \notin Ids(queue) => attempts[t] = 0
         /\ \A i \in DOMAIN queue : queue[i].status \in {"todo", "running"} =>
              attempts[queue[i].id] + 1 <= cycles + Extra(queue[i].id)

LEMMA RunsLeftStep ==
    ASSUME ~LlmReflects, TypeOK, UniqueIds, EmptyUntilPlanned, RunsLeft, [Next]_vars
    PROVE  RunsLeft'
<1>1. /\ queue \in Seq(Task) /\ cycles \in Nat /\ attempts \in [TaskIds -> Nat]
      /\ \A i \in DOMAIN queue : queue[i].id \in TaskIds
      /\ queue' \in Seq(Task) /\ \A i \in DOMAIN queue' : queue'[i].id \in TaskIds
      /\ attempts' \in [TaskIds -> Nat]
  BY TypeStep, QueueElement DEF TypeOK, Task
<1>2. \A t \in TaskIds : Extra(t) \in {0, 1} /\ attempts[t] <= cycles + Extra(t)
  BY DEF Extra, RunsLeft, RetriesNeedPlanner
<1>3. RetriesNeedPlanner' <=> \A t \in TaskIds : attempts'[t] <= cycles' + Extra(t)
  BY DEF Extra, RetriesNeedPlanner
<1>4. CASE Planner
  <2>1. /\ PlansFrom(queue, queue') /\ cycles' = cycles + 1 /\ attempts' = attempts
        /\ pc # "aborted"
    BY <1>4, PlannerPlans DEF Planner
  <2>2. RetriesNeedPlanner'
    BY <1>1, <1>2, <1>3, <2>1
  <2>3. \A t \in TaskIds : t \notin Ids(queue') => attempts'[t] = 0
    BY <2>1 DEF PlansFrom, RunsLeft
  <2>4. \A i \in DOMAIN queue' : attempts'[queue'[i].id] + 1 <= cycles' + Extra(queue'[i].id)
    BY <1>1, <1>2, <2>1
  <2>5. QED
    BY <2>2, <2>3, <2>4 DEF RunsLeft, Extra
<1>5. CASE ToolExecutorBatch \/ ToolExecutorSingle \/ Python
  <2>1. cycles' = cycles /\ pc # "aborted"
    BY <1>5, ExecutionRuns DEF ToolExecutorBatch, ToolExecutorSingle, Python
  <2>2. PICK F, ok : Runs(F, ok) /\ Counts(F)
    BY <1>5, ExecutionRuns
  <2>3. ASSUME NEW i \in F
        PROVE  i \in DOMAIN queue /\ attempts[queue[i].id] + 1 <= cycles + Extra(queue[i].id)
    BY <2>1, <2>2 DEF Runs, RunsLeft
  <2>4. RetriesNeedPlanner'
    <3>1. ASSUME NEW t \in TaskIds
          PROVE  attempts'[t] <= cycles' + Extra(t)
      <4>1. CASE attempts'[t] = attempts[t]
        BY <1>2, <2>1, <4>1
      <4>2. CASE attempts'[t] <= attempts[t] + 1 /\ t \in IdsAt(queue, F)
        <5>1. attempts[t] + 1 <= cycles + Extra(t)
          BY <2>3, <4>2 DEF IdsAt
        <5>2. QED
          BY <1>1, <1>2, <2>1, <4>2, <5>1
      <4>3. QED
        BY <2>2, <4>1, <4>2 DEF Counts
    <3>2. QED
      BY <1>3, <3>1
  <2>5. Ids(queue') = Ids(queue) /\ IdsAt(queue, F) \subseteq Ids(queue)
    BY <2>2 DEF Runs, Ids, IdsAt
  <2>6. \A t \in TaskIds : t \notin Ids(queue') => attempts'[t] = 0
    BY <2>1, <2>2, <2>5 DEF Counts, RunsLeft
  <2>7. ASSUME NEW i \in DOMAIN queue', queue'[i].status \in {"todo", "running"}
        PROVE  attempts'[queue'[i].id] + 1 <= cycles' + Extra(queue'[i].id)
    <3>1. /\ i \in DOMAIN queue /\ i \notin F /\ queue'[i].id = queue[i].id
          /\ queue[i].status = queue'[i].status
      BY <2>2, <2>7 DEF Runs
    <3>2. queue[i].id \notin IdsAt(queue, F)
      BY <2>3, <3>1 DEF IdsAt, UniqueIds
    <3>3. attempts'[queue[i].id] = attempts[queue[i].id]
      BY <1>1, <2>2, <3>1, <3>2 DEF Counts
    <3>4. QED
      BY <2>1, <2>7, <3>1, <3>3 DEF RunsLeft
  <2>8. QED
    BY <2>4, <2>6, <2>7 DEF RunsLeft, Extra
<1>6. CASE ToolExecutorBatchRaises
  <2>1. /\ Counts(ParallelTasks) /\ pc' = "aborted" /\ cycles' = cycles /\ pc # "aborted"
        /\ ParallelTasks \subseteq DOMAIN queue
        /\ \A i \in ParallelTasks : queue[i].status = "todo"
    BY <1>6, RaisedCounts DEF ToolExecutorBatchRaises
  <2>2. ASSUME NEW t \in TaskIds
        PROVE  attempts'[t] <= cycles' + Extra(t)
    <3>1. t \in IdsAt(queue, ParallelTasks) => attempts[t] + 1 <= cycles + Extra(t)
      BY <2>1 DEF IdsAt, RunsLeft
    <3>2. \/ attempts'[t] = attempts[t]
          \/ attempts'[t] <= attempts[t] + 1 /\ t \in IdsAt(queue, ParallelTasks)
      BY <2>1 DEF Counts
    <3>3. QED
      BY <1>1, <1>2, <2>1, <3>1, <3>2
  <2>3. QED
    BY <1>3, <2>1, <2>2 DEF RunsLeft
<1>7. CASE QueryRewriter \/ Search
  <2>1. /\ cycles' = cycles /\ attempts' = attempts /\ pc # "aborted"
        /\ Moves(queue, queue', "todo", "running") \/ Moves(queue, queue', "running", "done")
    BY <1>7, SearchMoves DEF QueryRewriter, Search
  <2>2. Ids(queue') = Ids(queue)
    BY <2>1 DEF Moves, Ids
  <2>3. RetriesNeedPlanner'
    BY <1>2, <1>3, <2>1
  <2>4. QED
    BY <2>1, <2>2, <2>3 DEF RunsLeft, Moves, Extra
<1>8. CASE Reflector
  <2>1. /\ cycles' = cycles /\ attempts' = attempts /\ pc # "aborted"
        /\ Reflects(queue, queue')
    BY <1>8, ReflectorReflects DEF Reflector
  <2>2. RetriesNeedPlanner'
    BY <1>2, <1>3, <2>1
  <2>3. Ids(queue) \subseteq Ids(queue')
    BY <2>1 DEF Reflects, Ids
  <2>4. ASSUME NEW i \in DOMAIN queue', queue'[i].status \in {"todo", "running"}
        PROVE  attempts'[queue'[i].id] + 1 <= cycles' + Extra(queue'[i].id)
    <3>1. CASE i \in DOMAIN queue
      <4>1. queue'[i].id = queue[i].id /\ queue[i].status \in {"todo", "running"}
        BY <2>1, <2>4, <3>1 DEF Reflects
      <4>2. QED
        BY <2>1, <3>1, <4>1 DEF RunsLeft
    <3>2. CASE i \notin DOMAIN queue
      <4>1. queue'[i].id \in ToSet(Fallback) /\ queue'[i].id \notin Ids(queue)
        BY <2>1, <3>2 DEF Reflects
      <4>2. attempts[queue'[i].id] = 0 /\ Extra(queue'[i].id) = 1
        BY <1>1, <2>1, <4>1 DEF RunsLeft, Extra
      <4>3. QED
        BY <1>1, <2>1, <4>2
    <3>3. QED
      BY <3>1, <3>2
  <2>5. \A t \in TaskIds : t \notin Ids(queue') => attempts'[t] = 0
    BY <2>1, <2>3 DEF RunsLeft
  <2>6. QED
    BY <2>2, <2>4, <2>5 DEF RunsLeft, Extra
<1>9. CASE \/ ConversationManager \/ GoalAnalyzer \/ GoalAnalyzerCrash \/ Knowledge
           \/ Answer \/ Memory \/ RecursionLimitHit \/ Finish \/ UNCHANGED vars
  <2>1. /\ UNCHANGED <<queue, attempts, cycles>>
        /\ pc = "aborted" => pc' = "aborted"
    BY <1>9 DEF ConversationManager, GoalAnalyzer, GoalAnalyzerCrash, Knowledge, Answer,
                Memory, RecursionLimitHit, Finish, vars, Nodes
  <2>2. QED
    BY <2>1 DEF RunsLeft, RetriesNeedPlanner, Ids
<1>10. QED
  BY <1>4, <1>5, <1>6, <1>7, <1>8, <1>9 DEF Next, Step

(* Under rule-based reflection a task is handed to its tool at most once    *)
(* per planner call, and once more if it is a fallback task, whatever fails,*)
(* crashes or is planned again under its id.                                *)
THEOREM RetriesAlwaysNeedPlanner ==
    ASSUME ~LlmReflects
    PROVE  Spec => []RetriesNeedPlanner
<1>1. Init => TypeOK /\ UniqueIds /\ EmptyUntilPlanned /\ RunsLeft
  <2>1. Init => RetriesNeedPlanner
    BY DEF Init, RetriesNeedPlanner
  <2>2. QED
    BY <2>1, InitType DEF Init, UniqueIds, EmptyUntilPlanned, RunsLeft
<1>2. TypeOK /\ UniqueIds /\ EmptyUntilPlanned /\ RunsLeft /\ [Next]_vars
      => (TypeOK /\ UniqueIds /\ EmptyUntilPlanned /\ RunsLeft)'
  BY TypeStep, UniqueStep, EmptyStep, RunsLeftStep
<1>3. RunsLeft => RetriesNeedPlanner
  BY DEF RunsLeft
<1>4. QED
  BY <1>1, <1>2, <1>3, PTL DEF Spec

-----------------------------------------------------------------------------
(* Results find their tasks.  They carry names only; when every goal is a   *)
(* text of its own, and not the name of an action, the reflector attributes *)
(* a result to the task that was run or to none.                            *)

NamedGoals == \A t \in TaskIds : Style[t] = "named" /\ t \notin Kinds

LEMMA MatchIsOwn ==
    ASSUME NamedGoals, NEW q \in Seq(Task), Unique(q), NEW r \in Result, NEW used,
           NEW i \in DOMAIN q, Match(q, r, used) = i
    PROVE  q[i].id = r.task
<1>1. /\ \A j \in DOMAIN q : q[j].id \in TaskIds /\ GoalText(q[j].id) = q[j].id
      /\ r.task \in TaskIds /\ GoalText(r.task) = r.task
  BY QueueElement DEF NamedGoals, GoalText, Task, Result
<1>2. ResultName(r) \in Kinds \cup {r.task}
  BY <1>1, TaskAssumption DEF ResultName
<1> DEFINE exact == {j \in DOMAIN q \ used : ResultName(r) = GoalText(q[j].id)}
           mention == {j \in DOMAIN q \ used : /\ q[j].status \notin {"todo", "running"}
                                               /\ Mentions(q[j].id, ResultName(r))}
<1>3. \A j \in exact : q[j].id = r.task
  BY <1>1, <1>2 DEF NamedGoals
<1>4. mention = {}
  BY <1>1 DEF Mentions, NamedGoals
<1>5. 0 \notin DOMAIN q
  BY LenProperties
<1>6. exact # {} /\ i = Foremost(q, exact)
  BY <1>4, <1>5 DEF Match
<1>7. PICK j \in exact : TRUE
  BY <1>6
<1>8. exact = {j} /\ j \in Int
  BY <1>3, <1>7, LenProperties DEF Unique
<1>9. Foremost(q, {j}) = j
  BY <1>8 DEF Foremost, IsForemost
<1>10. QED
  BY <1>3, <1>6, <1>8, <1>9

LEMMA MatchesAreOwn ==
    ASSUME NamedGoals, results \in Seq(Result), NEW q \in Seq(Task), Unique(q),
           NEW k \in DOMAIN results, NEW i \in DOMAIN q, Matches(q)[k] = i
    PROVE  q[i].id = results[k].task
<1>1. \E used : Matches(q)[k] = Match(q, results[k], used)
  BY DEF Matches
<1>2. results[k] \in Result
  BY LenProperties, ElementOfSeq
<1>3. QED
  BY <1>1, <1>2, MatchIsOwn

(* A task becomes DONE because its own call succeeded, or because a template*)
(* recognises its file, and FAILED because its own call failed.             *)
Succeeded(t) == \E k \in DOMAIN results : results[k].task = t /\ results[k].ok
Failed(t) == \E k \in DOMAIN results : results[k].task = t /\ ~results[k].ok
Judges(q, r) ==
    /\ DOMAIN r = DOMAIN q
    /\ \A i \in DOMAIN q :
         /\ r[i].id = q[i].id
         /\ \/ r[i].status = q[i].status
            \/ r[i].status = "done" /\ (Succeeded(q[i].id) \/ q[i].id \in Recognised)
            \/ r[i].status = "failed" /\ Failed(q[i].id)

LEMMA RuleJudges ==
    ASSUME NamedGoals, results \in Seq(Result), NEW q \in Seq(Task), Unique(q)
    PROVE  Judges(q, RuleEvaluation(q, Matches(q)).queue)
<1> DEFINE m == Matches(q)
           Credited(ok) ==
             {i \in DOMAIN q : \E k \in DOMAIN results : m[k] = i /\ results[k].ok = ok}
           Found == {i \in Todo(q) : HasTemplate /\ q[i].id \in ToSet(Initial) \cap Recognised}
<1>1. RuleEvaluation(q, m).queue
        = Marked(Marked(Marked(q, Credited(TRUE), "done"), Credited(FALSE), "failed"),
                 Found, "done")
  BY DEF RuleEvaluation
<1>2. {"done", "failed"} \subseteq Statuses
  BY DEF Statuses
<1>3. \A i \in DOMAIN q : i \in Credited(TRUE) => Succeeded(q[i].id)
  BY MatchesAreOwn DEF Succeeded
<1>4. \A i \in DOMAIN q : i \in Credited(FALSE) => Failed(q[i].id)
  BY MatchesAreOwn DEF Failed
<1>5. \A i \in DOMAIN q : i \in Found => q[i].id \in Recognised
  OBVIOUS
<1>6. PICK S1, S2, S3 : /\ S1 = Credited(TRUE) /\ S2 = Credited(FALSE) /\ S3 = Found
  OBVIOUS
<1>7. PICK r1 : r1 = Marked(q, S1, "done")
  OBVIOUS
<1>8. PICK r2 : r2 = Marked(r1, S2, "failed")
  OBVIOUS
<1>9. PICK r3 : r3 = Marked(r2, S3, "done")
  OBVIOUS
<1>10. RuleEvaluation(q, m).queue = r3
  BY <1>1, <1>6, <1>7, <1>8, <1>9
<1> HIDE DEF Credited, Found
<1>11. r1 \in Seq(Task) /\ DOMAIN r1 = DOMAIN q
  BY <1>2, <1>7, MarkedType
<1>12. r2 \in Seq(Task) /\ DOMAIN r2 = DOMAIN q
  BY <1>2, <1>8, <1>11, MarkedType
<1>13. DOMAIN r3 = DOMAIN q
  BY <1>2, <1>9, <1>12, MarkedType
<1>14. ASSUME NEW i \in DOMAIN q
       PROVE  /\ r3[i].id = q[i].id
              /\ r3[i].status = IF i \in S3 THEN "done" ELSE IF i \in S2 THEN "failed"
                                ELSE IF i \in S1 THEN "done" ELSE q[i].status
  <2>1. r1[i].id = q[i].id /\ r1[i].status = IF i \in S1 THEN "done" ELSE q[i].status
    BY <1>2, <1>7, MarkedAt
  <2>2. r2[i].id = r1[i].id /\ r2[i].status = IF i \in S2 THEN "failed" ELSE r1[i].status
    BY <1>2, <1>8, <1>11, MarkedAt
  <2>3. r3[i].id = r2[i].id /\ r3[i].status = IF i \in S3 THEN "done" ELSE r2[i].status
    BY <1>2, <1>9, <1>12, MarkedAt
  <2>4. QED
    BY <2>1, <2>2, <2>3
<1>15. QED
  BY <1>3, <1>4, <1>5, <1>6, <1>10, <1>13, <1>14 DEF Judges

LEMMA BaseJudges ==
    ASSUME NamedGoals, TypeOK, UniqueIds, NEW b \in Bases
    PROVE  Judges(queue, b) /\ b \in Seq(Task) /\ Unique(b)
<1>1. queue \in Seq(Task) /\ results \in Seq(Result) /\ Unique(queue)
  BY DEF TypeOK, UniqueIds, Unique
<1>2. Judges(queue, queue)
  BY DEF Judges
<1>3. Judges(queue, b)
  BY <1>1, <1>2, RuleJudges DEF Bases
<1>4. QED
  BY <1>1, <1>3, BaseType

LEMMA ReflectorJudges ==
    ASSUME NamedGoals, ~LlmReflects, TypeOK, UniqueIds, Reflector
    PROVE  \A i \in DOMAIN queue :
             \/ queue'[i].status = queue[i].status
             \/ queue'[i].status = "done"
             \/ queue'[i].status = "failed" /\ Failed(queue[i].id)
<1>1. PICK r, s : /\ Appends(r, s)
                  /\ r = queue \/ \E e \in Evaluations : r = e.queue
  BY ReflectorAppends
<1>2. queue \in Seq(Task) /\ results \in Seq(Result)
  BY DEF TypeOK
<1>3. r \in Seq(Task) /\ Judges(queue, r)
  <2>1. CASE r = queue
    BY <1>2, <2>1 DEF Judges
  <2>2. CASE \E e \in Evaluations : r = e.queue
    <3>1. PICK b \in Bases : r = RuleEvaluation(b, Matches(b)).queue
      BY <2>2, RulesDecide
    <3>2. b \in Seq(Task) /\ Unique(b) /\ Judges(queue, b)
      BY BaseJudges
    <3>3. r \in Seq(Task) /\ Judges(b, r)
      BY <1>2, <3>1, <3>2, RuleEvaluationFrom, RuleJudges DEF QueueFrom
    <3>4. QED
      BY <3>2, <3>3 DEF Judges
  <2>3. QED
    BY <1>1, <2>1, <2>2
<1>4. \A i \in DOMAIN r : i \in DOMAIN queue' /\ queue'[i] = r[i]
  BY <1>1, <1>3, AddedType DEF Appends
<1>5. QED
  BY <1>3, <1>4 DEF Judges

-----------------------------------------------------------------------------
(* Work that succeeded is not repeated.                                     *)

(* What was written is in the queue, and DONE; and the results say what was *)
(* written and what not.                                                    *)
WorkKept ==
    pc # "aborted" =>
      /\ \A k \in DOMAIN results : results[k].ok = (results[k].task \in written)
      /\ written \subseteq Ids(queue)
      /\ \A i \in DOMAIN queue : queue[i].id \in written => queue[i].status = "done"

LEMMA WorkKeptStep ==
    ASSUME NamedGoals, ~LlmReflects, TypeOK, UniqueIds, EmptyUntilPlanned, WorkKept, [Next]_vars
    PROVE  WorkKept'
<1>1. CASE Planner
  <2>1. /\ PlansFrom(queue, queue') /\ pc # "aborted"
        /\ UNCHANGED <<results, written>>
    BY <1>1, PlannerPlans DEF Planner
  <2>2. written \subseteq Ids(queue')
    BY <2>1 DEF PlansFrom, WorkKept
  <2>3. ASSUME NEW j \in DOMAIN queue', queue'[j].id \in written
        PROVE  queue'[j].status = "done"
    <3>1. queue'[j].id \in Ids(queue)
      BY <2>1, <2>3 DEF WorkKept
    <3>2. j \in DOMAIN queue /\ queue'[j].id = queue[j].id
      BY <2>1, <3>1 DEF PlansFrom
    <3>3. queue[j].status = "done"
      BY <2>1, <2>3, <3>2 DEF WorkKept
    <3>4. QED
      BY <2>1, <3>1, <3>2, <3>3 DEF PlansFrom
  <2>4. QED
    BY <2>1, <2>2, <2>3 DEF WorkKept
<1>2. CASE ToolExecutorBatch \/ ToolExecutorSingle \/ Python
  <2>1. PICK F, ok : Runs(F, ok)
    BY <1>2, ExecutionRuns
  <2>2. pc # "aborted"
    BY <1>2 DEF ToolExecutorBatch, ToolExecutorSingle, Python
  <2>3. Ids(queue') = Ids(queue) /\ IdsAt(queue, ok) \subseteq Ids(queue)
    BY <2>1 DEF Runs, Ids, IdsAt
  <2>4. \A i \in DOMAIN queue : queue[i].id \in written' <=> queue[i].id \in written \/ i \in ok
    BY <2>1 DEF Runs, IdsAt, UniqueIds
  <2>5. \A i \in F : queue[i].id \notin written
    BY <2>1, <2>2 DEF Runs, WorkKept
  <2>6. \A k \in DOMAIN results' : results'[k].ok = (results'[k].task \in written')
    <3>1. SUFFICES ASSUME NEW k \in DOMAIN results'
                   PROVE  results'[k].ok = (results'[k].task \in written')
      OBVIOUS
    <3>2. PICK i \in F : results'[k].task = queue[i].id /\ results'[k].ok = (i \in ok)
      BY <2>1 DEF Runs
    <3>3. i \in DOMAIN queue
      BY <2>1 DEF Runs
    <3>4. (queue[i].id \in written') <=> (i \in ok)
      BY <2>4, <2>5, <3>3
    <3>5. QED
      BY <3>2, <3>4
  <2>7. written' \subseteq Ids(queue')
    BY <2>1, <2>2, <2>3 DEF Runs, WorkKept
  <2>8. \A i \in DOMAIN queue' : queue'[i].id \in written' => queue'[i].status = "done"
    BY <2>1, <2>2, <2>4, <2>5 DEF Runs, WorkKept
  <2>9. QED
    BY <2>6, <2>7, <2>8 DEF WorkKept
<1>3. CASE ToolExecutorBatchRaises
  BY <1>3 DEF ToolExecutorBatchRaises, WorkKept
<1>4. CASE QueryRewriter \/ Search
  <2>1. /\ UNCHANGED <<results, written>> /\ pc # "aborted"
        /\ Moves(queue, queue', "todo", "running") \/ Moves(queue, queue', "running", "done")
    BY <1>4, SearchMoves DEF QueryRewriter, Search
  <2>2. Ids(queue') = Ids(queue)
    BY <2>1 DEF Moves, Ids
  <2>3. QED
    BY <2>1, <2>2 DEF WorkKept, Moves
<1>5. CASE Reflector
  <2>1. /\ UNCHANGED <<results, written>> /\ pc # "aborted"
        /\ Reflects(queue, queue')
    BY <1>5, ReflectorReflects DEF Reflector
  <2>2. Ids(queue) \subseteq Ids(queue')
    BY <2>1 DEF Reflects, Ids
  <2>3. ASSUME NEW j \in DOMAIN queue', queue'[j].id \in written
        PROVE  queue'[j].status = "done"
    <3>1. j \in DOMAIN queue /\ queue'[j].id = queue[j].id
      BY <2>1, <2>3 DEF Reflects, OnDisk
    <3>2. queue[j].status = "done" /\ ~Failed(queue[j].id)
      BY <2>1, <2>3, <3>1 DEF WorkKept, Failed
    <3>3. QED
      BY <1>5, <3>1, <3>2, ReflectorJudges
  <2>4. QED
    BY <2>1, <2>2, <2>3 DEF WorkKept
<1>6. CASE \/ ConversationManager \/ GoalAnalyzer \/ GoalAnalyzerCrash \/ Knowledge
           \/ Answer \/ Memory \/ RecursionLimitHit \/ Finish \/ UNCHANGED vars
  <2>1. /\ UNCHANGED <<queue, results, written>>
        /\ pc = "aborted" => pc' = "aborted"
    BY <1>6 DEF ConversationManager, GoalAnalyzer, GoalAnalyzerCrash, Knowledge, Answer,
                Memory, RecursionLimitHit, Finish, vars, Nodes
  <2>2. QED
    BY <2>1 DEF WorkKept, Ids
<1>7. QED
  BY <1>1, <1>2, <1>3, <1>4, <1>5, <1>6 DEF Next, Step

(* No step hands a task to its tool once that has succeeded.                *)
LEMMA WorkNotRedone ==
    ASSUME TypeOK, WorkKept, [Next]_vars
    PROVE  \A t \in written : attempts'[t] = attempts[t]
<1>1. written \subseteq TaskIds
  BY DEF TypeOK
<1>2. ASSUME NEW F, F \subseteq DOMAIN queue, Counts(F), pc # "aborted",
             \A i \in F : queue[i].status \in {"todo", "running"}
      PROVE  \A t \in written : attempts'[t] = attempts[t]
  BY <1>1, <1>2 DEF Counts, IdsAt, WorkKept
<1>3. CASE ToolExecutorBatch \/ ToolExecutorSingle \/ Python
  <2>1. PICK F, ok : Runs(F, ok) /\ Counts(F)
    BY <1>3, ExecutionRuns
  <2>2. QED
    BY <1>2, <1>3, <2>1 DEF Runs, ToolExecutorBatch, ToolExecutorSingle, Python
<1>4. CASE ToolExecutorBatchRaises
  BY <1>2, <1>4, RaisedCounts DEF ToolExecutorBatchRaises
<1>5. CASE ~(ToolExecutorBatch \/ ToolExecutorSingle \/ Python \/ ToolExecutorBatchRaises)
  <2>1. CASE Planner
    <3>1. PICK q, p, err : Planned(q, p, err)
      BY <2>1, PlannerCases DEF PlannerOutcome
    <3>2. QED
      BY <3>1 DEF Planned
  <2>2. CASE Reflector
    BY <2>2, ReflectorAppends
  <2>3. CASE ~Planner /\ ~Reflector
    BY <1>5, <2>3 DEF Next, Step, ConversationManager, GoalAnalyzer, GoalAnalyzerCrash,
         Knowledge, QueryRewriter, Search, Answer, Memory, RecursionLimitHit, Finish, vars
  <2>4. QED
    BY <2>1, <2>2, <2>3
<1>6. QED
  BY <1>3, <1>4, <1>5

(* Under rule-based reflection, with goals that name their tasks, no step   *)
(* repeats work that succeeded: a DONE task is neither re-issued nor failed *)
(* by a stale result, and a written file is no fallback any more.           *)
THEOREM WorkIsNeverRedone ==
    ASSUME ~LlmReflects, NamedGoals
    PROVE  Spec => NoWorkRedone
<1>1. Init => TypeOK /\ UniqueIds /\ EmptyUntilPlanned /\ WorkKept
  BY InitType DEF Init, UniqueIds, EmptyUntilPlanned, WorkKept, Ids
<1>2. TypeOK /\ UniqueIds /\ EmptyUntilPlanned /\ WorkKept /\ [Next]_vars
      => (TypeOK /\ UniqueIds /\ EmptyUntilPlanned /\ WorkKept)'
  BY TypeStep, UniqueStep, EmptyStep, WorkKeptStep
<1>3. TypeOK /\ WorkKept /\ [Next]_vars => [\A t \in written : attempts'[t] = attempts[t]]_vars
  BY WorkNotRedone
<1>4. QED
  BY <1>1, <1>2, <1>3, PTL DEF Spec, NoWorkRedone

-----------------------------------------------------------------------------
(* DONE means done.                                                         *)

(* Every DONE task that is no search ran, or its file was there before.     *)
AllRan(q) ==
    \A i \in DOMAIN q :
       q[i].status = "done" /\ Kind[q[i].id] # "search" => q[i].id \in OnDisk

(* The circumstances: goals that name their tasks, templates that recognise *)
(* only what is there, and an LLM that does not itself write DONE.          *)
HonestStatuses ==
    /\ NamedGoals
    /\ Recognised \subseteq Existing
    /\ LlmReflects => "done" \notin LlmStatuses

(* A result that tells of a success is that of a task which succeeded; and  *)
(* as long as the run has not left its loop, DONE means done.               *)
RanSoFar ==
    /\ \A k \in DOMAIN results : results[k].ok => results[k].task \in written
    /\ pc \notin Leaving => AllRan(queue)

LEMMA JudgedRan ==
    ASSUME HonestStatuses, RanSoFar, NEW q, NEW r, Judges(q, r), AllRan(q)
    PROVE  AllRan(r)
BY DEF HonestStatuses, RanSoFar, Judges, AllRan, Succeeded, OnDisk

LEMMA AddedRan ==
    ASSUME NEW q \in Seq(Task), NEW ts \in Seq(TaskIds), AllRan(q)
    PROVE  AllRan(Added(q, ts))
BY AddedType DEF AllRan

LEMMA LlmRan ==
    ASSUME HonestStatuses, LlmReflects, NEW q \in Seq(Task), AllRan(q), NEW r \in LlmQueues(q)
    PROVE  AllRan(r)
<1>1. PICK added \in LlmAdditions(q) : r \in Removals(added)
  BY DEF LlmQueues
<1>2. PICK u \in LlmUpdates(q) : added \in Additions(u)
  BY DEF LlmAdditions
<1>3. u \in Seq(Task)
  BY LlmUpdateFrom DEF QueueFrom
<1>4. AllRan(u)
  <2>1. CASE u # q
    <3>1. PICK i \in DOMAIN q : u \in UpdatesAt(q, i)
      BY <1>2, <2>1 DEF LlmUpdates
    <3>2. PICK s \in LlmStatuses \cup {q[i].status}, pr \in LlmPrios \cup {q[i].prio} :
                 u = [q EXCEPT ![i] = [id |-> q[i].id, status |-> s, prio |-> pr]]
      BY <3>1 DEF UpdatesAt
    <3>3. s = "done" => q[i].status = "done"
      BY <3>2 DEF HonestStatuses
    <3>4. /\ DOMAIN u = DOMAIN q
          /\ u[i].id = q[i].id /\ u[i].status = s
          /\ \A j \in DOMAIN q : j # i => u[j] = q[j]
      BY <3>2
    <3>5. QED
      BY <3>3, <3>4 DEF AllRan
  <2>2. QED
    BY <2>1
<1>5. added \in Seq(Task) /\ AllRan(added)
  <2>1. CASE added # u
    <3>1. PICK t \in TaskIds \ Ids(u) : added = Added(u, <<t>>)
      BY <1>2, <2>1 DEF Additions
    <3>2. <<t>> \in Seq(TaskIds)
      BY <3>1
    <3>3. QED
      BY <1>3, <1>4, <3>1, <3>2, AddedType, AddedRan
  <2>2. QED
    BY <1>3, <1>4, <2>1
<1>6. CASE r # added
  <2>1. PICK i \in DOMAIN added : r = RemoveAt(added, i)
    BY <1>1, <1>6 DEF Removals
  <2>2. \A k \in DOMAIN r : \E j \in DOMAIN added : r[k] = added[j]
    BY <1>5, <2>1, Removed
  <2>3. QED
    BY <1>5, <2>2 DEF AllRan
<1>7. QED
  BY <1>5, <1>6

LEMMA EvaluationRan ==
    ASSUME HonestStatuses, TypeOK, UniqueIds, RanSoFar, AllRan(queue), NEW e \in Evaluations
    PROVE  AllRan(e.queue)
<1>1. results \in Seq(Result)
  BY DEF TypeOK
<1>2. NamedGoals
  BY DEF HonestStatuses
<1>3. ASSUME NEW b \in Bases
      PROVE  /\ b \in Seq(Task) /\ AllRan(b)
             /\ AllRan(RuleEvaluation(b, Matches(b)).queue)
  <2>1. b \in Seq(Task) /\ Unique(b) /\ Judges(queue, b)
    BY <1>2, BaseJudges
  <2>2. AllRan(b)
    BY <2>1, JudgedRan
  <2>3. Judges(b, RuleEvaluation(b, Matches(b)).queue)
    BY <1>1, <1>2, <2>1, RuleJudges
  <2>4. QED
    BY <2>1, <2>2, <2>3, JudgedRan
<1>4. \E b \in Bases : \/ e = RuleEvaluation(b, Matches(b))
                       \/ LlmReflects /\ e.queue \in LlmQueues(b)
  BY DEF Evaluations, EvaluationsFrom, Bases
<1>5. QED
  BY <1>3, <1>4, LlmRan

(* A batch that raises has made tasks DONE whose call succeeded.            *)
LEMMA RaisedRan ==
    ASSUME TypeOK, AllRan(queue), ToolExecutorBatchRaises
    PROVE  AllRan(queue)'
<1>1. PICK b \in BatchOrders(ParallelTasks), k \in 1 .. Cardinality(ParallelTasks) :
      \E ok \in SUBSET (ParallelTasks \ {b[k]}) :
        /\ queue' = Marked(Marked(Marked(queue, ParallelTasks, "running"),
                                  {b[j] : j \in 1 .. (k - 1)} \cap ok, "done"),
                           {b[j] : j \in 1 .. (k - 1)} \ ok, "failed")
        /\ written' = written \cup {queue[i].id : i \in ok}
  BY DEF ToolExecutorBatchRaises
<1>2. PICK ok, settled :
        /\ queue' = Marked(Marked(Marked(queue, ParallelTasks, "running"),
                                  settled \cap ok, "done"), settled \ ok, "failed")
        /\ written' = written \cup {queue[i].id : i \in ok}
  BY <1>1
<1>3. queue \in Seq(Task) /\ {"running", "done", "failed"} \subseteq Statuses
  BY DEF TypeOK, Statuses
<1>4. PICK r1 : r1 = Marked(queue, ParallelTasks, "running")
  OBVIOUS
<1>5. r1 \in Seq(Task) /\ DOMAIN r1 = DOMAIN queue
  BY <1>3, <1>4, MarkedType
<1>6. PICK D : D = settled \cap ok
  OBVIOUS
<1>7. PICK r2 : r2 = Marked(r1, D, "done")
  OBVIOUS
<1>8. r2 \in Seq(Task) /\ DOMAIN r2 = DOMAIN queue
  BY <1>3, <1>5, <1>7, MarkedType
<1>9. PICK S : S = settled \ ok
  OBVIOUS
<1>10. queue' = Marked(r2, S, "failed")
  BY <1>2, <1>4, <1>6, <1>7, <1>9
<1>11. DOMAIN queue' = DOMAIN queue
  BY <1>3, <1>8, <1>10, MarkedType
<1>12. ASSUME NEW i \in DOMAIN queue
       PROVE  /\ queue'[i].id = queue[i].id
              /\ queue'[i].status = "done" => i \in ok \/ queue[i].status = "done"
  <2>1. /\ r1[i].id = queue[i].id
        /\ r1[i].status = IF i \in ParallelTasks THEN "running" ELSE queue[i].status
    BY <1>3, <1>4, MarkedAt
  <2>2. r2[i].id = r1[i].id /\ r2[i].status = IF i \in D THEN "done" ELSE r1[i].status
    BY <1>3, <1>5, <1>7, MarkedAt
  <2>3. queue'[i].id = r2[i].id /\ queue'[i].status = IF i \in S THEN "failed" ELSE r2[i].status
    BY <1>3, <1>8, <1>10, MarkedAt
  <2>4. QED
    BY <1>6, <2>1, <2>2, <2>3
<1>13. QED
  BY <1>2, <1>11, <1>12 DEF AllRan, OnDisk

(* What every step does to DONE tasks, the search node's excepted.          *)
LEMMA RanStep ==
    ASSUME HonestStatuses, TypeOK, UniqueIds, EmptyUntilPlanned, RanSoFar, [Next]_vars
    PROVE  RanSoFar' /\ (AllRan(queue) /\ ~Search => AllRan(queue)')
<1> DEFINE Told == \A k \in DOMAIN results : results[k].ok => results[k].task \in written
<1>1. Told /\ (pc \notin Leaving => AllRan(queue))
  BY DEF RanSoFar
<1>2. ASSUME Told', AllRan(queue) => AllRan(queue)', pc \in Leaving => pc' \in Leaving
      PROVE  RanSoFar' /\ (AllRan(queue) => AllRan(queue)')
  BY <1>1, <1>2 DEF RanSoFar
<1>3. CASE Planner
  <2>1. /\ PlansFrom(queue, queue') /\ UNCHANGED <<results, written>> /\ pc \notin Leaving
    BY <1>3, PlannerPlans DEF Planner, Leaving
  <2>2. Told'
    BY <1>1, <2>1
  <2>3. AllRan(queue) => AllRan(queue)'
    BY <2>1 DEF PlansFrom, AllRan, OnDisk, HonestStatuses
  <2>4. QED
    BY <1>2, <2>1, <2>2, <2>3
<1>4. CASE ToolExecutorBatch \/ ToolExecutorSingle \/ Python
  <2>1. PICK F, ok : Runs(F, ok)
    BY <1>4, ExecutionRuns
  <2>2. pc \notin Leaving
    BY <1>4 DEF ToolExecutorBatch, ToolExecutorSingle, Python, Leaving
  <2>3. Told'
    BY <2>1 DEF Runs, IdsAt
  <2>4. AllRan(queue) => AllRan(queue)'
    BY <2>1 DEF Runs, IdsAt, AllRan, OnDisk
  <2>5. QED
    BY <1>2, <2>2, <2>3, <2>4
<1>5. CASE ToolExecutorBatchRaises
  <2>1. results' = results /\ written \subseteq written' /\ pc \notin Leaving
    BY <1>5 DEF ToolExecutorBatchRaises, Leaving
  <2>2. Told'
    BY <1>1, <2>1
  <2>3. QED
    BY <1>2, <1>5, <2>1, <2>2, RaisedRan
<1>6. CASE QueryRewriter
  <2>1. /\ UNCHANGED <<results, written>> /\ pc \notin Leaving
        /\ Moves(queue, queue', "todo", "running")
    BY <1>6, SearchMoves DEF QueryRewriter, Leaving
  <2>2. Told'
    BY <1>1, <2>1
  <2>3. AllRan(queue) => AllRan(queue)'
    BY <2>1 DEF Moves, AllRan, OnDisk
  <2>4. QED
    BY <1>2, <2>1, <2>2, <2>3
<1>7. CASE Search
  <2>1. UNCHANGED <<results, written>> /\ pc' \in Leaving
    BY <1>7 DEF Search, Leaving
  <2>2. QED
    BY <1>1, <1>7, <2>1 DEF RanSoFar
<1>8. CASE Reflector
  <2>1. PICK r, s : /\ Appends(r, s)
                    /\ r = queue \/ \E e \in Evaluations : r = e.queue
    BY <1>8, ReflectorAppends
  <2>2. UNCHANGED <<results, written>> /\ pc \notin Leaving
    BY <1>8, ReflectorAppends DEF Reflector, Leaving
  <2>3. queue \in Seq(Task)
    BY DEF TypeOK
  <2>4. r \in Seq(Task)
    BY <2>1, <2>3, EvaluationFrom DEF QueueFrom
  <2>5. ASSUME AllRan(queue)
        PROVE  AllRan(queue)'
    <3>1. AllRan(r)
      BY <2>1, <2>5, EvaluationRan
    <3>2. AllRan(queue')
      BY <2>1, <2>4, <3>1, AddedRan DEF Appends
    <3>3. QED
      BY <2>2, <3>2 DEF AllRan, OnDisk
  <2>6. Told'
    BY <1>1, <2>2
  <2>7. QED
    BY <1>2, <2>2, <2>5, <2>6
<1>9. CASE \/ ConversationManager \/ GoalAnalyzer \/ GoalAnalyzerCrash \/ Knowledge
           \/ Answer \/ Memory \/ RecursionLimitHit \/ Finish \/ UNCHANGED vars
  <2>1. /\ UNCHANGED <<queue, results, written>>
        /\ pc \in Leaving => pc' \in Leaving
    BY <1>9 DEF ConversationManager, GoalAnalyzer, GoalAnalyzerCrash, Knowledge, Answer,
                Memory, RecursionLimitHit, Finish, vars, Nodes, Leaving
  <2>2. Told' /\ (AllRan(queue) => AllRan(queue)')
    BY <1>1, <2>1 DEF AllRan, OnDisk
  <2>3. QED
    BY <1>2, <2>1, <2>2
<1>10. QED
  BY <1>3, <1>4, <1>5, <1>6, <1>7, <1>8, <1>9 DEF Next, Step

(* A set of positions that is not empty has a foremost one.                 *)
LEMMA ForemostExists ==
    ASSUME NEW q \in Seq(Task), NEW S \in SUBSET DOMAIN q, S # {}
    PROVE  Foremost(q, S) \in S
<1> DEFINE Ahead(j, i) == q[j].prio > q[i].prio \/ (q[j].prio = q[i].prio /\ j < i)
           UpTo(i) == {j \in S : j = i \/ Ahead(j, i)}
           Ranks == {Cardinality(UpTo(i)) : i \in S}
<1>1. \A i \in S : i \in Int /\ q[i].prio \in Nat
  <2>1. \A i \in S : q[i] \in Task
    BY QueueElement
  <2>2. DOMAIN q \subseteq Int
    BY LenProperties
  <2>3. QED
    BY <2>1, <2>2 DEF Task
<1>2. \A i \in S : UpTo(i) \in SUBSET S /\ i \in UpTo(i)
  OBVIOUS
<1>3. IsFiniteSet(S)
  <2>1. Len(q) \in Nat /\ DOMAIN q = 1 .. Len(q)
    BY LenProperties
  <2>2. IsFiniteSet(DOMAIN q)
    BY <2>1, FS_Interval
  <2>3. QED
    BY <2>2, FS_Subset
<1>4. \A i \in S : IsFiniteSet(UpTo(i)) /\ Cardinality(UpTo(i)) \in Nat
  BY <1>2, <1>3, FS_Subset, FS_CardinalityType
<1>5. PICK i \in S : \A j \in S : ~(Cardinality(UpTo(j)) < Cardinality(UpTo(i)))
  <2>1. Ranks \subseteq Nat /\ Ranks # {}
    BY <1>4
  <2>2. PICK n \in Ranks : \A m \in Ranks : ~(<<m, n>> \in OpToRel(<, Nat))
    BY <2>1, NatLessThanWellFounded, WFMin
  <2>3. \A m \in Ranks : ~(m < n)
    BY <2>1, <2>2 DEF OpToRel
  <2>4. QED
    BY <2>3
<1>6. ASSUME NEW k \in S, k # i
      PROVE  ~Ahead(k, i)
  <2>1. SUFFICES ASSUME Ahead(k, i) PROVE FALSE
    OBVIOUS
  <2>2. UpTo(k) \in SUBSET UpTo(i) /\ i \notin UpTo(k)
    BY <1>1, <1>6, <2>1
  <2> HIDE DEF UpTo
  <2>3. Cardinality(UpTo(k)) < Cardinality(UpTo(i))
    BY <1>2, <1>4, <2>2, FS_Subset
  <2>4. QED
    BY <1>5, <2>3
<1>7. IsForemost(q, S, i)
  BY <1>1, <1>6 DEF IsForemost
<1>8. QED
  BY <1>7 DEF Foremost

(* Without search tasks no router enters the search chain.                  *)
NoSearchTasks == \A t \in TaskIds : Kind[t] # "search"

LEMMA NoSearchRoute ==
    ASSUME NoSearchTasks, NEW q \in Seq(Task), NEW idle, NEW onKnowledge,
           idle # "query_rewriter", onKnowledge # "query_rewriter"
    PROVE  NextNode(q, idle, onKnowledge) # "query_rewriter"
<1>1. CASE Todo(q) # {}
  <2>1. Foremost(q, Todo(q)) \in DOMAIN q
    BY <1>1, ForemostExists DEF Todo
  <2>2. Kind[q[Foremost(q, Todo(q))].id] # "search"
    BY <2>1, QueueElement DEF NoSearchTasks, Task
  <2>3. QED
    BY <1>1, <2>2 DEF NextNode
<1>2. QED
  BY <1>1 DEF NextNode

NotSearching == pc \notin {"query_rewriter", "search"}

LEMMA NotSearchingStep ==
    ASSUME NoSearchTasks, TypeOK, NotSearching, [Next]_vars
    PROVE  NotSearching'
<1>1. queue' \in Seq(Task)
  BY TypeStep DEF TypeOK
<1>2. CASE Planner
  <2>1. PICK q \in Seq(Task), p \in Plans, err \in BOOLEAN : Planned(q, p, err)
    BY <1>2, PlannerCases DEF PlannerOutcome
  <2>2. pc' = "answer" \/ pc' = NextNode(q, "reflector", "reflector")
    BY <2>1 DEF Planned, RouteAfterPlanner
  <2>3. pc' # "query_rewriter" /\ pc' # "search"
    BY <2>2, NoSearchRoute, RouteTypes DEF Nodes
  <2>4. QED
    BY <2>3 DEF NotSearching
<1>3. CASE ToolExecutorBatch \/ ToolExecutorSingle \/ Python
  <2>1. PICK b, ok : Executed(b, ok)
    BY <1>3, ExecutionCases
  <2>2. pc' = "reflector" \/ pc' = NextNode(queue', "reflector", "reflector")
    BY <2>1 DEF Executed, RouteAfterExecutor
  <2>3. pc' # "query_rewriter" /\ pc' # "search"
    BY <1>1, <2>2, NoSearchRoute, RouteTypes DEF Nodes
  <2>4. QED
    BY <2>3 DEF NotSearching
<1>4. CASE Reflector
  <2>1. PICK q \in Seq(Task), v \in Verdicts, n \in Nat : Reflected(q, v, n)
    BY <1>4, ReflectorCases DEF ReflectorOutcome
  <2>2. \/ pc' \in {"answer", "planner"}
        \/ pc' = NextNode(q, "answer", "planner") \/ pc' = NextNode(q, "planner", "planner")
    BY <2>1 DEF Reflected, RouteAfterReflector, Verdicts
  <2>3. pc' # "query_rewriter" /\ pc' # "search"
    BY <2>2, NoSearchRoute, RouteTypes DEF Nodes
  <2>4. QED
    BY <2>3 DEF NotSearching
<1>5. CASE GoalAnalyzer \/ GoalAnalyzerCrash
  <2>1. pc' \in {"knowledge", "answer", "planner"}
    BY <1>5, GoalRouted DEF GoalAnalyzer, GoalAnalyzerCrash
  <2>2. QED
    BY <2>1 DEF NotSearching
<1>6. CASE \/ QueryRewriter \/ Search \/ ConversationManager \/ Knowledge
           \/ ToolExecutorBatchRaises \/ Answer \/ Memory \/ RecursionLimitHit
           \/ Finish \/ UNCHANGED vars
  BY <1>6 DEF NotSearching, QueryRewriter, Search, ConversationManager, Knowledge,
              ToolExecutorBatchRaises, Answer, Memory, RecursionLimitHit, Finish, vars
<1>7. QED
  BY <1>2, <1>3, <1>4, <1>5, <1>6 DEF Next, Step

(* Without search tasks, whose chain marks other tasks DONE, and under      *)
(* honest statuses a DONE task really ran, or its file was there: no result *)
(* of one task is credited to another.                                      *)
THEOREM DoneAlwaysMeansRan ==
    ASSUME HonestStatuses, NoSearchTasks
    PROVE  Spec => []DoneMeansRan
<1>1. AllRan(queue) <=> DoneMeansRan
  BY DEF AllRan, DoneMeansRan
<1>2. Init => TypeOK /\ UniqueIds /\ EmptyUntilPlanned /\ RanSoFar /\ NotSearching /\ AllRan(queue)
  BY InitType DEF Init, UniqueIds, EmptyUntilPlanned, RanSoFar, NotSearching, AllRan
<1>3. /\ TypeOK /\ UniqueIds /\ EmptyUntilPlanned /\ RanSoFar /\ NotSearching /\ AllRan(queue)
      /\ [Next]_vars
      => (TypeOK /\ UniqueIds /\ EmptyUntilPlanned /\ RanSoFar /\ NotSearching /\ AllRan(queue))'
  <2>1. NotSearching => ~Search
    BY DEF NotSearching, Search
  <2>2. QED
    BY <2>1, TypeStep, UniqueStep, EmptyStep, RanStep, NotSearchingStep
<1>4. QED
  BY <1>1, <1>2, <1>3, PTL DEF Spec

-----------------------------------------------------------------------------
(* Completion is declared only when it is earned.                           *)

LEMMA ReflectorCompletes ==
    ASSUME ~AgentsCrash, Reflector, queue' # <<>>, verdict' = "done", ~genFailed'
    PROVE  \E e \in Evaluations, s \in Seq(TaskIds) :
             /\ queue' = Added(e.queue, s)
             /\ TemplateDone(queue') \/ (e.completed /\ DOMAIN s = {})
<1>1. \A q, v, n : Reflected(q, v, n) => queue' = q /\ verdict' = v
  BY DEF Reflected
<1>2. CASE ReflectEmptyQueue
  BY <1>1, <1>2 DEF ReflectEmptyQueue
<1>3. CASE ReflectQueue
  <2> DEFINE Stuck(e) == IF e.completed THEN ~HasFileCreation(e.queue)
                         ELSE Todo(e.queue) = {}
             Missing(e) == IF Stuck(e) THEN GeneratedFor(e.queue) ELSE {}
             Completed(e, q) == \/ IF Stuck(e) THEN Generated = {} ELSE e.completed
                                \/ TemplateDone(q)
             Body(e, q) == /\ genFailed' = (genFailed \/ (Stuck(e) /\ Generated = {}))
                           /\ IF Completed(e, q) THEN Reflected(q, "done", replans)
                              ELSE IF e.replan THEN Reflected(q, "replan", replans + 1)
                              ELSE Reflected(q, "next", replans)
  <2>1. \E e \in Evaluations : \E s \in FallbackOrders(Missing(e)) :
           \E q \in {Added(e.queue, s)} : Body(e, q)
    BY <1>3 DEF ReflectQueue
  <2>2. PICK e \in Evaluations : \E s \in FallbackOrders(Missing(e)) :
           \E q \in {Added(e.queue, s)} : Body(e, q)
    BY <2>1
  <2>3. PICK s \in FallbackOrders(Missing(e)) : \E q \in {Added(e.queue, s)} : Body(e, q)
    BY <2>2
  <2>4. PICK q : q = Added(e.queue, s) /\ Body(e, q)
    BY <2>3
  <2>5. queue' = q /\ Completed(e, q)
    BY <1>1, <2>4
  <2>6. TemplateDone(q) \/ (e.completed /\ ~Stuck(e))
    BY <2>4, <2>5
  <2>7. s \in Seq(TaskIds) /\ \A k \in DOMAIN s : s[k] \in Missing(e)
    BY <2>3, FallbackOrderType DEF GeneratedFor
  <2>8. ~Stuck(e) => DOMAIN s = {}
    BY <2>7
  <2>9. QED
    BY <2>4, <2>5, <2>6, <2>7, <2>8
<1>4. QED
  BY <1>2, <1>3 DEF Reflector, ReflectorCrash

(* The template's tasks are done, or every task is and a file was created.  *)
GoalReached(q) ==
    \/ TemplateDone(q)
    \/ /\ \A i \in DOMAIN q : q[i].status = "done"
       /\ \E i \in DOMAIN q : IsFileCreation(q[i].id) /\ q[i].id \in OnDisk

LEMMA ReflectorEarns ==
    ASSUME ~LlmReflects, ~AgentsCrash, HonestStatuses, TypeOK, UniqueIds, RanSoFar, Reflector,
           queue' # <<>>, verdict' = "done", ~genFailed', goal \in {"project", "coding"}
    PROVE  GoalReached(queue')
<1>1. PICK e \in Evaluations, s \in Seq(TaskIds) :
         /\ queue' = Added(e.queue, s)
         /\ TemplateDone(queue') \/ (e.completed /\ DOMAIN s = {})
  BY ReflectorCompletes
<1>2. PICK b \in Bases : e = RuleEvaluation(b, Matches(b))
  BY RulesDecide
<1>3. NamedGoals /\ results \in Seq(Result) /\ AllRan(queue)
  BY DEF HonestStatuses, TypeOK, RanSoFar, Reflector, Leaving
<1>4. b \in Seq(Task) /\ Unique(b) /\ Judges(queue, b)
  BY <1>3, BaseJudges
<1>5. AllRan(b)
  BY <1>3, <1>4, JudgedRan
<1>6. e.queue \in Seq(Task) /\ Judges(b, e.queue)
  BY <1>2, <1>3, <1>4, RuleJudges, RuleEvaluationFrom DEF QueueFrom
<1>7. /\ \A i \in DOMAIN e.queue : i \in DOMAIN queue' /\ queue'[i] = e.queue[i]
      /\ \A i \in DOMAIN queue' \ DOMAIN e.queue : i - Len(e.queue) \in DOMAIN s
  BY <1>1, <1>6, AddedType
<1>8. CASE e.completed /\ DOMAIN s = {}
  <2>1. DOMAIN queue' = DOMAIN e.queue /\ \A i \in DOMAIN queue' : queue'[i] = e.queue[i]
    BY <1>7, <1>8
  <2>2. RuleCompletes(b, e.queue) /\ \A k \in DOMAIN results : results[k].ok
    BY <1>2, <1>8 DEF RuleEvaluation
  <2>3. CASE HasTemplate
    <3>1. TemplateDone(e.queue)
      BY <2>2, <2>3 DEF RuleCompletes
    <3>2. TemplateDone(queue')
      BY <2>1, <3>1 DEF TemplateDone
    <3>3. QED
      BY <3>2 DEF GoalReached
  <2>4. CASE ~HasTemplate
    <3>1. AllProjectTasksDone(b)
      BY <2>2, <2>4 DEF RuleCompletes
    <3>2. \A i \in DOMAIN queue' : queue'[i].status = "done" /\ i \in DOMAIN b
                                   /\ queue'[i].id = b[i].id
      BY <1>6, <2>1, <2>2, <3>1 DEF Judges, Failed, AllProjectTasksDone
    <3>3. PICK i \in DOMAIN b : IsFileCreation(b[i].id) /\ b[i].status = "done"
      BY <3>1 DEF AllProjectTasksDone, HasFileCreation
    <3>4. b[i].id \in OnDisk
      BY <1>5, <3>3 DEF AllRan, IsFileCreation
    <3>5. i \in DOMAIN queue' /\ queue'[i].id = b[i].id
      BY <1>6, <2>1 DEF Judges
    <3>6. QED
      BY <3>2, <3>3, <3>4, <3>5 DEF GoalReached
  <2>5. QED
    BY <2>3, <2>4
<1>9. QED
  BY <1>1, <1>8 DEF GoalReached

(* A verdict that the goal is reached ends the loop, and was earned.        *)
Earned ==
    /\ verdict = "done" => pc \in Leaving
    /\ CompletionIsEarned

LEMMA EarnedStep ==
    ASSUME ~LlmReflects, ~AgentsCrash, HonestStatuses,
           TypeOK, UniqueIds, EmptyUntilPlanned, RanSoFar, Earned, [Next]_vars
    PROVE  Earned'
<1>1. (GoalReached(queue) => CompletionIsEarned) /\ (GoalReached(queue)' => CompletionIsEarned')
  BY DEF GoalReached, CompletionIsEarned
<1>2. CASE Planner
  <2>1. PICK q, p, err : Planned(q, p, err) /\ p \in {"open", "completed"}
    <3>1. \/ \E q : Planned(q, "completed", llmError) \/ Planned(q, "open", llmError)
          \/ \E q : Planned(q, "completed", TRUE)
      BY <1>2 DEF Planner, PlanDirectAnswer, PlanDegraded, PlanFromTemplate, PlanTasks,
                  PlanCompleted, PlanNothing, PlannerCrash
    <3>2. QED
      BY <3>1
  <2>2. verdict # "done"
    BY <1>2 DEF Earned, Planner, Leaving
  <2>3. verdict' = "done" => plan' = "completed" /\ pc' = "answer"
    BY <2>1, <2>2 DEF Planned, RouteAfterPlanner
  <2>4. QED
    BY <2>3 DEF Earned, CompletionIsEarned, Leaving
<1>3. CASE Reflector
  <2>1. PICK q, v, n : Reflected(q, v, n)
    BY <1>3, ReflectorCases DEF ReflectorOutcome
  <2>2. verdict' = "done" => pc' = "answer"
    BY <2>1 DEF Reflected, RouteAfterReflector
  <2>3. UNCHANGED <<goal, written>>
    BY <2>1 DEF Reflected
  <2>4. CompletionIsEarned'
    <3>1. SUFFICES ASSUME verdict' = "done", ~genFailed', queue' # <<>>,
                          goal' \in {"project", "coding"}
                   PROVE  GoalReached(queue)'
      BY <1>1 DEF CompletionIsEarned
    <3>2. GoalReached(queue')
      BY <1>3, <2>3, <3>1, ReflectorEarns
    <3>3. QED
      BY <2>3, <3>2 DEF GoalReached, TemplateDone, HasTemplate, OnDisk
  <2>5. QED
    BY <2>2, <2>4 DEF Earned, Leaving
<1>4. CASE GoalAnalyzer \/ GoalAnalyzerCrash \/ Search
  BY <1>4 DEF GoalAnalyzer, GoalAnalyzerCrash, Search, Earned, CompletionIsEarned, Leaving
<1>5. CASE ToolExecutorBatch \/ ToolExecutorSingle \/ Python
  <2>1. /\ verdict' = verdict /\ pc \notin Leaving
        /\ pc' \in {"reflector", "query_rewriter", "python", "tool_executor"}
    BY <1>5, ExecutionRuns DEF ToolExecutorBatch, ToolExecutorSingle, Python, Leaving
  <2>2. QED
    BY <2>1 DEF Earned, CompletionIsEarned
<1>6. CASE \/ ConversationManager \/ Knowledge \/ QueryRewriter \/ ToolExecutorBatchRaises
           \/ Answer \/ Memory \/ RecursionLimitHit
  BY <1>6 DEF ConversationManager, Knowledge, QueryRewriter, ToolExecutorBatchRaises, Answer,
              Memory, RecursionLimitHit, Earned, CompletionIsEarned, Leaving
<1>7. CASE Finish \/ UNCHANGED vars
  <2>1. UNCHANGED vars
    BY <1>7 DEF Finish
  <2>2. QED
    BY <2>1 DEF vars, Earned, CompletionIsEarned, TemplateDone, HasTemplate, OnDisk
<1>8. QED
  BY <1>2, <1>3, <1>4, <1>5, <1>6, <1>7 DEF Next, Step

(* Under rule-based reflection, honest statuses and agents that do not      *)
(* crash, the reflector ends a project or coding run as completed only when *)
(* the template's tasks are done, or all tasks, one of which created a file.*)
THEOREM CompletionIsAlwaysEarned ==
    ASSUME ~LlmReflects, ~AgentsCrash, HonestStatuses
    PROVE  Spec => []CompletionIsEarned
<1>1. Init => TypeOK /\ UniqueIds /\ EmptyUntilPlanned /\ RanSoFar /\ Earned
  BY InitType DEF Init, UniqueIds, EmptyUntilPlanned, RanSoFar, AllRan, Earned,
                  CompletionIsEarned
<1>2. TypeOK /\ UniqueIds /\ EmptyUntilPlanned /\ RanSoFar /\ Earned /\ [Next]_vars
      => (TypeOK /\ UniqueIds /\ EmptyUntilPlanned /\ RanSoFar /\ Earned)'
  BY TypeStep, UniqueStep, EmptyStep, RanStep, EarnedStep
<1>3. Earned => CompletionIsEarned
  BY DEF Earned
<1>4. QED
  BY <1>1, <1>2, <1>3, PTL DEF Spec
=============================================================================
