--------------------------- MODULE Workflow_proofs ---------------------------
(***************************************************************************)
(* Proofs about Workflow for every value of its constants: type            *)
(* correctness, the accounting of re-plans and planner calls, the fate of  *)
(* running tasks, and the planner's promise to keep finished work.         *)
(***************************************************************************)
EXTENDS Workflow, SequenceTheorems, FiniteSetTheorems, TLAPS

Plans == {"none", "open", "completed"}
Verdicts == {"unset", "done", "next", "replan"}

(* A function on 1..n into S is a sequence over S.                          *)
LEMMA FunctionIsSeq ==
    ASSUME NEW S, NEW n \in Nat, NEW g \in [1 .. n -> S]
    PROVE  g \in Seq(S) /\ Len(g) = n /\ DOMAIN g = 1 .. n
<1>1. g \in Seq(S)
  BY SeqDef
<1>2. DOMAIN g = 1 .. n
  OBVIOUS
<1>3. QED
  BY <1>1, <1>2, LenProperties

(* Rewriting the elements of a queue gives a queue of the same length.      *)
LEMMA RewrittenQueue ==
    ASSUME NEW q \in Seq(Task), NEW g, DOMAIN g = DOMAIN q,
           g = [i \in DOMAIN g |-> g[i]],
           \A i \in DOMAIN q : g[i] \in Task
    PROVE  g \in Seq(Task) /\ DOMAIN g = DOMAIN q
<1>1. Len(q) \in Nat /\ DOMAIN q = 1 .. Len(q)
  BY LenProperties
<1>2. g \in [1 .. Len(q) -> Task]
  BY <1>1
<1>3. QED
  BY <1>1, <1>2, FunctionIsSeq

LEMMA QueueElement ==
    ASSUME NEW q \in Seq(Task), NEW i \in DOMAIN q
    PROVE  q[i] \in Task
BY LenProperties, ElementOfSeq

LEMMA NewTaskType ==
    ASSUME NEW t \in TaskIds, NEW s \in Statuses
    PROVE  NewTask(t, s) \in Task
BY TaskAssumption DEF NewTask, Task

LEMMA MarkedType ==
    ASSUME NEW q \in Seq(Task), NEW S, NEW s \in Statuses
    PROVE  Marked(q, S, s) \in Seq(Task) /\ DOMAIN Marked(q, S, s) = DOMAIN q
<1>1. ASSUME NEW i \in DOMAIN q
      PROVE  Marked(q, S, s)[i] \in Task
  <2>1. q[i] \in Task
    BY QueueElement
  <2>2. [q[i] EXCEPT !.status = s] \in Task
    BY <2>1 DEF Task
  <2>3. QED
    BY <2>1, <2>2 DEF Marked
<1>2. DOMAIN Marked(q, S, s) = DOMAIN q
  BY DEF Marked
<1>3. Marked(q, S, s) = [i \in DOMAIN Marked(q, S, s) |-> Marked(q, S, s)[i]]
  BY DEF Marked
<1>4. QED
  BY <1>1, <1>2, <1>3, RewrittenQueue

LEMMA ReissuedType ==
    ASSUME NEW q \in Seq(Task), NEW ts
    PROVE  Reissued(q, ts) \in Seq(Task) /\ DOMAIN Reissued(q, ts) = DOMAIN q
<1>1. ASSUME NEW i \in DOMAIN q
      PROVE  Reissued(q, ts)[i] \in Task
  <2>1. q[i] \in Task /\ q[i].id \in TaskIds
    BY QueueElement DEF Task
  <2>2. NewTask(q[i].id, "todo") \in Task
    BY <2>1, NewTaskType DEF Statuses
  <2>3. QED
    BY <2>1, <2>2 DEF Reissued
<1>2. DOMAIN Reissued(q, ts) = DOMAIN q
  BY DEF Reissued
<1>3. Reissued(q, ts) = [i \in DOMAIN Reissued(q, ts) |-> Reissued(q, ts)[i]]
  BY DEF Reissued
<1>4. QED
  BY <1>1, <1>2, <1>3, RewrittenQueue

(* Concatenation keeps the first sequence and appends the second.           *)
LEMMA Concatenated ==
    ASSUME NEW S, NEW q \in Seq(S), NEW r \in Seq(S)
    PROVE  /\ q \o r \in Seq(S)
           /\ \A i \in DOMAIN q : i \in DOMAIN (q \o r) /\ (q \o r)[i] = q[i]
           /\ \A i \in DOMAIN (q \o r) \ DOMAIN q :
                 i - Len(q) \in DOMAIN r /\ (q \o r)[i] = r[i - Len(q)]
<1>1. /\ Len(q) \in Nat /\ DOMAIN q = 1 .. Len(q)
      /\ Len(r) \in Nat /\ DOMAIN r = 1 .. Len(r)
  BY LenProperties
<1>2. /\ q \o r \in Seq(S)
      /\ Len(q \o r) = Len(q) + Len(r)
      /\ \A i \in 1 .. Len(q) + Len(r) :
            (q \o r)[i] = IF i <= Len(q) THEN q[i] ELSE r[i - Len(q)]
  BY ConcatProperties
<1>3. DOMAIN (q \o r) = 1 .. (Len(q) + Len(r))
  BY <1>2, LenProperties
<1>4. \A i \in DOMAIN q : i \in DOMAIN (q \o r) /\ (q \o r)[i] = q[i]
  BY <1>1, <1>2, <1>3
<1>5. ASSUME NEW i \in DOMAIN (q \o r), i \notin DOMAIN q
      PROVE  i - Len(q) \in DOMAIN r /\ (q \o r)[i] = r[i - Len(q)]
  <2>1. i \in 1 .. Len(q) + Len(r) /\ ~(i <= Len(q))
    BY <1>1, <1>3, <1>5
  <2>2. QED
    BY <2>1, <1>1, <1>2
<1>6. QED
  BY <1>2, <1>4, <1>5

(* Added appends: the old positions keep their tasks, the new ones are TODO.*)
LEMMA AddedType ==
    ASSUME NEW q \in Seq(Task), NEW ts \in Seq(TaskIds)
    PROVE  /\ Added(q, ts) \in Seq(Task)
           /\ \A i \in DOMAIN q : i \in DOMAIN Added(q, ts) /\ Added(q, ts)[i] = q[i]
           /\ \A i \in DOMAIN Added(q, ts) \ DOMAIN q :
                 /\ i - Len(q) \in DOMAIN ts
                 /\ Added(q, ts)[i] = NewTask(ts[i - Len(q)], "todo")
                 /\ Added(q, ts)[i].status = "todo" /\ Added(q, ts)[i].id = ts[i - Len(q)]
<1>1. Len(ts) \in Nat /\ DOMAIN ts = 1 .. Len(ts) /\ \A k \in DOMAIN ts : ts[k] \in TaskIds
  BY LenProperties, ElementOfSeq
<1>2. \A k \in DOMAIN ts : NewTask(ts[k], "todo") \in Task
  BY <1>1, NewTaskType DEF Statuses
<1>3. PICK new : new = [k \in DOMAIN ts |-> NewTask(ts[k], "todo")]
  OBVIOUS
<1>4. new \in [1 .. Len(ts) -> Task]
  BY <1>1, <1>2, <1>3
<1>5. new \in Seq(Task)
  BY <1>1, <1>4, FunctionIsSeq
<1>6. \A k \in DOMAIN new :
         /\ k \in DOMAIN ts /\ new[k] = NewTask(ts[k], "todo")
         /\ new[k].status = "todo" /\ new[k].id = ts[k]
  BY <1>3 DEF NewTask
<1>7. Added(q, ts) = q \o new
  BY <1>3 DEF Added
<1>8. QED
  BY <1>5, <1>6, <1>7, Concatenated

-----------------------------------------------------------------------------
(* What the rewritings of a queue preserve.                                 *)

NoneRunning(q) == \A i \in DOMAIN q : q[i].status # "running"
Unique(q) == \A i, j \in DOMAIN q : q[i].id = q[j].id => i = j
Distinct(s) == \A j, k \in DOMAIN s : s[j] = s[k] => j = k
QueueFrom(q, r) ==
    /\ r \in Seq(Task)
    /\ NoneRunning(q) => NoneRunning(r)
    /\ Unique(q) => Unique(r)

(* A queue with the ids of another one, position by position.               *)
LEMMA SameIds ==
    ASSUME NEW q, NEW r, DOMAIN r = DOMAIN q, \A i \in DOMAIN q : r[i].id = q[i].id
    PROVE  Ids(r) = Ids(q) /\ (Unique(q) => Unique(r))
BY DEF Ids, Unique

LEMMA MarkedIds ==
    ASSUME NEW q \in Seq(Task), NEW S, NEW s \in Statuses
    PROVE  Unique(q) => Unique(Marked(q, S, s))
<1>1. DOMAIN Marked(q, S, s) = DOMAIN q
  BY MarkedType
<1>2. ASSUME NEW i \in DOMAIN q
      PROVE  Marked(q, S, s)[i].id = q[i].id
  <2>1. q[i] \in Task
    BY QueueElement
  <2>2. QED
    BY <2>1 DEF Marked, Task
<1>3. QED
  BY <1>1, <1>2, SameIds

LEMMA ReissuedIds ==
    ASSUME NEW q \in Seq(Task), NEW ts
    PROVE  Ids(Reissued(q, ts)) = Ids(q) /\ (Unique(q) => Unique(Reissued(q, ts)))
<1>1. DOMAIN Reissued(q, ts) = DOMAIN q
  BY ReissuedType
<1>2. \A i \in DOMAIN q : Reissued(q, ts)[i].id = q[i].id
  BY DEF Reissued, NewTask
<1>3. QED
  BY <1>1, <1>2, SameIds

(* Distinct tasks whose ids the queue does not have can be appended.        *)
LEMMA AddedIds ==
    ASSUME NEW q \in Seq(Task), NEW ts \in Seq(TaskIds), Distinct(ts), Unique(q),
           \A k \in DOMAIN ts : ts[k] \notin Ids(q)
    PROVE  Unique(Added(q, ts))
<1> DEFINE r == Added(q, ts)
<1>1. SUFFICES ASSUME NEW i \in DOMAIN r, NEW j \in DOMAIN r, r[i].id = r[j].id
               PROVE  i = j
  BY DEF Unique
<1>2. Len(q) \in Nat /\ DOMAIN q = 1 .. Len(q)
  BY LenProperties
<1>3. Len(r) \in Nat /\ DOMAIN r = 1 .. Len(r) /\ i \in Int /\ j \in Int
  BY AddedType, LenProperties
<1>4. CASE i \in DOMAIN q /\ j \in DOMAIN q
  BY <1>1, <1>4, AddedType DEF Unique
<1>5. CASE i \in DOMAIN q /\ j \notin DOMAIN q
  BY <1>1, <1>5, AddedType DEF Ids
<1>6. CASE i \notin DOMAIN q /\ j \in DOMAIN q
  BY <1>1, <1>6, AddedType DEF Ids
<1>7. CASE i \notin DOMAIN q /\ j \notin DOMAIN q
  <2>1. /\ i - Len(q) \in DOMAIN ts /\ r[i].id = ts[i - Len(q)]
        /\ j - Len(q) \in DOMAIN ts /\ r[j].id = ts[j - Len(q)]
    BY <1>7, AddedType
  <2>2. i - Len(q) = j - Len(q)
    BY <1>1, <2>1 DEF Distinct
  <2>3. QED
    BY <1>2, <1>3, <2>2
<1>8. QED
  BY <1>4, <1>5, <1>6, <1>7

LEMMA MarkedFrom ==
    ASSUME NEW q \in Seq(Task), NEW S, NEW s \in Statuses \ {"running"}
    PROVE  QueueFrom(q, Marked(q, S, s))
<1>1. Marked(q, S, s) \in Seq(Task) /\ DOMAIN Marked(q, S, s) = DOMAIN q
  BY MarkedType
<1>2. ASSUME NoneRunning(q), NEW i \in DOMAIN q
      PROVE  Marked(q, S, s)[i].status # "running"
  <2>1. q[i] \in Task /\ q[i].status # "running"
    BY <1>2, QueueElement DEF NoneRunning
  <2>2. QED
    BY <2>1 DEF Marked, Task
<1>3. QED
  BY <1>1, <1>2, MarkedIds DEF QueueFrom, NoneRunning

LEMMA AddedFrom ==
    ASSUME NEW q \in Seq(Task), NEW ts \in Seq(TaskIds), Distinct(ts),
           \A k \in DOMAIN ts : ts[k] \notin Ids(q)
    PROVE  QueueFrom(q, Added(q, ts))
<1>1. NoneRunning(q) => NoneRunning(Added(q, ts))
  BY AddedType DEF NoneRunning
<1>2. QED
  BY <1>1, AddedType, AddedIds DEF QueueFrom

-----------------------------------------------------------------------------
(* Where the queue stands after each kind of step.                          *)

KeepsDone(q, r) ==
    \A i \in DOMAIN q : q[i].status = "done" => i \in DOMAIN r /\ r[i] = q[i]

LEMMA RouteTypes ==
    ASSUME NEW q, NEW idle \in Nodes, NEW onKnowledge \in Nodes
    PROVE  NextNode(q, idle, onKnowledge)
              \in {idle, onKnowledge, "query_rewriter", "python", "tool_executor"}
BY DEF NextNode

(* A set of positions of the queue is finite: batches have a length.        *)
LEMMA PositionsFinite ==
    ASSUME NEW q \in Seq(Task), NEW S \in SUBSET DOMAIN q
    PROVE  Cardinality(S) \in Nat
<1>1. Len(q) \in Nat /\ DOMAIN q = 1 .. Len(q)
  BY LenProperties
<1>2. IsFiniteSet(DOMAIN q)
  BY <1>1, FS_Interval
<1>3. IsFiniteSet(S)
  BY <1>2, FS_Subset
<1>4. QED
  BY <1>3, FS_CardinalityType

LEMMA FallbackFinite ==
    ASSUME NEW S \in SUBSET ToSet(Fallback)
    PROVE  Cardinality(S) \in Nat
<1>1. Len(Fallback) \in Nat /\ DOMAIN Fallback = 1 .. Len(Fallback)
  BY TaskAssumption, LenProperties
<1>2. IsFiniteSet(DOMAIN Fallback)
  BY <1>1, FS_Interval
<1>3. Fallback \in Surjection(DOMAIN Fallback, ToSet(Fallback))
  BY TaskAssumption, LenProperties DEF Surjection, ToSet
<1>4. IsFiniteSet(ToSet(Fallback))
  BY <1>2, <1>3, FS_Surjection
<1>5. IsFiniteSet(S)
  BY <1>4, FS_Subset
<1>6. QED
  BY <1>5, FS_CardinalityType

(* What one planner call does: it hands a queue, a plan and an error flag to*)
(* the node, no task of that queue was made running or got the id of another*)
(* one, and outside the direct answers every DONE task is where it was.     *)
PlannerOutcome(q, p, err) ==
    /\ Planned(q, p, err)
    /\ QueueFrom(queue, q)
    /\ KeepsDone(queue, q) \/ (goal \in DirectAnswerTypes /\ q = <<>>)
    /\ goal \in DirectAnswerTypes => q = <<>> \/ q = queue

LEMMA PlannerCases ==
    ASSUME TypeOK, Planner
    PROVE  \E q \in Seq(Task), p \in Plans, err \in BOOLEAN : PlannerOutcome(q, p, err)
<1>1. /\ queue \in Seq(Task) /\ plan \in Plans /\ <<>> \in Seq(Task)
      /\ llmError \in BOOLEAN
  BY EmptySeq DEF TypeOK, Plans
<1>2. KeepsDone(queue, queue) /\ QueueFrom(queue, queue)
  BY <1>1 DEF KeepsDone, QueueFrom
<1>3. CASE PlanDirectAnswer
  <2>1. QueueFrom(queue, <<>>)
    BY <1>1 DEF QueueFrom, NoneRunning, Unique
  <2>2. PlannerOutcome(<<>>, "completed", llmError)
    BY <1>3, <2>1 DEF PlanDirectAnswer, PlannerOutcome
  <2>3. QED
    BY <1>1, <2>2 DEF Plans
<1>4. CASE PlanDegraded
  <2>1. PlannerOutcome(queue, "completed", llmError)
    BY <1>2, <1>4 DEF PlanDegraded, PlannerOutcome
  <2>2. QED
    BY <1>1, <2>1 DEF Plans
<1>5. CASE PlanFromTemplate
  <2> DEFINE Status(k) == IF Required # {} /\ Initial[k] \in Recognised THEN "done" ELSE "todo"
  <2>1. PICK r : /\ r = [k \in DOMAIN Initial |-> NewTask(Initial[k], Status(k))]
                 /\ Planned(r, "open", llmError)
    BY <1>5 DEF PlanFromTemplate
  <2>2. Len(Initial) \in Nat /\ DOMAIN Initial = 1 .. Len(Initial)
        /\ \A k \in DOMAIN Initial : Initial[k] \in TaskIds
    BY TaskAssumption, LenProperties, ElementOfSeq
  <2>3. \A k \in DOMAIN Initial : Status(k) \in Statuses /\ Status(k) # "running"
    BY DEF Statuses
  <2>4. \A k \in DOMAIN Initial : NewTask(Initial[k], Status(k)) \in Task
    BY <2>2, <2>3, NewTaskType
  <2>5. r \in [1 .. Len(Initial) -> Task]
    BY <2>1, <2>2, <2>4
  <2>6. r \in Seq(Task)
    BY <2>2, <2>5, FunctionIsSeq
  <2>7. QueueFrom(queue, r)
    <3>1. NoneRunning(r)
      BY <2>1, <2>3 DEF NoneRunning, NewTask
    <3>2. Unique(r)
      BY <2>1, TaskAssumption DEF Unique, NewTask
    <3>3. QED
      BY <2>6, <3>1, <3>2 DEF QueueFrom
  <2>8. KeepsDone(queue, r) /\ goal \notin DirectAnswerTypes
    BY <1>5 DEF PlanFromTemplate, KeepsDone, DirectAnswerTypes
  <2>9. PlannerOutcome(r, "open", llmError)
    BY <2>1, <2>7, <2>8 DEF PlannerOutcome
  <2>10. QED
    BY <1>1, <2>6, <2>9 DEF Plans
<1>6. CASE PlanTasks
  <2>1. PICK again \in SUBSET Ids(queue), fresh \in BoundedSeq(TaskIds \ Ids(queue), MaxPlan) :
               /\ \A j, k \in DOMAIN fresh : j # k => fresh[j] # fresh[k]
               /\ Planned(Added(Reissued(queue, again), fresh), "open", llmError)
    BY <1>6 DEF PlanTasks
  <2>2. PICK m \in 0 .. MaxPlan : fresh \in [1 .. m -> TaskIds \ Ids(queue)]
    BY <2>1 DEF BoundedSeq, SeqOf
  <2>3. m \in Nat /\ fresh \in [1 .. m -> TaskIds]
    BY <2>2
  <2>4. fresh \in Seq(TaskIds)
    BY <2>3, FunctionIsSeq
  <2>5. PICK r : r = Reissued(queue, again)
    OBVIOUS
  <2>6. r \in Seq(Task) /\ DOMAIN r = DOMAIN queue
    BY <1>1, <2>5, ReissuedType
  <2>7. /\ Added(r, fresh) \in Seq(Task)
        /\ \A i \in DOMAIN r : i \in DOMAIN Added(r, fresh) /\ Added(r, fresh)[i] = r[i]
        /\ \A i \in DOMAIN Added(r, fresh) \ DOMAIN r : Added(r, fresh)[i].status = "todo"
    BY <2>4, <2>6, AddedType
  <2>8. KeepsDone(queue, r)
    BY <2>5 DEF KeepsDone, Reissued
  <2>9. QueueFrom(queue, r) /\ Ids(r) = Ids(queue)
    <3>1. NoneRunning(queue) => NoneRunning(r)
      BY <2>5 DEF NoneRunning, Reissued, NewTask
    <3>2. QED
      BY <1>1, <2>5, <2>6, <3>1, ReissuedIds DEF QueueFrom
  <2>10. KeepsDone(queue, Added(r, fresh))
    BY <2>6, <2>7, <2>8 DEF KeepsDone
  <2>11. QueueFrom(queue, Added(r, fresh))
    <3>1. Distinct(fresh)
      BY <2>1 DEF Distinct
    <3>2. \A k \in DOMAIN fresh : fresh[k] \notin Ids(r)
      BY <2>2, <2>9
    <3>3. QueueFrom(r, Added(r, fresh))
      BY <2>4, <2>6, <3>1, <3>2, AddedFrom
    <3>4. QED
      BY <2>9, <3>3 DEF QueueFrom
  <2>12. goal \notin DirectAnswerTypes
    BY <1>6 DEF PlanTasks, PlansWithLlm
  <2>13. PlannerOutcome(Added(r, fresh), "open", llmError)
    BY <2>1, <2>5, <2>10, <2>11, <2>12 DEF PlannerOutcome
  <2>14. QED
    BY <1>1, <2>7, <2>13 DEF Plans
<1>7. CASE PlanCompleted
  <2>1. PlannerOutcome(queue, "completed", llmError)
    BY <1>2, <1>7 DEF PlanCompleted, PlannerOutcome
  <2>2. QED
    BY <1>1, <2>1 DEF Plans
<1>8. CASE PlanNothing
  <2>1. PlannerOutcome(queue, "completed", TRUE) \/ PlannerOutcome(queue, "open", llmError)
    BY <1>2, <1>8 DEF PlanNothing, PlannerOutcome
  <2>2. QED
    BY <1>1, <2>1 DEF Plans
<1>9. CASE PlannerCrash
  <2>1. PlannerOutcome(queue, plan, llmError)
    BY <1>2, <1>9 DEF PlannerCrash, PlannerOutcome
  <2>2. QED
    BY <1>1, <2>1
<1>10. QED
  BY <1>3, <1>4, <1>5, <1>6, <1>7, <1>8, <1>9 DEF Planner

-----------------------------------------------------------------------------
(* The reflector.  Its evaluations rewrite, append and remove tasks; none   *)
(* of them makes a task running.                                            *)

LEMMA RuleEvaluationFrom ==
    ASSUME NEW q \in Seq(Task), NEW m
    PROVE  QueueFrom(q, RuleEvaluation(q, m).queue)
<1>1. PICK S1, S2, S3 :
         RuleEvaluation(q, m).queue
            = Marked(Marked(Marked(q, S1, "done"), S2, "failed"), S3, "done")
  BY DEF RuleEvaluation
<1>2. "done" \in Statuses \ {"running"} /\ "failed" \in Statuses \ {"running"}
  BY DEF Statuses
<1>3. PICK r1 : r1 = Marked(q, S1, "done")
  OBVIOUS
<1>4. QueueFrom(q, r1)
  BY <1>2, <1>3, MarkedFrom
<1>5. PICK r2 : r2 = Marked(r1, S2, "failed")
  OBVIOUS
<1>6. QueueFrom(r1, r2)
  BY <1>2, <1>4, <1>5, MarkedFrom DEF QueueFrom
<1>7. PICK r3 : r3 = Marked(r2, S3, "done")
  OBVIOUS
<1>8. QueueFrom(r2, r3)
  BY <1>2, <1>6, <1>7, MarkedFrom DEF QueueFrom
<1>9. RuleEvaluation(q, m).queue = r3
  BY <1>1, <1>3, <1>5, <1>7
<1>10. QED
  BY <1>4, <1>6, <1>8, <1>9 DEF QueueFrom

LEMMA LlmUpdateFrom ==
    ASSUME NEW q \in Seq(Task), NEW u \in LlmUpdates(q)
    PROVE  QueueFrom(q, u)
<1>1. CASE u = q
  BY <1>1 DEF QueueFrom
<1>2. CASE u # q
  <2>1. PICK i \in DOMAIN q : u \in UpdatesAt(q, i)
    BY <1>2 DEF LlmUpdates
  <2>2. PICK s \in LlmStatuses \cup {q[i].status}, pr \in LlmPrios \cup {q[i].prio} :
               u = [q EXCEPT ![i] = [id |-> q[i].id, status |-> s, prio |-> pr]]
    BY <2>1 DEF UpdatesAt
  <2>3. q[i] \in Task
    BY QueueElement
  <2>4. pr \in Nat /\ s \in Statuses /\ (s = "running" => q[i].status = "running")
    BY <2>2, <2>3, EnvironmentAssumption DEF Task
  <2>5. PICK e : e = [id |-> q[i].id, status |-> s, prio |-> pr]
    OBVIOUS
  <2>6. e \in Task /\ e.status = s
    BY <2>3, <2>4, <2>5 DEF Task
  <2>7. u = [q EXCEPT ![i] = e]
    BY <2>2, <2>3, <2>5 DEF Task
  <2>8. i \in 1 .. Len(q) /\ DOMAIN q = 1 .. Len(q)
    BY LenProperties
  <2>9. u \in Seq(Task)
    BY <2>6, <2>7, <2>8, ExceptSeq
  <2>10. NoneRunning(q) => NoneRunning(u)
    BY <2>4, <2>6, <2>7 DEF NoneRunning
  <2>11. Unique(q) => Unique(u)
    <3>1. DOMAIN u = DOMAIN q /\ \A j \in DOMAIN q : u[j].id = q[j].id
      BY <2>5, <2>7
    <3>2. QED
      BY <3>1, SameIds
  <2>12. QED
    BY <2>9, <2>10, <2>11 DEF QueueFrom
<1>3. QED
  BY <1>1, <1>2

(* Removing a position closes the gap and keeps everything else.            *)
LEMMA Removed ==
    ASSUME NEW S, NEW q \in Seq(S), NEW i \in DOMAIN q
    PROVE  /\ RemoveAt(q, i) \in Seq(S)
           /\ \A k \in DOMAIN RemoveAt(q, i) :
                 /\ k \in Int
                 /\ (IF k < i THEN k ELSE k + 1) \in DOMAIN q
                 /\ RemoveAt(q, i)[k] = q[IF k < i THEN k ELSE k + 1]
<1>1. /\ Len(q) \in Nat /\ DOMAIN q = 1 .. Len(q) /\ i \in 1 .. Len(q)
      /\ \A j \in 1 .. Len(q) : q[j] \in S
  BY LenProperties, ElementOfSeq
<1>2. PICK l : l = SubSeq(q, 1, i - 1)
  OBVIOUS
<1>3. PICK r : r = SubSeq(q, i + 1, Len(q))
  OBVIOUS
<1>4. /\ i - 1 \in Int /\ i + 1 \in Int /\ 1 \in Int /\ Len(q) \in Int
      /\ \A k \in 1 .. (i - 1) : q[k] \in S
      /\ \A k \in (i + 1) .. Len(q) : q[k] \in S
  BY <1>1
<1>5. /\ l \in Seq(S) /\ Len(l) = i - 1
      /\ \A k \in 1 .. (i - 1) : l[k] = q[k]
  <2>1. /\ SubSeq(q, 1, i - 1) \in Seq(S)
        /\ Len(SubSeq(q, 1, i - 1)) = IF 1 <= i - 1 THEN i - 1 - 1 + 1 ELSE 0
        /\ \A k \in 1 .. (i - 1 - 1 + 1) : SubSeq(q, 1, i - 1)[k] = q[1 + k - 1]
    BY ONLY <1>4, SubSeqProperties
  <2>2. QED
    BY <1>1, <1>2, <2>1
<1>6. /\ r \in Seq(S) /\ Len(r) = Len(q) - i
      /\ \A k \in 1 .. (Len(q) - i) : r[k] = q[i + k]
  <2>1. /\ SubSeq(q, i + 1, Len(q)) \in Seq(S)
        /\ Len(SubSeq(q, i + 1, Len(q))) = IF i + 1 <= Len(q) THEN Len(q) - (i + 1) + 1 ELSE 0
        /\ \A k \in 1 .. (Len(q) - (i + 1) + 1) :
              SubSeq(q, i + 1, Len(q))[k] = q[i + 1 + k - 1]
    BY ONLY <1>4, SubSeqProperties
  <2>2. QED
    BY <1>1, <1>3, <2>1
<1>7. RemoveAt(q, i) = l \o r
  BY <1>2, <1>3 DEF RemoveAt
<1>8. /\ l \o r \in Seq(S) /\ Len(l \o r) = Len(q) - 1
      /\ \A k \in 1 .. (Len(q) - 1) :
            (l \o r)[k] = IF k <= i - 1 THEN l[k] ELSE r[k - (i - 1)]
  <2>1. /\ l \o r \in Seq(S) /\ Len(l \o r) = Len(l) + Len(r)
        /\ \A k \in 1 .. (Len(l) + Len(r)) :
              (l \o r)[k] = IF k <= Len(l) THEN l[k] ELSE r[k - Len(l)]
    BY <1>5, <1>6, ConcatProperties
  <2>2. Len(l) + Len(r) = Len(q) - 1 /\ Len(l) = i - 1
    BY <1>1, <1>5, <1>6
  <2>3. QED
    BY <2>1, <2>2
<1>9. DOMAIN (l \o r) = 1 .. (Len(q) - 1)
  BY <1>8, LenProperties
<1>10. ASSUME NEW k \in 1 .. (Len(q) - 1)
       PROVE  /\ (IF k < i THEN k ELSE k + 1) \in DOMAIN q
              /\ (l \o r)[k] = q[IF k < i THEN k ELSE k + 1]
  <2>1. CASE k < i
    BY <1>1, <1>5, <1>8, <2>1
  <2>2. CASE ~(k < i)
    <3>1. k - (i - 1) \in 1 .. (Len(q) - i) /\ i + (k - (i - 1)) = k + 1
      BY <1>1, <2>2
    <3>2. r[k - (i - 1)] = q[k + 1]
      BY <1>6, <3>1
    <3>3. QED
      BY <1>1, <1>8, <2>2, <3>2
  <2>3. QED
    BY <2>1, <2>2
<1>11. \A k \in DOMAIN (l \o r) :
          /\ k \in Int
          /\ (IF k < i THEN k ELSE k + 1) \in DOMAIN q
          /\ (l \o r)[k] = q[IF k < i THEN k ELSE k + 1]
  BY <1>9, <1>10
<1>12. QED
  BY <1>7, <1>8, <1>11

LEMMA RemovedFrom ==
    ASSUME NEW q \in Seq(Task), NEW i \in DOMAIN q
    PROVE  QueueFrom(q, RemoveAt(q, i))
<1> DEFINE r == RemoveAt(q, i)
           At(k) == IF k < i THEN k ELSE k + 1
<1>1. /\ r \in Seq(Task)
      /\ \A k \in DOMAIN r : k \in Int /\ At(k) \in DOMAIN q /\ r[k] = q[At(k)]
  BY Removed
<1>2. NoneRunning(q) => NoneRunning(r)
  BY <1>1 DEF NoneRunning
<1>3. i \in Int
  BY LenProperties
<1>4. ASSUME Unique(q), NEW j \in DOMAIN r, NEW k \in DOMAIN r, r[j].id = r[k].id
      PROVE  j = k
  <2>1. At(j) = At(k)
    BY <1>1, <1>4 DEF Unique
  <2>2. QED
    BY <1>1, <1>3, <2>1
<1>5. QED
  BY <1>1, <1>2, <1>4 DEF QueueFrom, Unique

LEMMA LlmQueueFrom ==
    ASSUME NEW q \in Seq(Task), NEW r \in LlmQueues(q)
    PROVE  QueueFrom(q, r)
<1>1. PICK added \in LlmAdditions(q) : r \in Removals(added)
  BY DEF LlmQueues
<1>2. PICK u \in LlmUpdates(q) : added \in Additions(u)
  BY DEF LlmAdditions
<1>3. QueueFrom(q, u)
  BY LlmUpdateFrom
<1>4. QueueFrom(u, added)
  <2>1. CASE added = u
    BY <1>3, <2>1 DEF QueueFrom
  <2>2. CASE added # u
    <3>1. PICK t \in TaskIds \ Ids(u) : added = Added(u, <<t>>)
      BY <1>2, <2>2 DEF Additions
    <3>2. <<t>> \in Seq(TaskIds) /\ Distinct(<<t>>) /\ t \notin Ids(u)
      BY <3>1 DEF Distinct
    <3>3. \A k \in DOMAIN <<t>> : <<t>>[k] \notin Ids(u)
      BY <3>2
    <3>4. u \in Seq(Task)
      BY <1>3 DEF QueueFrom
    <3>5. QueueFrom(u, Added(u, <<t>>))
      BY <3>2, <3>3, <3>4, AddedFrom
    <3>6. QED
      BY <3>1, <3>5
  <2>3. QED
    BY <2>1, <2>2
<1>5. QueueFrom(added, r)
  <2>1. CASE r = added
    BY <1>4, <2>1 DEF QueueFrom
  <2>2. CASE r # added
    <3>1. PICK i \in DOMAIN added : r = RemoveAt(added, i)
      BY <1>1, <2>2 DEF Removals
    <3>2. added \in Seq(Task)
      BY <1>4 DEF QueueFrom
    <3>3. QED
      BY <3>1, <3>2, RemovedFrom
  <2>3. QED
    BY <2>1, <2>2
<1>6. QED
  BY <1>3, <1>4, <1>5 DEF QueueFrom

LEMMA EvaluationFrom ==
    ASSUME queue \in Seq(Task), NEW e \in Evaluations
    PROVE  QueueFrom(queue, e.queue)
<1>1. PICK m : e \in EvaluationsFrom(RuleEvaluation(queue, m))
  BY DEF Evaluations
<1>2. PICK rule : rule = RuleEvaluation(queue, m)
  OBVIOUS
<1>3. QueueFrom(queue, rule.queue)
  BY <1>2, RuleEvaluationFrom
<1>4. PICK base : base = IF Settled(queue) THEN rule.queue ELSE queue
  OBVIOUS
<1>5. QueueFrom(queue, base)
  BY <1>3, <1>4 DEF QueueFrom
<1>6. \/ e = rule
      \/ \E m2 : e = RuleEvaluation(base, m2)
      \/ e.queue \in LlmQueues(base)
  BY <1>1, <1>2, <1>4 DEF EvaluationsFrom
<1>7. CASE e = rule
  BY <1>3, <1>7
<1>8. CASE \E m2 : e = RuleEvaluation(base, m2)
  BY <1>5, <1>8, RuleEvaluationFrom DEF QueueFrom
<1>9. CASE e.queue \in LlmQueues(base)
  BY <1>5, <1>9, LlmQueueFrom DEF QueueFrom
<1>10. QED
  BY <1>6, <1>7, <1>8, <1>9

(* What one reflection does: a queue in which no task was made running, a   *)
(* verdict, and the re-plan counter, which only a "replan" verdict raises.  *)
ReflectorOutcome(q, v, n) ==
    /\ Reflected(q, v, n)
    /\ genFailed' \in BOOLEAN
    /\ n = replans \/ (n = replans + 1 /\ v = "replan")
    /\ QueueFrom(queue, q)
    /\ queue = <<>> /\ goal # "project" => q = <<>>

(* Fallback tasks, in the order of the fallback list.                       *)
LEMMA FallbackOrderType ==
    ASSUME NEW S \in SUBSET Generated, NEW s \in FallbackOrders(S)
    PROVE  s \in Seq(TaskIds) /\ Distinct(s) /\ \A k \in DOMAIN s : s[k] \in S
<1>1. Cardinality(S) \in Nat
  BY FallbackFinite DEF Generated
<1>2. ToSet(Fallback) \subseteq TaskIds
  BY TaskAssumption, LenProperties, ElementOfSeq DEF ToSet
<1>3. s \in [1 .. Cardinality(S) -> TaskIds]
  BY <1>2 DEF FallbackOrders, Generated
<1>4. \A t \in S : FallbackRank(t) \in Int
  <2>1. DOMAIN Fallback \subseteq Int
    BY TaskAssumption, LenProperties
  <2>2. ASSUME NEW t \in S
        PROVE  \E k \in DOMAIN Fallback : Fallback[k] = t
    BY DEF Generated, ToSet
  <2>3. QED
    BY <2>1, <2>2 DEF FallbackRank
<1>5. Distinct(s)
  <2>1. /\ DOMAIN s = 1 .. Cardinality(S) /\ \A k \in DOMAIN s : s[k] \in S
        /\ \A j, k \in DOMAIN s : j < k => FallbackRank(s[j]) < FallbackRank(s[k])
    BY DEF FallbackOrders
  <2>2. ASSUME NEW j \in DOMAIN s, NEW k \in DOMAIN s, s[j] = s[k]
        PROVE  ~(j < k)
    BY <1>4, <2>1, <2>2
  <2>3. QED
    BY <1>1, <2>1, <2>2 DEF Distinct
<1>6. QED
  BY <1>1, <1>3, <1>5, FunctionIsSeq DEF FallbackOrders

LEMMA ReflectorCases ==
    ASSUME TypeOK, Reflector
    PROVE  \E q \in Seq(Task), v \in Verdicts, n \in Nat : ReflectorOutcome(q, v, n)
<1>1. QueueFrom(queue, queue)
  BY DEF QueueFrom, TypeOK
<1>2. /\ queue \in Seq(Task) /\ verdict \in Verdicts /\ replans \in Nat
      /\ replans + 1 \in Nat /\ genFailed \in BOOLEAN
      /\ {"done", "next", "replan"} \subseteq Verdicts
  BY DEF TypeOK, Verdicts
<1>3. CASE ReflectEmptyQueue
  <2>1. queue = <<>> /\ genFailed' \in BOOLEAN
    BY <1>2, <1>3 DEF ReflectEmptyQueue
  <2>2. CASE goal = "project" /\ Generated # {}
    <3>1. PICK s \in FallbackOrders(Generated) : Reflected(Added(queue, s), "next", replans)
      BY <1>3, <2>2 DEF ReflectEmptyQueue
    <3>2. QueueFrom(queue, Added(queue, s))
      <4>1. s \in Seq(TaskIds) /\ Distinct(s)
        BY FallbackOrderType
      <4>2. Ids(queue) = {}
        BY <2>1 DEF Ids
      <4>3. QED
        BY <1>2, <4>1, <4>2, AddedFrom
    <3>3. ReflectorOutcome(Added(queue, s), "next", replans)
      BY <2>1, <2>2, <3>1, <3>2 DEF ReflectorOutcome, QueueFrom
    <3>4. QED
      BY <1>2, <3>2, <3>3 DEF QueueFrom
  <2>3. CASE ~(goal = "project" /\ Generated # {})
    <3>1. ReflectorOutcome(queue, "done", replans)
      BY <1>1, <1>3, <2>1, <2>3 DEF ReflectEmptyQueue, ReflectorOutcome
    <3>2. QED
      BY <1>2, <3>1
  <2>4. QED
    BY <2>2, <2>3
<1>4. CASE ReflectQueue
  <2> DEFINE Stuck(e) == IF e.completed THEN ~HasFileCreation(e.queue)
                         ELSE Todo(e.queue) = {}
             Missing(e) == IF Stuck(e) THEN GeneratedFor(e.queue) ELSE {}
             Body(e, q) ==
               LET completed == \/ IF Stuck(e) THEN Generated = {} ELSE e.completed
                                \/ TemplateDone(q)
               IN  /\ genFailed' = (genFailed \/ (Stuck(e) /\ Generated = {}))
                   /\ IF completed THEN Reflected(q, "done", replans)
                      ELSE IF e.replan THEN Reflected(q, "replan", replans + 1)
                      ELSE Reflected(q, "next", replans)
  <2>1. \E e \in Evaluations : \E s \in FallbackOrders(Missing(e)) :
           \E q \in {Added(e.queue, s)} : Body(e, q)
    BY <1>4 DEF ReflectQueue
  <2>2. PICK e \in Evaluations : \E s \in FallbackOrders(Missing(e)) :
           \E q \in {Added(e.queue, s)} : Body(e, q)
    BY <2>1
  <2>3. PICK s \in FallbackOrders(Missing(e)) : \E q \in {Added(e.queue, s)} : Body(e, q)
    BY <2>2
  <2>4. PICK q : q = Added(e.queue, s) /\ Body(e, q)
    BY <2>3
  <2>5. QueueFrom(queue, e.queue)
    BY <1>2, EvaluationFrom
  <2>6. s \in Seq(TaskIds) /\ Distinct(s) /\ \A k \in DOMAIN s : s[k] \notin Ids(e.queue)
    BY <2>3, FallbackOrderType DEF GeneratedFor
  <2>7. QueueFrom(queue, q)
    BY <2>4, <2>5, <2>6, AddedFrom DEF QueueFrom
  <2>8. queue # <<>> /\ genFailed' \in BOOLEAN
    BY <1>2, <1>4, <2>4 DEF ReflectQueue
  <2>9. \/ ReflectorOutcome(q, "done", replans)
        \/ ReflectorOutcome(q, "replan", replans + 1)
        \/ ReflectorOutcome(q, "next", replans)
    BY <2>4, <2>7, <2>8 DEF ReflectorOutcome, QueueFrom
  <2>10. QED
    BY <1>2, <2>7, <2>9 DEF QueueFrom
<1>5. CASE ReflectorCrash
  <2>1. ReflectorOutcome(queue, verdict, replans)
    BY <1>1, <1>2, <1>5 DEF ReflectorCrash, ReflectorOutcome
  <2>2. QED
    BY <1>2, <2>1
<1>6. QED
  BY <1>3, <1>4, <1>5 DEF Reflector

(* What a tool execution does: it makes tasks of the queue DONE or FAILED,  *)
(* records one result per executed task and leaves the counters alone.      *)
LEMMA ExecutedType ==
    ASSUME TypeOK, NEW n \in Nat, NEW b \in [1 .. n -> DOMAIN queue],
           NEW ok \in SUBSET DOMAIN queue, Executed(b, ok)
    PROVE  /\ TypeOK' /\ QueueFrom(queue, queue')
           /\ DOMAIN queue' = DOMAIN queue
           /\ pc' \in {"reflector", "query_rewriter", "python", "tool_executor"}
<1>1. queue \in Seq(Task)
  BY DEF TypeOK
<1>2. "done" \in Statuses \ {"running"} /\ "failed" \in Statuses \ {"running"}
  BY DEF Statuses
<1>3. QueueFrom(queue, queue') /\ DOMAIN queue' = DOMAIN queue
  <2>1. PICK r : r = Marked(queue, ok, "done")
    OBVIOUS
  <2>2. r \in Seq(Task) /\ DOMAIN r = DOMAIN queue /\ QueueFrom(queue, r)
    BY <1>1, <1>2, <2>1, MarkedType, MarkedFrom
  <2>3. queue' = Marked(r, ToSet(b) \ ok, "failed")
    BY <2>1 DEF Executed, Finished
  <2>4. queue' \in Seq(Task) /\ DOMAIN queue' = DOMAIN r /\ QueueFrom(r, queue')
    BY <1>2, <2>2, <2>3, MarkedType, MarkedFrom
  <2>5. QED
    BY <2>2, <2>4 DEF QueueFrom
<1>4. results' \in Seq(Result)
  <2>1. \A k \in 1 .. n : queue[b[k]].id \in TaskIds
    BY <1>1, QueueElement DEF Task
  <2>2. results' = [k \in 1 .. n |-> [task |-> queue[b[k]].id, ok |-> b[k] \in ok]]
    BY DEF Executed, Outcome
  <2>3. results' \in [1 .. n -> Result]
    BY <2>1, <2>2 DEF Result
  <2>4. QED
    BY <2>3, FunctionIsSeq
<1>5. pc' \in {"reflector", "query_rewriter", "python", "tool_executor"}
  BY RouteTypes DEF Executed, RouteAfterExecutor, Nodes
<1>6. attempts' \in [TaskIds -> Nat]
  BY PolicyAssumption DEF TypeOK, Executed, Attempted, AtMost
<1>7. written' \subseteq TaskIds
  <2>1. \A i \in ok : queue[i].id \in TaskIds
    BY <1>1, QueueElement DEF Task
  <2>2. QED
    BY <2>1 DEF TypeOK, Executed
<1>8. QED
  BY <1>3, <1>4, <1>5, <1>6, <1>7 DEF TypeOK, Executed, QueueFrom, Nodes

(* The batches are sequences of positions of the queue.                     *)
LEMMA BatchType ==
    ASSUME TypeOK, NEW b \in BatchOrders(ParallelTasks)
    PROVE  /\ ParallelTasks \in SUBSET DOMAIN queue
           /\ Cardinality(ParallelTasks) \in Nat
           /\ b \in [1 .. Cardinality(ParallelTasks) -> DOMAIN queue]
<1>1. ParallelTasks \in SUBSET DOMAIN queue
  BY DEF ParallelTasks, Selected, TopWrites, Writes, Candidates, Todo
<1>2. Cardinality(ParallelTasks) \in Nat
  BY <1>1, PositionsFinite DEF TypeOK
<1>3. QED
  BY <1>1, <1>2 DEF BatchOrders

(* Every tool execution is an Executed step on positions of the queue.      *)
LEMMA ExecutionCases ==
    ASSUME TypeOK, ToolExecutorBatch \/ ToolExecutorSingle \/ Python
    PROVE  \E n \in Nat : \E b \in [1 .. n -> DOMAIN queue], ok \in SUBSET DOMAIN queue :
              Executed(b, ok)
<1>1. CASE ToolExecutorBatch
  BY <1>1, BatchType DEF ToolExecutorBatch
<1>2. ASSUME NEW i \in DOMAIN queue, NEW ok \in SUBSET {i}, Executed(<<i>>, ok)
      PROVE  \E n \in Nat : \E b \in [1 .. n -> DOMAIN queue], o \in SUBSET DOMAIN queue :
                Executed(b, o)
  <2>1. 1 \in Nat /\ <<i>> \in [1 .. 1 -> DOMAIN queue] /\ ok \in SUBSET DOMAIN queue
    OBVIOUS
  <2>2. QED
    BY <1>2, <2>1
<1>3. CASE ToolExecutorSingle
  BY <1>2, <1>3 DEF ToolExecutorSingle, Todo
<1>4. CASE Python
  <2>1. PICK i \in DOMAIN queue : \E ok \in SUBSET {i} : Executed(<<i>>, ok)
    BY <1>4 DEF Python
  <2>2. QED
    BY <1>2, <2>1
<1>5. QED
  BY <1>1, <1>3, <1>4

-----------------------------------------------------------------------------
(* Type correctness.                                                        *)

LEMMA GoalAnalyzed ==
    ASSUME NEW detected \in GoalTypes, NEW mode \in {"auto", "web", "knowledge"}
    PROVE  GoalType(detected, mode) \in GoalTypes
BY DEF GoalType, GoalTypes, Informational

LEMMA GoalRouted ==
    ASSUME NEW type, NEW mode, NEW source
    PROVE  RouteAfterGoalAnalyzer(type, mode, source) \in {"knowledge", "answer", "planner"}
BY DEF RouteAfterGoalAnalyzer

LEMMA InitType == Init => TypeOK
<1>1. <<>> \in Seq(Task) /\ <<>> \in Seq(Result)
  BY EmptySeq
<1>2. Init => attempts \in [TaskIds -> Nat] /\ written \subseteq TaskIds
  BY DEF Init
<1>3. Init => llmError \in BOOLEAN /\ genFailed \in BOOLEAN
  BY DEF Init
<1>4. Init => /\ pc \in Nodes /\ goal \in GoalTypes
              /\ plan \in {"none", "open", "completed"}
              /\ verdict \in {"unset", "done", "next", "replan"}
              /\ replans \in Nat /\ cycles \in Nat /\ uncapped \in Nat /\ stuckRun \in Nat
  BY DEF Init, GoalTypes, Nodes
<1>5. Init => queue \in Seq(Task) /\ results \in Seq(Result)
  BY <1>1 DEF Init
<1>6. QED
  BY <1>2, <1>3, <1>4, <1>5 DEF TypeOK

LEMMA PlannerType ==
    ASSUME TypeOK, Planner
    PROVE  TypeOK'
<1>1. PICK q \in Seq(Task), p \in Plans, err \in BOOLEAN : Planned(q, p, err)
  BY PlannerCases DEF PlannerOutcome
<1>2. plan' \in Plans /\ verdict' \in Verdicts
  BY <1>1 DEF Planned, TypeOK, Plans, Verdicts
<1>3. pc' \in Nodes
  BY <1>1, RouteTypes DEF Planned, RouteAfterPlanner, Nodes
<1>4. QED
  BY <1>1, <1>2, <1>3 DEF Planned, TypeOK, Plans, Verdicts

LEMMA ReflectedRoute ==
    ASSUME NEW q, NEW v \in Verdicts, NEW n, Reflected(q, v, n)
    PROVE  pc' \in {"answer", "planner", "query_rewriter", "python", "tool_executor"}
BY RouteTypes DEF Reflected, RouteAfterReflector, Verdicts, Nodes

LEMMA ReflectorType ==
    ASSUME TypeOK, Reflector
    PROVE  TypeOK'
<1>1. PICK q \in Seq(Task), v \in Verdicts, n \in Nat : ReflectorOutcome(q, v, n)
  BY ReflectorCases
<1>2. pc' \in Nodes
  BY <1>1, ReflectedRoute DEF ReflectorOutcome, Nodes
<1>3. uncapped' \in Nat /\ stuckRun' \in Nat
  BY <1>1, PolicyAssumption DEF ReflectorOutcome, Reflected, TypeOK, AtMost
<1>4. QED
  BY <1>1, <1>2, <1>3 DEF ReflectorOutcome, Reflected, TypeOK, Verdicts

LEMMA BatchRaisesType ==
    ASSUME TypeOK, ToolExecutorBatchRaises
    PROVE  TypeOK'
<1>1. queue \in Seq(Task) /\ {"running", "done", "failed"} \subseteq Statuses
  BY DEF TypeOK, Statuses
<1>2. PICK ok \in SUBSET ParallelTasks :
         /\ \E S1, S2 : queue' = Marked(Marked(Marked(queue, ParallelTasks, "running"),
                                               S1, "done"), S2, "failed")
         /\ written' = written \cup {queue[i].id : i \in ok}
  BY DEF ToolExecutorBatchRaises
<1>3. queue' \in Seq(Task)
  <2>1. PICK S1, S2 :
          queue' = Marked(Marked(Marked(queue, ParallelTasks, "running"),
                                 S1, "done"), S2, "failed")
    BY <1>2
  <2>2. PICK r1 : r1 = Marked(queue, ParallelTasks, "running")
    OBVIOUS
  <2>3. r1 \in Seq(Task)
    BY <1>1, <2>2, MarkedType
  <2>4. PICK r2 : r2 = Marked(r1, S1, "done")
    OBVIOUS
  <2>5. r2 \in Seq(Task)
    BY <1>1, <2>3, <2>4, MarkedType
  <2>6. QED
    BY <1>1, <2>1, <2>2, <2>4, <2>5, MarkedType
<1>4. written' \subseteq TaskIds
  <2>1. ok \subseteq DOMAIN queue
    BY DEF ParallelTasks, Selected, TopWrites, Writes, Candidates, Todo
  <2>2. \A i \in ok : queue[i] \in Task
    BY <1>1, <2>1, QueueElement
  <2>3. \A i \in ok : queue[i].id \in TaskIds
    BY <2>2 DEF Task
  <2>4. QED
    BY <1>2, <2>3 DEF TypeOK
<1>5. attempts' \in [TaskIds -> Nat]
  BY PolicyAssumption DEF TypeOK, ToolExecutorBatchRaises, Attempted, AtMost
<1>6. QED
  BY <1>3, <1>4, <1>5 DEF TypeOK, ToolExecutorBatchRaises

LEMMA TypeStep == TypeOK /\ [Next]_vars => TypeOK'
<1> SUFFICES ASSUME TypeOK, [Next]_vars PROVE TypeOK'
  OBVIOUS
<1>1. CASE ConversationManager
  BY <1>1 DEF TypeOK, ConversationManager, Nodes
<1>2. CASE GoalAnalyzer
  <2>1. PICK detected \in Goals, mode \in {"auto", "web", "knowledge"},
             source \in {"general", "local"}, fallback \in BOOLEAN :
          /\ goal' = GoalType(IF fallback THEN "other" ELSE detected, mode)
          /\ llmError' = fallback
          /\ pc' = RouteAfterGoalAnalyzer(goal', mode, IF fallback THEN "local" ELSE source)
    BY <1>2 DEF GoalAnalyzer
  <2>2. goal' \in GoalTypes
    BY <2>1, GoalAnalyzed, EnvironmentAssumption DEF GoalTypes
  <2>3. pc' \in Nodes
    BY <2>1, GoalRouted DEF Nodes
  <2>4. llmError' \in BOOLEAN
    BY <2>1
  <2>5. UNCHANGED <<queue, results, plan, verdict, replans, cycles, genFailed,
                    attempts, written, uncapped, stuckRun>>
    BY <1>2 DEF GoalAnalyzer
  <2>6. QED
    BY <2>2, <2>3, <2>4, <2>5 DEF TypeOK
<1>3. CASE GoalAnalyzerCrash
  <2>1. pc' \in Nodes
    BY <1>3, GoalRouted DEF GoalAnalyzerCrash, Nodes
  <2>2. goal' \in GoalTypes
    BY <1>3 DEF GoalAnalyzerCrash, GoalTypes
  <2>3. QED
    BY <1>3, <2>1, <2>2 DEF TypeOK, GoalAnalyzerCrash
<1>4. CASE Knowledge
  BY <1>4 DEF TypeOK, Knowledge, Nodes
<1>5. CASE Planner
  BY <1>5, PlannerType
<1>6. CASE QueryRewriter
  <2>1. queue' \in Seq(Task)
    BY <1>6, MarkedType DEF TypeOK, QueryRewriter, Statuses
  <2>2. QED
    BY <1>6, <2>1 DEF TypeOK, QueryRewriter, Nodes
<1>7. CASE Search
  <2>1. queue' \in Seq(Task)
    BY <1>7, MarkedType DEF TypeOK, Search, Searched, Statuses
  <2>2. QED
    BY <1>7, <2>1 DEF TypeOK, Search, Nodes
<1>8. CASE ToolExecutorBatch \/ ToolExecutorSingle \/ Python
  BY <1>8, ExecutionCases, ExecutedType
<1>9. CASE ToolExecutorBatchRaises
  BY <1>9, BatchRaisesType
<1>10. CASE Reflector
  BY <1>10, ReflectorType
<1>11. CASE Answer \/ Memory
  BY <1>11 DEF TypeOK, Answer, Memory, Nodes
<1>12. CASE RecursionLimitHit
  BY <1>12 DEF TypeOK, RecursionLimitHit
<1>13. CASE Finish \/ UNCHANGED vars
  BY <1>13 DEF TypeOK, Finish, vars
<1>14. QED
  BY <1>1, <1>2, <1>3, <1>4, <1>5, <1>6, <1>7, <1>8, <1>9, <1>10, <1>11, <1>12, <1>13
     DEF Next, Step

(* Every reachable state is type-correct; in particular each router names a *)
(* node of the graph, for every plan, verdict and queue.                    *)
THEOREM TypeCorrect == Spec => []TypeOK
<1>1. QED
  BY InitType, TypeStep, PTL DEF Spec

-----------------------------------------------------------------------------
(* The accounting of re-plans and planner calls.                            *)

Outside == {"conversation_manager", "goal_analyzer", "knowledge"}
LoopNodes == {"planner", "query_rewriter", "search", "tool_executor", "python", "reflector"}
Leaving == {"answer", "memory", "end", "aborted"}

(* The steps that can change a counter are the planner's and the            *)
(* reflector's; the others only move the run on.                            *)
LEMMA CountersKept ==
    ASSUME TypeOK, [Next]_vars, ~Planner, ~Reflector
    PROVE  /\ UNCHANGED <<replans, cycles, uncapped>>
           /\ \/ pc \in Outside /\ pc' \in Outside \cup {"planner", "answer"}
              \/ pc \in LoopNodes /\ pc' \in LoopNodes \ {"planner"}
              \/ pc' \in Leaving
              \/ pc' = pc
<1>1. CASE ConversationManager \/ Knowledge
  BY <1>1 DEF ConversationManager, Knowledge, Outside
<1>2. CASE GoalAnalyzer \/ GoalAnalyzerCrash
  BY <1>2, GoalRouted DEF GoalAnalyzer, GoalAnalyzerCrash, Outside
<1>3. CASE QueryRewriter \/ Search
  BY <1>3 DEF QueryRewriter, Search, LoopNodes, Leaving
<1>4. CASE ToolExecutorBatch \/ ToolExecutorSingle \/ Python
  <2>1. PICK n \in Nat : \E b \in [1 .. n -> DOMAIN queue], ok \in SUBSET DOMAIN queue :
               Executed(b, ok)
    BY <1>4, ExecutionCases
  <2>2. PICK b \in [1 .. n -> DOMAIN queue], ok \in SUBSET DOMAIN queue : Executed(b, ok)
    BY <2>1
  <2>3. pc' \in {"reflector", "query_rewriter", "python", "tool_executor"}
    BY <2>2, ExecutedType
  <2>4. pc \in {"tool_executor", "python"}
    BY <1>4 DEF ToolExecutorBatch, ToolExecutorSingle, Python
  <2>5. QED
    BY <2>2, <2>3, <2>4 DEF Executed, LoopNodes
<1>5. CASE ToolExecutorBatchRaises
  BY <1>5 DEF ToolExecutorBatchRaises, Leaving
<1>6. CASE Answer \/ Memory
  BY <1>6 DEF Answer, Memory, Leaving
<1>7. CASE RecursionLimitHit
  BY <1>7 DEF RecursionLimitHit, Leaving
<1>8. CASE Finish \/ UNCHANGED vars
  BY <1>8 DEF Finish, vars
<1>9. QED
  BY <1>1, <1>2, <1>3, <1>4, <1>5, <1>6, <1>7, <1>8 DEF Next, Step

LEMMA ReplansStep == TypeOK /\ ReplansBounded /\ [Next]_vars => ReplansBounded'
<1> SUFFICES ASSUME TypeOK, ReplansBounded, [Next]_vars PROVE ReplansBounded'
  OBVIOUS
<1> USE PolicyAssumption DEF Leaving
<1>1. CASE Planner
  <2>1. PICK q \in Seq(Task), p \in Plans, err \in BOOLEAN : Planned(q, p, err)
    BY <1>1, PlannerCases DEF PlannerOutcome
  <2>2. replans' = replans /\ pc = "planner"
    BY <1>1, <2>1 DEF Planner, Planned
  <2>3. QED
    BY <2>2 DEF ReplansBounded, TypeOK
<1>2. CASE Reflector
  <2>1. PICK q \in Seq(Task), v \in Verdicts, n \in Nat : ReflectorOutcome(q, v, n)
    BY <1>2, ReflectorCases
  <2>2. replans < MaxReplan /\ replans' = n
    BY <1>2, <2>1 DEF Reflector, ReplansBounded, ReflectorOutcome, Reflected
  <2>3. n <= MaxReplan
    BY <2>1, <2>2 DEF ReflectorOutcome, TypeOK
  <2>4. n < MaxReplan \/ pc' = "answer"
    BY <2>1, <2>2, <2>3
       DEF ReflectorOutcome, Reflected, RouteAfterReflector, AnswersOnReplan, TypeOK
  <2>5. QED
    BY <2>2, <2>3, <2>4 DEF ReplansBounded
<1>3. CASE ~Planner /\ ~Reflector
  <2>1. /\ replans' = replans
        /\ pc \in Leaving => pc' \in Leaving
    BY <1>3, CountersKept DEF Outside, LoopNodes
  <2>2. QED
    BY <2>1 DEF ReplansBounded
<1>4. QED
  BY <1>1, <1>2, <1>3

(* The re-plan cap holds over every order of failures, crashes and verdicts,*)
(* for every policy: the router leaves the loop at the last counted re-plan.*)
THEOREM ReplansAlwaysBounded == Spec => []ReplansBounded
<1>1. Init => ReplansBounded
  BY PolicyAssumption DEF Init, ReplansBounded
<1>2. QED
  BY <1>1, TypeCorrect, ReplansStep, PTL DEF Spec

(* Inductive: no planner call was made before the loop is entered.          *)
Accounting ==
    /\ PlannerEntriesAccounted
    /\ pc \in Outside => cycles = 0

LEMMA AccountingStep == TypeOK /\ Accounting /\ [Next]_vars => Accounting'
<1> SUFFICES ASSUME TypeOK, Accounting, [Next]_vars PROVE Accounting'
  OBVIOUS
<1>1. /\ replans \in Nat /\ cycles \in Nat /\ uncapped \in Nat
      /\ PlannerCycleCap \in Nat \ {0}
  BY PolicyAssumption DEF TypeOK
<1>2. CASE Planner
  <2>1. PICK q \in Seq(Task), p \in Plans, err \in BOOLEAN : Planned(q, p, err)
    BY <1>2, PlannerCases DEF PlannerOutcome
  <2>2. /\ replans' = replans /\ uncapped' = uncapped /\ cycles' = cycles + 1
        /\ pc = "planner"
    BY <1>2, <2>1 DEF Planner, Planned
  <2>3. pc' \in {"answer", "reflector", "query_rewriter", "python", "tool_executor"}
    BY <2>1, RouteTypes DEF Planned, RouteAfterPlanner, Nodes
  <2>4. QED
    BY <1>1, <2>2, <2>3 DEF Accounting, PlannerEntriesAccounted, Outside
<1>3. CASE Reflector
  <2>1. PICK q \in Seq(Task), v \in Verdicts, n \in Nat : ReflectorOutcome(q, v, n)
    BY <1>3, ReflectorCases
  <2>2. Reflected(q, v, n) /\ replans' = n /\ cycles' = cycles
    BY <2>1 DEF ReflectorOutcome, Reflected
  <2>3. n = replans \/ n = replans + 1
    BY <2>1 DEF ReflectorOutcome
  <2>4. uncapped' = uncapped \/ uncapped' = uncapped + 1
    BY <2>2 DEF Reflected
  <2>5. pc' \notin Outside
    BY <2>2, ReflectedRoute DEF Outside
  <2>6. ASSUME pc' = "planner", n = replans, uncapped' = uncapped
        PROVE  cycles < PlannerCycleCap
    <3>1. IsStuck(q, v)
      BY <1>1, <2>2, <2>6 DEF Reflected
    <3>2. v = "next" /\ Todo(q) = {}
      BY <3>1 DEF IsStuck
    <3>3. pc' = IF AnswersWhenStuck(1) THEN "answer" ELSE "planner"
      BY <2>2, <3>2 DEF Reflected, RouteAfterReflector, NextNode
    <3>4. ~AnswersWhenStuck(1)
      BY <2>6, <3>3
    <3>5. QED
      BY <1>1, <3>4 DEF AnswersWhenStuck
  <2>7. QED
    BY <1>1, <2>2, <2>3, <2>4, <2>5, <2>6 DEF Accounting, PlannerEntriesAccounted
<1>4. CASE ~Planner /\ ~Reflector
  <2>1. /\ UNCHANGED <<replans, cycles, uncapped>>
        /\ pc' = "planner" => pc \in Outside \/ pc = "planner"
        /\ pc' \in Outside => pc \in Outside
    BY <1>4, CountersKept DEF Outside, LoopNodes, Leaving
  <2>2. QED
    BY <1>1, <2>1 DEF Accounting, PlannerEntriesAccounted
<1>5. QED
  BY <1>2, <1>3, <1>4

(* Every planner call is covered by the cycle cap, by a counted re-plan or  *)
(* by an entry of the kinds that no cap counts.                             *)
THEOREM PlannerEntriesAlwaysAccounted == Spec => []PlannerEntriesAccounted
<1>1. Init => Accounting
  BY PolicyAssumption DEF Init, Accounting, PlannerEntriesAccounted
<1>2. Accounting => PlannerEntriesAccounted
  BY DEF Accounting
<1>3. QED
  BY <1>1, <1>2, TypeCorrect, AccountingStep, PTL DEF Spec

-----------------------------------------------------------------------------
(* Running tasks.  The invariant is inductive: the query rewriter sets the  *)
(* only running task and moves to the search, which clears every one.       *)

LEMMA RunningStep == TypeOK /\ RunningOnlyDuringSearch /\ [Next]_vars => RunningOnlyDuringSearch'
<1> SUFFICES ASSUME TypeOK, RunningOnlyDuringSearch, [Next]_vars
             PROVE  RunningOnlyDuringSearch'
  OBVIOUS
<1>1. NoneRunning(queue) \/ pc \in {"search", "aborted"}
  BY DEF RunningOnlyDuringSearch, NoneRunning
<1>2. NoneRunning(queue)' \/ pc' \in {"search", "aborted"} => RunningOnlyDuringSearch'
  BY DEF RunningOnlyDuringSearch, NoneRunning
<1>3. CASE Planner
  <2>1. PICK q \in Seq(Task), p \in Plans, err \in BOOLEAN : PlannerOutcome(q, p, err)
    BY <1>3, PlannerCases
  <2>2. NoneRunning(queue) /\ queue' = q
    BY <1>1, <1>3, <2>1 DEF Planner, PlannerOutcome, Planned
  <2>3. NoneRunning(queue')
    BY <2>1, <2>2 DEF PlannerOutcome, QueueFrom
  <2>4. QED
    BY <1>2, <2>3
<1>4. CASE Reflector
  <2>1. PICK q \in Seq(Task), v \in Verdicts, n \in Nat : ReflectorOutcome(q, v, n)
    BY <1>4, ReflectorCases
  <2>2. NoneRunning(queue) /\ queue' = q
    BY <1>1, <1>4, <2>1 DEF Reflector, ReflectorOutcome, Reflected
  <2>3. NoneRunning(queue')
    BY <2>1, <2>2 DEF ReflectorOutcome, QueueFrom
  <2>4. QED
    BY <1>2, <2>3
<1>5. CASE ToolExecutorBatch \/ ToolExecutorSingle \/ Python
  <2>1. QueueFrom(queue, queue')
    BY <1>5, ExecutionCases, ExecutedType
  <2>2. NoneRunning(queue)
    BY <1>1, <1>5 DEF ToolExecutorBatch, ToolExecutorSingle, Python
  <2>3. QED
    BY <1>2, <2>1, <2>2 DEF QueueFrom
<1>6. CASE Search
  <2>1. NoneRunning(queue')
    BY <1>6, QueueElement DEF Search, Searched, Marked, NoneRunning, TypeOK, Task
  <2>2. QED
    BY <1>2, <2>1
<1>7. CASE QueryRewriter \/ ToolExecutorBatchRaises \/ RecursionLimitHit
  BY <1>2, <1>7 DEF QueryRewriter, ToolExecutorBatchRaises, RecursionLimitHit
<1>8. CASE \/ ConversationManager \/ GoalAnalyzer \/ GoalAnalyzerCrash \/ Knowledge
           \/ Answer \/ Memory
  <2>1. queue' = queue /\ NoneRunning(queue)
    BY <1>1, <1>8 DEF ConversationManager, GoalAnalyzer, GoalAnalyzerCrash, Knowledge,
                      Answer, Memory
  <2>2. QED
    BY <1>2, <2>1
<1>9. CASE Finish \/ UNCHANGED vars
  BY <1>9 DEF RunningOnlyDuringSearch, Finish, vars
<1>10. QED
  BY <1>3, <1>4, <1>5, <1>6, <1>7, <1>8, <1>9 DEF Next, Step

(* No run leaves a task running behind, unless an exception or the recursion*)
(* limit cut it off: merges, fallbacks and LLM edits never make one running.*)
THEOREM RunningAlwaysInSearch == Spec => []RunningOnlyDuringSearch
<1>1. Init => RunningOnlyDuringSearch
  BY DEF Init, RunningOnlyDuringSearch
<1>2. QED
  BY <1>1, TypeCorrect, RunningStep, PTL DEF Spec

-----------------------------------------------------------------------------
(* Task ids.                                                                *)

LEMMA UniqueStep == TypeOK /\ UniqueIds /\ [Next]_vars => UniqueIds'
<1> SUFFICES ASSUME TypeOK, UniqueIds, [Next]_vars PROVE UniqueIds'
  OBVIOUS
<1>1. queue \in Seq(Task) /\ Unique(queue)
  BY DEF TypeOK, UniqueIds, Unique
<1>2. Unique(queue') => UniqueIds'
  BY DEF UniqueIds, Unique
<1>3. CASE Planner
  <2>1. PICK q \in Seq(Task), p \in Plans, err \in BOOLEAN : PlannerOutcome(q, p, err)
    BY <1>3, PlannerCases
  <2>2. QueueFrom(queue, queue')
    BY <2>1 DEF PlannerOutcome, Planned
  <2>3. QED
    BY <1>1, <1>2, <2>2 DEF QueueFrom
<1>4. CASE Reflector
  <2>1. PICK q \in Seq(Task), v \in Verdicts, n \in Nat : ReflectorOutcome(q, v, n)
    BY <1>4, ReflectorCases
  <2>2. QueueFrom(queue, queue')
    BY <2>1 DEF ReflectorOutcome, Reflected
  <2>3. QED
    BY <1>1, <1>2, <2>2 DEF QueueFrom
<1>5. CASE ToolExecutorBatch \/ ToolExecutorSingle \/ Python
  <2>1. QueueFrom(queue, queue')
    BY <1>5, ExecutionCases, ExecutedType
  <2>2. QED
    BY <1>1, <1>2, <2>1 DEF QueueFrom
<1>6. CASE QueryRewriter \/ Search
  <2>1. (\E S : queue' = Marked(queue, S, "running")) \/ (\E S : queue' = Marked(queue, S, "done"))
    BY <1>6 DEF QueryRewriter, Search, Searched
  <2>2. {"running", "done"} \subseteq Statuses
    BY DEF Statuses
  <2>3. Unique(queue')
    BY <1>1, <2>1, <2>2, MarkedIds
  <2>4. QED
    BY <1>2, <2>3
<1>7. CASE ToolExecutorBatchRaises
  <2>1. PICK S1, S2 :
          queue' = Marked(Marked(Marked(queue, ParallelTasks, "running"), S1, "done"), S2, "failed")
    BY <1>7 DEF ToolExecutorBatchRaises
  <2>2. {"running", "done", "failed"} \subseteq Statuses
    BY DEF Statuses
  <2>3. PICK r1 : r1 = Marked(queue, ParallelTasks, "running")
    OBVIOUS
  <2>4. r1 \in Seq(Task) /\ Unique(r1)
    BY <1>1, <2>2, <2>3, MarkedType, MarkedIds
  <2>5. PICK r2 : r2 = Marked(r1, S1, "done")
    OBVIOUS
  <2>6. r2 \in Seq(Task) /\ Unique(r2)
    BY <2>2, <2>4, <2>5, MarkedType, MarkedIds
  <2>7. Unique(queue')
    BY <2>1, <2>2, <2>3, <2>5, <2>6, MarkedIds
  <2>8. QED
    BY <1>2, <2>7
<1>8. CASE \/ ConversationManager \/ GoalAnalyzer \/ GoalAnalyzerCrash \/ Knowledge
           \/ Answer \/ Memory \/ RecursionLimitHit \/ Finish \/ UNCHANGED vars
  <2>1. queue' = queue
    BY <1>8 DEF ConversationManager, GoalAnalyzer, GoalAnalyzerCrash, Knowledge, Answer,
                Memory, RecursionLimitHit, Finish, vars
  <2>2. QED
    BY <1>1, <1>2, <2>1
<1>9. QED
  BY <1>3, <1>4, <1>5, <1>6, <1>7, <1>8 DEF Next, Step

(* No id occurs twice in the queue, whatever merged, re-issued, generated,  *)
(* added or removed tasks in whatever order.                                *)
THEOREM IdsAlwaysUnique == Spec => []UniqueIds
<1>1. Init => UniqueIds
  BY DEF Init, UniqueIds
<1>2. QED
  BY <1>1, TypeCorrect, UniqueStep, PTL DEF Spec

-----------------------------------------------------------------------------
(* Finished work.  The planner empties the queue for a goal that needs no   *)
(* planning; that loses nothing because such a run never fills its queue.   *)

EmptyUntilPlanned ==
    pc \in Outside \/ goal \in DirectAnswerTypes => queue = <<>>

LEMMA EmptyDomain ==
    ASSUME NEW q \in Seq(Task), DOMAIN q = {}
    PROVE  q = <<>>
<1>1. DOMAIN q = 1 .. Len(q) /\ Len(q) \in Nat
  BY LenProperties
<1>2. Len(q) = 0
  BY <1>1
<1>3. QED
  BY <1>2, EmptySeq

LEMMA EmptyStep == TypeOK /\ EmptyUntilPlanned /\ [Next]_vars => EmptyUntilPlanned'
<1> SUFFICES ASSUME TypeOK, EmptyUntilPlanned, [Next]_vars PROVE EmptyUntilPlanned'
  OBVIOUS
<1>1. queue' \in Seq(Task)
  BY TypeStep DEF TypeOK
<1>2. CASE ConversationManager \/ GoalAnalyzer \/ GoalAnalyzerCrash \/ Knowledge
  <2>1. queue' = queue /\ pc \in Outside
    BY <1>2 DEF ConversationManager, GoalAnalyzer, GoalAnalyzerCrash, Knowledge, Outside
  <2>2. QED
    BY <2>1 DEF EmptyUntilPlanned
<1>3. CASE Planner
  <2>1. PICK q \in Seq(Task), p \in Plans, err \in BOOLEAN : PlannerOutcome(q, p, err)
    BY <1>3, PlannerCases
  <2>2. goal' = goal /\ queue' = q /\ Planned(q, p, err)
    BY <2>1 DEF PlannerOutcome, Planned
  <2>3. pc' \notin Outside
    BY <2>2, RouteTypes DEF Planned, RouteAfterPlanner, Nodes, Outside
  <2>4. QED
    BY <2>1, <2>2, <2>3 DEF EmptyUntilPlanned, PlannerOutcome
<1>4. CASE Reflector
  <2>1. PICK q \in Seq(Task), v \in Verdicts, n \in Nat : ReflectorOutcome(q, v, n)
    BY <1>4, ReflectorCases
  <2>2. goal' = goal /\ queue' = q /\ Reflected(q, v, n)
    BY <2>1 DEF ReflectorOutcome, Reflected
  <2>3. pc' \notin Outside
    BY <2>2, ReflectedRoute DEF Outside
  <2>4. "project" \notin DirectAnswerTypes
    BY DEF DirectAnswerTypes
  <2>5. QED
    BY <2>1, <2>2, <2>3, <2>4 DEF EmptyUntilPlanned, ReflectorOutcome
<1>5. CASE ToolExecutorBatch \/ ToolExecutorSingle \/ Python
  <2>1. PICK n \in Nat : \E b \in [1 .. n -> DOMAIN queue], ok \in SUBSET DOMAIN queue :
               Executed(b, ok)
    BY <1>5, ExecutionCases
  <2>2. PICK b \in [1 .. n -> DOMAIN queue], ok \in SUBSET DOMAIN queue : Executed(b, ok)
    BY <2>1
  <2>3. DOMAIN queue' = DOMAIN queue /\ pc' \notin Outside /\ goal' = goal
    BY <2>2, ExecutedType DEF Outside, Executed
  <2>4. queue = <<>> => queue' = <<>>
    BY <1>1, <2>3, EmptyDomain
  <2>5. QED
    BY <2>3, <2>4 DEF EmptyUntilPlanned
<1>6. CASE QueryRewriter \/ Search
  <2>1. \E S, st : queue' = Marked(queue, S, st)
    BY <1>6 DEF QueryRewriter, Search, Searched
  <2>2. DOMAIN queue' = DOMAIN queue
    BY <2>1 DEF Marked
  <2>3. pc' \notin Outside /\ goal' = goal
    BY <1>6 DEF QueryRewriter, Search, Outside
  <2>4. queue = <<>> => queue' = <<>>
    BY <1>1, <2>2, EmptyDomain
  <2>5. QED
    BY <2>3, <2>4 DEF EmptyUntilPlanned
<1>7. CASE ToolExecutorBatchRaises
  <2>1. goal' = goal /\ pc' \notin Outside
    BY <1>7 DEF ToolExecutorBatchRaises, Outside
  <2>2. PICK i : i \in ParallelTasks
    BY <1>7 DEF ToolExecutorBatchRaises
  <2>3. i \in DOMAIN queue
    BY <2>2 DEF ParallelTasks, Selected, TopWrites, Writes, Candidates, Todo
  <2>4. queue # <<>>
    BY <2>3
  <2>5. QED
    BY <2>1, <2>4 DEF EmptyUntilPlanned
<1>8. CASE Answer \/ Memory \/ RecursionLimitHit \/ Finish \/ UNCHANGED vars
  <2>1. queue' = queue /\ goal' = goal /\ (pc' \in Outside => pc \in Outside)
    BY <1>8 DEF Answer, Memory, RecursionLimitHit, Finish, vars, Outside
  <2>2. QED
    BY <2>1 DEF EmptyUntilPlanned
<1>9. QED
  BY <1>2, <1>3, <1>4, <1>5, <1>6, <1>7, <1>8 DEF Next, Step

(* Whatever plan comes back, and under whatever ids, a planner step leaves  *)
(* every DONE task in its place with its status.                            *)
THEOREM PlannerAlwaysKeepsDone == Spec => PlannerKeepsDone
<1>1. Init => EmptyUntilPlanned
  BY DEF Init, EmptyUntilPlanned
<1>2. TypeOK /\ EmptyUntilPlanned /\ [Next]_vars
      => [pc = "planner" =>
            \A i \in DOMAIN queue : queue[i].status = "done" =>
               i \in DOMAIN queue' /\ queue'[i] = queue[i]]_vars
  <2> SUFFICES ASSUME TypeOK, EmptyUntilPlanned, [Next]_vars, pc = "planner"
               PROVE  KeepsDone(queue, queue')
    BY DEF KeepsDone
  <2>1. CASE Planner
    <3>1. PICK q \in Seq(Task), p \in Plans, err \in BOOLEAN : PlannerOutcome(q, p, err)
      BY <2>1, PlannerCases
    <3>2. queue' = q
      BY <3>1 DEF PlannerOutcome, Planned
    <3>3. QED
      BY <3>1, <3>2 DEF PlannerOutcome, EmptyUntilPlanned, KeepsDone
  <2>2. CASE ~Planner
    <3>1. queue' = queue
      BY <2>2 DEF Next, Step, ConversationManager, GoalAnalyzer, GoalAnalyzerCrash, Knowledge,
           QueryRewriter, Search, ToolExecutorBatch, ToolExecutorSingle,
           ToolExecutorBatchRaises, Python, Reflector, Answer, Memory,
           RecursionLimitHit, Finish, vars
    <3>2. QED
      BY <3>1 DEF KeepsDone
  <2>3. QED
    BY <2>1, <2>2
<1>3. QED
  BY <1>1, <1>2, TypeCorrect, EmptyStep, PTL DEF Spec, PlannerKeepsDone
=============================================================================
