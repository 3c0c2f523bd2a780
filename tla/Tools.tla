------------------------------- MODULE Tools -------------------------------
(***************************************************************************)
(* The tool executor: the runs' visits to the tool_executor node of        *)
(* graph/workflow.py, the thread pool of Executor.execute_batch_parallel,  *)
(* the repair of a failed call, and the requests of the API, all of them   *)
(* on the files of one workspace.                                          *)
(*                                                                         *)
(* A call is one execution of a task, or one request.  It looks at the     *)
(* disk, changes it, and where it writes text fills the file it has        *)
(* truncated, in separate steps between which other threads run.  A run    *)
(* whose request has timed out is abandoned: its current visit goes on in  *)
(* its thread, and nothing keeps the user from asking again.               *)
(***************************************************************************)
EXTENDS Files, Integers, Sequences

CONSTANTS
    Runs,        \* runs of the workflow in this process
    Slots,       \* run -> the ids of the tasks it may plan
    Requests,    \* requests of the API's clients
    Plans,       \* run -> what it may plan: sequences of [cmd, prio]
    Asked,       \* commands of the requests
    RepairPaths, \* paths the repairing language model may write
    Disks,       \* the workspace before the runs
    MaxWorkers,  \* threads of the pool (6 in the code)
    MaxBatch     \* most tasks of one parallel batch (8 in the code)

Tasks == UNION {{Slots[r][i] : i \in DOMAIN Slots[r]} : r \in Runs}
Calls == Tasks \cup Requests
Marks == Calls \cup Paths

ASSUME ToolsAssumption ==
    /\ Slots \in [Runs -> Seq(Tasks)]
    /\ \A r, s \in Runs : \A i \in DOMAIN Slots[r], j \in DOMAIN Slots[s] :
         Slots[r][i] = Slots[s][j] => r = s /\ i = j
    /\ Tasks \cap Requests = {} /\ Calls \cap Paths = {}
    /\ Asked \subseteq Command /\ RepairPaths \subseteq Paths
    /\ MaxWorkers \in Nat \ {0} /\ MaxBatch \in Nat \ {0, 1}
ASSUME PlansAssumption ==
    \A r \in Runs : \A p \in Plans[r] :
      p \in Seq([cmd : Command, prio : Nat]) /\ Len(p) \in 1 .. Len(Slots[r])
ASSUME DisksAssumption ==
    \A d \in Disks :
      /\ d \in [Paths -> {Absent, Directory}
                         \cup {File(text, p) : text \in SUBSET Paths, p \in Paths}]
      /\ \A p, q \in Paths : IsFile(d, p) /\ IsFile(d, q) /\ d[p].node = d[q].node => p = q
      /\ IsTree(d)

VARIABLES
    disk,       \* the workspace
    at,         \* run -> "free", "visit" (in the node) or "over"
    abandoned,  \* the runs whose request has timed out
    queue,      \* run -> its tasks, in list order
    prio,       \* task -> its priority
    status,     \* task -> its status in the queue
    batch,      \* run -> the tasks of the current visit, in order
    arrived,    \* run -> those of them whose first call returned, in that order
    cmd,        \* call -> its command
    phase,      \* call -> "none", "queued", "act", "fill" or "done"
    ok,         \* call -> whether its last result is a success
    seen,       \* call -> the text it has read
    node,       \* call -> the file it has opened
    repaired,   \* the tasks whose arguments were repaired
    base,       \* history: call -> settled text of its file when it began
    lost,       \* history: call -> the part of base it removed
    wins,       \* history: task -> how many of its calls succeeded
    alone       \* history: runs during whose visit nobody else changed the disk

queueVars == <<at, abandoned, queue, prio, status, batch>>
vars == <<disk, at, abandoned, queue, prio, status, batch, arrived, cmd, phase,
          ok, seen, node, repaired, base, lost, wins, alone>>

Members(s) == {s[i] : i \in DOMAIN s}
Todo(r) == {i \in DOMAIN queue[r] : status[queue[r][i]] = "todo"}
Owned(r) == {Slots[r][i] : i \in DOMAIN Slots[r]}
Working == {c \in Calls : phase[c] \in {"act", "fill"}}

(* The planner has filled every run's queue; the requests have come in.     *)
Init ==
    /\ disk \in Disks
    /\ \E plan \in [Runs -> UNION {Plans[r] : r \in Runs}], ask \in [Requests -> Asked] :
         /\ \A r \in Runs : plan[r] \in Plans[r]
         /\ queue = [r \in Runs |-> SubSeq(Slots[r], 1, Len(plan[r]))]
         /\ LET Run(t) == CHOOSE r \in Runs : t \in Owned(r)
                Place(t) == CHOOSE i \in DOMAIN Slots[Run(t)] : Slots[Run(t)][i] = t
                IsPlanned(t) == Place(t) <= Len(plan[Run(t)])
                Step(t) == IF IsPlanned(t) THEN plan[Run(t)][Place(t)]
                           ELSE plan[Run(t)][1]
            IN  /\ prio = [t \in Tasks |-> Step(t).prio]
                /\ status = [t \in Tasks |-> IF IsPlanned(t) THEN "todo" ELSE "none"]
                /\ cmd = [c \in Calls |-> IF c \in Tasks THEN Step(c).cmd ELSE ask[c]]
    /\ at = [r \in Runs |-> "free"] /\ abandoned = {}
    /\ batch = [r \in Runs |-> <<>>] /\ arrived = [r \in Runs |-> <<>>]
    /\ phase = [c \in Calls |-> IF c \in Tasks THEN "none" ELSE "queued"]
    /\ ok = [c \in Calls |-> FALSE] /\ seen = [c \in Calls |-> {}]
    /\ node = [c \in Calls |-> "none"] /\ repaired = {}
    /\ base = [c \in Calls |-> {}] /\ lost = [c \in Calls |-> {}]
    /\ wins = [t \in Tasks |-> 0] /\ alone = {}

-----------------------------------------------------------------------------
(* _select_parallel_tasks: searches, and reads and writes of paths that are *)
(* spelled differently; of the writes only those of the highest priority.   *)

ParallelWrites == {"write_file", "create_file", "append_file"}
ParallelReads == {"read_file", "list_directory"}
Batchable == ParallelWrites \cup ParallelReads

(* Mutant: the paths seen so far are not remembered.                        *)
CandidatesOnAnyPath(r) ==
    {i \in Todo(r) : cmd[queue[r][i]].op \in Batchable \cup {"search"}}
Candidates(r) ==
    LET C(i) == cmd[queue[r][i]]
    IN  {i \in Todo(r) :
           \/ C(i).op = "search"
           \/ /\ C(i).op \in Batchable
              /\ \A j \in Todo(r) :
                   j < i /\ C(j).op \in Batchable =>
                     C(j).path # C(i).path \/ C(j).dotted # C(i).dotted}

Selected(r) ==
    LET IsWrite(i) == cmd[queue[r][i]].op \in ParallelWrites
        Top(i) == \A j \in Candidates(r) :
                    IsWrite(j) => prio[queue[r][j]] <= prio[queue[r][i]]
        Writes == {i \in Candidates(r) : IsWrite(i) /\ Top(i)}
        Reads == {i \in Candidates(r) : ~IsWrite(i)}
        \* the writes in list order, then the reads in list order
        Before(i, j) == \/ IsWrite(i) /\ ~IsWrite(j)
                        \/ IsWrite(i) = IsWrite(j) /\ i <= j
        Place(i) == Cardinality({j \in Writes \cup Reads : Before(j, i)})
        All == Writes \cup Reads
        Size == IF Cardinality(All) <= MaxBatch THEN Cardinality(All) ELSE MaxBatch
    IN  [k \in 1 .. Size |-> queue[r][CHOOSE i \in All : Place(i) = k]]

Foremost(r) ==
    queue[r][CHOOSE i \in Todo(r) :
               \A j \in Todo(r) : \/ prio[queue[r][i]] > prio[queue[r][j]]
                                  \/ prio[queue[r][i]] = prio[queue[r][j]] /\ i <= j]

(* The node starts: a parallel batch of at least two tasks, or the one of   *)
(* the highest priority.                                                    *)
Visit(r) ==
    /\ at[r] = "free" /\ r \notin abandoned /\ Todo(r) # {}
    /\ at' = [at EXCEPT ![r] = "visit"]
    /\ batch' = [batch EXCEPT ![r] = IF Cardinality(Candidates(r)) > 1 /\ Len(Selected(r)) > 1
                                     THEN Selected(r) ELSE <<Foremost(r)>>]
    /\ status' = [t \in Tasks |-> IF t \in Members(batch'[r]) THEN "running" ELSE status[t]]
    /\ phase' = [c \in Calls |-> IF c \in Members(batch'[r]) THEN "queued" ELSE phase[c]]
    /\ arrived' = [arrived EXCEPT ![r] = <<>>]
    /\ alone' = alone \cup {r}
    /\ UNCHANGED <<disk, abandoned, queue, prio, cmd, ok, seen, node, repaired,
                   base, lost, wins>>

-----------------------------------------------------------------------------
(* One call.                                                                *)

(* Mutant: a finished call never gives its thread back.                     *)
BusyForever(r) == {c \in Members(batch[r]) : phase[c] # "queued"}
Busy(r) == Working \cap Owned(r)

HasThread(c) == \A r \in Runs : c \in Owned(r) => Cardinality(Busy(r)) < MaxWorkers

(* The text that a result has acknowledged.                                 *)
Settled == Paths \cup {c \in Calls : phase[c] = "done" /\ ok[c]}

Ended(c, success) ==
    /\ phase' = [phase EXCEPT ![c] = "done"]
    /\ ok' = [ok EXCEPT ![c] = success]
    /\ wins' = IF c \in Tasks /\ success THEN [wins EXCEPT ![c] = @ + 1] ELSE wins
    /\ arrived' = [r \in Runs |-> IF c \in Owned(r) /\ c \notin repaired
                                  THEN Append(arrived[r], c) ELSE arrived[r]]
    /\ seen' = [seen EXCEPT ![c] = {}] /\ node' = [node EXCEPT ![c] = "none"]
    /\ base' = [base EXCEPT ![c] = {}]
    /\ UNCHANGED <<at, abandoned, queue, prio, status, batch, cmd, repaired>>
Goes(c, to) ==
    /\ phase' = [phase EXCEPT ![c] = to]
    /\ UNCHANGED <<at, abandoned, queue, prio, status, batch, arrived, cmd, ok,
                   repaired, wins>>

Text(d, p) == d[p].text
AllText(d) == UNION {d[p].text : p \in Paths}
Changed(c, d) ==
    /\ disk' = d
    /\ alone' = {r \in alone : c \in Owned(r) \/ d = disk}

(* A thread takes the call and its handler reads the disk: it refuses,      *)
(* looks, or goes on.  An edit also refuses when its text is not found.     *)
Check(c) ==
    /\ phase[c] = "queued" /\ HasThread(c)
    /\ disk' = disk /\ alone' = alone
    /\ \/ /\ ~Passes(cmd[c], disk) \/ Edits(cmd[c])
          /\ Ended(c, FALSE) /\ UNCHANGED lost
       \/ /\ Passes(cmd[c], disk) /\ cmd[c].op \in Looking \cup DocxLooking
          /\ Ended(c, TRUE) /\ UNCHANGED lost
       \/ /\ Passes(cmd[c], disk) /\ cmd[c].op \notin Looking \cup DocxLooking
          /\ Goes(c, "act")
          /\ seen' = [seen EXCEPT ![c] = IF Edits(cmd[c]) THEN Text(disk, cmd[c].path) ELSE {}]
          /\ base' = [base EXCEPT ![c] = Text(disk, Target(cmd[c])) \cap Settled]
          /\ UNCHANGED <<node, lost>>

(* The calls that change nothing of the workspace: git, a web search, and a *)
(* Composio tool, whose answer may never come.                              *)
Answered(c, op) ==
    /\ phase[c] = "act" /\ cmd[c].op = op
    /\ \E good \in BOOLEAN : Ended(c, good)
    /\ UNCHANGED <<disk, alone, lost>>

Git(c) == Answered(c, "git")
WebSearch(c) == Answered(c, "search")
Composio(c) == Answered(c, "composio")

(* soffice may or may not write the PDF; the result is a success whenever   *)
(* there is a file of that name.                                            *)
Convert(c) ==
    LET p == cmd[c].to
    IN  /\ phase[c] = "act" /\ cmd[c].op = "convert_to_pdf"
        /\ \/ Changed(c, disk) /\ Ended(c, Exists(disk, p))
           \/ /\ disk[p].kind # "dir" /\ HasParent(disk, p)
              /\ Changed(c, [disk EXCEPT ![p] = File({c}, c)]) /\ Ended(c, TRUE)
        /\ UNCHANGED lost

Act(c) ==
    /\ phase[c] = "act" /\ cmd[c].op \notin Remote \cup {"convert_to_pdf"}
    /\ \/ /\ ~Works(cmd[c], disk)
          /\ disk' = disk /\ alone' = alone
          /\ Ended(c, FALSE) /\ UNCHANGED lost
       \/ /\ Works(cmd[c], disk)
          /\ Changed(c, Worked(cmd[c], disk, c))
          /\ lost' = [lost EXCEPT ![c] = base[c] \cap (AllText(disk) \ AllText(disk'))]
          /\ IF HasMore(cmd[c])
             THEN /\ Goes(c, "fill")
                  /\ node' = [node EXCEPT ![c] = disk'[Target(cmd[c])].node]
                  /\ seen' = IF cmd[c].op = "copy_file"
                             THEN [seen EXCEPT ![c] = Text(disk, cmd[c].path)] ELSE seen
                  /\ UNCHANGED base
             ELSE Ended(c, TRUE)

Fill(c) ==
    /\ phase[c] = "fill" /\ cmd[c].op # "delete_directory"
    /\ LET text == IF cmd[c].op = "copy_file" THEN seen[c] ELSE seen[c] \cup {c}
       IN  /\ Changed(c, Filled(disk, node[c], text))
           /\ lost' = [lost EXCEPT ![c] = @ \ text]
    /\ Ended(c, TRUE)

(* rmtree: the emptied directory goes, unless something was put in it.      *)
RemoveDirectory(c) ==
    /\ phase[c] = "fill" /\ cmd[c].op = "delete_directory"
    /\ IF Emptied(disk, cmd[c].path) /\ disk[cmd[c].path].kind = "dir"
       THEN Changed(c, [disk EXCEPT ![cmd[c].path] = Absent]) /\ Ended(c, TRUE)
       ELSE disk' = disk /\ alone' = alone /\ Ended(c, FALSE)
    /\ UNCHANGED lost

-----------------------------------------------------------------------------
(* The node collects the results by index, repairs failed calls one after   *)
(* the other and writes the statuses.                                       *)

(* Mutant: results are taken in the order in which the threads finish.      *)
ResultInOrderOfArrival(r, i) ==
    IF batch[r][i] \in repaired THEN ok[batch[r][i]] ELSE ok[arrived[r][i]]
Result(r, i) == ok[batch[r][i]]

Unsettled(r) == {i \in DOMAIN batch[r] : status[batch[r][i]] = "running"}
Repairable(c) == cmd[c].op # "search" /\ c \notin repaired

Settle(r) ==
    /\ at[r] = "visit"
    /\ \A t \in Members(batch[r]) : phase[t] = "done"
    /\ \E i \in Unsettled(r) :
         LET t == batch[r][i]
         IN  /\ \A j \in Unsettled(r) : i <= j
             /\ status' = [status EXCEPT ![t] = IF Result(r, i) THEN "done" ELSE "failed"]
             /\ at' = [at EXCEPT ![r] =
                         IF Unsettled(r) # {i} THEN "visit"
                         ELSE IF ~Result(r, i) \/ Todo(r) = {} \/ r \in abandoned
                         THEN "over" ELSE "free"]
    /\ UNCHANGED <<disk, abandoned, queue, prio, batch, arrived, cmd, phase, ok,
                   seen, node, repaired, base, lost, wins, alone>>

(* _repair_tool_task: new arguments for a failed call, once.                *)
Repair(r) ==
    /\ at[r] = "visit"
    /\ \A t \in Members(batch[r]) : phase[t] = "done"
    /\ \E i \in Unsettled(r), p \in RepairPaths :
         LET t == batch[r][i]
         IN  /\ \A j \in Unsettled(r) : i <= j
             /\ ~Result(r, i) /\ Repairable(t)
             /\ [cmd[t] EXCEPT !.path = p] \in Command
             /\ cmd' = [cmd EXCEPT ![t].path = p]
             /\ phase' = [phase EXCEPT ![t] = "queued"]
             /\ lost' = [lost EXCEPT ![t] = {}]
             /\ repaired' = repaired \cup {t}
    /\ UNCHANGED <<disk, at, abandoned, queue, prio, status, batch, arrived, ok,
                   seen, node, base, wins, alone>>

(* The request's deadline passes or its client disconnects.                 *)
Abandon(r) ==
    /\ at[r] \in {"free", "visit"} /\ r \notin abandoned
    /\ abandoned' = abandoned \cup {r}
    /\ at' = [at EXCEPT ![r] = IF @ = "free" THEN "over" ELSE @]
    /\ UNCHANGED <<disk, queue, prio, status, batch, arrived, cmd, phase, ok,
                   seen, node, repaired, base, lost, wins, alone>>

Step(c) == Check(c) \/ Git(c) \/ WebSearch(c) \/ Composio(c)
           \/ Convert(c) \/ Act(c) \/ Fill(c) \/ RemoveDirectory(c)
Node(r) == Visit(r) \/ Settle(r) \/ Repair(r) \/ Abandon(r)
Next == \/ \E c \in Calls : Step(c)
        \/ \E r \in Runs : Node(r)

Safety == Init /\ [][Next]_vars

(* The threads of the process run; only a Composio call has no timeout.     *)
Spec ==
    /\ Safety
    /\ \A c \in Tasks : WF_vars(Step(c) /\ cmd[c].op # "composio")
    /\ \A r \in Runs : WF_vars(Settle(r))

-----------------------------------------------------------------------------
(* The state is well formed; what exists on the disk lies in directories    *)
(* that exist, whatever calls create, move and remove at the same time.     *)
TypeOK ==
    /\ disk \in [Paths -> [kind : {"none", "dir", "file"}, text : SUBSET Marks,
                           node : Marks \cup {"none"}]]
    /\ IsTree(disk)
    /\ at \in [Runs -> {"free", "visit", "over"}] /\ abandoned \subseteq Runs
    /\ queue \in [Runs -> Seq(Tasks)] /\ batch \in [Runs -> Seq(Tasks)]
    /\ arrived \in [Runs -> Seq(Tasks)]
    /\ prio \in [Tasks -> Nat]
    /\ status \in [Tasks -> {"none", "todo", "running", "done", "failed"}]
    /\ cmd \in [Calls -> Command] /\ repaired \subseteq Tasks
    /\ phase \in [Calls -> {"none", "queued", "act", "fill", "done"}]
    /\ ok \in [Calls -> BOOLEAN] /\ seen \in [Calls -> SUBSET Marks]
    /\ node \in [Calls -> Marks \cup {"none"}]
    /\ base \in [Calls -> SUBSET Marks] /\ lost \in [Calls -> SUBSET Marks]
    /\ wins \in [Tasks -> Nat] /\ alone \subseteq Runs

Gentle(c) == \/ Creates(c) \/ Edits(c)
             \/ c.op \in {"append_file", "rename_file", "mkdir", "workspace/create-folder"}

(* A call that promises not to overwrite (create, append, edit, rename) and *)
(* reports success has not removed any text that stood in its file, and was *)
(* acknowledged, when it began: only text that arrives between its check    *)
(* and its write can be lost, to other runs, abandoned ones or the API.     *)
GentleCallsKeepText ==
    \A c \in Calls : phase[c] = "done" /\ ok[c] /\ Gentle(cmd[c]) => lost[c] = {}

(* Within a visit a task whose tool has succeeded is never handed to it     *)
(* again, by the pool or by the repair, and a task is DONE exactly if a     *)
(* call of its own succeeded, in whatever order the threads finish.         *)
StatusIsOwnResult ==
    \A t \in Tasks : /\ wins[t] <= 1
                     /\ status[t] = "done" => wins[t] = 1
                     /\ status[t] = "failed" => wins[t] = 0

Writes(t) == cmd[t].op \in ParallelWrites
(* Two tasks of a visit may still write one file: _select_parallel_tasks    *)
(* compares spellings, and a repaired task may name any path.               *)
Collide(t, u) == /\ t # u /\ cmd[t].path = cmd[u].path
                 /\ \/ cmd[t].dotted # cmd[u].dotted
                    \/ {t, u} \cap repaired # {}

(* What the parallel writes of a visit report as written is on the disk     *)
(* when the visit ends, as long as nobody else has changed the workspace,   *)
(* except for tasks of the batch that name one file in two spellings and    *)
(* for repaired ones.                                                       *)
BatchWritesStand ==
    \A r \in alone : at[r] \in {"free", "over"} =>
      \A t \in Members(batch[r]) :
        status[t] = "done" /\ Writes(t) /\ (\A u \in Members(batch[r]) : ~Collide(t, u))
          => t \in Text(disk, cmd[t].path)

(* Every visit to the node ends, abandoned or not, with more tasks than     *)
(* threads as well, unless a Composio call never returns.                   *)
VisitsEnd ==
    \A r \in Runs :
      (at[r] = "visit") ~> \/ at[r] # "visit"
                           \/ \E t \in Members(batch[r]) : cmd[t].op = "composio"
=============================================================================
