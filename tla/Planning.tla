------------------------------ MODULE Planning ------------------------------
(***************************************************************************)
(* How the planner turns what it is given into tasks: the tool calls or    *)
(* the JSON of a language model, a blueprint or a template, as operators:  *)
(* agentflow/agents/planner/agent.py and templates.py.                     *)
(*                                                                         *)
(* A task is known by what it does to which path, by its priority and by   *)
(* what stands in for the text it writes.  Titles, goals and capabilities  *)
(* are left out.                                                           *)
(***************************************************************************)
EXTENDS Files, Integers, Sequences

CONSTANTS
    NoPath,     \* a call names no path
    Stem,       \* path -> its last component without the extension
    Flat,       \* path -> its spelling in a task id, without "/", "." and "-"
    CodeFiles,  \* paths that need generated code
    MaxTasks    \* most tasks of one plan of the model (8 in the code)

ASSUME PlanningAssumption ==
    /\ NoPath \notin Paths
    /\ Stem \in [Paths -> Paths]
    /\ \A p \in Paths : Above[p] # {} => \E q \in Above[p] : Above[q] = Above[p] \ {q}
    /\ CodeFiles \subseteq Paths
    /\ MaxTasks \in Nat \ {0}

(* What a task carries for the text of its file: the text, a text too short *)
(* to be one, the prompt to generate it from, nothing; and what a generator *)
(* makes of it.                                                             *)
Bodies == {"text", "stub", "prompt", "none", "code", "broken"}

(* given: the path in the arguments, if they parse; found: the one a        *)
(* regular expression finds in them otherwise.                              *)
ToolCall == [op : Operations, given : Paths \cup {NoPath}, found : Paths \cup {NoPath},
             body : {"text", "stub", "prompt", "none"}]

(* name: an action, or what the id of a directory task begins with.         *)
TaskId(name, n, flat) == [name |-> name, n |-> n, flat |-> flat]
PlannedTask(id, op, path, prio, body) ==
    [id |-> id, op |-> op, path |-> path, prio |-> prio, body |-> body]

(* The members of a finite set of positions, in the order of Before.        *)
InOrder(S, Before(_, _)) ==
    [k \in 1 .. Cardinality(S) |->
        CHOOSE i \in S : Cardinality({j \in S : Before(j, i)}) = k - 1]

-----------------------------------------------------------------------------
(* Function calling.                                                        *)

(* _NON_CREATIVE_ACTIONS, the only action of the search tool among them.    *)
NonCreative == {"read_file", "list_directory", "read", "search"}

Garbled(call) == call.op \in {"write_file", "create_file"} /\ call.given = NoPath

(* A call becomes a task unless it only looks, or writes to no known path.  *)
Queued(call) == call.op \notin NonCreative /\ ~(Garbled(call) /\ call.found = NoPath)

Parent(p) == CHOOSE q \in Above[p] : Above[q] = Above[p] \ {q}

(* What is made of a path whose text is lost: its directory, or one that is *)
(* called like the file.                                                    *)
DirectoryFor(p) == IF Above[p] # {} THEN Parent(p) ELSE Stem[p]

(* The id is the function's name and the position of the call in the        *)
(* response: another response gives the same ids again.                     *)
TaskOf(call, i) ==
    LET id == TaskId(call.op, i, "")
    IN  CASE ~Garbled(call) -> PlannedTask(id, call.op, call.given, 80, call.body)
          [] Garbled(call) /\ call.body \in {"text", "prompt"} ->
               PlannedTask(id, "write_file", call.found, 80, call.body)
          [] OTHER ->
               LET p == DirectoryFor(call.found)
               IN  PlannedTask(TaskId("mkdir", 0, Flat[p]), "mkdir", p, 100, "none")

(* Too many tasks: those of the highest priority remain, in that order.     *)
Trimmed(tasks) ==
    LET n == Len(tasks)
        Before(i, j) == \/ tasks[i].prio > tasks[j].prio
                        \/ tasks[i].prio = tasks[j].prio /\ i < j
        order == InOrder(1 .. n, Before)
    IN  IF n <= MaxTasks THEN tasks ELSE [k \in 1 .. MaxTasks |-> tasks[order[k]]]

PlanFromToolCalls(calls) ==
    LET order == InOrder({i \in DOMAIN calls : Queued(calls[i])}, <)
    IN  Trimmed([k \in DOMAIN order |-> TaskOf(calls[order[k]], order[k])])

-----------------------------------------------------------------------------
(* A plan, or None.  A direct answer and a completed goal have no tasks.    *)

Plan(tasks, direct, completed) ==
    [tasks |-> tasks, direct |-> direct, completed |-> completed]
None == Plan(<<>>, FALSE, FALSE)

(* items: the tasks of the JSON that have a tool or a capability.           *)
PlanFromJson(items, listed, completed, direct) ==
    IF completed \/ ~listed
    THEN Plan(<<>>, direct, completed \/ direct)
    ELSE Plan(Trimmed(items), FALSE, completed)

IsEmptyOpen(plan) == plan.tasks = <<>> /\ ~plan.completed

(* Function calling first.  A goal it calls completed is not taken from it; *)
(* when neither answers, the plan is a direct answer, not completed.        *)
LlmGenerateTasks(fc, json) ==
    CASE fc.tasks # <<>> -> fc
      [] fc.tasks = <<>> /\ ~IsEmptyOpen(json) -> json
      [] OTHER -> Plan(<<>>, TRUE, FALSE)

(* _handle_non_project: when neither answers, the goal counts as completed.  *)
HandleNonProject(fc, json) ==
    CASE ~IsEmptyOpen(fc) -> fc
      [] IsEmptyOpen(fc) /\ ~IsEmptyOpen(json) -> json
      [] OTHER -> Plan(<<>>, TRUE, TRUE)

(* JSON first, for the queue of a project that has one.                     *)
GenerateMoreTasks(fc, json) ==
    CASE ~IsEmptyOpen(json) -> json
      [] IsEmptyOpen(json) /\ ~IsEmptyOpen(fc) -> fc
      [] OTHER -> None

-----------------------------------------------------------------------------
(* A blueprint: for each file its directory, once, and the file; the        *)
(* directories come first.                                                  *)

FileSpec == [path : Paths, type : {"create", "modify", "skip", "reference"}]

Wanted(specs) == {i \in DOMAIN specs : specs[i].type \in {"create", "modify"}}

(* The positions that bring a directory of their own.                       *)
Opening(specs) ==
    {i \in Wanted(specs) :
        /\ Above[specs[i].path] # {}
        /\ \A j \in Wanted(specs) : j < i /\ Above[specs[j].path] # {} =>
              Parent(specs[j].path) # Parent(specs[i].path)}

DirectoryTask(p) == PlannedTask(TaskId("mkdir", 0, Flat[p]), "mkdir", p, 100, "none")
FileTask(spec) ==
    PlannedTask(TaskId("file", 0, Flat[spec.path]),
                IF spec.type = "modify" THEN "edit_file" ELSE "write_file",
                spec.path, 80, "text")

BlueprintTasks(specs) ==
    LET dirs == InOrder(Opening(specs), <)
        files == InOrder(Wanted(specs), <)
    IN  [k \in DOMAIN dirs |-> DirectoryTask(Parent(specs[dirs[k]].path))]
        \o [k \in DOMAIN files |-> FileTask(specs[files[k]])]

(* TaskQueue.add into an empty queue: of the tasks with one id the last.    *)
Surviving(tasks) ==
    {tasks[k] : k \in {k \in DOMAIN tasks :
        \A l \in DOMAIN tasks : l > k => tasks[l].id # tasks[k].id}}

(* A template.  Its paths begin with the project's directory; the files     *)
(* found are named from that directory on.  Names are sequences.            *)
InferPath(project, file) == <<project>> \o file
InitiallyDone(project, files, existing) ==
    {file \in files : InferPath(project, file) \in existing}

-----------------------------------------------------------------------------
(* The code generator: at most two attempts for each file to be written.    *)

Generating(t) ==
    /\ t.op \in {"write_file", "create_file"} /\ t.path \in CodeFiles
    /\ t.body # "text"

(* What the model returns for a file, and whether Python can parse it.      *)
Attempts == {"nothing", "valid", "invalid"}

(* The body a task is left with, and whether an error is reported.          *)
FillCodeContent(t, first, second) ==
    CASE ~Generating(t) -> [body |-> t.body, error |-> FALSE]
      [] Generating(t) /\ first = "nothing" -> [body |-> t.body, error |-> TRUE]
      [] Generating(t) /\ first = "valid" -> [body |-> "code", error |-> FALSE]
      [] Generating(t) /\ first = "invalid" ->
           IF second = "valid" THEN [body |-> "code", error |-> FALSE]
           ELSE [body |-> "broken", error |-> TRUE]
=============================================================================
