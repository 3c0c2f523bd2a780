----------------------------- MODULE MCPlanning -----------------------------
(* What the operators of the planner and of its context do with every small *)
(* input: evaluated before the run of MCTools, which gives the constants.   *)
EXTENDS Context

Calling(op, p) == [op |-> op, given |-> p, found |-> p, body |-> "text"]
Unparsed(p, body) == [op |-> "write_file", given |-> NoPath, found |-> p, body |-> body]

(* Small inputs for the planner's operators.                                *)
SmallCalls ==
    {Calling(op, p) : op \in {"write_file", "read_file"}, p \in {"a", "b"}}
    \cup {Unparsed(p, body) : p \in {NoPath, "d/e"}, body \in {"text", "none"}}
UpTo(S, n) == UNION {[1 .. k -> S] : k \in 0 .. n}

(* A plan has at most MaxTasks tasks, all of them from calls that do        *)
(* something, and none is left out that would go before one that is in it.  *)
ASSUME PlanIsTopOfCalls ==
    \A calls \in UpTo(SmallCalls, 4) :
        LET plan == PlanFromToolCalls(calls)
            all == {TaskOf(calls[i], i) : i \in {i \in DOMAIN calls : Queued(calls[i])}}
            out == all \ {plan[k] : k \in DOMAIN plan}
        IN  /\ Len(plan) <= MaxTasks
            /\ \A k \in DOMAIN plan : plan[k] \in all /\ plan[k].op \notin NonCreative
            /\ \A t \in out, k \in DOMAIN plan : t.prio <= plan[k].prio

SmallSpecs == {[path |-> p, type |-> ty] : p \in {"a", "b", "d/e"}, ty \in {"create", "modify", "skip"}}

(* A blueprint's directories come before its files, each of them once, and  *)
(* none that no file needs.                                                 *)
ASSUME DirectoriesFirst ==
    \A specs \in UpTo(SmallSpecs, 3) :
        LET tasks == BlueprintTasks(specs)
            dirs == {k \in DOMAIN tasks : tasks[k].op = "mkdir"}
        IN  /\ \A k \in DOMAIN tasks \ dirs :
                  Above[tasks[k].path] # {} =>
                      \E l \in dirs : l < k /\ tasks[l].path = Parent(tasks[k].path)
            /\ \A k, l \in dirs : k # l => tasks[k].path # tasks[l].path
            /\ \A l \in dirs, k \in DOMAIN tasks \ dirs : l < k

SmallPlans == {Plan(tasks, direct, completed) :
    tasks \in {<<>>, BlueprintTasks(<<[path |-> "a", type |-> "create"]>>)},
    direct \in BOOLEAN, completed \in BOOLEAN}

(* A first plan that is empty and open is a direct answer; a goal that is   *)
(* no project always gets an answer or tasks.                               *)
ASSUME PlansLeadSomewhere ==
    \A fc, json \in SmallPlans :
        /\ IsEmptyOpen(LlmGenerateTasks(fc, json)) => LlmGenerateTasks(fc, json).direct
        /\ ~IsEmptyOpen(HandleNonProject(fc, json))

(* What Python cannot parse is written only along with an error.            *)
ASSUME BrokenIsReported ==
    \A op \in {"write_file", "edit_file"}, p \in Paths, body \in Bodies \ {"broken"},
       first, second \in Attempts :
        LET t == PlannedTask(TaskId(op, 1, ""), op, p, 80, body)
            filled == FillCodeContent(t, first, second)
        IN  filled.body = "broken" => filled.error

Histories == UpTo([role : {"user"}, chars : 0 .. 3], 4)

(* Every message stays in the window or goes to the summary; the last ones  *)
(* stay; what stays fits, is two messages, or is everything.                *)
ASSUME CompressionKeepsAll ==
    \A h \in Histories, budget, minKeep \in 0 .. 4 :
        LET c == CompressHistory(h, budget, minKeep)
        IN  /\ c.older \o c.recent = h
            /\ h # <<>> => c.recent # <<>>
            /\ \/ CountTokens(c.recent) <= budget
               \/ Len(c.recent) <= 2
               \/ c.recent = h /\ minKeep \notin 1 .. Len(h) - 1

(* What is not in the window need not be in the summary: the rule leaves    *)
(* out its end, the model does not see its beginning.                       *)
ASSUME SummaryIsPartial ==
    \A byModel \in BOOLEAN :
        \E h \in Histories :
            LET older == CompressHistory(h, 1, 1).older
            IN  Spoken(older) \ Summarised(older, byModel) # {}

(* The hard limit still drops turns that no summary tells of: short turns   *)
(* that fit in the budget.                                                  *)
ASSUME LimitForgets ==
    \E h \in Histories :
        LET m == MemoryRun(h, 1, 1, 4, 2, 2) IN m.cut > 0 /\ m.older = <<>>

(* What is known is not learnt again, and stop words are facts only.        *)
ASSUME KnownFactsStay ==
    \A entities, topics \in UpTo({"x", "y", "the"}, 3), answered \in BOOLEAN :
        LET old == [key \in {<<"entity", "x">>} |-> 0]
            facts == ExtractAndStore(old, entities, topics, answered, 1)
        IN  /\ facts[<<"entity", "x">>] = 0
            /\ \A key \in DOMAIN facts : key[2] \in StopWords => key[1] = "fact"

(* The newest facts of one term can take the place of another's: the limit  *)
(* per term bounds only their number together.                              *)
ASSUME TermsCompete ==
    \E rows \in UpTo({{"x"}, {"y"}}, 3) :
        \E k \in DOMAIN rows :
            /\ "y" \in rows[k]
            /\ \A j \in Recalled(rows, {"x", "y"}, 1) : "y" \notin rows[j]

SomeSections == {"goal", "conversation_summary", "search_results", "project_structure"}
Lengths == {chars \in [SomeSections -> {0, 2, 9}] : chars["goal"] > 0}
Sized(chars) ==
    Sections([n \in {SectionNames[k] : k \in DOMAIN SectionNames} |->
        IF n \in SomeSections THEN chars[n] ELSE 0])

(* The goal stays; the rest together is hardly longer than the limit; what  *)
(* fits is not cut.                                                         *)
ASSUME PromptFits ==
    \A chars \in Lengths, limit \in {5, 10, 20} :
        LET all == Sized(chars)
            prompt == FormatPlannerPrompt(all, limit)
        IN  /\ prompt[1] = all[1]
            /\ Len(prompt) > 1 => 100 * Joined(prompt) <= 105 * limit
            /\ Joined(all) <= limit => prompt = all

(* A section can be dropped and one of a lower tier stay: the code takes    *)
(* what fits, in the order of the sections.                                 *)
ASSUME LowerTierMayStay ==
    \E chars \in Lengths :
        LET all == Sized(chars)
            prompt == FormatPlannerPrompt(all, 10)
            kept == {prompt[k] : k \in DOMAIN prompt}
        IN  \E k, l \in DOMAIN all :
                all[k].tier > all[l].tier /\ all[k] \notin kept /\ all[l] \in kept

(* After a first result on a file at the top the planner is shown an empty  *)
(* workspace: the file is taken for the project's directory.                *)
ASSUME TopFileHidesWorkspace ==
    LET d == [p \in Paths |-> IF Above[p] = {} THEN File({}, p) ELSE Absent]
    IN  WorkspaceFiles(d, <<>>) # {} /\ WorkspaceFiles(d, <<NoPath, "a">>) = {}
=============================================================================
