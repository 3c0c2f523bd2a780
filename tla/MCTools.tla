------------------------------ MODULE MCTools ------------------------------
(* Two runs and one request on a workspace of two files, a directory and a  *)
(* file in it; a pool of two threads.                                       *)
EXTENDS Tools, MCPlanning

MCPaths == {"a", "b", "d", "d/e"}
MCAbove == [p \in MCPaths |-> IF p = "d/e" THEN {"d"} ELSE {}]
MCRuns == {"r1", "r2"}
MCSlots == [r \in MCRuns |-> IF r = "r1" THEN <<"t1", "t2", "t3">> ELSE <<"u1">>]

Do(op, p) == [op |-> op, path |-> p, to |-> p, dotted |-> FALSE]
Dotted(op, p) == [op |-> op, path |-> p, to |-> p, dotted |-> TRUE]
FromTo(op, p, q) == [op |-> op, path |-> p, to |-> q, dotted |-> FALSE]
At(n, c) == [cmd |-> c, prio |-> n]

MCStem == [p \in MCPaths |-> "d"]
MCFlat == [p \in MCPaths |-> IF p = "d/e" THEN "d_e" ELSE p]

(* What the planner makes of a response of the model.                       *)
Planned(calls) ==
    LET plan == PlanFromToolCalls(calls)
    IN  [k \in DOMAIN plan |-> At(plan[k].prio, Do(plan[k].op, plan[k].path))]

MCPlans == [r \in MCRuns |->
    IF r = "r1" THEN {
        Planned(<<Calling("write_file", "a"), Calling("search", "a"), Unparsed("a", "text")>>),
        <<At(1, Do("append_file", "a")), At(1, Dotted("write_file", "a"))>>,
        <<At(1, Do("create_file", "d/e")), At(1, Do("write_file", "b"))>>,
        Planned(<<Calling("create_file", "d/e"), Unparsed("d/e", "none"), Unparsed(NoPath, "text")>>)
            \o <<At(0, Do("git", "a"))>>,
        <<At(1, Do("edit_file", "a")), At(1, FromTo("copy_file", "a", "b"))>>,
        <<At(1, FromTo("move_file", "a", "b")), At(1, Do("delete_file", "b")),
          At(0, Do("delete_directory", "d"))>>,
        <<At(1, FromTo("rename_file", "a", "b")), At(0, Do("composio", "a"))>>,
        <<At(1, Do("add_comment", "a")), At(0, FromTo("convert_to_pdf", "a", "b"))>>,
        <<At(1, Do("search", "a")), At(1, Do("list_directory", "d")),
          At(0, Do("read_file", "a"))>>}
    ELSE {<<At(1, Do("append_file", "a"))>>}]

MCAsked == {Do("files/create", "b"), Do("workspace/create-folder", "d")}
MCDisks == {[p \in MCPaths |-> IF p = "a" THEN File({"a"}, "a") ELSE Absent]}
=============================================================================
