------------------------------- MODULE Files -------------------------------
(***************************************************************************)
(* The files of a workspace and what the operations of the tools do to     *)
(* them: the handlers of FileSystemTool and DocxTool and the file          *)
(* endpoints of the API, as operators on a disk.                           *)
(*                                                                         *)
(* A path holds nothing, a directory or a file.  A file's text is the set  *)
(* of the calls whose text it contains, and its node is the call or path   *)
(* that first created it: an open file is written wherever it was moved    *)
(* to.  Moved, copied and renamed paths are files.                         *)
(***************************************************************************)
EXTENDS FiniteSets

CONSTANTS
    Paths,       \* the paths below the workspace
    Above,       \* path -> the directories above it in the workspace
    AgentSource  \* paths with a component named like the agent's source

ASSUME PathAssumption ==
    /\ Above \in [Paths -> SUBSET Paths]
    /\ \A p \in Paths : p \notin Above[p]
    /\ \A p \in Paths : \A q \in Above[p] : Above[q] \subseteq Above[p]
    /\ AgentSource \subseteq Paths

Overwriting == {"write_file", "create"}
Rewriting == {"edit_file", "replace_text"}
DocxRewriting == {"docx.replace_text", "add_comment"}
Looking == {"read_file", "list_directory"}
DocxLooking == {"read", "read_tables", "validate"}

(* FileSystemTool.actions and DocxTool.actions, the file endpoints of the   *)
(* API, and the tools that leave the workspace's files alone (git checkout  *)
(* and run_python do not, and are left out).                                *)
FileOperations == Rewriting \cup Looking \cup
    {"write_file", "delete_file", "delete_directory", "mkdir", "create_file",
     "append_file", "move_file", "copy_file", "rename_file"}
DocxOperations == DocxRewriting \cup DocxLooking \cup {"create", "convert_to_pdf"}
Endpoints == {"files/create", "workspace/create-folder"}
Remote == {"search", "git", "composio"}
Operations == FileOperations \cup DocxOperations \cup Endpoints \cup Remote

(* path: the file or the source; to: the destination, where there is one.   *)
(* A path may be spelled in two ways ("a.txt" and "./a.txt").  A renamed    *)
(* file stays in its directory.                                             *)
Command ==
    {c \in [op : Operations, path : Paths, to : Paths, dotted : BOOLEAN] :
       c.op = "rename_file" => Above[c.to] = Above[c.path]}

Edits(c) == c.op \in Rewriting \cup DocxRewriting
Creates(c) == c.op \in {"create_file", "files/create"}
Target(c) == IF c.op \in {"move_file", "copy_file", "rename_file", "convert_to_pdf"}
             THEN c.to ELSE c.path

Absent == [kind |-> "none", text |-> {}, node |-> "none"]
Directory == [kind |-> "dir", text |-> {}, node |-> "none"]
File(text, node) == [kind |-> "file", text |-> text, node |-> node]

Exists(d, p) == d[p].kind # "none"
IsFile(d, p) == d[p].kind = "file"
Below(p) == {q \in Paths : p \in Above[q]}
HasParent(d, p) == \A q \in Above[p] : d[q].kind = "dir"

(* A tree: what exists lies in directories that exist.                      *)
IsTree(d) == \A p \in Paths : Exists(d, p) => HasParent(d, p)

-----------------------------------------------------------------------------
(* The early returns of the handlers, read before they touch the disk.     *)
MayCreateFile(c, d) == ~Exists(d, c.path)
MayCreateFolder(c, d) == ~Exists(d, c.path) /\ HasParent(d, c.path)
MayAppend(c, d) == Exists(d, c.path)
MayList(c, d) == Exists(d, c.path)
MayRead(c, d) == IsFile(d, c.path)
MayReadDocument(c, d) == IsFile(d, c.path)
MayEdit(c, d) == IsFile(d, c.path) /\ d[c.path].text # {}
MayEditDocument(c, d) == IsFile(d, c.path) /\ d[c.path].text # {}
MayDeleteFile(c, d) == IsFile(d, c.path) /\ c.path \notin AgentSource
MayDeleteDirectory(c, d) == d[c.path].kind = "dir" /\ c.path \notin AgentSource
MayMove(c, d) == Exists(d, c.path) /\ c.path \notin AgentSource
MayCopy(c, d) == IsFile(d, c.path)
MayRename(c, d) ==
    Exists(d, c.path) /\ ~Exists(d, c.to) /\ c.path \notin AgentSource
MayConvert(c, d) == IsFile(d, c.path)

(* Mutant: an existing file is no reason to refuse.                         *)
PassesUnchecked(c, d) == TRUE

Passes(c, d) ==
    CASE Creates(c) -> MayCreateFile(c, d)
      [] c.op = "workspace/create-folder" -> MayCreateFolder(c, d)
      [] c.op = "append_file" -> MayAppend(c, d)
      [] c.op = "list_directory" -> MayList(c, d)
      [] c.op = "read_file" -> MayRead(c, d)
      [] c.op \in DocxLooking -> MayReadDocument(c, d)
      [] c.op \in Rewriting -> MayEdit(c, d)
      [] c.op \in DocxRewriting -> MayEditDocument(c, d)
      [] c.op = "delete_file" -> MayDeleteFile(c, d)
      [] c.op = "delete_directory" -> MayDeleteDirectory(c, d)
      [] c.op = "move_file" -> MayMove(c, d)
      [] c.op = "copy_file" -> MayCopy(c, d)
      [] c.op = "rename_file" -> MayRename(c, d)
      [] c.op = "convert_to_pdf" -> MayConvert(c, d)
      [] OTHER -> TRUE

(* Mutant: a missing parent directory is not created.                       *)
WithoutParents(d, p) == d
(* parent.mkdir(parents=True, exist_ok=True), where no file is in the way.  *)
WithParents(d, p) == [q \in Paths |-> IF q \in Above[p] THEN Directory ELSE d[q]]
MayHaveParents(d, p) == \A q \in Above[p] : ~IsFile(d, q)

(* open(path, "w"): an existing file keeps its node and loses its text.     *)
Truncated(d, p, me) ==
    [d EXCEPT ![p] = File({}, IF IsFile(d, p) THEN d[p].node ELSE me)]
Appended(d, p, me) ==
    [d EXCEPT ![p] = File(d[p].text \cup {me}, IF IsFile(d, p) THEN d[p].node ELSE me)]

(* The step that changes the tree, after the checks.  False: an OSError,    *)
(* which the handler turns into a failed result.                            *)
Works(c, d) ==
    CASE c.op \in Overwriting \/ Creates(c) ->
           d[c.path].kind # "dir" /\ MayHaveParents(d, c.path)
      [] c.op = "mkdir" -> ~IsFile(d, c.path) /\ MayHaveParents(d, c.path)
      [] c.op = "workspace/create-folder" -> ~Exists(d, c.path) /\ MayHaveParents(d, c.path)
      [] c.op = "append_file" \/ Edits(c) -> d[c.path].kind # "dir" /\ HasParent(d, c.path)
      [] c.op = "delete_file" -> IsFile(d, c.path)
      [] c.op = "delete_directory" -> d[c.path].kind = "dir"
      [] c.op \in {"move_file", "copy_file"} ->
           IsFile(d, c.path) /\ c.path # c.to /\ d[c.to].kind # "dir" /\ MayHaveParents(d, c.to)
      [] c.op = "rename_file" -> IsFile(d, c.path) /\ d[c.to].kind # "dir"

WriteFile(d, p, me) == Truncated(WithParents(d, p), p, me)
SaveDocument(d, p, me) == Truncated(WithParents(d, p), p, me)
MakeDirectory(d, p) == [WithParents(d, p) EXCEPT ![p] = Directory]
DeleteFile(d, p) == [d EXCEPT ![p] = Absent]
DeleteBelow(d, p) == [q \in Paths |-> IF q \in Below(p) THEN Absent ELSE d[q]]
MoveFile(d, p, to) == [WithParents(d, to) EXCEPT ![to] = d[p], ![p] = Absent]
CopyFile(d, to, me) == Truncated(WithParents(d, to), to, me)

Worked(c, d, me) ==
    CASE c.op = "create" -> SaveDocument(d, c.path, me)
      [] c.op = "write_file" \/ Creates(c) -> WriteFile(d, c.path, me)
      [] c.op \in {"mkdir", "workspace/create-folder"} -> MakeDirectory(d, c.path)
      [] c.op = "append_file" -> Appended(d, c.path, me)
      [] Edits(c) -> Truncated(d, c.path, me)
      [] c.op = "delete_file" -> DeleteFile(d, c.path)
      [] c.op = "delete_directory" -> DeleteBelow(d, c.path)
      [] c.op \in {"move_file", "rename_file"} -> MoveFile(d, c.path, c.to)
      [] c.op = "copy_file" -> CopyFile(d, c.to, me)

(* What is left to do after that step: the text of a truncated file, or the *)
(* directory that rmtree has emptied.                                       *)
HasMore(c) == c.op \in Overwriting \cup {"copy_file", "delete_directory"}
              \/ Creates(c) \/ Edits(c)

Filled(d, node, text) ==
    [p \in Paths |-> IF IsFile(d, p) /\ d[p].node = node THEN File(text, node) ELSE d[p]]
Emptied(d, p) == \A q \in Below(p) : ~Exists(d, q)
=============================================================================
