---------------------------- MODULE MCWorkflow ----------------------------
(* Instances of Workflow for TLC: small task sets with the definitions of  *)
(* tasks, templates and fallbacks the configurations choose from.          *)
EXTENDS WorkflowLoop

CONSTANTS a, b, c, f

(* An LLM-planned run with a task of each kind that has a route of its own.*)
MixedKind == a :> "write" @@ b :> "search" @@ c :> "knowledge"
MixedPrio == a :> 8 @@ b :> 8 @@ c :> 9

Named == [t \in TaskIds |-> "named"]

(* File creation with a fallback task f.                                   *)
FileKind == a :> "write" @@ b :> "write" @@ c :> "python" @@ f :> "write"
FilePrio == a :> 8 @@ b :> 8 @@ c :> 10 @@ f :> 9
(* The same files, with a script to run after them.                        *)
ScriptLast == a :> 8 @@ b :> 8 @@ c :> 7 @@ f :> 9
NoTasks == <<>>
FallbackF == <<f>>
FallbackA == <<a>>
Blueprint == <<c, a, b>>

(* A search planned after a file task.                                     *)
SearchKind == a :> "write" @@ b :> "search" @@ c :> "python" @@ f :> "write"
SearchPrio == a :> 8 @@ b :> 9 @@ c :> 7 @@ f :> 9

(* A blueprint: the directory first, then its files.                       *)
BlueprintKind == a :> "write" @@ b :> "write" @@ c :> "tool" @@ f :> "write"
(* Goals "write_file: <path>" mention the action; the rest do not.         *)
BlueprintStyle == a :> "mention" @@ b :> "mention" @@ c :> "named" @@ f :> "named"
BlueprintPrio == a :> 80 @@ b :> 80 @@ c :> 100 @@ f :> 95
=============================================================================
