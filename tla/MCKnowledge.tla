---------------------------- MODULE MCKnowledge -----------------------------
(* An instance of Knowledge for TLC: two files, one of them too long for a  *)
(* chunk and with text before its first heading.                            *)
EXTENDS Knowledge, TLC

CONSTANTS notes, script

MCText(c) ==
    IF c = notes THEN <<"text", "heading", "text", "heading">> ELSE <<"def", "text">>
Renamings == Permutations(Models) \union Permutations(Workers)

MCFileType(c) == IF c = notes THEN "markdown" ELSE "code"
=============================================================================
