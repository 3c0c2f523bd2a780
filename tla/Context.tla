------------------------------ MODULE Context ------------------------------
(***************************************************************************)
(* What of the past reaches a prompt: the window and the summary of a      *)
(* conversation, the facts of the long-term memory, the sections of the    *)
(* planner's prompt and the workspace it is shown, as operators:           *)
(* conversation/compression.py, agents/memory/agent.py,                    *)
(* services/long_term_memory.py and graph/context_builder.py.              *)
(*                                                                         *)
(* A text is known by its length.                                          *)
(***************************************************************************)
EXTENDS Planning

CONSTANTS
    CharsPerToken,    \* 4 in the code
    SummaryLines,     \* messages the rule-based summary tells of (12)
    TranscriptLines,  \* messages that fit in the 12000 characters of a transcript
    StopWords         \* words the long-term memory ignores

ASSUME ContextAssumption ==
    {CharsPerToken, SummaryLines, TranscriptLines} \subseteq Nat \ {0}

(* A message: who said it and how long it is.                               *)
Message(role, chars) == [role |-> role, chars |-> chars]

Chars(s) ==
    LET sum[k \in 0 .. Len(s)] == IF k = 0 THEN 0 ELSE sum[k - 1] + s[k].chars
    IN  sum[Len(s)]
Spoken(s) == {k \in DOMAIN s : s[k].chars > 0}
Last(s, n) == IF Len(s) <= n THEN s ELSE SubSeq(s, Len(s) - n + 1, Len(s))

(* count_tokens: at least one for a text, which has a line end between two  *)
(* messages.                                                                *)
CountTokens(s) ==
    LET n == (Chars(s) + Cardinality(Spoken(s)) - 1) \div CharsPerToken
    IN  IF Spoken(s) = {} THEN 0 ELSE IF n = 0 THEN 1 ELSE n

-----------------------------------------------------------------------------
(* compress_history.  A window of no message is the whole history: the      *)
(* slice history[-0:].                                                      *)

Window(h, minKeep) == IF minKeep \in 1 .. Len(h) THEN Len(h) - minKeep + 1 ELSE 1

(* The recent messages begin at the first one from which on they fit in the *)
(* budget, or are two.                                                      *)
MayStart(h, k, budget) ==
    \/ Len(h) - k + 1 <= 2
    \/ CountTokens(SubSeq(h, k, Len(h))) <= budget
Start(h, budget, minKeep) ==
    CHOOSE k \in Window(h, minKeep) .. Len(h) :
        /\ MayStart(h, k, budget)
        /\ \A j \in Window(h, minKeep) .. k - 1 : ~MayStart(h, j, budget)

CompressHistory(h, budget, minKeep) ==
    LET k == Start(h, budget, minKeep)
    IN  IF CountTokens(h) <= budget \/ Window(h, minKeep) = 1
        THEN [recent |-> h, older |-> <<>>]
        ELSE [recent |-> SubSeq(h, k, Len(h)), older |-> SubSeq(h, 1, k - 1)]

(* The messages a summary tells of: for the model the end of the            *)
(* transcript, by rule its beginning.                                       *)
Summarised(older, byModel) ==
    IF byModel
    THEN {k \in Spoken(older) : Cardinality({j \in Spoken(older) : j > k}) < TranscriptLines}
    ELSE {k \in Spoken(older) : Cardinality({j \in Spoken(older) : j < k}) < SummaryLines}

(* MemoryAgent.run: the turn joins the history, the history is compressed,  *)
(* and a hard limit cuts what is left.                                      *)
MemoryRun(history, question, answer, budget, minKeep, maxTurns) ==
    LET turn == history \o <<Message("user", question)>>
                \o IF answer > 0 THEN <<Message("assistant", answer)>> ELSE <<>>
        c == CompressHistory(turn, budget, minKeep)
    IN  [history |-> Last(c.recent, 2 * maxTurns), older |-> c.older,
         cut |-> Len(c.recent) - Len(Last(c.recent, 2 * maxTurns))]

-----------------------------------------------------------------------------
(* The long-term memory: key -> value; what is known is not learnt again.   *)

FactKeys(entities, topics, answered) ==
    {<<"entity", entities[k]>> : k \in {k \in DOMAIN entities : entities[k] \notin StopWords}}
    \cup {<<"topic", topics[k]>> :
            k \in {k \in DOMAIN topics : k <= 3 /\ topics[k] \notin StopWords}}
    \cup {<<"fact", entities[k]>> : k \in {k \in DOMAIN entities : k <= 2 /\ answered}}

ExtractAndStore(facts, entities, topics, answered, turn) ==
    [key \in DOMAIN facts \cup FactKeys(entities, topics, answered) |->
        IF key \in DOMAIN facts THEN facts[key] ELSE turn]

(* search_long_term_memory_batch.  rows: what each row speaks of, the       *)
(* newest first; the limit is one for all terms.                            *)
Recalled(rows, terms, perTerm) ==
    LET found == {k \in DOMAIN rows : rows[k] \cap terms # {}}
    IN  {k \in found :
            Cardinality({j \in found : j < k}) < Cardinality(terms) * perTerm}

-----------------------------------------------------------------------------
(* The planner's prompt: its sections in their order, the most important    *)
(* tier first.                                                              *)

SectionNames == <<"goal", "goal_type", "expected_outputs", "capabilities",
                  "conversation_summary", "knowledge_references",
                  "search_results", "replan_context",
                  "project_structure", "task_queue", "workspace", "tool_results">>
Tier(k) == CASE k \in 1 .. 4 -> 4 [] k \in 5 .. 6 -> 3 [] k \in 7 .. 8 -> 2 [] OTHER -> 1

(* chars: section -> its length, 0 when there is nothing to say.            *)
Sections(chars) ==
    LET order == InOrder({k \in DOMAIN SectionNames : chars[SectionNames[k]] > 0}, <)
    IN  [k \in DOMAIN order |->
            [name |-> SectionNames[order[k]], tier |-> Tier(order[k]),
             chars |-> chars[SectionNames[order[k]]]]]

(* Two line ends between two sections.                                      *)
Joined(sections) == IF sections = <<>> THEN 0 ELSE Chars(sections) + 2 * (Len(sections) - 1)

(* One after another is taken that fits, or belongs to tier 4.              *)
Fitted(sections, maxChars) ==
    LET taken[k \in 0 .. Len(sections)] ==
            IF k = 0 THEN <<>>
            ELSE LET more == Append(taken[k - 1], sections[k])
                 IN  IF \/ Joined(more) <= (maxChars * 105) \div 100
                        \/ sections[k].tier = 4
                     THEN more ELSE taken[k - 1]
    IN  taken[Len(sections)]

FormatPlannerPrompt(sections, maxChars) ==
    IF Joined(sections) <= maxChars THEN sections ELSE Fitted(sections, maxChars)

-----------------------------------------------------------------------------
(* The workspace the planner is shown: below the first component of the     *)
(* first path in a result, which is taken for the project's directory.      *)

Top(p) == CHOOSE q \in Above[p] \cup {p} : Above[q] = {}

WorkspaceFiles(d, results) ==
    LET named == {k \in DOMAIN results : results[k] # NoPath}
        first == CHOOSE k \in named : \A j \in named : k <= j
    IN  {p \in IF named = {} THEN Paths ELSE Below(Top(results[first])) : IsFile(d, p)}
=============================================================================
