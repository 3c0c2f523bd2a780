---------------------------- MODULE Conversation ----------------------------
(***************************************************************************)
(* What the conversation manager makes of a session's state, as operators: *)
(* agentflow/conversation/manager.py and session_state.py.                 *)
(*                                                                         *)
(* A text is abstracted to what the regular expressions tell apart: a      *)
(* question by its kind, an answer by what finalize_turn looks for in it.  *)
(* A goal, a list of options and a focus are known by the turn they come   *)
(* from.  Nothing in the code ever creates a slot, so the slot-filling     *)
(* branch of resolve_question is unreachable and left out; waiting_for is  *)
(* non-empty exactly while the status is "waiting_user".                   *)
(***************************************************************************)
CONSTANTS Turns, NoTurn

ASSUME ConversationAssumption == NoTurn \notin Turns

Origin == Turns \union {NoTurn}

SessionState == [goal: Origin, options: Origin, focus: Origin,
                 status: {"idle", "waiting_user", "processing"}]

(* The dataclass defaults; from_dict of an empty string gives the same.     *)
NewState == [goal |-> NoTurn, options |-> NoTurn, focus |-> NoTurn, status |-> "idle"]

(***************************************************************************)
(* The kinds of question: "pick" an option by its number or name, "go on"  *)
(* a bare confirmation, "create" an explicit new task, "topic" a question  *)
(* that needs no context, "remark" any other text.                         *)
(***************************************************************************)
Questions == {"pick", "go on", "create", "topic", "remark"}
SelfContained == {"create", "topic"}

(* What an answer says: a numbered list, a request for input, neither, or   *)
(* nothing at all.                                                          *)
Answers == {"options", "request", "plain", "none"}

IsWaiting(ss) == ss.status = "waiting_user"

ShouldContinue(ss) == (IsWaiting(ss) \/ ss.goal # NoTurn) /\ ss.status # "idle"

Resume(ss) == [ss EXCEPT !.status = "processing"]
StartWaiting(ss) == [ss EXCEPT !.status = "waiting_user"]
Reset(ss) == NewState

(* resolve_option: a number, an ordinal or the option itself.               *)
Resolves(q, ss) == ss.options # NoTurn /\ q = "pick"

(* A chosen option becomes the focus before the options are forgotten.      *)
PickOption(ss) == Resume([ss EXCEPT !.focus = ss.options, !.options = NoTurn])

Leave(ss) == [Resume(ss) EXCEPT !.status = "idle"]

(* Mutant: every question of a waiting session is taken for the answer.     *)
ResolveQuestionAlwaysReply(q, ss) ==
    CASE Resolves(q, ss) -> PickOption(ss)
      [] IsWaiting(ss) /\ q = "go on" -> Resume(ss)
      [] ss.goal # NoTurn /\ ~IsWaiting(ss) /\ q = "create" -> Reset(ss)
      [] OTHER -> ss
(* Mutant: a new task leaves the old one in place.                          *)
ResolveQuestionKeepingGoal(q, ss) ==
    CASE Resolves(q, ss) -> PickOption(ss)
      [] IsWaiting(ss) /\ q = "go on" -> Resume(ss)
      [] IsWaiting(ss) /\ (ss.goal # NoTurn \/ q \in SelfContained) -> Leave(ss)
      [] OTHER -> ss
(***************************************************************************)
(* resolve_question: the first case that applies.  Pending options are     *)
(* cleared by a pick and by the reset of a new task, and by nothing else;  *)
(* a new task asked while the session waits is not reset.                  *)
(***************************************************************************)
ResolveQuestion(q, ss) ==
    CASE Resolves(q, ss) -> PickOption(ss)
      [] IsWaiting(ss) /\ q = "go on" -> Resume(ss)
      [] ss.goal # NoTurn /\ ~IsWaiting(ss) /\ q = "create" -> Reset(ss)
      [] IsWaiting(ss) /\ (ss.goal # NoTurn \/ q \in SelfContained) -> Leave(ss)
      [] OTHER -> ss

(* Mutant: a resolved question leaves the session in "processing" even when *)
(* finalize_turn has something to wait for or nothing to do.                *)
FinalizeTurnStayingBusy(ss, answer, t, substantial) ==
    LET goaled == IF ss.goal = NoTurn /\ substantial THEN [ss EXCEPT !.goal = t] ELSE ss
    IN  CASE answer = "options" -> StartWaiting([goaled EXCEPT !.options = t])
          [] answer = "request" -> StartWaiting(goaled)
          [] OTHER -> goaled
(* finalize_turn of turn t: answer is what the memory node sees of it.      *)
FinalizeTurn(ss, answer, t, substantial) ==
    LET goaled == IF ss.goal = NoTurn /\ substantial THEN [ss EXCEPT !.goal = t] ELSE ss
    IN  CASE answer = "options" -> StartWaiting([goaled EXCEPT !.options = t])
          [] answer = "request" -> StartWaiting(goaled)
          [] OTHER -> IF goaled.status = "processing" THEN Leave(goaled) ELSE goaled

(* What resolve_question changes: a choice is replaced by the option, a     *)
(* confirmation by what is waited for, and to a remark about the goal its   *)
(* context is added.                                                        *)
Replaced(q, ss) ==
    \/ Resolves(q, ss)
    \/ IsWaiting(ss) /\ q = "go on"
    \/ ss.goal # NoTurn /\ q \notin SelfContained

(* needs_rewrite: any text that is not an explicit new task may be short.   *)
MayNeedRewrite(q) == q # "create"

(* Whether the question that goes down the graph differs from the one asked: *)
(* rewrite finds a context for what is short, or leaves it alone.           *)
Rewritings(q, ss) ==
    CASE Replaced(q, ss) -> {TRUE}
      [] ~Replaced(q, ss) /\ MayNeedRewrite(q) -> BOOLEAN
      [] OTHER -> {FALSE}

(* The turn type handed to the planner and the answer agent: q is the raw   *)
(* question, ss the state after resolve_question.                           *)
TurnType(q, ss, rewritten) ==
    CASE q = "pick" /\ ss.goal # NoTurn -> "OPTION_SELECTION"
      [] IsWaiting(ss) -> "WAITING_REPLY"
      [] rewritten -> "QUESTION_REWRITE"
      [] ShouldContinue(ss) /\ ss.goal # NoTurn -> "FOLLOW_UP"
      [] OTHER -> "NEW_TASK"
=============================================================================
