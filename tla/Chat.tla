-------------------------------- MODULE Chat --------------------------------
(***************************************************************************)
(* A chat turn against the session store: agentflow/api/chat.py, the first *)
(* and last node of the workflow (conversation manager, memory), the       *)
(* session tables of agentflow/database/sqlite.py, the session endpoints   *)
(* and the cleanup task of agentflow/app/main.py.                          *)
(*                                                                         *)
(* Chat handlers and the cleanup task run on the one event-loop thread and *)
(* give it up only where they await, so nothing else of that thread comes  *)
(* between the writes that end a turn.  The session endpoints run in       *)
(* worker threads, and come between any two of them.  Every store function *)
(* is one transaction; they wait while another connection has one open.    *)
(* A connection whose INSERT fails keeps its transaction, and with it the  *)
(* write lock, until its next commit: _connect closes only a connection it *)
(* has just opened.                                                        *)
(***************************************************************************)
EXTENDS Conversation, Integers, FiniteSets

CONSTANTS
    Sessions,       \* session ids, never used again (AUTOINCREMENT)
    Crashes         \* how often the process may stop and start again

ASSUME ChatAssumption ==
    /\ NoTurn \notin Sessions
    /\ IsFiniteSet(Turns) /\ Crashes \in Nat

VARIABLES
    live,           \* sessions: the rows there are
    used,           \* the ids given out
    title,          \* "new" (the default title) or "set" (by a turn or the user)
    stored,         \* the session_state column
    chats,          \* rows of chats
    nextRow,        \* the next id of chats
    openTxn,        \* the loop thread's connection holds the write lock
    pc,             \* where the handler of each turn is
    session,        \* its session_id
    ss,             \* its working copy of the session state
    asked,          \* the kind of its question
    turnType,       \* conversation_context.type
    waited,         \* the session was waiting when the turn was resolved
    reply,          \* the answer delivered to the user
    heard,          \* state["answer"] as the memory node saw it
    crashes         \* stops so far

rows == <<live, used, title, stored, chats, nextRow>>
turn == <<session, ss, asked, turnType, waited, reply, heard>>
vars == <<rows, openTxn, pc, turn, crashes>>

Graph == {"loaded", "resolved", "answered", "finalized"}
Persisting == {"saved", "asked", "replied", "stated", "titling"}
Endings == {"done", "abandoned", "failed"}

(* A row of chats: a question, or an answer by what it says.                *)
Row == [id: Nat, session: Sessions, turn: Turns, says: {"question"} \union Answers]

Goto(t, step) == pc' = [pc EXCEPT ![t] = step]

(* Mutant: the writes of a turn are awaited one by one.                      *)
AlwaysFree == TRUE
(* The loop thread is at an await: no handler is between its writes.        *)
LoopFree == \A t \in Turns : pc[t] \notin Persisting

Init ==
    /\ live = {} /\ used = {}
    /\ title = [s \in Sessions |-> "new"]
    /\ stored = [s \in Sessions |-> NewState]
    /\ chats = {} /\ nextRow = 1
    /\ openTxn = FALSE
    /\ pc = [t \in Turns |-> "idle"]
    /\ session = [t \in Turns |-> NoTurn]
    /\ ss = [t \in Turns |-> NewState]
    /\ asked = [t \in Turns |-> "remark"]
    /\ turnType = [t \in Turns |-> "NEW_TASK"]
    /\ waited = [t \in Turns |-> FALSE]
    /\ reply = [t \in Turns |-> "none"]
    /\ heard = [t \in Turns |-> "none"]
    /\ crashes = 0

-----------------------------------------------------------------------------
(* The store.                                                               *)

(* create_session: a fresh id, the default title.                           *)
Create(s) ==
    /\ s \notin used
    /\ used' = used \union {s} /\ live' = live \union {s}
    /\ UNCHANGED <<title, stored, chats, nextRow>>

(* add_message of a live session.                                           *)
AddMessage(t, says) ==
    /\ session[t] \in live
    /\ chats' = chats \union
          {[id |-> nextRow, session |-> session[t], turn |-> t, says |-> says]}
    /\ nextRow' = nextRow + 1
    /\ UNCHANGED <<live, used, title, stored>>

(* Mutant: rows of chats stay behind (no foreign key, no second DELETE).    *)
DeleteKeepingChats(gone) ==
    /\ live' = live \ gone
    /\ UNCHANGED <<used, title, stored, chats, nextRow>>
(* A session goes with its chats.                                           *)
Delete(gone) ==
    /\ live' = live \ gone
    /\ chats' = {r \in chats : r.session \notin gone}
    /\ UNCHANGED <<used, title, stored, nextRow>>

-----------------------------------------------------------------------------
(* A turn.                                                                  *)

(* Mutant: the id of the new session is not kept.                           *)
BeginNewForgotten(t, s) ==
    /\ LoopFree /\ pc[t] = "idle"
    /\ Create(s)
    /\ openTxn' = FALSE
    /\ Goto(t, "loaded")
    /\ UNCHANGED turn /\ UNCHANGED crashes
(* Session setup: a new session, or a live one with its stored state.       *)
BeginNew(t, s) ==
    /\ LoopFree /\ pc[t] = "idle"
    /\ Create(s)
    /\ openTxn' = FALSE
    /\ session' = [session EXCEPT ![t] = s]
    /\ Goto(t, "loaded")
    /\ UNCHANGED <<ss, asked, turnType, waited, reply, heard, crashes>>

BeginExisting(t, s) ==
    /\ LoopFree /\ pc[t] = "idle" /\ s \in live
    /\ session' = [session EXCEPT ![t] = s]
    /\ ss' = [ss EXCEPT ![t] = stored[s]]
    /\ Goto(t, "loaded")
    /\ UNCHANGED <<rows, openTxn, asked, turnType, waited, reply, heard, crashes>>

(* The conversation manager node.                                           *)
Resolve(t) ==
    /\ LoopFree /\ pc[t] = "loaded"
    /\ \E q \in Questions : \E rewritten \in Rewritings(q, ss[t]) :
          LET resolved == ResolveQuestion(q, ss[t])
          IN  /\ asked' = [asked EXCEPT ![t] = q]
              /\ ss' = [ss EXCEPT ![t] = resolved]
              /\ turnType' = [turnType EXCEPT ![t] = TurnType(q, resolved, rewritten)]
    /\ waited' = [waited EXCEPT ![t] = IsWaiting(ss[t])]
    /\ Goto(t, "resolved")
    /\ UNCHANGED <<rows, openTxn, session, reply, heard, crashes>>

(* The rest of the graph up to the answer node.  A streamed turn leaves the *)
(* answer to the handler unless the node sets it itself (a summary of the   *)
(* tasks, a degraded run); the handler asks the model for it and sends it   *)
(* on before the graph goes to the memory node.  Nothing reads the turn     *)
(* type any more.                                                           *)
AnswerNode(t) ==
    /\ LoopFree /\ pc[t] = "resolved"
    /\ \E a \in Answers : \E h \in {a, "none"} :
          /\ reply' = [reply EXCEPT ![t] = a]
          /\ heard' = [heard EXCEPT ![t] = h]
    /\ turnType' = [turnType EXCEPT ![t] = "NEW_TASK"]
    /\ Goto(t, "answered")
    /\ UNCHANGED <<rows, openTxn, session, ss, asked, waited, crashes>>

(* The memory node: finalize_turn with the answer in the workflow state.    *)
MemoryNode(t) ==
    /\ LoopFree /\ pc[t] = "answered"
    /\ \E substantial \in IF asked[t] \in SelfContained THEN {TRUE} ELSE BOOLEAN :
          ss' = [ss EXCEPT ![t] = FinalizeTurn(ss[t], heard[t], t, substantial)]
    /\ heard' = [heard EXCEPT ![t] = "none"]
    /\ Goto(t, "finalized")
    /\ UNCHANGED <<rows, openTxn, session, asked, turnType, waited, reply, crashes>>

(***************************************************************************)
(* The ends of a turn.  A handler that has ended keeps nothing of its      *)
(* working state.                                                          *)
(***************************************************************************)
End(t, how) ==
    /\ Goto(t, how)
    /\ session' = [session EXCEPT ![t] = NoTurn]
    /\ ss' = [ss EXCEPT ![t] = NewState]
    /\ asked' = [asked EXCEPT ![t] = "remark"]
    /\ turnType' = [turnType EXCEPT ![t] = "NEW_TASK"]
    /\ waited' = [waited EXCEPT ![t] = FALSE]
    /\ reply' = [reply EXCEPT ![t] = "none"]
    /\ heard' = [heard EXCEPT ![t] = "none"]

(* Mutant: the deadline also cuts the writes off.                           *)
AbandonAnywhere(t) ==
    /\ pc[t] \in Graph \union Persisting
    /\ End(t, "abandoned")
    /\ UNCHANGED <<rows, openTxn, crashes>>
(* The deadline passes while the handler waits for the next node, or the    *)
(* client of a stream goes away between nodes, tokens or chunks.            *)
Abandon(t) ==
    /\ LoopFree /\ pc[t] \in Graph
    /\ End(t, "abandoned")
    /\ UNCHANGED <<rows, openTxn, crashes>>

(* An exception leaves the graph.                                           *)
Fail(t) ==
    /\ LoopFree /\ pc[t] \in Graph \ {"finalized"}
    /\ End(t, "failed")
    /\ UNCHANGED <<rows, openTxn, crashes>>

-----------------------------------------------------------------------------
(* The writes that end a turn, one transaction each.                        *)

(* _maybe_save_execution swallows its exceptions.  The execution and its    *)
(* checkpoint have no foreign key to the session and are not kept here.     *)
SaveExecution(t) ==
    /\ LoopFree /\ pc[t] = "finalized"
    /\ openTxn' \in {FALSE, openTxn}
    /\ asked' = [asked EXCEPT ![t] = "remark"]
    /\ waited' = [waited EXCEPT ![t] = FALSE]
    /\ Goto(t, "saved")
    /\ UNCHANGED <<rows, session, ss, turnType, reply, heard, crashes>>

(* The INSERT meets the foreign key: the handler ends with the exception,   *)
(* the transaction stays open.                                              *)
LoseSession(t) ==
    /\ session[t] \notin live
    /\ openTxn' = TRUE
    /\ End(t, "failed")
    /\ UNCHANGED rows

(* Mutant: the first message is not committed on its own.                   *)
AddUserMessageUncommitted(t) ==
    /\ pc[t] = "saved"
    /\ \/ AddMessage(t, "question") /\ openTxn' = TRUE /\ Goto(t, "asked") /\ UNCHANGED turn
       \/ LoseSession(t)
    /\ UNCHANGED crashes
(* Mutant: the handler waits for the session to come back.                  *)
AddUserMessageWaiting(t) ==
    /\ pc[t] = "saved"
    /\ AddMessage(t, "question") /\ openTxn' = FALSE /\ Goto(t, "asked")
    /\ UNCHANGED <<turn, crashes>>
AddUserMessage(t) ==
    /\ pc[t] = "saved"
    /\ \/ AddMessage(t, "question") /\ openTxn' = FALSE /\ Goto(t, "asked") /\ UNCHANGED turn
       \/ LoseSession(t)
    /\ UNCHANGED crashes

(* Mutant: an answer that asks something back is not stored.                *)
AddAnswerPlainOnly(t) ==
    /\ pc[t] = "asked"
    /\ IF reply[t] # "plain" THEN Goto(t, "replied") /\ UNCHANGED <<rows, openTxn, turn>>
       ELSE \/ AddMessage(t, reply[t]) /\ openTxn' = FALSE /\ Goto(t, "replied") /\ UNCHANGED turn
            \/ LoseSession(t)
    /\ UNCHANGED crashes
AddAnswer(t) ==
    /\ pc[t] = "asked"
    /\ IF reply[t] = "none" THEN Goto(t, "replied") /\ UNCHANGED <<rows, openTxn, turn>>
       ELSE \/ AddMessage(t, reply[t]) /\ openTxn' = FALSE /\ Goto(t, "replied") /\ UNCHANGED turn
            \/ LoseSession(t)
    /\ UNCHANGED crashes

(* update_session_state changes no row when the session is gone.            *)
SaveState(t) ==
    /\ pc[t] = "replied"
    /\ stored' = IF session[t] \in live THEN [stored EXCEPT ![session[t]] = ss[t]] ELSE stored
    /\ openTxn' = FALSE
    /\ Goto(t, "stated")
    /\ UNCHANGED <<live, used, title, chats, nextRow, turn, crashes>>

(* The title is read in one transaction and written in the next: a rename   *)
(* that comes between them is overwritten.                                  *)
ReadTitle(t) ==
    /\ pc[t] = "stated"
    /\ IF session[t] \in live /\ title[session[t]] = "new"
       THEN Goto(t, "titling") /\ UNCHANGED turn
       ELSE End(t, "done")
    /\ UNCHANGED <<rows, openTxn, crashes>>

WriteTitle(t) ==
    /\ pc[t] = "titling"
    /\ title' = IF session[t] \in live THEN [title EXCEPT ![session[t]] = "set"] ELSE title
    /\ openTxn' = FALSE
    /\ End(t, "done")
    /\ UNCHANGED <<live, used, stored, chats, nextRow, crashes>>

-----------------------------------------------------------------------------
(* The session endpoints, in worker threads.                                *)

CreateSession(s) ==
    /\ ~openTxn /\ Create(s)
    /\ UNCHANGED <<openTxn, pc, turn, crashes>>

RenameSession(s) ==
    /\ ~openTxn /\ s \in live
    /\ title' = [title EXCEPT ![s] = "set"]
    /\ UNCHANGED <<live, used, stored, chats, nextRow, openTxn, pc, turn, crashes>>

DeleteSession(s) ==
    /\ ~openTxn /\ s \in live
    /\ Delete({s})
    /\ UNCHANGED <<openTxn, pc, turn, crashes>>

(* The sessions created more than session_ttl_hours ago, whether in use or  *)
(* not: time is not modelled, so any of them may be.                        *)
CleanupSessions ==
    /\ ~openTxn
    /\ \E old \in SUBSET live : Delete(old)
    /\ UNCHANGED <<openTxn, pc, turn, crashes>>

(* Mutant: a cleanup that deletes nothing does not commit.                  *)
CleanupTickIdle ==
    /\ LoopFree
    /\ \E old \in SUBSET live : Delete(old) /\ openTxn' = (openTxn /\ old = {})
    /\ UNCHANGED <<pc, turn, crashes>>
(* The periodic cleanup, on the loop thread and its connection.             *)
CleanupTick ==
    /\ LoopFree
    /\ \E old \in SUBSET live : Delete(old)
    /\ openTxn' = FALSE
    /\ UNCHANGED <<pc, turn, crashes>>

(* The process stops: handlers and connections are gone, the file stays.    *)
Crash ==
    /\ crashes < Crashes
    /\ crashes' = crashes + 1
    /\ openTxn' = FALSE
    /\ pc' = [t \in Turns |-> IF pc[t] \in Graph \union Persisting THEN "failed" ELSE pc[t]]
    /\ session' = [t \in Turns |-> NoTurn]
    /\ ss' = [t \in Turns |-> NewState]
    /\ asked' = [t \in Turns |-> "remark"]
    /\ turnType' = [t \in Turns |-> "NEW_TASK"]
    /\ waited' = [t \in Turns |-> FALSE]
    /\ reply' = [t \in Turns |-> "none"]
    /\ heard' = [t \in Turns |-> "none"]
    /\ UNCHANGED rows

-----------------------------------------------------------------------------
Persist(t) ==
    \/ SaveExecution(t) \/ AddUserMessage(t) \/ AddAnswer(t)
    \/ SaveState(t) \/ ReadTitle(t) \/ WriteTitle(t)

Advance(t) == Resolve(t) \/ AnswerNode(t) \/ MemoryNode(t) \/ Persist(t)

Handle(t) ==
    \/ \E s \in Sessions : BeginNew(t, s) \/ BeginExisting(t, s)
    \/ Advance(t) \/ Abandon(t) \/ Fail(t)

Administer ==
    \/ \E s \in Sessions : CreateSession(s) \/ RenameSession(s) \/ DeleteSession(s)
    \/ CleanupSessions

Next == (\E t \in Turns : Handle(t)) \/ Administer \/ CleanupTick \/ Crash

(***************************************************************************)
(* The event loop serves every handler that can go on, and the cleanup     *)
(* task's timer keeps firing: it catches every exception.  Nobody has to   *)
(* send a request, rename or delete anything.                              *)
(***************************************************************************)
Fairness == (\A t \in Turns : WF_vars(Advance(t))) /\ WF_vars(CleanupTick)

Spec == Init /\ [][Next]_vars /\ Fairness

-----------------------------------------------------------------------------
TypeOK ==
    /\ live \subseteq used /\ used \subseteq Sessions
    /\ title \in [Sessions -> {"new", "set"}]
    /\ stored \in [Sessions -> SessionState]
    /\ chats \subseteq Row /\ nextRow \in Nat
    /\ openTxn \in BOOLEAN
    /\ pc \in [Turns -> {"idle"} \union Graph \union Persisting \union Endings]
    /\ session \in [Turns -> Sessions \union {NoTurn}]
    /\ \A t \in Turns : pc[t] \in Graph \union Persisting => session[t] \in used
    /\ ss \in [Turns -> SessionState]
    /\ asked \in [Turns -> Questions]
    /\ turnType \in [Turns -> {"OPTION_SELECTION", "WAITING_REPLY", "QUESTION_REWRITE",
                               "FOLLOW_UP", "NEW_TASK"}]
    /\ waited \in [Turns -> BOOLEAN]
    /\ reply \in [Turns -> Answers] /\ heard \in [Turns -> Answers]
    /\ crashes \in 0..Crashes

(* A message never outlives its session, whenever a session is deleted      *)
(* between the writes of a turn (sqlite.py delete_session, add_message).    *)
NoOrphanMessages == \A r \in chats : r.session \in live

(* An answer is stored right behind the question it answers, however many   *)
(* turns of however many sessions run at once (chat.py 110-112).            *)
AnswersFollowTheirQuestion ==
    \A r \in chats : r.says # "question" =>
        \E u \in chats : u.says = "question" /\ u.turn = r.turn /\ u.id = r.id - 1

(* The options a session would resolve "1" against, and the option in       *)
(* focus, stand in an answer of its transcript: no crash, deadline, delete  *)
(* or overlapping turn leaves the state ahead of the messages.              *)
OptionsWereShown ==
    \A s \in live : \A o \in {stored[s].options, stored[s].focus} \ {NoTurn} :
        \E r \in chats : r.session = s /\ r.turn = o /\ r.says = "options"

(* A session that waits for its user has asked for something in its         *)
(* transcript (manager.py 258-270).                                         *)
WaitingWasAsked ==
    \A s \in live : IsWaiting(stored[s]) =>
        \E r \in chats : r.session = s /\ r.says \in {"options", "request"}

(* No turn leaves its session "processing": should_continue would take      *)
(* every later question for a continuation (manager.py 77-87, 271-273).     *)
StoredStateSettled == \A s \in Sessions : stored[s].status # "processing"

(* A turn that timed out or was cancelled left no message (the docstring of *)
(* chat_stream: "skipping persistence").                                    *)
AbandonedTurnsLeaveNothing ==
    \A t \in Turns : pc[t] = "abandoned" => \A r \in chats : r.turn # t

(* Writers of other threads are locked out only by a turn whose session was *)
(* deleted under it (_connect keeps the transaction of a failed INSERT).    *)
LockedOutByLostSession == openTxn => live # used

(* An explicit new task is planned as one: it is never taken for an answer  *)
(* the session waits for, nor for a follow-up (manager.py 297-340).         *)
CreateIsNewTask ==
    \A t \in Turns : asked[t] = "create" => turnType[t] = "NEW_TASK"

(* A new task asked of a session that was not waiting becomes its goal      *)
(* (manager.py 171-190, 254-257).  While the session waits the old goal     *)
(* stays: the reset is skipped and finalize_turn keeps what it finds.       *)
NewTaskOwnsGoal ==
    \A t \in Turns :
        pc[t] = "finalized" /\ asked[t] = "create" /\ ~waited[t] => ss[t].goal = t

(* Every turn ends, whatever is deleted, renamed or cleaned up meanwhile.   *)
TurnsEnd == \A t \in Turns : pc[t] # "idle" ~> pc[t] \in Endings

(* The write lock a failed turn left behind is given back, at the latest by *)
(* the cleanup task.                                                        *)
LockReleased == openTxn ~> ~openTxn
=============================================================================
