----------------------------- MODULE Chat_proofs -----------------------------
(***************************************************************************)
(* Proofs about Chat for any number of turns, sessions and stops of the    *)
(* process: what the transcript, the stored session state and the lock     *)
(* have to do with one another.                                            *)
(***************************************************************************)
EXTENDS Chat, TLAPS

Steps == {"idle"} \union Graph \union Persisting \union Endings
TurnTypes == {"OPTION_SELECTION", "WAITING_REPLY", "QUESTION_REWRITE", "FOLLOW_UP", "NEW_TASK"}

-----------------------------------------------------------------------------
(* The operators of the conversation manager.                               *)

LEMMA StateFields ==
    ASSUME NEW c \in SessionState
    PROVE  /\ c.goal \in Origin /\ c.options \in Origin /\ c.focus \in Origin
           /\ c.status \in {"idle", "waiting_user", "processing"}
BY DEF SessionState

LEMMA NewStateType ==
    /\ NewState \in SessionState /\ NewState.status = "idle"
    /\ NewState.goal = NoTurn /\ NewState.options = NoTurn /\ NewState.focus = NoTurn
BY DEF NewState, SessionState, Origin

(* What resolve_question can make of a state.                               *)
LEMMA Resolved ==
    ASSUME NEW q \in Questions, NEW c \in SessionState
    PROVE  LET r == ResolveQuestion(q, c)
           IN  /\ r \in SessionState
               /\ r.options \in {c.options, NoTurn}
               /\ r.focus \in {c.focus, c.options, NoTurn}
               /\ IsWaiting(r) => IsWaiting(c)
BY StateFields, NewStateType
   DEF ResolveQuestion, PickOption, Resume, Leave, Reset, IsWaiting, SessionState, Origin

(* What finalize_turn makes of one.                                         *)
LEMMA Finalized ==
    ASSUME NEW c \in SessionState, NEW a \in Answers, NEW t \in Turns, NEW big \in BOOLEAN
    PROVE  LET f == FinalizeTurn(c, a, t, big)
           IN  /\ f \in SessionState
               /\ f.status # "processing"
               /\ f.options = IF a = "options" THEN t ELSE c.options
               /\ f.focus = c.focus
               /\ IsWaiting(f) => IsWaiting(c) \/ a \in {"options", "request"}
               /\ c.goal = NoTurn /\ big => f.goal = t
<1> DEFINE goaled == IF c.goal = NoTurn /\ big THEN [c EXCEPT !.goal = t] ELSE c
<1>1. /\ goaled \in SessionState /\ goaled.options = c.options /\ goaled.focus = c.focus
      /\ goaled.status = c.status
      /\ c.goal = NoTurn /\ big => goaled.goal = t
  BY DEF SessionState, Origin
<1>2. PICK g \in SessionState : g = goaled
  BY <1>1
<1>3. FinalizeTurn(c, a, t, big) =
         CASE a = "options" -> StartWaiting([g EXCEPT !.options = t])
           [] a = "request" -> StartWaiting(g)
           [] OTHER -> IF g.status = "processing" THEN Leave(g) ELSE g
  BY <1>2 DEF FinalizeTurn
<1>4. CASE a = "options"
  BY <1>1, <1>2, <1>3, <1>4 DEF StartWaiting, SessionState, Origin, IsWaiting
<1>5. CASE a = "request"
  BY <1>1, <1>2, <1>3, <1>5 DEF StartWaiting, SessionState, Origin, IsWaiting
<1>6. CASE a \notin {"options", "request"}
  BY <1>1, <1>2, <1>3, <1>6 DEF Leave, Resume, SessionState, Origin, IsWaiting
<1>7. QED
  BY <1>4, <1>5, <1>6

(* An explicit new task is a new task in every state of the session.        *)
LEMMA CreateResolved ==
    ASSUME NEW c \in SessionState, NEW rewritten \in Rewritings("create", c)
    PROVE  /\ TurnType("create", ResolveQuestion("create", c), rewritten) = "NEW_TASK"
           /\ ~IsWaiting(c) => ResolveQuestion("create", c).goal = NoTurn
<1>1. rewritten = FALSE
  BY DEF Rewritings, Replaced, Resolves, MayNeedRewrite, SelfContained
<1>2. PICK r : r = ResolveQuestion("create", c)
  OBVIOUS
<1>3. CASE c.goal # NoTurn /\ ~IsWaiting(c)
  <2>1. r = NewState
    BY <1>2, <1>3 DEF ResolveQuestion, Resolves, Reset
  <2>2. QED
    BY <1>1, <1>2, <2>1, NewStateType DEF TurnType, IsWaiting, ShouldContinue
<1>4. CASE IsWaiting(c)
  <2>1. r = Leave(c)
    BY <1>2, <1>4 DEF ResolveQuestion, Resolves, SelfContained
  <2>2. r.status = "idle"
    BY <2>1 DEF Leave, Resume, SessionState
  <2>3. QED
    BY <1>1, <1>2, <1>4, <2>2 DEF TurnType, IsWaiting, ShouldContinue
<1>5. CASE c.goal = NoTurn /\ ~IsWaiting(c)
  <2>1. r = c
    BY <1>2, <1>5 DEF ResolveQuestion, Resolves
  <2>2. QED
    BY <1>1, <1>2, <1>5, <2>1 DEF TurnType, ShouldContinue
<1>6. QED
  BY <1>3, <1>4, <1>5

LEMMA TurnTypeType ==
    ASSUME NEW q, NEW c, NEW rewritten
    PROVE  TurnType(q, c, rewritten) \in TurnTypes
BY DEF TurnType, TurnTypes

-----------------------------------------------------------------------------
(* Type correctness.                                                        *)

LEMMA InitType == Init => TypeOK
<1> SUFFICES ASSUME Init PROVE TypeOK
  OBVIOUS
<1>1. /\ live \subseteq used /\ used \subseteq Sessions
      /\ title \in [Sessions -> {"new", "set"}]
      /\ chats \subseteq Row /\ openTxn \in BOOLEAN
  BY DEF Init
<1>2. /\ pc \in [Turns -> {"idle"}] /\ session \in [Turns -> Sessions \union {NoTurn}]
      /\ waited \in [Turns -> BOOLEAN]
      /\ asked \in [Turns -> Questions]
      /\ reply \in [Turns -> Answers] /\ heard \in [Turns -> Answers]
  BY DEF Init, Answers, Questions
<1>3. \A t \in Turns : pc[t] \notin Graph \union Persisting
  BY <1>2 DEF Graph, Persisting
<1>4. turnType \in [Turns -> TurnTypes]
  BY DEF Init, TurnTypes
<1>5. stored \in [Sessions -> SessionState] /\ ss \in [Turns -> SessionState]
  BY NewStateType DEF Init
<1>6. nextRow \in Nat /\ crashes \in 0..Crashes
  BY ChatAssumption DEF Init
<1>7. QED
  BY <1>1, <1>2, <1>3, <1>4, <1>5, <1>6 DEF TypeOK, TurnTypes

(* A handler that ends, whatever it was doing.                              *)
LEMMA EndType ==
    ASSUME TypeOK, NEW t \in Turns, NEW how \in Endings, End(t, how)
    PROVE  /\ pc' \in [Turns -> Steps] /\ pc' = [pc EXCEPT ![t] = how]
           /\ session' \in [Turns -> Sessions \union {NoTurn}]
           /\ \A u \in Turns : pc'[u] \in Graph \union Persisting
                 => pc'[u] = pc[u] /\ session'[u] = session[u]
           /\ ss' \in [Turns -> SessionState]
           /\ asked' \in [Turns -> Questions] /\ turnType' \in [Turns -> TurnTypes]
           /\ waited' \in [Turns -> BOOLEAN]
           /\ reply' \in [Turns -> Answers] /\ heard' \in [Turns -> Answers]
<1>1. pc' = [pc EXCEPT ![t] = how] /\ how \in Steps /\ how \notin Graph \union Persisting
  BY DEF End, Goto, Steps, Endings, Graph, Persisting
<1>2. pc \in [Turns -> Steps] /\ session \in [Turns -> Sessions \union {NoTurn}]
  BY DEF TypeOK, Steps
<1>3. pc' \in [Turns -> Steps] /\ session' \in [Turns -> Sessions \union {NoTurn}]
  BY <1>1, <1>2 DEF End
<1>4. \A u \in Turns : pc'[u] \in Graph \union Persisting
         => pc'[u] = pc[u] /\ session'[u] = session[u]
  BY <1>1, <1>2 DEF End
<1>5. ss' \in [Turns -> SessionState]
  BY NewStateType DEF End, TypeOK
<1>6. /\ asked' \in [Turns -> Questions] /\ turnType' \in [Turns -> TurnTypes]
      /\ waited' \in [Turns -> BOOLEAN]
      /\ reply' \in [Turns -> Answers] /\ heard' \in [Turns -> Answers]
  BY DEF End, TypeOK, TurnTypes, Questions, Answers
<1>7. QED
  BY <1>1, <1>3, <1>4, <1>5, <1>6

(* A handler that goes on from a step of the graph or of its writes.        *)
LEMMA GoType ==
    ASSUME TypeOK, NEW t \in Turns, NEW step \in Graph \union Persisting, Goto(t, step),
           pc[t] \in Graph \union Persisting, session' = session
    PROVE  /\ pc' \in [Turns -> Steps] /\ pc' = [pc EXCEPT ![t] = step]
           /\ session' \in [Turns -> Sessions \union {NoTurn}]
           /\ \A u \in Turns : pc'[u] \in Graph \union Persisting
                 => pc[u] \in Graph \union Persisting /\ session'[u] = session[u]
<1>1. pc \in [Turns -> Steps]
  BY DEF TypeOK, Steps
<1>2. pc' = [pc EXCEPT ![t] = step] /\ step \in Steps
  BY DEF Goto, Steps
<1>3. QED
  BY <1>1, <1>2 DEF TypeOK

LEMMA CreateType ==
    ASSUME TypeOK, NEW s \in Sessions, Create(s)
    PROVE  /\ live' \subseteq used' /\ used' \subseteq Sessions /\ used \subseteq used'
           /\ title' \in [Sessions -> {"new", "set"}]
           /\ stored' \in [Sessions -> SessionState]
           /\ chats' \subseteq Row /\ nextRow' \in Nat
BY DEF Create, TypeOK

LEMMA AddType ==
    ASSUME TypeOK, NEW t \in Turns, NEW says \in {"question"} \union Answers, AddMessage(t, says)
    PROVE  /\ UNCHANGED <<live, used, title, stored>>
           /\ chats' \subseteq Row /\ nextRow' \in Nat
<1>1. [id |-> nextRow, session |-> session[t], turn |-> t, says |-> says] \in Row
  BY DEF AddMessage, TypeOK, Row
<1>2. QED
  BY <1>1 DEF AddMessage, TypeOK

LEMMA DeleteType ==
    ASSUME TypeOK, NEW gone, Delete(gone)
    PROVE  /\ live' \subseteq used' /\ used' = used
           /\ UNCHANGED <<title, stored, nextRow>>
           /\ chats' \subseteq Row
BY DEF Delete, TypeOK

LEMMA TypeStep == TypeOK /\ [Next]_vars => TypeOK'
<1> SUFFICES ASSUME TypeOK, [Next]_vars PROVE TypeOK'
  OBVIOUS
<1> DEFINE RowsOK == /\ live' \subseteq used' /\ used' \subseteq Sessions /\ used \subseteq used'
                     /\ title' \in [Sessions -> {"new", "set"}]
                     /\ stored' \in [Sessions -> SessionState]
                     /\ chats' \subseteq Row /\ nextRow' \in Nat
           TurnOK == /\ ss' \in [Turns -> SessionState]
                     /\ asked' \in [Turns -> Questions] /\ turnType' \in [Turns -> TurnTypes]
                     /\ waited' \in [Turns -> BOOLEAN]
                     /\ reply' \in [Turns -> Answers] /\ heard' \in [Turns -> Answers]
           PcOK == /\ pc' \in [Turns -> Steps]
                   /\ session' \in [Turns -> Sessions \union {NoTurn}]
                   /\ \A u \in Turns : pc'[u] \in Graph \union Persisting => session'[u] \in used'
<1>1. RowsOK /\ TurnOK /\ PcOK /\ openTxn' \in BOOLEAN /\ crashes' \in 0..Crashes => TypeOK'
  BY DEF TypeOK, Steps, TurnTypes
<1>2. /\ rows' = rows => RowsOK
      /\ turn' = turn => TurnOK
      /\ pc' = pc /\ session' = session /\ used \subseteq used' => PcOK
      /\ openTxn \in BOOLEAN /\ crashes \in 0..Crashes
  BY DEF TypeOK, rows, turn, TurnTypes, Steps
<1>3. ASSUME NEW t \in Turns, NEW how \in Endings, End(t, how), used' = used
      PROVE  TurnOK /\ PcOK
  BY <1>3, EndType DEF TypeOK
<1>4. ASSUME NEW t \in Turns, NEW step \in Graph \union Persisting, Goto(t, step),
             pc[t] \in Graph \union Persisting, session' = session, used' = used
      PROVE  PcOK
  BY <1>4, GoType DEF TypeOK
<1>5. ASSUME NEW t \in Turns, NEW s \in Sessions, BeginNew(t, s)
      PROVE  TypeOK'
  <2>1. RowsOK
    BY <1>5, CreateType DEF BeginNew
  <2>2. pc' = [pc EXCEPT ![t] = "loaded"] /\ "loaded" \in Steps
    BY <1>5 DEF BeginNew, Goto, Steps, Graph
  <2>3. pc \in [Turns -> Steps] /\ session' = [session EXCEPT ![t] = s] /\ s \in used'
    BY <1>5 DEF BeginNew, Create, TypeOK, Steps
  <2>4. PcOK
    BY <2>1, <2>2, <2>3 DEF TypeOK
  <2>5. TurnOK
    BY <1>5 DEF BeginNew, TypeOK, TurnTypes
  <2>6. QED
    BY <1>1, <1>2, <1>5, <2>1, <2>4, <2>5 DEF BeginNew
<1>6. ASSUME NEW t \in Turns, NEW s \in Sessions, BeginExisting(t, s)
      PROVE  TypeOK'
  <2>1. pc' = [pc EXCEPT ![t] = "loaded"] /\ "loaded" \in Steps
    BY <1>6 DEF BeginExisting, Goto, Steps, Graph
  <2>2. pc \in [Turns -> Steps] /\ session' = [session EXCEPT ![t] = s] /\ s \in used
    BY <1>6 DEF BeginExisting, TypeOK, Steps
  <2>3. PcOK
    BY <1>6, <2>1, <2>2 DEF TypeOK, BeginExisting, rows
  <2>4. TurnOK
    BY <1>6 DEF BeginExisting, TypeOK, TurnTypes
  <2>5. QED
    BY <1>1, <1>2, <1>6, <2>3, <2>4 DEF BeginExisting
<1>7. ASSUME NEW t \in Turns, Resolve(t)
      PROVE  TypeOK'
  <2>1. PICK q \in Questions : \E rewritten \in Rewritings(q, ss[t]) :
          /\ asked' = [asked EXCEPT ![t] = q]
          /\ ss' = [ss EXCEPT ![t] = ResolveQuestion(q, ss[t])]
          /\ turnType' = [turnType EXCEPT ![t] = TurnType(q, ResolveQuestion(q, ss[t]), rewritten)]
    BY <1>7 DEF Resolve
  <2>2. ss[t] \in SessionState /\ IsWaiting(ss[t]) \in BOOLEAN
    BY DEF TypeOK, IsWaiting
  <2>3. ss' \in [Turns -> SessionState] /\ asked' \in [Turns -> Questions]
    BY <2>1, <2>2, Resolved DEF TypeOK
  <2>4. turnType' \in [Turns -> TurnTypes]
    BY <2>1, TurnTypeType DEF TypeOK, TurnTypes
  <2>5. TurnOK
    BY <1>7, <2>2, <2>3, <2>4 DEF Resolve, TypeOK
  <2>6. PcOK
    BY <1>4, <1>7 DEF Resolve, Graph, rows
  <2>7. QED
    BY <1>1, <1>2, <1>7, <2>5, <2>6 DEF Resolve
<1>8. ASSUME NEW t \in Turns, AnswerNode(t)
      PROVE  TypeOK'
  <2>1. TurnOK
    <3>1. reply' \in [Turns -> Answers] /\ heard' \in [Turns -> Answers]
      BY <1>8 DEF AnswerNode, TypeOK, Answers
    <3>2. turnType' \in [Turns -> TurnTypes]
      BY <1>8 DEF AnswerNode, TypeOK, TurnTypes
    <3>3. QED
      BY <1>8, <3>1, <3>2 DEF AnswerNode, TypeOK
  <2>2. PcOK
    BY <1>4, <1>8 DEF AnswerNode, Graph, rows
  <2>3. QED
    BY <1>1, <1>2, <1>8, <2>1, <2>2 DEF AnswerNode
<1>9. ASSUME NEW t \in Turns, MemoryNode(t)
      PROVE  TypeOK'
  <2>1. PICK big \in BOOLEAN : ss' = [ss EXCEPT ![t] = FinalizeTurn(ss[t], heard[t], t, big)]
    BY <1>9 DEF MemoryNode
  <2>2. ss[t] \in SessionState /\ heard[t] \in Answers
    BY DEF TypeOK
  <2>3. ss' \in [Turns -> SessionState]
    BY <2>1, <2>2, Finalized DEF TypeOK
  <2>4. heard' \in [Turns -> Answers]
    BY <1>9 DEF MemoryNode, TypeOK, Answers
  <2>5. TurnOK
    BY <1>9, <2>3, <2>4 DEF MemoryNode, TypeOK, TurnTypes
  <2>6. PcOK
    BY <1>4, <1>9 DEF MemoryNode, Graph, rows
  <2>7. QED
    BY <1>1, <1>2, <1>9, <2>5, <2>6 DEF MemoryNode
<1>10. ASSUME NEW t \in Turns, Abandon(t) \/ Fail(t)
       PROVE  TypeOK'
  <2>1. TurnOK /\ PcOK
    BY <1>3, <1>10 DEF Abandon, Fail, Endings, rows
  <2>2. QED
    BY <1>1, <1>2, <1>10, <2>1 DEF Abandon, Fail
<1>11. ASSUME NEW t \in Turns, SaveExecution(t)
       PROVE  TypeOK'
  <2>1. TurnOK
    BY <1>11 DEF SaveExecution, TypeOK, Questions, TurnTypes
  <2>2. PcOK
    BY <1>4, <1>11 DEF SaveExecution, Graph, Persisting, rows
  <2>3. QED
    BY <1>1, <1>2, <1>11, <2>1, <2>2 DEF SaveExecution
<1>12. ASSUME NEW t \in Turns, LoseSession(t), UNCHANGED crashes
       PROVE  TypeOK'
  <2>1. TurnOK /\ PcOK
    BY <1>3, <1>12 DEF LoseSession, Endings, rows
  <2>2. QED
    BY <1>1, <1>2, <1>12, <2>1 DEF LoseSession
<1>13. ASSUME NEW t \in Turns, NEW says \in {"question"} \union Answers, AddMessage(t, says),
              NEW step \in Persisting, Goto(t, step), pc[t] \in Persisting, openTxn' = FALSE,
              UNCHANGED turn, UNCHANGED crashes
       PROVE  TypeOK'
  <2>1. RowsOK /\ used' = used
    BY <1>13, AddType DEF TypeOK
  <2>2. PcOK
    BY <1>4, <1>13, <2>1 DEF turn
  <2>3. QED
    BY <1>1, <1>2, <1>13, <2>1, <2>2
<1>14. ASSUME NEW t \in Turns, AddUserMessage(t)
       PROVE  TypeOK'
  BY <1>12, <1>13, <1>14 DEF AddUserMessage, Persisting
<1>15. ASSUME NEW t \in Turns, AddAnswer(t)
       PROVE  TypeOK'
  <2>1. CASE reply[t] = "none"
    <3>1. PcOK
      BY <1>4, <1>15, <2>1 DEF AddAnswer, Persisting, rows, turn
    <3>2. QED
      BY <1>1, <1>2, <1>15, <2>1, <3>1 DEF AddAnswer
  <2>2. CASE reply[t] # "none"
    <3>1. reply[t] \in Answers
      BY DEF TypeOK
    <3>2. QED
      BY <1>12, <1>13, <1>15, <2>2, <3>1 DEF AddAnswer, Persisting
  <2>3. QED
    BY <2>1, <2>2
<1>16. ASSUME NEW t \in Turns, SaveState(t)
       PROVE  TypeOK'
  <2>1. RowsOK /\ used' = used
    BY <1>16 DEF SaveState, TypeOK
  <2>2. PcOK
    BY <1>4, <1>16, <2>1 DEF SaveState, Persisting, turn
  <2>3. QED
    BY <1>1, <1>2, <1>16, <2>1, <2>2 DEF SaveState
<1>17. ASSUME NEW t \in Turns, ReadTitle(t)
       PROVE  TypeOK'
  <2>1. TurnOK /\ PcOK
    <3>1. CASE Goto(t, "titling") /\ UNCHANGED turn
      BY <1>2, <1>4, <1>17, <3>1 DEF ReadTitle, Persisting, rows, turn
    <3>2. CASE End(t, "done")
      BY <1>3, <1>17, <3>2 DEF ReadTitle, Endings, rows
    <3>3. QED
      BY <1>17, <3>1, <3>2 DEF ReadTitle
  <2>2. QED
    BY <1>1, <1>2, <1>17, <2>1 DEF ReadTitle
<1>18. ASSUME NEW t \in Turns, WriteTitle(t)
       PROVE  TypeOK'
  <2>1. RowsOK /\ used' = used
    BY <1>18 DEF WriteTitle, TypeOK
  <2>2. TurnOK /\ PcOK
    BY <1>3, <1>18, <2>1 DEF WriteTitle, Endings
  <2>3. QED
    BY <1>1, <1>2, <1>18, <2>1, <2>2 DEF WriteTitle
<1>19. ASSUME NEW s \in Sessions, CreateSession(s)
       PROVE  TypeOK'
  <2>1. RowsOK
    BY <1>19, CreateType DEF CreateSession
  <2>2. QED
    BY <1>1, <1>2, <1>19, <2>1 DEF CreateSession, turn
<1>20. ASSUME NEW s \in Sessions, RenameSession(s)
       PROVE  TypeOK'
  <2>1. RowsOK
    BY <1>20 DEF RenameSession, TypeOK
  <2>2. QED
    BY <1>1, <1>2, <1>20, <2>1 DEF RenameSession, turn
<1>21. ASSUME NEW gone, Delete(gone), openTxn' \in BOOLEAN, UNCHANGED <<pc, turn, crashes>>
       PROVE  TypeOK'
  <2>1. RowsOK
    BY <1>21, DeleteType DEF TypeOK
  <2>2. QED
    BY <1>1, <1>2, <1>21, <2>1 DEF turn
<1>22. ASSUME (\E s \in Sessions : DeleteSession(s)) \/ CleanupSessions \/ CleanupTick
       PROVE  TypeOK'
  BY <1>2, <1>21, <1>22 DEF DeleteSession, CleanupSessions, CleanupTick
<1>23. ASSUME Crash
       PROVE  TypeOK'
  <2>1. pc' \in [Turns -> Steps] /\ \A t \in Turns : pc'[t] \notin Graph \union Persisting
    <3>1. pc \in [Turns -> Steps] /\ "failed" \in Steps \ (Graph \union Persisting)
      BY DEF TypeOK, Steps, Endings, Graph, Persisting
    <3>2. QED
      BY <1>23, <3>1 DEF Crash
  <2>2. PcOK
    BY <1>23, <2>1 DEF Crash
  <2>3. TurnOK
    BY <1>23, NewStateType DEF Crash, Questions, Answers, TurnTypes
  <2>4. crashes' \in 0..Crashes
    BY <1>23, ChatAssumption DEF Crash, TypeOK
  <2>5. QED
    BY <1>1, <1>2, <1>23, <2>2, <2>3, <2>4 DEF Crash
<1>24. ASSUME UNCHANGED vars
       PROVE  TypeOK'
  BY <1>1, <1>2, <1>24 DEF vars, turn, rows
<1>25. QED
  BY <1>5, <1>6, <1>7, <1>8, <1>9, <1>10, <1>11, <1>14, <1>15, <1>16, <1>17, <1>18, <1>19,
     <1>20, <1>22, <1>23, <1>24 DEF Next, Handle, Advance, Persist, Administer

(* Every reachable state is type-correct: in particular a handler that is   *)
(* in the middle of a turn has a session that once existed.                 *)
THEOREM ChatTypeCorrect == Spec => []TypeOK
<1>1. QED
  BY InitType, TypeStep, PTL DEF Spec

-----------------------------------------------------------------------------
(* What a step is to one turn, and what it is to the rows.                  *)

Active == Graph \union Persisting

Still(u) ==
    /\ pc'[u] = pc[u] /\ session'[u] = session[u] /\ ss'[u] = ss[u]
    /\ asked'[u] = asked[u] /\ turnType'[u] = turnType[u] /\ waited'[u] = waited[u]
    /\ reply'[u] = reply[u] /\ heard'[u] = heard[u]

(* The handler is over, or the process has stopped.                         *)
Ended(u) ==
    /\ pc'[u] \notin Active
    /\ pc'[u] = "idle" => pc[u] = "idle"
    /\ pc'[u] = "abandoned" => pc[u] \in Graph \union {"abandoned"}
    /\ ss'[u] = NewState /\ asked'[u] = "remark" /\ turnType'[u] = "NEW_TASK"

Began(u) ==
    /\ pc[u] = "idle" /\ pc'[u] = "loaded"
    /\ asked'[u] = asked[u] /\ turnType'[u] = turnType[u]
    /\ \/ session'[u] \notin used /\ ss'[u] = ss[u]
       \/ session'[u] \in live /\ ss'[u] = stored[session'[u]]

Successions == {<<"finalized", "saved">>, <<"saved", "asked">>, <<"asked", "replied">>,
                <<"replied", "stated">>, <<"stated", "titling">>}

Wrote(u) ==
    /\ <<pc[u], pc'[u]>> \in Successions
    /\ pc[u] = "finalized" => LoopFree
    /\ pc[u] = "saved" => AddMessage(u, "question")
    /\ pc[u] = "asked" => reply[u] = "none" \/ AddMessage(u, reply[u])
    /\ session'[u] = session[u] /\ ss'[u] = ss[u] /\ reply'[u] = reply[u]
    /\ turnType'[u] = turnType[u] /\ asked'[u] \in {asked[u], "remark"}

Moved(u) == Began(u) \/ Resolve(u) \/ AnswerNode(u) \/ MemoryNode(u) \/ Wrote(u)

LEMMA EndCase ==
    ASSUME TypeOK, NEW t \in Turns, NEW how \in Endings, End(t, how),
           how = "abandoned" => pc[t] \in Graph
    PROVE  \A u \in Turns : Still(u) \/ Ended(u)
<1>1. pc \in [Turns -> Steps] /\ how \notin Active /\ how # "idle"
  BY DEF TypeOK, Steps, Endings, Active, Graph, Persisting
<1>2. Ended(t)
  BY <1>1 DEF End, Goto, Ended, TypeOK
<1>3. \A u \in Turns \ {t} : Still(u)
  BY <1>1 DEF End, Goto, Still, TypeOK
<1>4. QED
  BY <1>2, <1>3

LEMMA TurnCases ==
    ASSUME TypeOK, [Next]_vars
    PROVE  \/ \A u \in Turns : Still(u) \/ Ended(u)
           \/ \E t \in Turns : Moved(t) /\ \A u \in Turns \ {t} : Still(u)
<1> DEFINE Goal == \/ \A u \in Turns : Still(u) \/ Ended(u)
                   \/ \E t \in Turns : Moved(t) /\ \A u \in Turns \ {t} : Still(u)
<1>0. /\ pc \in [Turns -> Steps] /\ session \in [Turns -> Sessions \union {NoTurn}]
      /\ ss \in [Turns -> SessionState] /\ asked \in [Turns -> Questions]
      /\ turnType \in [Turns -> TurnTypes] /\ waited \in [Turns -> BOOLEAN]
      /\ reply \in [Turns -> Answers] /\ heard \in [Turns -> Answers]
  BY DEF TypeOK, Steps, TurnTypes
<1>1. ASSUME NEW t \in Turns, NEW s \in Sessions, BeginNew(t, s) \/ BeginExisting(t, s)
      PROVE  Goal
  <2>1. \A u \in Turns \ {t} : Still(u)
    BY <1>0, <1>1 DEF BeginNew, BeginExisting, Goto, Still
  <2>2. Began(t)
    BY <1>0, <1>1 DEF BeginNew, BeginExisting, Goto, Began, Create
  <2>3. QED
    BY <2>1, <2>2 DEF Moved
<1>2. ASSUME NEW t \in Turns, Resolve(t) \/ AnswerNode(t) \/ MemoryNode(t)
      PROVE  Goal
  <2>1. CASE Resolve(t)
    BY <1>0, <2>1 DEF Resolve, Goto, Still, Moved
  <2>2. CASE AnswerNode(t)
    BY <1>0, <2>2 DEF AnswerNode, Goto, Still, Moved
  <2>3. CASE MemoryNode(t)
    BY <1>0, <2>3 DEF MemoryNode, Goto, Still, Moved
  <2>4. QED
    BY <1>2, <2>1, <2>2, <2>3
<1>3. ASSUME NEW t \in Turns, Abandon(t) \/ Fail(t) \/ LoseSession(t) \/ End(t, "done")
      PROVE  Goal
  BY <1>3, EndCase DEF Abandon, Fail, LoseSession, Endings
<1>4. ASSUME NEW t \in Turns, SaveExecution(t)
      PROVE  Goal
  <2>1. \A u \in Turns \ {t} : Still(u)
    BY <1>0, <1>4 DEF SaveExecution, Goto, Still
  <2>2. Wrote(t)
    BY <1>0, <1>4 DEF SaveExecution, Goto, Wrote, Successions
  <2>3. QED
    BY <2>1, <2>2 DEF Moved
<1>5. ASSUME NEW t \in Turns, NEW step, Goto(t, step), UNCHANGED turn,
             <<pc[t], step>> \in Successions, pc[t] # "finalized",
             pc[t] = "saved" => AddMessage(t, "question"),
             pc[t] = "asked" => reply[t] = "none" \/ AddMessage(t, reply[t])
      PROVE  Goal
  <2>1. \A u \in Turns \ {t} : Still(u)
    BY <1>0, <1>5 DEF Goto, Still, turn
  <2>2. Wrote(t)
    BY <1>0, <1>5 DEF Goto, Wrote, turn
  <2>3. QED
    BY <2>1, <2>2 DEF Moved
<1>6. ASSUME NEW t \in Turns, AddUserMessage(t)
      PROVE  Goal
  BY <1>3, <1>5, <1>6 DEF AddUserMessage, Successions
<1>7. ASSUME NEW t \in Turns, AddAnswer(t)
      PROVE  Goal
  BY <1>3, <1>5, <1>7 DEF AddAnswer, Successions
<1>8. ASSUME NEW t \in Turns, SaveState(t)
      PROVE  Goal
  BY <1>5, <1>8 DEF SaveState, Successions
<1>9. ASSUME NEW t \in Turns, ReadTitle(t) \/ WriteTitle(t)
      PROVE  Goal
  BY <1>3, <1>5, <1>9 DEF ReadTitle, WriteTitle, Successions
<1>10. ASSUME UNCHANGED <<pc, turn>>
       PROVE  Goal
  BY <1>10 DEF turn, Still
<1>11. ASSUME Administer \/ CleanupTick \/ UNCHANGED vars
       PROVE  Goal
  BY <1>10, <1>11 DEF Administer, CreateSession, RenameSession, DeleteSession, CleanupSessions,
                      CleanupTick, vars
<1>12. ASSUME Crash
       PROVE  Goal
  <2>1. \A u \in Turns : Ended(u)
    BY <1>0, <1>12 DEF Crash, Ended, Active, Graph, Persisting
  <2>2. QED
    BY <2>1
<1>13. QED
  BY <1>1, <1>2, <1>3, <1>4, <1>6, <1>7, <1>8, <1>9, <1>11, <1>12
     DEF Next, Handle, Advance, Persist

(* Rows of chats come from two places and go with their session; a state is *)
(* stored by a turn that has stored its answer.                             *)
Asks(t) == pc[t] = "saved" /\ pc'[t] = "asked" /\ AddMessage(t, "question")
Replies(t) ==
    /\ pc[t] = "asked" /\ pc'[t] = "replied" /\ reply[t] # "none" /\ AddMessage(t, reply[t])
Stores(t) ==
    /\ pc[t] = "replied" /\ session[t] \in live
    /\ stored' = [stored EXCEPT ![session[t]] = ss[t]]
    /\ UNCHANGED <<live, used, chats, nextRow>>
Removes(gone) == Delete(gone) /\ UNCHANGED <<pc, turn>>

LEMMA RowCases ==
    ASSUME TypeOK, [Next]_vars
    PROVE  \/ UNCHANGED <<live, used, stored, chats, nextRow>>
           \/ \E s \in Sessions : Create(s)
           \/ \E t \in Turns : Asks(t) \/ Replies(t) \/ Stores(t)
           \/ \E gone : Removes(gone)
<1> DEFINE Goal == \/ UNCHANGED <<live, used, stored, chats, nextRow>>
                   \/ \E s \in Sessions : Create(s)
                   \/ \E t \in Turns : Asks(t) \/ Replies(t) \/ Stores(t)
                   \/ \E gone : Removes(gone)
<1>0. pc \in [Turns -> Steps]
  BY DEF TypeOK, Steps
<1>1. ASSUME NEW t \in Turns, NEW s \in Sessions, BeginNew(t, s) \/ BeginExisting(t, s)
      PROVE  Goal
  BY <1>1 DEF BeginNew, BeginExisting, rows
<1>2. ASSUME NEW t \in Turns,
             Resolve(t) \/ AnswerNode(t) \/ MemoryNode(t) \/ Abandon(t) \/ Fail(t)
             \/ SaveExecution(t) \/ ReadTitle(t) \/ WriteTitle(t)
      PROVE  Goal
  BY <1>2 DEF Resolve, AnswerNode, MemoryNode, Abandon, Fail, SaveExecution, ReadTitle,
              WriteTitle, rows
<1>3. ASSUME NEW t \in Turns, AddUserMessage(t)
      PROVE  Goal
  <2>1. CASE AddMessage(t, "question") /\ Goto(t, "asked")
    BY <1>0, <1>3, <2>1 DEF AddUserMessage, Goto, Asks
  <2>2. CASE LoseSession(t)
    BY <2>2 DEF LoseSession, rows
  <2>3. QED
    BY <1>3, <2>1, <2>2 DEF AddUserMessage
<1>4. ASSUME NEW t \in Turns, AddAnswer(t)
      PROVE  Goal
  <2>1. CASE UNCHANGED rows
    BY <2>1 DEF rows
  <2>2. CASE reply[t] # "none" /\ AddMessage(t, reply[t]) /\ Goto(t, "replied")
    BY <1>0, <1>4, <2>2 DEF AddAnswer, Goto, Replies
  <2>3. QED
    BY <1>4, <2>1, <2>2 DEF AddAnswer, LoseSession
<1>5. ASSUME NEW t \in Turns, SaveState(t)
      PROVE  Goal
  BY <1>5 DEF SaveState, Stores
<1>6. ASSUME Administer \/ CleanupTick
      PROVE  Goal
  BY <1>6 DEF Administer, CreateSession, RenameSession, DeleteSession, CleanupSessions,
              CleanupTick, Removes
<1>7. ASSUME Crash \/ UNCHANGED vars
      PROVE  Goal
  BY <1>7 DEF Crash, vars, rows
<1>8. QED
  BY <1>1, <1>2, <1>3, <1>4, <1>5, <1>6, <1>7 DEF Next, Handle, Advance, Persist

-----------------------------------------------------------------------------
(* Messages and sessions.                                                   *)

LEMMA OrphanStep == TypeOK /\ NoOrphanMessages /\ [Next]_vars => NoOrphanMessages'
<1> SUFFICES ASSUME TypeOK, NoOrphanMessages, [Next]_vars PROVE NoOrphanMessages'
  OBVIOUS
<1>1. CASE UNCHANGED <<live, used, stored, chats, nextRow>>
  BY <1>1 DEF NoOrphanMessages
<1>2. CASE \E s \in Sessions : Create(s)
  BY <1>2 DEF NoOrphanMessages, Create
<1>3. ASSUME NEW t \in Turns, NEW says, AddMessage(t, says)
      PROVE  NoOrphanMessages'
  BY <1>3 DEF NoOrphanMessages, AddMessage
<1>4. ASSUME NEW t \in Turns, Asks(t) \/ Replies(t) \/ Stores(t)
      PROVE  NoOrphanMessages'
  BY <1>3, <1>4 DEF NoOrphanMessages, Asks, Replies, Stores
<1>5. ASSUME NEW gone, Removes(gone)
      PROVE  NoOrphanMessages'
  BY <1>5 DEF NoOrphanMessages, Removes, Delete
<1>6. QED
  BY RowCases, <1>1, <1>2, <1>4, <1>5

(* A message never outlives its session.                                    *)
THEOREM MessagesGoWithSessions == Spec => []NoOrphanMessages
<1>1. Init => NoOrphanMessages
  BY DEF Init, NoOrphanMessages
<1>2. QED
  BY <1>1, OrphanStep, ChatTypeCorrect, PTL DEF Spec

-----------------------------------------------------------------------------
(* The write lock.                                                          *)

LEMMA LockCases ==
    ASSUME TypeOK, [Next]_vars, openTxn'
    PROVE  \/ openTxn /\ UNCHANGED <<live, used>>
           \/ \E t \in Turns : session[t] \in used \ live /\ UNCHANGED <<live, used>>
<1> DEFINE Goal == \/ openTxn /\ UNCHANGED <<live, used>>
                   \/ \E t \in Turns : session[t] \in used \ live /\ UNCHANGED <<live, used>>
<1>0. openTxn \in BOOLEAN
  BY DEF TypeOK
<1>1. ASSUME NEW t \in Turns, NEW s \in Sessions, BeginNew(t, s) \/ BeginExisting(t, s)
      PROVE  Goal
  BY <1>1 DEF BeginNew, BeginExisting, rows
<1>2. ASSUME NEW t \in Turns,
             Resolve(t) \/ AnswerNode(t) \/ MemoryNode(t) \/ Abandon(t) \/ Fail(t)
             \/ SaveExecution(t) \/ ReadTitle(t)
      PROVE  Goal
  BY <1>0, <1>2 DEF Resolve, AnswerNode, MemoryNode, Abandon, Fail, SaveExecution, ReadTitle, rows
<1>3. ASSUME NEW t \in Turns, SaveState(t) \/ WriteTitle(t)
      PROVE  Goal
  BY <1>3 DEF SaveState, WriteTitle
<1>4. ASSUME NEW t \in Turns, pc[t] \in Persisting, LoseSession(t)
      PROVE  Goal
  BY <1>4 DEF LoseSession, TypeOK, rows
<1>5. ASSUME NEW t \in Turns, AddUserMessage(t) \/ AddAnswer(t)
      PROVE  Goal
  BY <1>0, <1>4, <1>5 DEF AddUserMessage, AddAnswer, Persisting, rows
<1>6. ASSUME Administer \/ CleanupTick
      PROVE  Goal
  BY <1>6 DEF Administer, CreateSession, RenameSession, DeleteSession, CleanupSessions, CleanupTick
<1>7. ASSUME Crash \/ UNCHANGED vars
      PROVE  Goal
  BY <1>0, <1>7 DEF Crash, vars, rows
<1>8. QED
  BY <1>1, <1>2, <1>3, <1>5, <1>6, <1>7 DEF Next, Handle, Advance, Persist

LEMMA LockStep == TypeOK /\ LockedOutByLostSession /\ [Next]_vars => LockedOutByLostSession'
BY LockCases DEF LockedOutByLostSession, TypeOK

(* Only a session deleted under a turn locks the other threads out.         *)
THEOREM LockNeedsLostSession == Spec => []LockedOutByLostSession
<1>1. Init => LockedOutByLostSession
  BY DEF Init, LockedOutByLostSession
<1>2. QED
  BY <1>1, LockStep, ChatTypeCorrect, PTL DEF Spec

-----------------------------------------------------------------------------
(* The session state between and within turns.                              *)

SettledTurn(u) ==
    /\ pc[u] = "idle" => ss[u] = NewState
    /\ pc[u] \in {"loaded", "finalized"} \union Persisting => ss[u].status # "processing"
    /\ asked[u] = "create" => turnType[u] = "NEW_TASK"
    /\ pc[u] \in {"resolved", "answered"} /\ asked[u] = "create" /\ ~waited[u]
          => ss[u].goal = NoTurn
    /\ pc[u] = "finalized" /\ asked[u] = "create" /\ ~waited[u] => ss[u].goal = u

Settled ==
    /\ \A u \in Turns : SettledTurn(u)
    /\ \A s \in Sessions : stored[s].status # "processing" /\ (s \notin used => stored[s] = NewState)

LEMMA SettledInit == Init => Settled
<1> SUFFICES ASSUME Init PROVE Settled
  OBVIOUS
<1>1. \A u \in Turns : pc[u] = "idle" /\ ss[u] = NewState /\ asked[u] = "remark"
  BY DEF Init
<1>2. \A s \in Sessions : stored[s] = NewState
  BY DEF Init
<1>3. QED
  BY <1>1, <1>2, NewStateType DEF Settled, SettledTurn, Persisting

LEMMA SettledMove ==
    ASSUME TypeOK, Settled, NEW t \in Turns, Moved(t)
    PROVE  SettledTurn(t)'
<1>0. /\ pc \in [Turns -> Steps] /\ ss \in [Turns -> SessionState] /\ ss[t] \in SessionState
      /\ asked \in [Turns -> Questions] /\ asked[t] \in Questions
      /\ turnType \in [Turns -> TurnTypes] /\ waited \in [Turns -> BOOLEAN]
      /\ heard[t] \in Answers
  BY DEF TypeOK, Steps, TurnTypes
<1>1. CASE Began(t)
  <2>1. ss'[t].status # "processing"
    BY <1>1, NewStateType DEF Began, Settled, SettledTurn, TypeOK
  <2>2. QED
    BY <1>1, <2>1 DEF Began, Settled, SettledTurn, Persisting
<1>2. CASE Resolve(t)
  <2>1. PICK q \in Questions : \E rewritten \in Rewritings(q, ss[t]) :
          /\ asked' = [asked EXCEPT ![t] = q]
          /\ ss' = [ss EXCEPT ![t] = ResolveQuestion(q, ss[t])]
          /\ turnType' = [turnType EXCEPT ![t] = TurnType(q, ResolveQuestion(q, ss[t]), rewritten)]
    BY <1>2 DEF Resolve
  <2>2. pc'[t] = "resolved" /\ waited'[t] = IsWaiting(ss[t])
    BY <1>0, <1>2 DEF Resolve, Goto
  <2>3. asked'[t] = "create" => turnType'[t] = "NEW_TASK"
    BY <1>0, <2>1, CreateResolved
  <2>4. asked'[t] = "create" /\ ~waited'[t] => ss'[t].goal = NoTurn
    <3>1. PICK rewritten \in Rewritings(q, ss[t]) : TRUE
      BY <2>1
    <3>2. asked'[t] = q /\ ss'[t] = ResolveQuestion(q, ss[t])
      BY <1>0, <2>1
    <3>3. QED
      BY <1>0, <2>2, <3>1, <3>2, CreateResolved
  <2>5. QED
    BY <2>2, <2>3, <2>4 DEF SettledTurn, Persisting
<1>3. CASE AnswerNode(t)
  <2>1. pc'[t] = "answered" /\ pc[t] = "resolved" /\ turnType'[t] = "NEW_TASK"
        /\ asked' = asked /\ waited' = waited /\ ss' = ss
    BY <1>0, <1>3 DEF AnswerNode, Goto
  <2>2. QED
    BY <2>1 DEF Settled, SettledTurn, Persisting
<1>4. CASE MemoryNode(t)
  <2>1. PICK big \in IF asked[t] \in SelfContained THEN {TRUE} ELSE BOOLEAN :
          ss' = [ss EXCEPT ![t] = FinalizeTurn(ss[t], heard[t], t, big)]
    BY <1>4 DEF MemoryNode
  <2>2. pc'[t] = "finalized" /\ pc[t] = "answered"
        /\ asked' = asked /\ waited' = waited /\ turnType' = turnType
    BY <1>0, <1>4 DEF MemoryNode, Goto
  <2>3. big \in BOOLEAN /\ (asked[t] = "create" => big)
    BY <2>1 DEF SelfContained
  <2>4. ss'[t] = FinalizeTurn(ss[t], heard[t], t, big)
    BY <1>0, <2>1
  <2>5. ss'[t].status # "processing" /\ (ss[t].goal = NoTurn /\ big => ss'[t].goal = t)
    BY <1>0, <2>3, <2>4, Finalized
  <2>6. QED
    BY <2>2, <2>3, <2>5 DEF Settled, SettledTurn
<1>5. CASE Wrote(t)
  <2>1. pc[t] \in {"finalized"} \union Persisting /\ pc'[t] \in Persisting
    BY <1>5 DEF Wrote, Successions, Persisting
  <2>2. QED
    BY <1>5, <2>1 DEF Wrote, Settled, SettledTurn, Persisting
<1>6. QED
  BY <1>1, <1>2, <1>3, <1>4, <1>5 DEF Moved

LEMMA SettledStep == TypeOK /\ Settled /\ [Next]_vars => Settled'
<1> SUFFICES ASSUME TypeOK, Settled, [Next]_vars PROVE Settled'
  OBVIOUS
<1>1. ASSUME NEW u \in Turns, Still(u)
      PROVE  SettledTurn(u)'
  BY <1>1 DEF Settled, SettledTurn, Still
<1>2. ASSUME NEW u \in Turns, Ended(u)
      PROVE  SettledTurn(u)'
  BY <1>2, NewStateType DEF SettledTurn, Ended, Active, Graph
<1>3. \A u \in Turns : SettledTurn(u)'
  BY <1>1, <1>2, SettledMove, TurnCases
<1>4. \A s \in Sessions : stored'[s].status # "processing" /\ (s \notin used' => stored'[s] = NewState)
  <2>1. CASE UNCHANGED <<live, used, stored, chats, nextRow>>
    BY <2>1 DEF Settled
  <2>2. CASE \E s \in Sessions : Create(s)
    BY <2>2 DEF Create, Settled
  <2>3. ASSUME NEW t \in Turns, Asks(t) \/ Replies(t)
        PROVE  UNCHANGED <<stored, used>>
    BY <2>3 DEF Asks, Replies, AddMessage
  <2>4. ASSUME NEW t \in Turns, Stores(t), NEW s \in Sessions
        PROVE  stored'[s].status # "processing" /\ (s \notin used' => stored'[s] = NewState)
    <3>1. ss[t].status # "processing" /\ session[t] \in used /\ used' = used
      BY <2>4 DEF Stores, Settled, SettledTurn, Persisting, TypeOK
    <3>2. stored'[s] = IF s = session[t] THEN ss[t] ELSE stored[s]
      BY <2>4 DEF Stores, TypeOK
    <3>3. QED
      BY <3>1, <3>2 DEF Settled
  <2>5. CASE \E gone : Removes(gone)
    BY <2>5 DEF Removes, Delete, Settled
  <2>6. QED
    BY <2>1, <2>2, <2>3, <2>4, <2>5, RowCases DEF Settled
<1>5. QED
  BY <1>3, <1>4 DEF Settled

THEOREM SettledAlways == Spec => []Settled
<1>1. QED
  BY SettledInit, SettledStep, ChatTypeCorrect, PTL DEF Spec

(* No turn leaves its session "processing", whatever other turns, deletes   *)
(* and stops of the process come between.                                   *)
THEOREM SessionsSettle == Spec => []StoredStateSettled
<1>1. Settled => StoredStateSettled
  BY DEF Settled, StoredStateSettled
<1>2. QED
  BY <1>1, SettledAlways, PTL

(* An explicit new task is planned as one, in every state of its session.   *)
THEOREM CreateStartsTask == Spec => []CreateIsNewTask
<1>1. Settled => CreateIsNewTask
  BY DEF Settled, SettledTurn, CreateIsNewTask
<1>2. QED
  BY <1>1, SettledAlways, PTL

(* A new task asked of a session that was not waiting becomes its goal.     *)
THEOREM TaskBecomesGoal == Spec => []NewTaskOwnsGoal
<1>1. Settled => NewTaskOwnsGoal
  BY DEF Settled, SettledTurn, NewTaskOwnsGoal
<1>2. QED
  BY <1>1, SettledAlways, PTL

-----------------------------------------------------------------------------
(* Turns that never came to their writes.                                   *)

Silent ==
    \A u \in Turns : pc[u] \in {"idle", "saved", "abandoned"} \union Graph
        => \A r \in chats : r.turn # u

LEMMA SilentBefore ==
    ASSUME TypeOK, [Next]_vars, NEW u \in Turns,
           pc'[u] \in {"idle", "saved", "abandoned"} \union Graph
    PROVE  pc[u] \in {"idle", "saved", "abandoned"} \union Graph
<1>1. CASE Still(u)
  BY <1>1 DEF Still
<1>2. CASE Ended(u)
  BY <1>2 DEF Ended, Active, Persisting
<1>3. CASE Moved(u)
  <2>1. CASE Began(u)
    BY <2>1 DEF Began
  <2>2. CASE Resolve(u) \/ AnswerNode(u) \/ MemoryNode(u)
    BY <2>2 DEF Resolve, AnswerNode, MemoryNode, Graph
  <2>3. CASE Wrote(u)
    BY <2>3 DEF Wrote, Successions, Graph
  <2>4. QED
    BY <1>3, <2>1, <2>2, <2>3 DEF Moved
<1>4. QED
  BY <1>1, <1>2, <1>3, TurnCases

LEMMA SilentStep == TypeOK /\ Silent /\ [Next]_vars => Silent'
<1> SUFFICES ASSUME TypeOK, Silent, [Next]_vars,
                    NEW u \in Turns, pc'[u] \in {"idle", "saved", "abandoned"} \union Graph
             PROVE  \A r \in chats' : r.turn # u
  BY DEF Silent
<1>1. \A r \in chats : r.turn # u
  BY SilentBefore DEF Silent
<1>2. CASE UNCHANGED <<live, used, stored, chats, nextRow>>
  BY <1>1, <1>2
<1>3. CASE \E s \in Sessions : Create(s)
  BY <1>1, <1>3 DEF Create
<1>4. ASSUME NEW t \in Turns, Asks(t) \/ Replies(t)
      PROVE  \A r \in chats' : r.turn # u
  <2>1. u # t
    BY <1>4 DEF Asks, Replies, Graph
  <2>2. QED
    BY <1>1, <1>4, <2>1 DEF Asks, Replies, AddMessage
<1>5. CASE \E t \in Turns : Stores(t)
  BY <1>1, <1>5 DEF Stores
<1>6. CASE \E gone : Removes(gone)
  BY <1>1, <1>6 DEF Removes, Delete
<1>7. QED
  BY <1>2, <1>3, <1>4, <1>5, <1>6, RowCases

(* A turn that timed out or was cancelled left no message.                  *)
THEOREM AbandonedTurnsAreSilent == Spec => []AbandonedTurnsLeaveNothing
<1>1. Init => Silent
  BY DEF Init, Silent
<1>2. Silent => AbandonedTurnsLeaveNothing
  BY DEF Silent, AbandonedTurnsLeaveNothing
<1>3. QED
  BY <1>1, <1>2, SilentStep, ChatTypeCorrect, PTL DEF Spec

-----------------------------------------------------------------------------
(* Questions and answers: the writes of a turn are alone on the loop thread. *)

Alone == \A t, u \in Turns : pc[t] \in Persisting /\ pc[u] \in Persisting => t = u

QuestionOf(t, id, s) ==
    \E r \in chats : r.says = "question" /\ r.turn = t /\ r.id = id /\ r.session = s

Paired ==
    /\ Alone
    /\ \A r \in chats : r.id < nextRow
    /\ \A t \in Turns : pc[t] = "asked" /\ session[t] \in live
          => QuestionOf(t, nextRow - 1, session[t])
    /\ \A r \in chats : r.says # "question" => QuestionOf(r.turn, r.id - 1, r.session)

LEMMA SessionStays ==
    ASSUME TypeOK, [Next]_vars, NEW s \in live', s \in used
    PROVE  s \in live
BY RowCases DEF Create, Asks, Replies, Stores, AddMessage, Removes, Delete

LEMMA AloneStep ==
    ASSUME TypeOK, Alone, [Next]_vars
    PROVE  Alone'
<1>1. \A u \in Turns : Still(u) \/ Ended(u) => (pc'[u] \in Persisting => pc[u] \in Persisting)
  BY DEF Still, Ended, Active
<1>2. ASSUME NEW t \in Turns, Moved(t), \A u \in Turns \ {t} : Still(u)
      PROVE  Alone'
  <2>1. CASE pc'[t] \notin Persisting
    BY <1>1, <1>2, <2>1 DEF Alone
  <2>2. CASE pc'[t] \in Persisting
    <3>1. CASE Wrote(t)
      <4>1. pc[t] \in Persisting \/ LoopFree
        BY <3>1 DEF Wrote, Successions, Persisting
      <4>2. QED
        BY <1>1, <1>2, <4>1 DEF Alone, LoopFree
    <3>2. CASE Began(t)
      BY <2>2, <3>2 DEF Began, Persisting
    <3>3. CASE Resolve(t) \/ AnswerNode(t) \/ MemoryNode(t)
      <4>1. pc \in [Turns -> Steps]
        BY DEF TypeOK, Steps
      <4>2. pc'[t] \in Graph
        BY <3>3, <4>1 DEF Resolve, AnswerNode, MemoryNode, Goto, Graph
      <4>3. QED
        BY <2>2, <4>2 DEF Graph, Persisting
    <3>4. QED
      BY <1>2, <3>1, <3>2, <3>3 DEF Moved
  <2>3. QED
    BY <2>1, <2>2
<1>3. QED
  BY <1>1, <1>2, TurnCases DEF Alone

(* Who is between its question and its answer was so before, or has just    *)
(* asked.                                                                   *)
LEMMA AskedBefore ==
    ASSUME TypeOK, [Next]_vars, NEW u \in Turns, pc'[u] = "asked"
    PROVE  session'[u] = session[u] /\ pc[u] \in {"saved", "asked"}
<1>1. CASE Still(u)
  BY <1>1 DEF Still
<1>2. CASE Ended(u)
  BY <1>2 DEF Ended, Active, Persisting
<1>3. CASE Moved(u)
  <2>1. pc \in [Turns -> Steps]
    BY DEF TypeOK, Steps
  <2>2. Wrote(u)
    BY <1>3, <2>1 DEF Moved, Began, Resolve, AnswerNode, MemoryNode, Goto
  <2>3. QED
    BY <2>2 DEF Wrote, Successions
<1>4. QED
  BY <1>1, <1>2, <1>3, TurnCases

LEMMA PairedStep == TypeOK /\ Paired /\ [Next]_vars => Paired'
<1> SUFFICES ASSUME TypeOK, Paired, [Next]_vars PROVE Paired'
  OBVIOUS
<1> DEFINE Ordered == \A r \in chats : r.id < nextRow
           Questioned == \A t \in Turns : pc[t] = "asked" /\ session[t] \in live
                            => QuestionOf(t, nextRow - 1, session[t])
           Followed == \A r \in chats : r.says # "question"
                            => QuestionOf(r.turn, r.id - 1, r.session)
<1>0. nextRow \in Nat /\ \A r \in chats : r.id \in Nat
  BY DEF TypeOK, Row
<1>1. Alone'
  BY AloneStep DEF Paired
<1>2. \A u \in Turns : pc'[u] = "asked" /\ session'[u] \in live'
         => session'[u] = session[u] /\ session[u] \in live /\ pc[u] \in {"saved", "asked"}
  <2>1. \A u \in Turns : pc[u] \in {"saved", "asked"} => session[u] \in used
    BY DEF TypeOK, Persisting
  <2>2. QED
    BY <2>1, AskedBefore, SessionStays
<1>3. ASSUME NEW u \in Turns, pc'[u] = "asked", pc[u] = "saved"
      PROVE  Asks(u) /\ QuestionOf(u, nextRow - 1, session[u])'
  <2>1. ~Still(u) /\ ~Ended(u)
    BY <1>3 DEF Still, Ended, Active, Persisting
  <2>2. Wrote(u)
    BY <1>3, <2>1, TurnCases DEF Moved, Began, Resolve, AnswerNode, MemoryNode
  <2>3. AddMessage(u, "question") /\ session'[u] = session[u]
    BY <1>3, <2>2 DEF Wrote
  <2>4. nextRow' - 1 = nextRow
    BY <1>0, <2>3 DEF AddMessage
  <2>5. [id |-> nextRow, session |-> session[u], turn |-> u, says |-> "question"] \in chats'
    BY <2>3 DEF AddMessage
  <2>6. QED
    BY <1>3, <2>3, <2>4, <2>5 DEF Asks, QuestionOf
<1>4. ASSUME NEW u \in Turns, pc'[u] = "asked", session'[u] \in live', pc[u] = "asked"
      PROVE  QuestionOf(u, nextRow - 1, session[u]) /\ session'[u] = session[u]
  BY <1>2, <1>4 DEF Paired
<1>5. ASSUME \A u \in Turns : pc'[u] = "asked" /\ session'[u] \in live' /\ pc[u] = "asked"
                => QuestionOf(u, nextRow - 1, session[u])'
      PROVE  Questioned'
  BY <1>2, <1>3, <1>5
<1>6. ASSUME chats' = chats, nextRow' = nextRow
      PROVE  Paired'
  <2>1. Questioned'
    BY <1>4, <1>5, <1>6 DEF QuestionOf
  <2>2. QED
    BY <1>1, <1>6, <2>1 DEF Paired, QuestionOf
<1>7. ASSUME NEW t \in Turns, pc[t] \in {"saved", "asked"}, pc[t] = "saved" \/ pc'[t] = "replied",
             NEW says, AddMessage(t, says),
             says # "question" => pc[t] = "asked"
      PROVE  Paired'
  <2>1. PICK new : new = [id |-> nextRow, session |-> session[t], turn |-> t, says |-> says]
    OBVIOUS
  <2>2. chats' = chats \union {new} /\ nextRow' = nextRow + 1 /\ session[t] \in live
    BY <1>7, <2>1 DEF AddMessage
  <2>3. \A r \in chats' : r.id < nextRow'
    BY <1>0, <2>1, <2>2 DEF Paired
  <2>4. \A u, id, s : QuestionOf(u, id, s) => QuestionOf(u, id, s)'
    BY <2>2 DEF QuestionOf
  <2>5. \A r \in chats' : r.says # "question" => QuestionOf(r.turn, r.id - 1, r.session)'
    <3>1. ASSUME says # "question"
          PROVE  QuestionOf(t, nextRow - 1, session[t])
      BY <1>7, <2>2, <3>1 DEF Paired
    <3>2. QED
      BY <2>1, <2>2, <2>4, <3>1 DEF Paired
  <2>6. Questioned'
    <3>1. ASSUME NEW u \in Turns, pc[u] = "asked", pc'[u] = "asked"
          PROVE  FALSE
      <4>1. u = t
        BY <1>7, <3>1 DEF Paired, Alone, Persisting
      <4>2. QED
        BY <1>7, <3>1, <4>1
    <3>2. QED
      BY <1>5, <3>1
  <2>7. QED
    BY <1>1, <2>3, <2>5, <2>6 DEF Paired
<1>8. ASSUME NEW gone, Removes(gone)
      PROVE  Paired'
  <2>1. chats' = {r \in chats : r.session \notin gone} /\ nextRow' = nextRow
        /\ live' = live \ gone
    BY <1>8 DEF Removes, Delete
  <2>2. \A u, id : \A s \in live' : QuestionOf(u, id, s) => QuestionOf(u, id, s)'
    BY <2>1 DEF QuestionOf
  <2>3. \A r \in chats' : r.says # "question" => QuestionOf(r.turn, r.id - 1, r.session)'
    BY <2>1 DEF Paired, QuestionOf
  <2>4. Questioned'
    BY <1>4, <1>5, <2>1, <2>2 DEF QuestionOf
  <2>5. QED
    BY <1>1, <2>1, <2>3, <2>4 DEF Paired
<1>9. CASE \E s \in Sessions : Create(s)
  BY <1>6, <1>9 DEF Create
<1>10. ASSUME NEW t \in Turns, Asks(t) \/ Replies(t) \/ Stores(t)
       PROVE  Paired'
  BY <1>6, <1>7, <1>10 DEF Asks, Replies, Stores
<1>11. QED
  BY <1>6, <1>8, <1>9, <1>10, RowCases

(* An answer is stored right behind the question it answers.                *)
THEOREM AnswersFollow == Spec => []AnswersFollowTheirQuestion
<1>1. Init => Paired
  <2>1. Init => \A t \in Turns : pc[t] = "idle"
    BY DEF Init
  <2>2. QED
    BY <2>1 DEF Init, Paired, Alone, Persisting
<1>2. Paired => AnswersFollowTheirQuestion
  BY DEF Paired, AnswersFollowTheirQuestion, QuestionOf
<1>3. QED
  BY <1>1, <1>2, PairedStep, ChatTypeCorrect, PTL DEF Spec

-----------------------------------------------------------------------------
(***************************************************************************)
(* The transcript supports the session state.  What a turn has taken from  *)
(* the stored state, or from an earlier answer, is in the transcript of    *)
(* its session; what it will add is in the answer it still has to store.   *)
(***************************************************************************)
Shown(s, o) == o = NoTurn \/ \E r \in chats : r.session = s /\ r.turn = o /\ r.says = "options"
AskedFor(s) == \E r \in chats : r.session = s /\ r.says \in {"options", "request"}

Unwritten == {"finalized", "saved", "asked"}
Working == {"loaded", "resolved", "answered", "replied"} \union Unwritten

Supported(s, c) ==
    Shown(s, c.options) /\ Shown(s, c.focus) /\ (IsWaiting(c) => AskedFor(s))

SupportedTurn(u) ==
    /\ pc[u] = "answered" => heard[u] \in {reply[u], "none"}
    /\ pc[u] \in Working /\ session[u] \in live =>
          /\ Shown(session[u], ss[u].focus)
          /\ \/ Shown(session[u], ss[u].options)
             \/ pc[u] \in Unwritten /\ ss[u].options = u /\ reply[u] = "options"
          /\ \/ IsWaiting(ss[u]) => AskedFor(session[u])
             \/ pc[u] \in Unwritten /\ reply[u] \in {"options", "request"}

Transcript ==
    /\ \A s \in live : Supported(s, stored[s])
    /\ \A u \in Turns : SupportedTurn(u)

LEMMA NewSupported == ASSUME NEW s PROVE Supported(s, NewState) /\ Supported(s, NewState)'
BY NewStateType DEF Supported, Shown, IsWaiting

(* A live session loses no message.                                         *)
LEMMA ShownStays ==
    ASSUME TypeOK, [Next]_vars, NEW s \in live'
    PROVE  /\ \A o : Shown(s, o) => Shown(s, o)'
           /\ AskedFor(s) => AskedFor(s)'
<1>1. \A r \in chats : r.session = s => r \in chats'
  <2>1. CASE UNCHANGED <<live, used, stored, chats, nextRow>>
    BY <2>1
  <2>2. CASE \E z \in Sessions : Create(z)
    BY <2>2 DEF Create
  <2>3. ASSUME NEW t \in Turns, Asks(t) \/ Replies(t) \/ Stores(t)
        PROVE  chats \subseteq chats'
    BY <2>3 DEF Asks, Replies, Stores, AddMessage
  <2>4. ASSUME NEW gone, Removes(gone)
        PROVE  \A r \in chats : r.session = s => r \in chats'
    BY <2>4 DEF Removes, Delete
  <2>5. QED
    BY <2>1, <2>2, <2>3, <2>4, RowCases
<1>2. QED
  BY <1>1 DEF Shown, AskedFor

LEMMA TranscriptInit == Init => Transcript
<1> SUFFICES ASSUME Init PROVE Transcript
  OBVIOUS
<1>1. \A u \in Turns : pc[u] = "idle"
  BY DEF Init
<1>2. \A u \in Turns : SupportedTurn(u)
  BY <1>1 DEF SupportedTurn, Working, Unwritten
<1>3. QED
  BY <1>2 DEF Init, Transcript

(* One lemma per way a turn goes on.                                        *)
LEMMA BeganSupported ==
    ASSUME TypeOK, Settled, Transcript, [Next]_vars, NEW t \in Turns, Began(t)
    PROVE  SupportedTurn(t)'
<1>1. pc'[t] = "loaded"
  BY DEF Began
<1>2. CASE session'[t] \notin used /\ ss'[t] = ss[t]
  <2>1. ss'[t] = NewState
    BY <1>2 DEF Began, Settled, SettledTurn
  <2>2. ss'[t].options = NoTurn /\ ss'[t].focus = NoTurn /\ ~IsWaiting(ss'[t])
    BY <2>1, NewStateType DEF IsWaiting
  <2>3. QED
    BY <1>1, <2>2 DEF SupportedTurn, Shown
<1>3. CASE session'[t] \in live /\ ss'[t] = stored[session'[t]]
  <2>1. Supported(session'[t], ss'[t])
    BY <1>3 DEF Transcript
  <2>2. PICK s, c : s = session'[t] /\ c = ss'[t]
    OBVIOUS
  <2>3. s \in live' => Supported(s, c)'
    BY <2>1, <2>2, ShownStays DEF Supported
  <2>4. QED
    BY <1>1, <2>2, <2>3 DEF SupportedTurn, Supported, Shown, AskedFor
<1>4. QED
  BY <1>2, <1>3 DEF Began

(* A turn that keeps its session: what supported its state still does.      *)
LEMMA KeptSession ==
    ASSUME TypeOK, [Next]_vars, NEW t \in Turns, pc[t] \in Active, session'[t] = session[t],
           session'[t] \in live'
    PROVE  /\ session[t] \in live
           /\ \A o : Shown(session[t], o) => Shown(session[t], o)'
           /\ AskedFor(session[t]) => AskedFor(session[t])'
BY SessionStays, ShownStays DEF TypeOK, Active

LEMMA ResolveSupported ==
    ASSUME TypeOK, Transcript, [Next]_vars, NEW t \in Turns, Resolve(t)
    PROVE  SupportedTurn(t)'
<1>1. pc[t] = "loaded" /\ pc'[t] = "resolved" /\ session' = session
  BY DEF Resolve, Goto, TypeOK
<1>2. PICK q \in Questions : ss'[t] = ResolveQuestion(q, ss[t])
  BY DEF Resolve, TypeOK
<1>3. ss[t] \in SessionState
  BY DEF TypeOK
<1>4. /\ ss'[t].options \in {ss[t].options, NoTurn}
      /\ ss'[t].focus \in {ss[t].focus, ss[t].options, NoTurn}
      /\ IsWaiting(ss'[t]) => IsWaiting(ss[t])
  BY <1>2, <1>3, Resolved
<1>5. ASSUME session'[t] \in live'
      PROVE  Supported(session[t], ss[t])'
  <2>1. /\ session[t] \in live
        /\ \A o : Shown(session[t], o) => Shown(session[t], o)'
        /\ AskedFor(session[t]) => AskedFor(session[t])'
    BY <1>1, <1>5, KeptSession DEF Active, Graph
  <2>2. Supported(session[t], ss[t])
    BY <1>1, <2>1 DEF Transcript, SupportedTurn, Supported, Working, Unwritten
  <2>3. Shown(session[t], NoTurn)'
    BY DEF Shown
  <2>4. QED
    BY <1>1, <1>4, <2>1, <2>2, <2>3 DEF Supported, Shown, AskedFor
<1>6. QED
  BY <1>1, <1>5 DEF SupportedTurn, Supported, Shown, AskedFor

LEMMA AnswerSupported ==
    ASSUME TypeOK, Transcript, [Next]_vars, NEW t \in Turns, AnswerNode(t)
    PROVE  SupportedTurn(t)'
<1>1. /\ pc[t] = "resolved" /\ pc'[t] = "answered" /\ session' = session /\ ss' = ss
      /\ heard'[t] \in {reply'[t], "none"}
  BY DEF AnswerNode, Goto, TypeOK
<1>2. ASSUME session'[t] \in live'
      PROVE  Supported(session[t], ss[t])'
  <2>1. /\ session[t] \in live
        /\ \A o : Shown(session[t], o) => Shown(session[t], o)'
        /\ AskedFor(session[t]) => AskedFor(session[t])'
    BY <1>1, <1>2, KeptSession DEF Active, Graph
  <2>2. Supported(session[t], ss[t])
    BY <1>1, <2>1 DEF Transcript, SupportedTurn, Supported, Working, Unwritten
  <2>3. QED
    BY <1>1, <2>1, <2>2 DEF Supported, Shown, AskedFor
<1>3. QED
  BY <1>1, <1>2 DEF SupportedTurn, Supported, Shown, AskedFor

LEMMA MemorySupported ==
    ASSUME TypeOK, Transcript, [Next]_vars, NEW t \in Turns, MemoryNode(t)
    PROVE  SupportedTurn(t)'
<1>1. /\ pc[t] = "answered" /\ pc'[t] = "finalized" /\ session' = session /\ reply' = reply
  BY DEF MemoryNode, Goto, TypeOK
<1>2. PICK big \in BOOLEAN : ss'[t] = FinalizeTurn(ss[t], heard[t], t, big)
  BY DEF MemoryNode, TypeOK
<1>3. ss[t] \in SessionState /\ heard[t] \in Answers /\ heard[t] \in {reply[t], "none"}
  BY <1>1 DEF TypeOK, Transcript, SupportedTurn
<1>4. /\ ss'[t].options = IF heard[t] = "options" THEN t ELSE ss[t].options
      /\ ss'[t].focus = ss[t].focus
      /\ IsWaiting(ss'[t]) => IsWaiting(ss[t]) \/ heard[t] \in {"options", "request"}
  BY <1>2, <1>3, Finalized
<1>5. ASSUME session'[t] \in live'
      PROVE  /\ Shown(session[t], ss[t].focus)'
             /\ \/ Shown(session[t], ss[t].options)'
                \/ ss'[t].options = t /\ reply[t] = "options"
             /\ \/ IsWaiting(ss'[t]) => AskedFor(session[t])'
                \/ reply[t] \in {"options", "request"}
  <2>1. /\ session[t] \in live
        /\ \A o : Shown(session[t], o) => Shown(session[t], o)'
        /\ AskedFor(session[t]) => AskedFor(session[t])'
    BY <1>1, <1>5, KeptSession DEF Active, Graph
  <2>2. Supported(session[t], ss[t])
    BY <1>1, <2>1 DEF Transcript, SupportedTurn, Supported, Working, Unwritten
  <2>3. QED
    BY <1>3, <1>4, <2>1, <2>2 DEF Supported, Shown, AskedFor
<1>6. QED
  BY <1>1, <1>5 DEF SupportedTurn, Unwritten, Shown, AskedFor

LEMMA WroteSupported ==
    ASSUME TypeOK, Transcript, [Next]_vars, NEW t \in Turns, Wrote(t)
    PROVE  SupportedTurn(t)'
<1>1. /\ <<pc[t], pc'[t]>> \in Successions
      /\ session'[t] = session[t] /\ ss'[t] = ss[t] /\ reply'[t] = reply[t]
  BY DEF Wrote
<1>2. pc[t] \in Active /\ pc'[t] # "answered"
  BY <1>1 DEF Successions, Active, Graph, Persisting
<1>3. CASE pc'[t] \notin Working
  BY <1>2, <1>3 DEF SupportedTurn
<1>4. CASE session'[t] \notin live'
  BY <1>2, <1>4 DEF SupportedTurn
<1>5. CASE pc'[t] \in Working /\ session'[t] \in live'
  <2>1. /\ session[t] \in live
        /\ \A o : Shown(session[t], o) => Shown(session[t], o)'
        /\ AskedFor(session[t]) => AskedFor(session[t])'
    BY <1>1, <1>2, <1>5, KeptSession
  <2>2. pc[t] \in Unwritten
    BY <1>1, <1>5 DEF Successions, Working, Unwritten
  <2>3. /\ Shown(session[t], ss[t].focus)
        /\ \/ Shown(session[t], ss[t].options)
           \/ ss[t].options = t /\ reply[t] = "options"
        /\ \/ IsWaiting(ss[t]) => AskedFor(session[t])
           \/ reply[t] \in {"options", "request"}
    BY <2>1, <2>2 DEF Transcript, SupportedTurn, Working
  <2>4. CASE pc'[t] \in Unwritten
    BY <1>1, <1>2, <2>1, <2>3, <2>4 DEF SupportedTurn
  <2>5. CASE pc'[t] = "replied"
    <3>1. pc[t] = "asked"
      BY <1>1, <2>5 DEF Successions
    <3>2. reply[t] # "none" =>
            [id |-> nextRow, session |-> session[t], turn |-> t, says |-> reply[t]] \in chats'
      BY <3>1 DEF Wrote, AddMessage
    <3>3. reply[t] = "options" => Shown(session[t], t)'
      BY <1>1, <3>2 DEF Shown
    <3>4. reply[t] \in {"options", "request"} => AskedFor(session[t])'
      BY <1>1, <3>2 DEF AskedFor
    <3>5. QED
      BY <1>1, <1>2, <2>1, <2>3, <3>3, <3>4 DEF SupportedTurn
  <2>6. QED
    BY <1>1, <1>5, <2>4, <2>5 DEF Working, Successions, Unwritten
<1>6. QED
  BY <1>3, <1>4, <1>5

LEMMA TranscriptStep == TypeOK /\ Settled /\ Transcript /\ [Next]_vars => Transcript'
<1> SUFFICES ASSUME TypeOK, Settled, Transcript, [Next]_vars PROVE Transcript'
  OBVIOUS
<1>1. ASSUME NEW u \in Turns, Still(u)
      PROVE  SupportedTurn(u)'
  <2>1. CASE pc[u] \in Working /\ session'[u] \in live'
    <3>1. pc[u] \in Active
      BY <2>1 DEF Working, Unwritten, Active, Graph, Persisting
    <3>2. QED
      BY <1>1, <2>1, <3>1, KeptSession DEF Still, Transcript, SupportedTurn
  <2>2. CASE ~(pc[u] \in Working /\ session'[u] \in live')
    BY <1>1, <2>2 DEF Still, Transcript, SupportedTurn
  <2>3. QED
    BY <2>1, <2>2
<1>2. ASSUME NEW u \in Turns, Ended(u)
      PROVE  SupportedTurn(u)'
  BY <1>2 DEF Ended, SupportedTurn, Active, Graph, Persisting, Working, Unwritten
<1>3. \A u \in Turns : SupportedTurn(u)'
  BY <1>1, <1>2, TurnCases, BeganSupported, ResolveSupported, AnswerSupported, MemorySupported,
     WroteSupported DEF Moved
<1>4. ASSUME NEW s \in live', s \in live, stored'[s] = stored[s]
      PROVE  Supported(s, stored[s])'
  BY <1>4, ShownStays DEF Transcript, Supported
<1>5. \A s \in live' : Supported(s, stored[s])'
  <2>1. CASE UNCHANGED <<live, used, stored, chats, nextRow>>
    BY <1>4, <2>1
  <2>2. ASSUME NEW z \in Sessions, Create(z)
        PROVE  \A s \in live' : Supported(s, stored[s])'
    <3>1. stored'[z] = NewState
      BY <2>2 DEF Create, Settled
    <3>2. QED
      BY <1>4, <2>2, <3>1, NewSupported DEF Create
  <2>3. ASSUME NEW t \in Turns, Asks(t) \/ Replies(t)
        PROVE  \A s \in live' : Supported(s, stored[s])'
    BY <1>4, <2>3 DEF Asks, Replies, AddMessage
  <2>4. ASSUME NEW t \in Turns, Stores(t), NEW s \in live'
        PROVE  Supported(s, stored[s])'
    <3>1. pc[t] = "replied" /\ session[t] \in live /\ live' = live /\ s \in Sessions
      BY <2>4 DEF Stores, TypeOK
    <3>2. Supported(session[t], ss[t])
      BY <3>1 DEF Transcript, SupportedTurn, Supported, Working, Unwritten
    <3>3. stored'[s] = IF s = session[t] THEN ss[t] ELSE stored[s]
      BY <2>4, <3>1 DEF Stores, TypeOK
    <3>4. CASE s = session[t]
      BY <3>2, <3>3, <3>4, ShownStays DEF Supported
    <3>5. QED
      BY <1>4, <3>1, <3>3, <3>4
  <2>5. ASSUME NEW gone, Removes(gone)
        PROVE  \A s \in live' : Supported(s, stored[s])'
    BY <1>4, <2>5 DEF Removes, Delete
  <2>6. QED
    BY <2>1, <2>2, <2>3, <2>4, <2>5, RowCases
<1>6. QED
  BY <1>3, <1>5 DEF Transcript

THEOREM TranscriptAlways == Spec => []Transcript
<1>1. QED
  BY TranscriptInit, TranscriptStep, SettledAlways, ChatTypeCorrect, PTL DEF Spec

(* The options a session would resolve a choice against, and the option in  *)
(* focus, stand in an answer of its transcript.                             *)
THEOREM OptionsAreInTranscript == Spec => []OptionsWereShown
<1>1. Transcript => OptionsWereShown
  BY DEF Transcript, Supported, Shown, OptionsWereShown
<1>2. QED
  BY <1>1, TranscriptAlways, PTL

(* A session that waits has asked for something in its transcript.          *)
THEOREM WaitingIsInTranscript == Spec => []WaitingWasAsked
<1>1. Transcript => WaitingWasAsked
  BY DEF Transcript, Supported, AskedFor, WaitingWasAsked
<1>2. QED
  BY <1>1, TranscriptAlways, PTL

=============================================================================
