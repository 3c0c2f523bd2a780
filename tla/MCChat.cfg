SPECIFICATION Spec
CONSTANTS
    t1 = t1
    t2 = t2
    s1 = s1
    Turns = {t1, t2}
    NoTurn = NoTurn
    Sessions = {s1}
    Crashes = 1
INVARIANTS
    TypeOK
    NoOrphanMessages
    AnswersFollowTheirQuestion
    
    StoredStateSettled
    WaitingWasAsked
    AbandonedTurnsLeaveNothing
    LockedOutByLostSession
    CreateIsNewTask
    

PROPERTIES
    TurnsEnd
    LockReleased
CHECK_DEADLOCK FALSE
