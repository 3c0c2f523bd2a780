-------------------------- MODULE LlmService_proofs --------------------------
(***************************************************************************)
(* Proofs about the circuit breaker, for every set of threads and every    *)
(* threshold.                                                              *)
(***************************************************************************)
EXTENDS LlmService, TLAPS

(* Where a thread is stays inside Steps.                                    *)
LEMMA GotoStep ==
    ASSUME NEW t \in Threads, NEW step \in Steps,
           pc \in [Threads -> Steps], Goto(t, step)
    PROVE  pc' \in [Threads -> Steps]
  BY DEF Goto

(* What every step keeps of a breaker's type.                               *)
LEMMA BreakerTyped ==
    ASSUME TypeOK, OnSuccess \/ OnFailure \/ HalfOpen \/ UNCHANGED breaker
    PROVE  /\ state' \in {"CLOSED", "OPEN", "HALF_OPEN"}
           /\ failures' \in Nat
           /\ elapsed' \in BOOLEAN
<1> USE DEF TypeOK
<1>1. CASE OnSuccess
  BY <1>1 DEF OnSuccess
<1>2. CASE OnFailure
  <2>1. failures' \in Nat
    BY <1>2 DEF OnFailure, Counted
  <2> QED
    BY <1>2, <2>1 DEF OnFailure
<1>3. CASE HalfOpen
  BY <1>3 DEF HalfOpen
<1>4. CASE UNCHANGED breaker
  BY <1>4 DEF breaker
<1> QED
  BY <1>1, <1>2, <1>3, <1>4

(* The four ways in which a step leaves the breaker's fields.               *)
LEMMA BreakerSteps ==
    ASSUME [Next]_vars
    PROVE  \/ OnSuccess \/ OnFailure \/ HalfOpen
           \/ UNCHANGED breaker \/ (Elapse /\ UNCHANGED <<pc, entry, attempt>>)
  BY DEF Next, vars, breaker, Elapse, Request, Advance, ReadState, ReadClock, Lock,
         Admit, Refuse, Call, Succeed, Fail, Retry, GiveUp

(* Type correctness of the breaker and of the threads' control state.       *)
THEOREM BreakerTypeCorrect == Spec => []TypeOK
<1>1. Init => TypeOK
  BY BreakerAssumption DEF Init, TypeOK, Steps
<1>2. TypeOK /\ [Next]_vars => TypeOK'
  <2> SUFFICES ASSUME TypeOK, [Next]_vars PROVE TypeOK'
    OBVIOUS
  <2> USE DEF TypeOK
  <2>1. CASE UNCHANGED vars
    BY <2>1 DEF vars
  <2>2. CASE Elapse
    BY <2>2 DEF Elapse
  <2>3. ASSUME NEW t \in Threads, Request(t) PROVE TypeOK'
    <3>1. pc' \in [Threads -> Steps]
      BY <2>3, GotoStep DEF Request, Steps
    <3>2. entry' \in [Threads -> EntryPoints] /\ attempt' \in [Threads -> 0 .. MaxRetries]
      BY <2>3, BreakerAssumption DEF Request
    <3> QED
      BY <2>3, <3>1, <3>2 DEF Request, breaker
  <2>4. ASSUME NEW t \in Threads, Advance(t) PROVE TypeOK'
    <3>1. pc' \in [Threads -> Steps]
      BY <2>4 DEF Advance, ReadState, ReadClock, Lock, Admit, Refuse, Call, Succeed,
                  Fail, Retry, GiveUp, Goto, Steps
    <3>2. entry' = entry
      BY <2>4 DEF Advance, ReadState, ReadClock, Lock, Admit, Refuse, Call, Succeed,
                  Fail, Retry, GiveUp
    <3>3. attempt' \in [Threads -> 0 .. MaxRetries]
      BY <2>4, BreakerAssumption
         DEF Advance, ReadState, ReadClock, Lock, Admit, Refuse, Call, Succeed,
             Fail, Retry, GiveUp
    <3>4. OnSuccess \/ OnFailure \/ HalfOpen \/ UNCHANGED breaker
      BY <2>4 DEF Advance, ReadState, ReadClock, Lock, Admit, Refuse, Call, Succeed,
                  Fail, Retry, GiveUp
    <3> QED
      BY <3>1, <3>2, <3>3, <3>4, BreakerTyped
  <2> QED
    BY <2>1, <2>2, <2>3, <2>4 DEF Next
<1> QED
  BY <1>1, <1>2, PTL DEF Spec

(* The breaker is closed exactly while fewer than Threshold failures in a   *)
(* row are counted: the four updates keep it, one by one.                   *)
THEOREM CountAlwaysDecidesState == Spec => []CountDecidesState
<1>1. Init => CountDecidesState
  BY BreakerAssumption DEF Init, CountDecidesState
<1>2. TypeOK /\ CountDecidesState /\ [Next]_vars => CountDecidesState'
  <2> SUFFICES ASSUME TypeOK, CountDecidesState, [Next]_vars PROVE CountDecidesState'
    OBVIOUS
  <2> USE DEF TypeOK, CountDecidesState
  <2>1. CASE OnSuccess
    BY <2>1, BreakerAssumption DEF OnSuccess
  <2>2. CASE OnFailure
    <3>1. failures' \in Nat /\ (failures >= Threshold => failures' >= Threshold)
      BY <2>2, BreakerAssumption DEF OnFailure, Counted
    <3> QED
      BY <2>2, <3>1, BreakerAssumption DEF OnFailure
  <2>3. CASE HalfOpen
    BY <2>3 DEF HalfOpen
  <2>4. CASE UNCHANGED breaker
    BY <2>4 DEF breaker
  <2>5. CASE Elapse
    BY <2>5 DEF Elapse
  <2> QED
    BY <2>1, <2>2, <2>3, <2>4, <2>5, BreakerSteps
<1> QED
  BY <1>1, <1>2, BreakerTypeCorrect, PTL DEF Spec

(* A failed call never leaves the breaker half open, although _on_failure   *)
(* does not look at the state it finds: the count is still at the threshold.*)
THEOREM FailureAlwaysReopens == Spec => FailureReopens
<1>1. TypeOK /\ CountDecidesState /\ [Next]_vars =>
        [\A t \in Threads :
           state = "HALF_OPEN" /\ pc[t] = "failed" /\ pc'[t] # "failed"
             => state' = "OPEN"]_vars
  <2> SUFFICES ASSUME TypeOK, CountDecidesState, Next, NEW t \in Threads,
                      state = "HALF_OPEN", pc[t] = "failed", pc'[t] # "failed"
               PROVE  state' = "OPEN"
    BY DEF vars
  <2>1. PICK u \in Threads : Request(u) \/ Advance(u)
    BY DEF Next, Elapse
  <2>2. u = t
    <3> SUFFICES ASSUME u # t PROVE FALSE
      OBVIOUS
    <3>1. \E step : pc' = [pc EXCEPT ![u] = step]
      BY <2>1 DEF Request, Advance, ReadState, ReadClock, Lock, Admit, Refuse, Call,
                  Succeed, Fail, Retry, GiveUp, Goto
    <3> QED
      BY <3>1 DEF TypeOK
  <2>3. Fail(t)
    BY <2>1, <2>2 DEF Request, Advance, ReadState, ReadClock, Lock, Admit, Refuse, Call,
                      Succeed, Retry, GiveUp
  <2>4. failures' >= Threshold
    BY <2>3, BreakerAssumption DEF Fail, OnFailure, Counted, TypeOK, CountDecidesState
  <2> QED
    BY <2>3, <2>4 DEF Fail, OnFailure
<1> QED
  BY <1>1, BreakerTypeCorrect, CountAlwaysDecidesState, PTL DEF Spec, FailureReopens
=============================================================================
