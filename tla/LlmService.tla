----------------------------- MODULE LlmService -----------------------------
(***************************************************************************)
(* The LLM client of agentflow/services/llm_service.py: one circuit        *)
(* breaker, shared by every request of a workflow node, and the retry      *)
(* loops around it.                                                        *)
(*                                                                         *)
(* Requests run in worker threads.  The breaker's lock covers each update  *)
(* of its fields, so an update is one step; the property that decides      *)
(* whether a call may go out reads the fields without the lock, so each of *)
(* its reads is a step of its own.  Time is one bit: whether the recovery  *)
(* timeout has passed since the last recorded failure.  A call may last    *)
(* longer than that (60 s against 30 s).                                   *)
(***************************************************************************)
EXTENDS Integers

CONSTANTS
    Threads,        \* worker threads
    EntryPoints,    \* which functions of LLMService the threads call
    Threshold,      \* _CB_FAILURE_THRESHOLD
    MaxRetries,     \* _MAX_RETRIES
    FailureBound    \* where the model stops counting consecutive failures

ASSUME BreakerAssumption ==
    /\ EntryPoints \subseteq {"complete", "complete_with_tools", "complete_stream"}
    /\ Threshold \in Nat \ {0} /\ MaxRetries \in Nat
    /\ FailureBound \in Nat /\ FailureBound >= Threshold

VARIABLES
    state,      \* _state of the breaker
    failures,   \* _failure_count
    elapsed,    \* the recovery timeout passed since _last_failure_time
    pc,         \* where each thread is
    entry,      \* the function its request entered by
    attempt     \* the attempt of its retry loop

vars == <<state, failures, elapsed, pc, entry, attempt>>
breaker == <<state, failures, elapsed>>

Steps == {"idle", "reading", "timing", "locking", "admission", "calling",
          "succeeded", "failed", "raised"}

-----------------------------------------------------------------------------
(* The breaker's updates, each under its lock.                              *)

Counted(n) == IF n < FailureBound THEN n + 1 ELSE n

(* Mutant: closing keeps the count.                                         *)
OnSuccessKeepingCount ==
    /\ state' = "CLOSED"
    /\ UNCHANGED <<failures, elapsed>>
OnSuccess ==
    /\ state' = "CLOSED"
    /\ failures' = 0
    /\ UNCHANGED elapsed

OnFailure ==
    /\ failures' = Counted(failures)
    /\ elapsed' = FALSE
    /\ state' = IF failures' >= Threshold THEN "OPEN" ELSE state

(* Mutant: going to HALF_OPEN forgets the failures.                         *)
HalfOpenForgetting ==
    /\ state' = IF state = "OPEN" THEN "HALF_OPEN" ELSE state
    /\ failures' = IF state = "OPEN" THEN 0 ELSE failures
    /\ UNCHANGED elapsed
(* The state is looked at again under the lock, the time is not.            *)
HalfOpen ==
    /\ state' = IF state = "OPEN" THEN "HALF_OPEN" ELSE state
    /\ UNCHANGED <<failures, elapsed>>

-----------------------------------------------------------------------------
Init ==
    /\ state = "CLOSED" /\ failures = 0 /\ elapsed = TRUE
    /\ pc = [t \in Threads |-> "idle"]
    /\ entry \in [Threads -> EntryPoints]
    /\ attempt = [t \in Threads |-> 0]

Goto(t, step) == pc' = [pc EXCEPT ![t] = step]

(* A request enters the service.                                            *)
Request(t) ==
    /\ pc[t] = "idle"
    /\ \E e \in EntryPoints : entry' = [entry EXCEPT ![t] = e]
    /\ attempt' = [attempt EXCEPT ![t] = 0]
    /\ Goto(t, "reading")
    /\ UNCHANGED breaker

(* The state property: _state, the clock, the lock, and _state once more.   *)
ReadState(t) ==
    /\ pc[t] = "reading"
    /\ Goto(t, IF state = "OPEN" THEN "timing" ELSE "admission")
    /\ UNCHANGED <<breaker, entry, attempt>>

ReadClock(t) ==
    /\ pc[t] = "timing"
    /\ Goto(t, IF elapsed THEN "locking" ELSE "admission")
    /\ UNCHANGED <<breaker, entry, attempt>>

Lock(t) ==
    /\ pc[t] = "locking"
    /\ HalfOpen
    /\ Goto(t, "admission")
    /\ UNCHANGED <<entry, attempt>>

(* call() refuses before its try block: a refusal is not a failure.         *)
Admit(t) ==
    /\ pc[t] = "admission" /\ state # "OPEN"
    /\ Goto(t, "calling")
    /\ UNCHANGED <<breaker, entry, attempt>>

(* Mutant: the refusal is raised inside the try block.                      *)
RefuseAsFailure(t) ==
    /\ pc[t] = "admission" /\ state = "OPEN"
    /\ Goto(t, "failed")
    /\ UNCHANGED <<breaker, entry, attempt>>
Refuse(t) ==
    /\ pc[t] = "admission" /\ state = "OPEN"
    /\ Goto(t, "raised")
    /\ UNCHANGED <<breaker, entry, attempt>>

(* The provider answers, or the call fails or times out.                    *)
Call(t) ==
    /\ pc[t] = "calling"
    /\ \E outcome \in {"succeeded", "failed"} : Goto(t, outcome)
    /\ UNCHANGED <<breaker, entry, attempt>>

(* complete_with_tools reads the response after the breaker counted the     *)
(* success: a malformed one raises into its retry loop.                     *)
Succeed(t) ==
    /\ pc[t] = "succeeded"
    /\ OnSuccess
    /\ \/ Goto(t, "idle")
       \/ entry[t] = "complete_with_tools" /\ Goto(t, "raised")
    /\ UNCHANGED <<entry, attempt>>

Fail(t) ==
    /\ pc[t] = "failed"
    /\ OnFailure
    /\ Goto(t, "raised")
    /\ UNCHANGED <<entry, attempt>>

(* Mutant: one attempt too many.                                            *)
RetryOnceMore(t) ==
    /\ pc[t] = "raised"
    /\ entry[t] # "complete_stream" /\ attempt[t] <= MaxRetries
    /\ attempt' = [attempt EXCEPT ![t] = @ + 1]
    /\ Goto(t, "reading")
    /\ UNCHANGED <<breaker, entry>>
(* The retry loops catch a refusal like any other exception; a stream is    *)
(* not retried.                                                             *)
Retry(t) ==
    /\ pc[t] = "raised"
    /\ entry[t] # "complete_stream" /\ attempt[t] < MaxRetries
    /\ attempt' = [attempt EXCEPT ![t] = @ + 1]
    /\ Goto(t, "reading")
    /\ UNCHANGED <<breaker, entry>>

GiveUp(t) ==
    /\ pc[t] = "raised"
    /\ entry[t] = "complete_stream" \/ attempt[t] >= MaxRetries
    /\ Goto(t, "idle")
    /\ UNCHANGED <<breaker, entry, attempt>>

(* Thirty seconds pass.                                                     *)
Elapse ==
    /\ ~elapsed
    /\ elapsed' = TRUE
    /\ UNCHANGED <<state, failures, pc, entry, attempt>>

Advance(t) ==
    \/ ReadState(t) \/ ReadClock(t) \/ Lock(t) \/ Admit(t) \/ Refuse(t)
    \/ Call(t) \/ Succeed(t) \/ Fail(t) \/ Retry(t) \/ GiveUp(t)

Next == Elapse \/ \E t \in Threads : Request(t) \/ Advance(t)

Spec == Init /\ [][Next]_vars

(* Time passes, and a request that was begun goes on: the client's own      *)
(* timeout ends a call that is not answered.                                *)
FairSpec == Spec /\ WF_vars(Elapse) /\ \A t \in Threads : WF_vars(Advance(t))

-----------------------------------------------------------------------------
(* Every variable has its type.                                             *)
TypeOK ==
    /\ state \in {"CLOSED", "OPEN", "HALF_OPEN"}
    /\ failures \in Nat
    /\ elapsed \in BOOLEAN
    /\ pc \in [Threads -> Steps]
    /\ entry \in [Threads -> EntryPoints]
    /\ attempt \in [Threads -> 0 .. MaxRetries]

(* The count and the state agree, whatever calls were in flight when the    *)
(* breaker changed: it is closed exactly while fewer than Threshold         *)
(* failures in a row are counted.  _on_failure has no case for HALF_OPEN    *)
(* and relies on this.                                                      *)
CountDecidesState == state = "CLOSED" <=> failures < Threshold

(* A failed call never leaves the breaker half open: HALF_OPEN -> failure   *)
(* -> OPEN, whichever thread's call it was.                                 *)
FailureReopens ==
    [][\A t \in Threads :
         state = "HALF_OPEN" /\ pc[t] = "failed" /\ pc'[t] # "failed" => state' = "OPEN"]_vars

(* The breaker recovers: it does not stay open for ever while requests keep *)
(* coming, however often they are refused and retried.                      *)
RecoversUnderLoad ==
    []<>(\E t \in Threads : pc[t] # "idle") => []<>(state # "OPEN")

-----------------------------------------------------------------------------
(* The class's docstring, llm_service.py:42-47, draws the transitions: OPEN *)
(* is left when the timeout elapsed, and to HALF_OPEN only.                 *)
FollowsDiagram ==
    [][/\ state = "OPEN" => state' = "OPEN" \/ (state' = "HALF_OPEN" /\ elapsed)
       /\ state = "CLOSED" => state' \in {"CLOSED", "OPEN"}]_vars
=============================================================================
