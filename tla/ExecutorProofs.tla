--------------------------- MODULE ExecutorProofs ---------------------------
(* Proofs about Executor for any set of requests, any number of event-loop   *)
(* threads, and handlers that may or may not panic.                          *)
EXTENDS Executor, TLAPS

(* No request has been made: nothing runs and nothing is parked. *)
LEMMA InitExecInv == Init => ExecInv
BY DEF Init, ExecInv, TypeOK, FirstPollQueued, LoadAfterSet, StoreAfterHandler,
       NotifiedOrUnset, JoinAfterLoad, Finishing, Polling

(* The steps of the worker thread keep the inductive invariant. *)
LEMMA WorkerStepExecInv ==
  ASSUME NEW r \in Requests, ExecInv, WorkerStep(r) \/ Flush(r)
  PROVE  ExecInv'
<1> USE DEF ExecInv, TypeOK, FirstPollQueued, LoadAfterSet, StoreAfterHandler,
            NotifiedOrUnset, JoinAfterLoad, Finishing, Polling, WorkerAt
<1>1. CASE WorkerBody(r)
  BY <1>1 DEF WorkerBody
<1>2. CASE WorkerHandle(r)
  BY <1>2 DEF WorkerHandle
<1>3. CASE WorkerPanics(r)
  BY <1>3 DEF WorkerPanics
<1>4. CASE WorkerStore(r)
  BY <1>4 DEF WorkerStore
<1>5. CASE WorkerLock(r)
  BY <1>5 DEF WorkerLock
<1>6. CASE WorkerNotify(r)
  <2>1. CASE task[r]
    <3>1. /\ wake' = [wake EXCEPT ![r] = TRUE]
          /\ running' = [running EXCEPT ![r] = FALSE]
          /\ buffered' = [buffered EXCEPT ![r] = FALSE]
          /\ worker' = [worker EXCEPT ![r] = "Unlock"]
          /\ worker[r] = "Notify"
          /\ UNCHANGED <<body, task, fut>>
      BY <1>6, <2>1 DEF WorkerNotify, Release
    <3>2. QED
      BY <2>1, <3>1
  <2>2. CASE ~task[r]
    <3>1. /\ worker' = [worker EXCEPT ![r] = "Unlock"]
          /\ worker[r] = "Notify"
          /\ UNCHANGED <<body, running, buffered, wake, task, fut>>
      BY <1>6, <2>2 DEF WorkerNotify
    <3>2. QED
      BY <2>2, <3>1
  <2>3. QED
    BY <2>1, <2>2
<1>7. CASE WorkerUnlock(r)
  BY <1>7 DEF WorkerUnlock, Release
<1>8. CASE Flush(r)
  BY <1>8 DEF Flush, Release
<1>9. QED
  BY <1>1, <1>2, <1>3, <1>4, <1>5, <1>6, <1>7, <1>8
     DEF WorkerStep, WorkerEnds

(* The steps of the event loop keep it: poll cannot set the task while the
   worker looks it up, and loads the flag afterwards. *)
LEMMA LoopStepExecInv ==
  ASSUME NEW r \in Requests, ExecInv,
         \/ New(r) \/ ReadBody(r) \/ PollWoken(r) \/ PollSpurious(r)
         \/ PollStep(r) \/ Disconnect(r)
  PROVE  ExecInv'
<1> USE DEF ExecInv, TypeOK, FirstPollQueued, LoadAfterSet, StoreAfterHandler,
            NotifiedOrUnset, JoinAfterLoad, Finishing, Polling
<1>1. CASE New(r)
  BY <1>1 DEF New, WorkerAt
<1>2. CASE ReadBody(r)
  BY <1>2 DEF ReadBody
<1>3. CASE StartPoll(r)
  BY <1>3 DEF StartPoll
<1>4. CASE SetTask(r)
  BY <1>4 DEF SetTask, TaskLocked
<1>5. CASE Load(r)
  BY <1>5 DEF Load
<1>6. CASE Join(r)
  BY <1>6 DEF Join
<1>7. CASE Disconnect(r)
  BY <1>7 DEF Disconnect
<1>8. QED
  BY <1>1, <1>2, <1>3, <1>4, <1>5, <1>6, <1>7
     DEF PollStep, PollWoken, PollSpurious

(* Every step preserves the inductive invariant. *)
LEMMA NextExecInv == ExecInv /\ [Next]_vars => ExecInv'
<1> SUFFICES ASSUME ExecInv, [Next]_vars PROVE ExecInv'
  OBVIOUS
<1>1. CASE \E r \in Requests : RequestStep(r)
  <2>1. PICK r \in Requests : RequestStep(r)
    BY <1>1
  <2>2. QED
    BY <2>1, WorkerStepExecInv, LoopStepExecInv DEF RequestStep
<1>2. CASE Finished \/ UNCHANGED vars
  BY <1>2 DEF Finished, vars, ExecInv, TypeOK, FirstPollQueued, LoadAfterSet,
              StoreAfterHandler, NotifiedOrUnset, JoinAfterLoad
<1>3. QED
  BY <1>1, <1>2 DEF Next

(* The inductive invariant holds in every behaviour of the executor. *)
THEOREM ExecutorInvariant == Spec => []ExecInv
<1>1. QED
  BY InitExecInv, NextExecInv, PTL DEF Spec

(* No wake-up is lost: a request whose worker ended is polled again, for any
   number of requests and event-loop threads (executor.rs:49-55, 71-79). *)
THEOREM NoRequestForgotten == Spec => []NoLostWakeup
<1>1. ExecInv => NoLostWakeup
  BY DEF ExecInv, TypeOK, NoLostWakeup, FirstPollQueued, NotifiedOrUnset
<1>2. QED
  BY <1>1, ExecutorInvariant, PTL

(* join is called only once the handler has returned (executor.rs:92). *)
THEOREM EventLoopNotBlocked == Spec => []JoinNeverBlocks
<1>1. ExecInv => JoinNeverBlocks
  BY DEF ExecInv, TypeOK, JoinNeverBlocks, JoinAfterLoad, StoreAfterHandler
<1>2. QED
  BY <1>1, ExecutorInvariant, PTL
=============================================================================
