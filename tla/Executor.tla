------------------------------ MODULE Executor ------------------------------
(***************************************************************************)
(* The REST API's executor: RunHandlerInThread runs a handler of the owner *)
(* or the foreign API in a thread of its own, and the future that gotham   *)
(* polls on its event-loop threads joins that thread when the handler is   *)
(* done.  The two meet in an AtomicBool `running`, written and read with   *)
(* Ordering::Relaxed, and in a mutex around the task to be notified.       *)
(*                                                                         *)
(* A relaxed store is visible to the event loop at once or later, at the   *)
(* latest when the worker notifies the task or unlocks the mutex, which    *)
(* release everything written before.                                      *)
(***************************************************************************)
EXTENDS Naturals, FiniteSets

CONSTANTS
    Requests,      \* REST requests
    LoopThreads,   \* gotham's event-loop threads
    MayPanic       \* TRUE: a handler may panic

ASSUME LoopThreadsAssumption == LoopThreads \in Nat \ {0}
ASSUME MayPanicAssumption == MayPanic \in BOOLEAN

VARIABLES
    worker,    \* worker[r]: where the thread of request r is
    body,      \* body[r]: the body has been read from the connection
    running,   \* running[r]: the flag as the event loop sees it
    buffered,  \* buffered[r]: running := false is written and not visible
    task,      \* task[r]: RunningTask::task is Some, and task_set
    wake,      \* wake[r]: the connection's task is in the run queue
    fut        \* fut[r]: where poll is

vars == <<worker, body, running, buffered, task, wake, fut>>

Polling == {"SetTask", "Load", "Join"}

(* After the handler returned. *)
Finishing == {"Lock", "Notify", "Unlock", "Done"}

TypeOK ==
    /\ worker \in [Requests -> {"None", "Body", "Handle", "Store", "Panicked"} \cup Finishing]
    /\ body \in [Requests -> BOOLEAN]
    /\ running \in [Requests -> BOOLEAN]
    /\ buffered \in [Requests -> BOOLEAN]
    /\ task \in [Requests -> BOOLEAN]
    /\ wake \in [Requests -> BOOLEAN]
    /\ fut \in [Requests -> {"None", "Parked", "Ready", "Dropped"} \cup Polling]

Init ==
    /\ worker = [r \in Requests |-> "None"]
    /\ body = [r \in Requests |-> FALSE]
    /\ running = [r \in Requests |-> TRUE]
    /\ buffered = [r \in Requests |-> FALSE]
    /\ task = [r \in Requests |-> FALSE]
    /\ wake = [r \in Requests |-> FALSE]
    /\ fut = [r \in Requests |-> "None"]

(* An event-loop thread is free; one that waits in join is not. *)
LoopFree == Cardinality({r \in Requests : fut[r] \in Polling}) < LoopThreads

(* The worker holds the mutex around the task. *)
TaskLocked(r) == worker[r] \in {"Notify", "Unlock"}

(* Everything the worker wrote becomes visible. *)
Release(r) ==
    /\ running' = [running EXCEPT ![r] = @ /\ ~buffered[r]]
    /\ buffered' = [buffered EXCEPT ![r] = FALSE]

WorkerAt(r, from, to) ==
    /\ worker[r] = from
    /\ worker' = [worker EXCEPT ![r] = to]

-----------------------------------------------------------------------------
(* The worker thread. *)

(* RunHandlerInThread::new; gotham polls the future it gets. *)
New(r) ==
    /\ fut[r] = "None"
    /\ LoopFree
    /\ fut' = [fut EXCEPT ![r] = "Parked"]
    /\ wake' = [wake EXCEPT ![r] = TRUE]
    /\ WorkerAt(r, "None", "Body")
    /\ UNCHANGED <<body, running, buffered, task>>

(* Mutant: the flag is cleared before the handler runs. *)
WorkerBodyEarlyStore(r) ==
    /\ body[r]
    /\ WorkerAt(r, "Body", "Handle")
    /\ buffered' = [buffered EXCEPT ![r] = TRUE]
    /\ UNCHANGED <<body, running, task, wake, fut>>

(* concat2().wait() returns the body, or the error of a broken connection. *)
WorkerBody(r) ==
    /\ body[r]
    /\ \/ WorkerAt(r, "Body", "Handle")
       \/ WorkerAt(r, "Body", "Store")
    /\ UNCHANGED <<body, running, buffered, task, wake, fut>>

(* handler(&state, &body), with Ok or Err. *)
WorkerHandle(r) ==
    /\ WorkerAt(r, "Handle", "Store")
    /\ UNCHANGED <<body, running, buffered, task, wake, fut>>

(* An unwrap or an index in a handler panics: the thread unwinds. *)
WorkerPanics(r) ==
    /\ MayPanic
    /\ WorkerAt(r, "Handle", "Panicked")
    /\ UNCHANGED <<body, running, buffered, task, wake, fut>>

(* thr_running.store(false, Ordering::Relaxed) *)
WorkerStore(r) ==
    /\ WorkerAt(r, "Store", "Lock")
    /\ buffered' = [buffered EXCEPT ![r] = TRUE]
    /\ UNCHANGED <<body, running, task, wake, fut>>

(* The store becomes visible on its own. *)
Flush(r) ==
    /\ buffered[r]
    /\ Release(r)
    /\ UNCHANGED <<worker, body, task, wake, fut>>

WorkerLock(r) ==
    /\ WorkerAt(r, "Lock", "Notify")
    /\ UNCHANGED <<body, running, buffered, task, wake, fut>>

(* Mutant: the task is left alone. *)
WorkerNotifyForgets(r) ==
    /\ WorkerAt(r, "Notify", "Unlock")
    /\ UNCHANGED <<body, running, buffered, task, wake, fut>>

(* if let Some(ref task) = rt.task { task.notify() } *)
WorkerNotify(r) ==
    /\ WorkerAt(r, "Notify", "Unlock")
    /\ IF task[r]
       THEN wake' = [wake EXCEPT ![r] = TRUE] /\ Release(r)
       ELSE UNCHANGED <<wake, running, buffered>>
    /\ UNCHANGED <<body, task, fut>>

(* The guard is dropped and the thread ends. *)
WorkerUnlock(r) ==
    /\ WorkerAt(r, "Unlock", "Done")
    /\ Release(r)
    /\ UNCHANGED <<body, task, wake, fut>>

-----------------------------------------------------------------------------
(* The event loop. *)

(* The connection's task reads the body, and then polls the future. *)
ReadBody(r) ==
    /\ fut[r] = "Parked"
    /\ LoopFree
    /\ ~body[r]
    /\ body' = [body EXCEPT ![r] = TRUE]
    /\ wake' = [wake EXCEPT ![r] = TRUE]
    /\ UNCHANGED <<worker, running, buffered, task, fut>>

(* poll is called: the task is set at the first call only. *)
StartPoll(r) ==
    /\ fut[r] = "Parked"
    /\ LoopFree
    /\ fut' = [fut EXCEPT ![r] = IF task[r] THEN "Load" ELSE "SetTask"]
    /\ wake' = [wake EXCEPT ![r] = FALSE]
    /\ UNCHANGED <<worker, body, running, buffered, task>>

(* The task was notified ... *)
PollWoken(r) == wake[r] /\ StartPoll(r)

(* ... or something else on the connection woke it. *)
PollSpurious(r) == ~wake[r] /\ StartPoll(r)

(* self.task.lock().unwrap().task = Some(futures::task::current()) *)
SetTask(r) ==
    /\ fut[r] = "SetTask"
    /\ ~TaskLocked(r)
    /\ task' = [task EXCEPT ![r] = TRUE]
    /\ fut' = [fut EXCEPT ![r] = "Load"]
    /\ UNCHANGED <<worker, body, running, buffered, wake>>

(* running.load(Ordering::Relaxed) *)
Load(r) ==
    /\ fut[r] = "Load"
    /\ fut' = [fut EXCEPT ![r] = IF running[r] THEN "Parked" ELSE "Join"]
    /\ UNCHANGED <<worker, body, running, buffered, task, wake>>

(* thr_info.join() blocks the event-loop thread until the worker ended; the
   response is the handler's, or 400 with its error. *)
Join(r) ==
    /\ fut[r] = "Join"
    /\ worker[r] = "Done"
    /\ fut' = [fut EXCEPT ![r] = "Ready"]
    /\ UNCHANGED <<worker, body, running, buffered, task, wake>>

(* The client closes the connection and hyper drops the future: the worker
   goes on alone, its body ended. *)
Disconnect(r) ==
    /\ fut[r] = "Parked"
    /\ LoopFree
    /\ fut' = [fut EXCEPT ![r] = "Dropped"]
    /\ body' = [body EXCEPT ![r] = TRUE]
    /\ UNCHANGED <<worker, running, buffered, task, wake>>

(* What the worker does once its handler has returned. *)
WorkerEnds(r) == WorkerStore(r) \/ WorkerLock(r) \/ WorkerNotify(r) \/ WorkerUnlock(r)

WorkerStep(r) == WorkerBody(r) \/ WorkerHandle(r) \/ WorkerPanics(r) \/ WorkerEnds(r)

PollStep(r) == SetTask(r) \/ Load(r) \/ Join(r)

RequestStep(r) ==
    \/ New(r) \/ WorkerStep(r) \/ Flush(r) \/ ReadBody(r)
    \/ PollWoken(r) \/ PollSpurious(r) \/ PollStep(r) \/ Disconnect(r)

(* All requests are answered, dropped or gone with their thread. *)
Finished ==
    /\ \A r \in Requests : fut[r] \in {"Ready", "Dropped"}
    /\ \A r \in Requests : worker[r] \in {"Done", "Panicked"}
    /\ UNCHANGED vars

Next == (\E r \in Requests : RequestStep(r)) \/ Finished

Spec == Init /\ [][Next]_vars

(* Threads run, a poll that was begun ends, and a task that stays in the run
   queue gets its turn although the event loop is busy now and then.  Nothing
   is assumed of the handlers: retrieve_txs with refresh (owner.rs:103) waits
   for a mutex its own thread holds (api.rs:298) and never returns. *)
Fairness ==
    \A r \in Requests :
        /\ WF_vars(WorkerEnds(r))
        /\ WF_vars(PollStep(r))
        /\ SF_vars(PollWoken(r))

FairSpec == Spec /\ Fairness

-----------------------------------------------------------------------------
(* The inductive invariant. *)

(* A future that was never polled is in the run queue. *)
FirstPollQueued == \A r \in Requests : ~task[r] /\ fut[r] = "Parked" => wake[r]

(* The flag is read only after the task was set. *)
LoadAfterSet == \A r \in Requests : fut[r] = "Load" => task[r]

(* The store comes after the handler. *)
StoreAfterHandler ==
    \A r \in Requests :
        /\ ~running[r] => worker[r] \in Finishing
        /\ buffered[r] => worker[r] \in Finishing \ {"Done"}
        /\ worker[r] \in Finishing => ~running[r] \/ buffered[r]

(* A worker that found the task set has published its store and woken it. *)
NotifiedOrUnset ==
    \A r \in Requests :
        worker[r] \in {"Unlock", "Done"} /\ task[r] =>
            /\ ~running[r]
            /\ fut[r] = "Parked" => wake[r]

JoinAfterLoad == \A r \in Requests : fut[r] = "Join" => ~running[r]

-----------------------------------------------------------------------------
(* Properties. *)

(* A request whose worker thread has ended is never left parked: with the
   task set before the flag is loaded, and the flag stored before the task is
   looked up, either the worker finds the task or poll finds the flag
   (executor.rs:49-55 against executor.rs:71-79), relaxed ordering
   notwithstanding. *)
NoLostWakeup ==
    \A r \in Requests :
        worker[r] = "Done" /\ fut[r] = "Parked" => wake[r]

(* The event-loop thread that calls join (executor.rs:92) does not wait for a
   handler, only for the last instructions of a worker. *)
JoinNeverBlocks == \A r \in Requests : fut[r] = "Join" => worker[r] \in Finishing

(* The strengthening of the two that every step preserves. *)
ExecInv ==
    /\ TypeOK
    /\ FirstPollQueued
    /\ LoadAfterSet
    /\ StoreAfterHandler
    /\ NotifiedOrUnset
    /\ JoinAfterLoad

(* "API was failed. Normally it return some error string. We want to print
   that that line at the API." (executor.rs:96-97): a request whose handler
   returned, with a result or an error, is answered unless the client left,
   although the handlers of other requests hang or panic on the same event
   loop.  A request whose own handler panics (foreign.rs:20) or never returns
   is never answered. *)
Answered ==
    \A r \in Requests :
        worker[r] \in {"Store"} \cup Finishing ~> fut[r] \in {"Ready", "Dropped"}
=============================================================================
