----------------------------- MODULE RunManager -----------------------------
(***************************************************************************)
(* RunManager (runtime/queue.py) over FiveAgentDepartmentRuntime and the     *)
(* durable job table of SQLiteJobRepository (runtime/job_store.py):          *)
(* bounded admission, worker threads, three-part cancellation, status        *)
(* synchronisation, shutdown, and restart recovery.                          *)
(*                                                                         *)
(* A step is a critical section of RunManager._lock, a call of the runtime,  *)
(* or a store transaction.  Every save may fail with JobStoreError.  A       *)
(* crash may happen between any two steps; it loses everything but the job   *)
(* table.  An admission runs under _enqueue_lock and is one step: workers    *)
(* can only shorten the queue meanwhile and nobody else knows the new item.  *)
(***************************************************************************)
EXTENDS DepartmentRuntime, FiniteSets

CONSTANTS
  Workers,     \* worker threads (max_workers)
  Cancellers,  \* threads inside RunManager.cancel_run
  MaxQueue,    \* max_queue_size
  MaxFaults,   \* bound: store transactions that fail
  MaxCrashes,  \* bound: process crashes
  OperatorRuns, \* bound: runs the operator endpoints act on directly
  NoRun        \* no run id

ASSUME ManagerAssumption ==
  /\ MaxQueue \in Nat /\ MaxFaults \in Nat /\ MaxCrashes \in Nat
  /\ OperatorRuns \subseteq Runs /\ NoRun \notin Runs

VARIABLES
  items,       \* _items: run id -> QueueItem (status NONE when absent)
  queue,       \* _queue
  stop,        \* _stop_event, set together with ~_accepting_runs
  worker,      \* thread -> where it is and the run it holds
  canceller,   \* thread -> where it is in cancel_run, its run, previous_status
  db,          \* durable jobs table
  up,          \* the process runs and RunManager.__init__ has finished
  faults,      \* store failures so far
  crashes,     \* crashes so far
  dispatched,  \* history: start_run successes per run id, over all processes
  ackCancelled \* history: queued runs whose cancellation was reported done

mgrVars == <<items, queue, stop, worker, canceller, db, up, faults, crashes,
             dispatched, ackCancelled>>
vars    == <<rtVars, mgrVars>>

ActiveStatuses == {"QUEUED", "STARTING", "RUNNING", "WAITING_TOOL",
                   "WAITING_APPROVAL", "PAUSED"}
ClosedStatuses == {"COMPLETED", "FAILED", "CANCELLED"}
ItemStatuses   == ActiveStatuses \union ClosedStatuses
                    \union {"NONE", "RECOVERY_REQUIRED"}

\* QueueItem and DurableJobRecord, reduced to what the lifecycle reads:
\* status, started_at and completed_at present or not.
Job    == [status : ItemStatuses, started : BOOLEAN, ended : BOOLEAN]
NoJob  == [status |-> "NONE", started |-> FALSE, ended |-> FALSE]
NewJob == [status |-> "QUEUED", started |-> FALSE, ended |-> FALSE]

Exists(job) == job.status # "NONE"

\* item with a terminal status and completed_at set.
Closed(job, s) == [job EXCEPT !.status = s, !.ended = TRUE]
\* item with a non-terminal status and completed_at cleared.
Open(job, s)   == [job EXCEPT !.status = s, !.ended = FALSE]

\* Where a worker thread and a thread inside cancel_run can be.
WorkerStates == [pc : {"poll", "got", "start", "exec", "persist", "final",
                       "failed", "exit"}, run : Runs \union {NoRun}]
CancelStates == [pc : {"idle", "signal", "rollback", "confirm"},
                 run : Runs \union {NoRun}, prev : ItemStatuses]

IdleWorker == [pc |-> "poll", run |-> NoRun]
IdleCancel == [pc |-> "idle", run |-> NoRun, prev |-> "NONE"]

HeldBy(r)     == {w \in Workers : worker[w].run = r}
CancelsOf(r)  == {c \in Cancellers : canceller[c].run = r}

Init ==
  /\ RuntimeInit
  /\ items        = [r \in Runs |-> NoJob]
  /\ queue        = <<>>
  /\ stop         = FALSE
  /\ worker       = [w \in Workers |-> IdleWorker]
  /\ canceller    = [c \in Cancellers |-> IdleCancel]
  /\ db           = [r \in Runs |-> NoJob]
  /\ up           = TRUE
  /\ faults       = 0
  /\ crashes      = 0
  /\ dispatched   = [r \in Runs |-> 0]
  /\ ackCancelled = {}

-----------------------------------------------------------------------------
(* Store transactions.                                                      *)

\* create_job and save_job commit: WAL with synchronous=FULL.
Saved(r, job) == db' = [db EXCEPT ![r] = job] /\ UNCHANGED faults

\* The transaction raises JobStoreError and leaves the table as it was.
SaveFails == faults < MaxFaults /\ faults' = faults + 1 /\ UNCHANGED db

\* item := job in memory and persisted, or item := fallback in memory when the
\* save fails.
PersistItem(r, job, fallback) ==
  \/ items' = [items EXCEPT ![r] = job] /\ Saved(r, job)
  \/ items' = [items EXCEPT ![r] = fallback] /\ SaveFails

-----------------------------------------------------------------------------
(* Admission.                                                               *)

CanAdmit(r) ==
  /\ up /\ ~stop
  /\ ~Exists(items[r]) /\ ~Exists(db[r])
  /\ Len(queue) < MaxQueue

\* A run id that is already reserved (a reservation an earlier failed admission
\* left behind) is used as it is.
ReserveForAdmission(r) ==
  IF r \in reserved THEN UNCHANGED rtVars ELSE ReserveRunId(r)

EnqueueRun(r) ==
  /\ CanAdmit(r)
  /\ ReserveForAdmission(r)
  /\ Saved(r, NewJob)
  /\ items' = [items EXCEPT ![r] = NewJob]
  /\ queue' = Append(queue, r)
  /\ UNCHANGED <<stop, worker, canceller, up, crashes, dispatched, ackCancelled>>

\* create_job fails: the error reaches the caller, the reservation stays.
EnqueueRunFails(r) ==
  /\ CanAdmit(r)
  /\ ReserveForAdmission(r)
  /\ SaveFails
  /\ UNCHANGED <<items, queue, stop, worker, canceller, up, crashes,
                 dispatched, ackCancelled>>

-----------------------------------------------------------------------------
(* _worker_loop.                                                            *)

Goto(w, p) == worker' = [worker EXCEPT ![w].pc = p]
BackToPoll(w) == worker' = [worker EXCEPT ![w] = IdleWorker]

WorkerTake(w) ==
  /\ worker[w].pc = "poll" /\ queue # <<>>
  /\ worker' = [worker EXCEPT ![w] = [pc |-> "got", run |-> Head(queue)]]
  /\ queue'  = Tail(queue)
  /\ UNCHANGED <<rtVars, items, stop, canceller, db, up, faults, crashes,
                 dispatched, ackCancelled>>

\* The loop ends on the stop event; an item taken meanwhile is dropped.
WorkerStop(w) ==
  /\ up /\ stop /\ worker[w].pc \in {"poll", "got"}
  /\ worker' = [worker EXCEPT ![w] = [pc |-> "exit", run |-> NoRun]]
  /\ UNCHANGED <<rtVars, items, queue, stop, canceller, db, up, faults,
                 crashes, dispatched, ackCancelled>>

\* Mutants of WorkerBegin: a failed WORKER_STARTED save is ignored; a run
\* cancelled while queued is started; the save comes first and its failure
\* escapes the loop, so that the thread ends and the item stays queued.
WorkerBeginIgnoresFailure(w) ==
  LET r == worker[w].run
      running == [items[r] EXCEPT !.status = "RUNNING", !.started = TRUE,
                                  !.ended = FALSE]
  IN
  /\ worker[w].pc = "got" /\ ~stop /\ items[r].status # "CANCELLED"
  /\ PersistItem(r, running, running)
  /\ Goto(w, "start")
  /\ UNCHANGED <<rtVars, queue, stop, canceller, up, crashes, dispatched,
                 ackCancelled>>

WorkerBeginAnyStatus(w) ==
  LET r == worker[w].run
      running == [items[r] EXCEPT !.status = "RUNNING", !.started = TRUE,
                                  !.ended = FALSE]
  IN
  /\ worker[w].pc = "got" /\ ~stop
  /\ items' = [items EXCEPT ![r] = running] /\ Saved(r, running)
  /\ Goto(w, "start")
  /\ UNCHANGED <<rtVars, queue, stop, canceller, up, crashes, dispatched,
                 ackCancelled>>

WorkerBeginDiesOnFailure(w) ==
  LET r == worker[w].run
      running == [items[r] EXCEPT !.status = "RUNNING", !.started = TRUE,
                                  !.ended = FALSE]
  IN
  /\ worker[w].pc = "got" /\ ~stop
  /\ \/ items' = [items EXCEPT ![r] = running] /\ Saved(r, running) /\ Goto(w, "start")
     \/ SaveFails /\ Goto(w, "exit") /\ UNCHANGED items
  /\ UNCHANGED <<rtVars, queue, stop, canceller, up, crashes, dispatched,
                 ackCancelled>>

\* A run cancelled while queued is skipped (its completed_at is set already);
\* otherwise WORKER_STARTED is made durable before the runtime is called.
WorkerBegin(w) ==
  LET r == worker[w].run
      running == [items[r] EXCEPT !.status = "RUNNING", !.started = TRUE,
                                  !.ended = FALSE]
  IN
  /\ worker[w].pc = "got" /\ ~stop
  /\ \/ /\ items[r].status = "CANCELLED"
        /\ BackToPoll(w)
        /\ UNCHANGED <<items, db, faults>>
     \/ /\ items[r].status # "CANCELLED"
        /\ items' = [items EXCEPT ![r] = running] /\ Saved(r, running)
        /\ Goto(w, "start")
     \/ /\ items[r].status # "CANCELLED"
        /\ items' = [items EXCEPT ![r] = Closed(running, "FAILED")] /\ SaveFails
        /\ BackToPoll(w)
  /\ UNCHANGED <<rtVars, queue, stop, canceller, up, crashes, dispatched,
                 ackCancelled>>

\* runtime.start_run(reserved_run_id=...) and entry into execute_run.
WorkerStartRun(w) ==
  LET r == worker[w].run IN
  /\ worker[w].pc = "start"
  /\ StartRun(r)
  /\ Goto(w, "exec")
  /\ dispatched' = [dispatched EXCEPT ![r] = @ + 1]
  /\ UNCHANGED <<items, queue, stop, canceller, db, up, faults, crashes,
                 ackCancelled>>

WorkerStartRaises(w) ==
  /\ worker[w].pc = "start"
  /\ StartRunRaises(worker[w].run)
  /\ Goto(w, "failed")
  /\ UNCHANGED <<items, queue, stop, canceller, db, up, faults, crashes,
                 dispatched, ackCancelled>>

\* execute_run returned its context, or raised.
WorkerExecuted(w) ==
  /\ worker[w].pc = "exec" /\ pc[worker[w].run] \in Done
  /\ Goto(w, IF pc[worker[w].run] = "returned" THEN "persist" ELSE "failed")
  /\ UNCHANGED <<rtVars, items, queue, stop, canceller, db, up, faults,
                 crashes, dispatched, ackCancelled>>

\* _persist_runtime_checkpoints: on failure the run needs reconciliation,
\* whether or not that status can be saved.
WorkerCheckpoints(w) ==
  LET r == worker[w].run
      recovery == Open(items[r], "RECOVERY_REQUIRED")
  IN
  /\ worker[w].pc = "persist"
  /\ \/ Goto(w, "final") /\ UNCHANGED <<items, db, faults>>
     \/ /\ faults < MaxFaults
        /\ items' = [items EXCEPT ![r] = recovery]
        /\ \/ db' = [db EXCEPT ![r] = recovery] /\ faults' = faults + 1
           \/ UNCHANGED db /\ faults + 1 < MaxFaults /\ faults' = faults + 2
        /\ BackToPoll(w)
  /\ UNCHANGED <<rtVars, queue, stop, canceller, up, crashes, dispatched,
                 ackCancelled>>

\* The queue status for the context and item a worker ends with.
FinalJob(r) ==
  IF status[r] = "CANCELLED" \/ items[r].status = "CANCELLED" THEN
         Closed(items[r], "CANCELLED")
  ELSE IF status[r] = "WAITING_FOR_APPROVAL" THEN Open(items[r], "WAITING_APPROVAL")
  ELSE IF status[r] = "PAUSED" THEN Open(items[r], "PAUSED")
  ELSE IF status[r] = "FAILED" \/ final[r] = "FAILED" THEN Closed(items[r], "FAILED")
  ELSE Closed(items[r], "COMPLETED")

\* Mutant of WorkerFinish: the final status is not saved.
WorkerFinishUnsaved(w) ==
  LET r == worker[w].run IN
  /\ worker[w].pc = "final"
  /\ items' = [items EXCEPT ![r] = FinalJob(r)]
  /\ BackToPoll(w)
  /\ UNCHANGED <<rtVars, queue, stop, canceller, db, up, faults, crashes,
                 dispatched, ackCancelled>>

WorkerFinish(w) ==
  LET r == worker[w].run IN
  /\ worker[w].pc = "final"
  /\ PersistItem(r, FinalJob(r), Open(items[r], "RECOVERY_REQUIRED"))
  /\ BackToPoll(w)
  /\ UNCHANGED <<rtVars, queue, stop, canceller, up, crashes, dispatched,
                 ackCancelled>>

\* The handler around start_run and execute_run.
WorkerFailed(w) ==
  LET r == worker[w].run IN
  /\ worker[w].pc = "failed"
  /\ PersistItem(r, Closed(items[r], "FAILED"), Open(items[r], "RECOVERY_REQUIRED"))
  /\ BackToPoll(w)
  /\ UNCHANGED <<rtVars, queue, stop, canceller, up, crashes, dispatched,
                 ackCancelled>>

-----------------------------------------------------------------------------
(* get_run, list_runs, resolve_recovery.                                    *)

SyncedJob(r) ==
  CASE status[r] = "WAITING_FOR_APPROVAL" -> Open(items[r], "WAITING_APPROVAL")
    [] status[r] \in {"RUNNING", "PAUSED"} -> Open(items[r], status[r])
    [] status[r] \in Terminals            -> Closed(items[r], status[r])

\* _sync_item_status; when the save fails the error reaches the reader and the
\* item keeps its new status.
SyncItem(r) ==
  /\ up /\ items[r].status \in ActiveStatuses /\ r \in active
  /\ SyncedJob(r) # items[r]
  /\ PersistItem(r, SyncedJob(r), SyncedJob(r))
  /\ UNCHANGED <<rtVars, queue, stop, worker, canceller, up, crashes,
                 dispatched, ackCancelled>>

\* The operator closes a run; a failed save is rolled back in memory.
ResolveRecovery(r, resolution) ==
  /\ up /\ items[r].status = "RECOVERY_REQUIRED"
  /\ PersistItem(r, Closed(items[r], resolution), items[r])
  /\ UNCHANGED <<rtVars, queue, stop, worker, canceller, up, crashes,
                 dispatched, ackCancelled>>

-----------------------------------------------------------------------------
(* cancel_run: mark under the lock, signal the runtime outside it, then      *)
(* confirm or roll back under the lock again.                                *)

Unstarted == {"QUEUED", "STARTING"}

\* A queued run is cancelled at once.  The item stays CANCELLED when the save
\* fails, but the caller gets the error instead of True.
CancelQueued(r) ==
  /\ up /\ items[r].status \in Unstarted
  /\ \/ Saved(r, Closed(items[r], "CANCELLED")) /\ ackCancelled' = ackCancelled \union {r}
     \/ SaveFails /\ UNCHANGED ackCancelled
  /\ items' = [items EXCEPT ![r] = Closed(items[r], "CANCELLED")]
  /\ UNCHANGED <<rtVars, queue, stop, worker, canceller, up, crashes, dispatched>>

CancelBegin(c, r) ==
  /\ up /\ canceller[c].pc = "idle"
  /\ items[r].status \in ActiveStatuses \ Unstarted
  /\ canceller' = [canceller EXCEPT ![c] =
                     [pc |-> "signal", run |-> r, prev |-> items[r].status]]
  /\ items' = [items EXCEPT ![r].status = "CANCELLED"]
  /\ UNCHANGED <<rtVars, queue, stop, worker, db, up, faults, crashes,
                 dispatched, ackCancelled>>

\* runtime.cancel_run: False without a context; it may also raise after it has
\* changed the context (its checkpoint copies working_state while a stage
\* writes it), which counts as a failed signal.
CancelSignal(c, raises) ==
  LET r == canceller[c].run IN
  /\ canceller[c].pc = "signal"
  /\ CancelRun(r)
  /\ canceller' = [canceller EXCEPT ![c].pc =
                     IF r \in active /\ ~raises THEN "confirm" ELSE "rollback"]
  /\ UNCHANGED <<items, queue, stop, worker, db, up, faults, crashes,
                 dispatched, ackCancelled>>

\* The signal was refused: the previous status comes back if the item is still
\* CANCELLED.
CancelRollback(c) ==
  LET r == canceller[c].run
      restored == Open(items[r], canceller[c].prev)
  IN
  /\ canceller[c].pc = "rollback"
  /\ \/ items[r].status = "CANCELLED" /\ PersistItem(r, restored, restored)
     \/ items[r].status # "CANCELLED" /\ UNCHANGED <<items, db, faults>>
  /\ canceller' = [canceller EXCEPT ![c] = IdleCancel]
  /\ UNCHANGED <<rtVars, queue, stop, worker, up, crashes, dispatched, ackCancelled>>

CancelConfirm(c) ==
  LET r == canceller[c].run
      done == Closed(items[r], "CANCELLED")
  IN
  /\ canceller[c].pc = "confirm"
  /\ PersistItem(r, done, done)
  /\ canceller' = [canceller EXCEPT ![c] = IdleCancel]
  /\ UNCHANGED <<rtVars, queue, stop, worker, up, crashes, dispatched, ackCancelled>>

-----------------------------------------------------------------------------
(* shutdown, crash, restart.                                                *)

Pending == {r \in Runs : items[r].status \in Unstarted}

CancelAll(jobs, S) == [r \in Runs |-> IF r \in S THEN Closed(items[r], "CANCELLED")
                                                 ELSE jobs[r]]

\* shutdown: with cancel_pending the pending runs are cancelled one after the
\* other under the lock.
ShutdownRuns(cancelPending) ==
  LET S == IF cancelPending THEN Pending ELSE {} IN
  /\ up /\ ~stop
  /\ stop'  = TRUE
  /\ items' = CancelAll(items, S)
  /\ db'    = CancelAll(db, S)
  /\ ackCancelled' = ackCancelled \union S
  /\ UNCHANGED <<rtVars, queue, worker, canceller, up, faults, crashes, dispatched>>

\* The save of one of them fails: the error leaves shutdown with that item
\* cancelled in memory only and the later ones untouched.
ShutdownFails(r, saved) ==
  /\ up /\ ~stop /\ r \in Pending \ saved /\ saved \subseteq Pending
  /\ stop'  = TRUE
  /\ items' = CancelAll(items, saved \union {r})
  /\ faults < MaxFaults /\ faults' = faults + 1
  /\ db'    = CancelAll(db, saved)
  /\ ackCancelled' = ackCancelled \union saved
  /\ UNCHANGED <<rtVars, queue, worker, canceller, up, crashes, dispatched>>

Crash ==
  /\ up /\ crashes < MaxCrashes
  /\ LoseRuntime
  /\ crashes'   = crashes + 1
  /\ up'        = FALSE
  /\ items'     = [r \in Runs |-> NoJob]
  /\ queue'     = <<>>
  /\ stop'      = FALSE
  /\ worker'    = [w \in Workers |-> IdleWorker]
  /\ canceller' = [c \in Cancellers |-> IdleCancel]
  /\ UNCHANGED <<db, faults, dispatched, ackCancelled>>

Interrupted(r) == db[r].status \in ActiveStatuses

\* _restore_durable_jobs marks interrupted jobs one transaction at a time ...
RestoreMark(r) ==
  /\ ~up /\ Interrupted(r)
  /\ db' = [db EXCEPT ![r] = Open(db[r], "RECOVERY_REQUIRED")]
  /\ UNCHANGED <<rtVars, items, queue, stop, worker, canceller, up, faults,
                 crashes, dispatched, ackCancelled>>

\* Mutant of RestoreDone: interrupted runs are put back on the queue.
RestoreRequeues ==
  LET again == {r \in Runs : db[r].status = "RECOVERY_REQUIRED"} IN
  /\ ~up /\ \A r \in Runs : ~Interrupted(r)
  /\ up'       = TRUE
  /\ items'    = db
  /\ queue'    = SetToSeq(again)
  /\ reserved' = again
  /\ UNCHANGED <<active, cancelled, completed, status, kind, pc, stage, final,
                 bound, target, publishing, memory, artifact, early, stop,
                 worker, canceller, db, faults, crashes, dispatched, ackCancelled>>

\* ... and loads every record as history; nothing is put on the queue.
RestoreDone ==
  /\ ~up /\ \A r \in Runs : ~Interrupted(r)
  /\ up'    = TRUE
  /\ items' = db
  /\ UNCHANGED <<rtVars, queue, stop, worker, canceller, db, faults, crashes,
                 dispatched, ackCancelled>>

-----------------------------------------------------------------------------

WorkerStep(w) ==
  \/ WorkerTake(w) \/ WorkerStop(w) \/ WorkerBegin(w) \/ WorkerStartRun(w)
  \/ WorkerStartRaises(w) \/ WorkerExecuted(w) \/ WorkerCheckpoints(w)
  \/ WorkerFinish(w) \/ WorkerFailed(w)

ManagerRequest(r) ==
  \/ EnqueueRun(r)
  \/ EnqueueRunFails(r)
  \/ SyncItem(r)
  \/ \E resolution \in {"CANCELLED", "FAILED"} : ResolveRecovery(r, resolution)
  \/ CancelQueued(r)
  \/ \E c \in Cancellers : CancelBegin(c, r)
  \/ \E saved \in SUBSET Runs : ShutdownFails(r, saved)

CancelStep(c) ==
  \/ \E raises \in BOOLEAN : CancelSignal(c, raises)
  \/ CancelRollback(c)
  \/ CancelConfirm(c)

\* The runtime on its own: executor threads, and the operator endpoints that
\* reach it directly (workspace/operator.py).
RuntimeStep(r) ==
  /\ up
  /\ Executor(r) \/ (r \in OperatorRuns /\ Operator(r))
  /\ UNCHANGED mgrVars

Next ==
  \/ \E w \in Workers : WorkerStep(w)
  \/ \E r \in Runs : ManagerRequest(r) \/ RuntimeStep(r) \/ RestoreMark(r)
  \/ \E c \in Cancellers : CancelStep(c)
  \/ \E cancelPending \in BOOLEAN : ShutdownRuns(cancelPending)
  \/ Crash \/ RestoreDone

Spec == Init /\ [][Next]_vars

\* Worker threads and executors keep running, the cancelling thread finishes
\* its call, and a restarted process finishes loading.
Fairness ==
  /\ \A w \in Workers : WF_vars(WorkerStep(w))
  /\ \A r \in Runs : WF_vars(up /\ Executor(r) /\ UNCHANGED mgrVars)
  /\ \A c \in Cancellers : WF_vars(CancelStep(c))
  /\ WF_vars(RestoreDone) /\ \A r \in Runs : WF_vars(RestoreMark(r))

FairSpec == Spec /\ Fairness

-----------------------------------------------------------------------------
(* Properties.                                                              *)

\* Every manager variable keeps its type (QueueItem, DurableJobRecord).
ManagerTypeOK ==
  /\ items \in [Runs -> Job] /\ db \in [Runs -> Job]
  /\ queue \in Seq(Runs)
  /\ stop \in BOOLEAN /\ up \in BOOLEAN
  /\ worker \in [Workers -> WorkerStates]
  /\ canceller \in [Cancellers -> CancelStates]
  /\ faults \in Nat /\ crashes \in Nat
  /\ dispatched \in [Runs -> Nat]
  /\ ackCancelled \subseteq Runs

TypeOK == RuntimeTypeOK /\ ManagerTypeOK

\* A run id is handed to the runtime at most once, over crashes, restarts,
\* failed saves and operator actions: recovery never resumes the same run id
\* (resolve_recovery, _restore_durable_jobs).
AtMostOneDispatch == \A r \in Runs : dispatched[r] <= 1

\* Before the runtime may have caused any effect for a run, the job table says
\* that a worker started it: a restart can never take such a run for one that
\* was only queued (WORKER_STARTED in _worker_loop).
StartIsDurableFirst ==
  \A r \in Runs : dispatched[r] > 0 =>
    db[r].started /\ db[r].status \notin Unstarted \union {"NONE"}

\* Every run waiting for dispatch is waiting exactly once and still holds its
\* reservation, so start_run executes it under the admitted id and never falls
\* back to a fresh random id.
DispatchUnderAdmittedId ==
  /\ IsInjective(queue)
  /\ \A w \in Workers :
       worker[w].pc \in {"got", "start"} =>
         /\ worker[w].run \in reserved
         /\ ~Contains(queue, worker[w].run)
         /\ HeldBy(worker[w].run) = {w}
  /\ \A r \in Runs : Contains(queue, r) => r \in reserved /\ Exists(db[r])

\* A queued run whose cancellation was reported as done is never dispatched,
\* and after a restart it is still closed.
CancelledNeverDispatched ==
  \A r \in ackCancelled : dispatched[r] = 0 /\ db[r].status = "CANCELLED"

\* Without a store failure, what the manager reports is what the job table
\* holds, except while a cancellation signal is in flight.
DurableMatchesMemory ==
  up /\ faults = 0 =>
    \A r \in Runs : CancelsOf(r) = {} => db[r] = items[r]

\* completed_at is set exactly for terminal outcomes (hardening doc, section
\* 5), in memory and in the table, again except while a cancellation signal is
\* in flight.
EndedIffTerminal ==
  /\ \A r \in Runs : db[r].ended <=> db[r].status \in ClosedStatuses
  /\ \A r \in Runs : CancelsOf(r) = {} =>
       (items[r].ended <=> items[r].status \in ClosedStatuses)

\* "manager state cannot silently drift from runtime state"
\* (PLATFORM_JOB_QUEUE_HARDENING_V1.md, section 5): a run the manager reports
\* as executing is held by a worker, or a cancellation of it is in flight.
ExecutingHasWorker ==
  \A r \in Runs :
    items[r].status \in ActiveStatuses \ Unstarted =>
      HeldBy(r) # {} \/ CancelsOf(r) # {}

\* A run that still may be dispatched: queued, or taken by a worker that has
\* not called start_run yet.
Waiting(r) ==
  \/ Contains(queue, r)
  \/ \E w \in Workers : worker[w].run = r /\ worker[w].pc \in {"got", "start"}

Phase(r) == IF dispatched[r] > 0 THEN "dispatched"
            ELSE IF Waiting(r) THEN "admitted"
            ELSE IF Exists(db[r]) THEN "closed" ELSE "unknown"

Once == INSTANCE DispatchOnce WITH phase <- [r \in Runs |-> Phase(r)]

\* RunManager implements DispatchOnce: a run id is admitted once and then
\* dispatched once or closed undispatched, for good.
ImplementsDispatchOnce == Once!Spec

\* A queued run is dispatched or closed, unless the manager is shut down,
\* crashes, or some run is kept paused (a paused run keeps its worker).
QueuedEventuallyLeaves ==
  (<>[](\A r \in Runs : status[r] # "PAUSED")) =>
    \A r \in Runs : (items[r].status = "QUEUED") ~>
                      (items[r].status # "QUEUED" \/ stop \/ ~up)
=============================================================================
