-------------------------- MODULE RunManagerProofs --------------------------
(***************************************************************************)
(* TLAPS proofs about RunManager, for every set of runs, workers and         *)
(* cancelling threads and every bound.  ManagerInv is the inductive          *)
(* invariant: what each queued run, each worker and each cancelling thread   *)
(* may rely on, next to RuntimeInv for the runtime underneath.               *)
(***************************************************************************)
EXTENDS RunManager, DepartmentRuntimeProofs

NotBegun  == Unstarted \union {"NONE"}
Committed == {"start", "exec", "persist", "final", "failed"}

\* A cancellation of r is in flight.
Cancelling(r) == \E c \in Cancellers : canceller[c].run = r

\* The item and the record of one run.  started_at is never forgotten, and a
\* started run never looks unstarted again.
ItemInv(r) ==
  /\ items[r].started => items[r].status \notin NotBegun
  /\ db[r].started => db[r].status \notin NotBegun
  /\ up /\ db[r].started => items[r].started
  /\ up /\ Exists(items[r]) => Exists(db[r])
  /\ dispatched[r] <= 1
  /\ dispatched[r] > 0 => db[r].started
  /\ r \in ackCancelled => /\ dispatched[r] = 0 /\ db[r].status = "CANCELLED"
                           /\ up => items[r].status = "CANCELLED"

\* completed_at and durability of one run.
SyncInv(r) ==
  /\ db[r].ended <=> db[r].status \in ClosedStatuses
  /\ items[r].ended => items[r].status \in ClosedStatuses
  /\ items[r].status \in ClosedStatuses /\ ~items[r].ended =>
       items[r].status = "CANCELLED" /\ Cancelling(r)
  /\ up /\ faults = 0 /\ (items[r].status # "CANCELLED" \/ ~Cancelling(r)) =>
       db[r] = items[r]

\* A queued run holds its reservation, is durable, undispatched and unheld.
QueueInv ==
  /\ IsInjective(queue)
  /\ \A r \in Runs : Contains(queue, r) =>
       /\ up /\ r \in reserved /\ Exists(db[r]) /\ dispatched[r] = 0
       /\ \A w \in Workers : worker[w].run # r

WorkerInv(w) ==
  /\ worker[w].pc \in {"poll", "exit"} <=> worker[w].run = NoRun
  /\ worker[w].run # NoRun =>
       /\ up /\ Exists(db[worker[w].run])
       /\ \A v \in Workers : worker[v].run = worker[w].run => v = w
  /\ worker[w].pc \in {"got", "start"} =>
       worker[w].run \in reserved /\ dispatched[worker[w].run] = 0
  /\ worker[w].pc = "start" => db[worker[w].run].started
  /\ worker[w].pc \in Committed =>
       items[worker[w].run].status \notin NotBegun /\ worker[w].run \notin ackCancelled

CancelInv(c) ==
  /\ canceller[c].pc = "idle" <=> canceller[c].run = NoRun
  /\ canceller[c].run # NoRun =>
       /\ up /\ canceller[c].prev \in ActiveStatuses \ Unstarted
       /\ items[canceller[c].run].status \notin NotBegun
       /\ canceller[c].run \notin ackCancelled

QueueingInv ==
  /\ ManagerTypeOK /\ QueueInv
  /\ \A r \in Runs : ItemInv(r) /\ SyncInv(r)
  /\ \A w \in Workers : WorkerInv(w)
  /\ \A c \in Cancellers : CancelInv(c)

ManagerInv == RuntimeInv /\ QueueingInv

-----------------------------------------------------------------------------
(* The queue.                                                               *)

\* Putting a run on the queue.
LEMMA AppendLemma ==
  ASSUME NEW s \in Seq(Runs), NEW r \in Runs
  PROVE  /\ Append(s, r) \in Seq(Runs)
         /\ \A q \in Runs : Contains(Append(s, r), q) <=> Contains(s, q) \/ q = r
         /\ IsInjective(s) /\ ~Contains(s, r) => IsInjective(Append(s, r))
<1>1. Append(s, r) \in Seq(Runs)
  OBVIOUS
<1>2. ASSUME NEW q \in Runs
      PROVE  Contains(Append(s, r), q) <=> Contains(s, q) \/ q = r
  BY DEF Contains
<1>3. IsInjective(s) /\ ~Contains(s, r) => IsInjective(Append(s, r))
  BY DEF Contains, IsInjective
<1> QED  BY <1>1, <1>2, <1>3

\* Taking the oldest run off the queue.
LEMMA TailLemma ==
  ASSUME NEW s \in Seq(Runs), s # <<>>
  PROVE  /\ Head(s) \in Runs /\ Tail(s) \in Seq(Runs) /\ Contains(s, Head(s))
         /\ \A q \in Runs : Contains(Tail(s), q) => Contains(s, q)
         /\ IsInjective(s) => IsInjective(Tail(s)) /\ ~Contains(Tail(s), Head(s))
<1>1. Len(s) > 0 /\ Head(s) = s[1] /\ Head(s) \in Runs /\ Tail(s) \in Seq(Runs)
  OBVIOUS
<1>2. Len(Tail(s)) = Len(s) - 1 /\ \A i \in 1..Len(Tail(s)) : Tail(s)[i] = s[i + 1]
  OBVIOUS
<1>3. Contains(s, Head(s)) /\ \A q \in Runs : Contains(Tail(s), q) => Contains(s, q)
  BY <1>1, <1>2 DEF Contains
<1>4. IsInjective(s) => IsInjective(Tail(s)) /\ ~Contains(Tail(s), Head(s))
  BY <1>1, <1>2 DEF Contains, IsInjective
<1> QED  BY <1>1, <1>3, <1>4

-----------------------------------------------------------------------------
(* Item updates.                                                            *)

\* The run q is left alone ...
Same(q) ==
  /\ items'[q] = items[q] /\ db'[q] = db[q]
  /\ q \in ackCancelled' <=> q \in ackCancelled
  /\ Cancelling(q)' <=> Cancelling(q)

\* ... or its item gets a status past the queue with a matching completed_at,
\* saved unless a transaction failed.
Settled(q) ==
  /\ Exists(db[q])
  /\ items[q].started => items'[q].started
  /\ items'[q].status \notin NotBegun
  /\ items'[q].ended <=> items'[q].status \in ClosedStatuses
  /\ db'[q] = items'[q] \/ (db'[q] = db[q] /\ faults' # 0)
  /\ q \in ackCancelled => items'[q].status = "CANCELLED"
  /\ q \in ackCancelled' => \/ q \in ackCancelled
                             \/ /\ items[q].status \in Unstarted
                                /\ items'[q].status = "CANCELLED"
                                /\ db'[q] = items'[q]

\* A worker stays where it is, gives its run up, or commits to starting it.
Moved(w) ==
  \/ worker'[w] = worker[w]
  \/ worker'[w] = IdleWorker
  \/ /\ worker[w].pc = "got"
     /\ worker'[w] = [worker[w] EXCEPT !.pc = "start"]
     /\ db'[worker[w].run].started
     /\ items'[worker[w].run].status \notin NotBegun
     /\ worker[w].run \notin ackCancelled'

Update ==
  /\ ManagerTypeOK' /\ up /\ up'
  /\ UNCHANGED <<reserved, queue, dispatched>> /\ faults' >= faults
  /\ \A q \in Runs : Same(q) \/ Settled(q)
  /\ \A w \in Workers : Moved(w)
  /\ \A c \in Cancellers : canceller'[c] \in {canceller[c], IdleCancel}

\* Nothing new is admitted or dispatched, no record appears or disappears.
Narrows ==
  /\ UNCHANGED dispatched
  /\ \A q \in Runs : /\ Exists(db[q])' <=> Exists(db[q])
                     /\ Waiting(q)' => Waiting(q)

\* Every item update preserves the invariant; the actions below are updates.
LEMMA UpdateLemma == ManagerInv /\ Update => QueueingInv' /\ Narrows
<1> SUFFICES ASSUME ManagerInv, Update PROVE QueueingInv' /\ Narrows
  OBVIOUS
<1> USE ManagerAssumption DEF ManagerInv, QueueingInv
<1>1. ASSUME NEW q \in Runs PROVE Exists(db[q]) => Exists(db'[q])
  BY DEF Update, Same, Settled, Exists, NotBegun
<1>0. ASSUME NEW v \in Workers
      PROVE  worker'[v].run = worker[v].run \/ worker'[v].run = NoRun
  <2>1. Moved(v)
    BY DEF Update
  <2>2. CASE worker'[v] \in {IdleWorker, [worker[v] EXCEPT !.pc = "start"]}
    BY <2>2 DEF IdleWorker, ManagerTypeOK, WorkerStates
  <2> QED  BY <2>1, <2>2 DEF Moved
<1>2. QueueInv'
  <2>1. UNCHANGED <<reserved, queue, dispatched>> /\ up'
    BY DEF Update
  <2> QED  BY <1>0, <1>1, <2>1 DEF QueueInv
<1>3. ASSUME NEW q \in Runs PROVE ItemInv(q)'
  <2>1. CASE Same(q)
    BY <2>1 DEF Update, Same, ItemInv, Exists
  <2>2. CASE Settled(q)
    BY <2>2 DEF Update, Settled, ItemInv, Exists, NotBegun, ManagerTypeOK
  <2> QED  BY <2>1, <2>2 DEF Update
<1>4. ASSUME NEW q \in Runs PROVE SyncInv(q)'
  <2>0. faults' = 0 => faults = 0
    BY DEF Update, ManagerTypeOK
  <2>1. CASE Same(q)
    BY <2>0, <2>1 DEF Update, Same, SyncInv
  <2>2. CASE Settled(q)
    BY <2>0, <2>2 DEF Update, Settled, SyncInv
  <2> QED  BY <2>1, <2>2 DEF Update
<1>5. ASSUME NEW q \in Runs
      PROVE  /\ up /\ db[q].started => db'[q].started
             /\ items[q].status \notin NotBegun =>
                  /\ items'[q].status \notin NotBegun
                  /\ q \in ackCancelled' => q \in ackCancelled
  BY DEF Update, Same, Settled, ItemInv, NotBegun
<1>6. ASSUME NEW w \in Workers PROVE WorkerInv(w)'
  <2>0. worker[w].run = NoRun \/ worker[w].run \in Runs
    BY DEF ManagerTypeOK, WorkerStates
  <2>1. UNCHANGED <<reserved, dispatched>> /\ up /\ up'
    BY DEF Update
  <2>2. CASE worker'[w] = worker[w]
    <3>1. CASE worker[w].run = NoRun
      BY <2>2, <3>1 DEF WorkerInv, Committed
    <3>2. CASE worker[w].run \in Runs
      BY <1>0, <1>1, <1>5, <2>1, <2>2, <3>2 DEF WorkerInv, Committed
    <3> QED  BY <2>0, <3>1, <3>2
  <2>3. CASE worker'[w] = IdleWorker
    BY <2>3 DEF WorkerInv, IdleWorker, Committed
  <2>4. CASE worker[w].pc = "got" /\ worker'[w] = [worker[w] EXCEPT !.pc = "start"]
                /\ db'[worker[w].run].started /\ items'[worker[w].run].status \notin NotBegun
                /\ worker[w].run \notin ackCancelled'
    BY <1>0, <1>1, <1>5, <2>0, <2>1, <2>4 DEF ManagerTypeOK, WorkerInv, Committed
  <2> QED  BY <2>2, <2>3, <2>4 DEF Update, Moved
<1>7. ASSUME NEW c \in Cancellers PROVE CancelInv(c)'
  <2>0. canceller[c].run = NoRun \/ canceller[c].run \in Runs
    BY DEF ManagerTypeOK, CancelStates
  <2>1. CASE canceller'[c] = canceller[c]
    BY <1>5, <2>0, <2>1 DEF Update, CancelInv
  <2>2. CASE canceller'[c] = IdleCancel
    BY <2>2 DEF CancelInv, IdleCancel
  <2> QED  BY <2>1, <2>2 DEF Update
<1>8. ASSUME NEW q \in Runs
      PROVE  (Exists(db[q])' <=> Exists(db[q])) /\ (Waiting(q)' => Waiting(q))
  <2>1. Exists(db[q])' => Exists(db[q])
    BY DEF Update, Same, Settled, Exists
  <2>2. ASSUME NEW w \in Workers, worker'[w].run = q, worker'[w].pc \in {"got", "start"}
        PROVE  worker[w].run = q /\ worker[w].pc \in {"got", "start"}
    <3>1. worker'[w].run = worker[w].run
      BY <1>0, <2>2
    <3>2. Moved(w)
      BY DEF Update
    <3>3. worker'[w] # IdleWorker
      BY <2>2 DEF IdleWorker
    <3> QED  BY <2>2, <3>1, <3>2, <3>3 DEF Moved
  <2> QED  BY <1>1, <2>1, <2>2 DEF Update, Waiting
<1> QED  BY <1>2, <1>3, <1>4, <1>6, <1>7, <1>8 DEF Update, Narrows

LEMMA JobLemma ==
  ASSUME NEW job \in Job, NEW x \in ItemStatuses
  PROVE  /\ Closed(job, x) \in Job /\ Closed(job, x).status = x
         /\ Closed(job, x).started = job.started /\ Closed(job, x).ended
         /\ Open(job, x) \in Job /\ Open(job, x).status = x
         /\ Open(job, x).started = job.started /\ ~Open(job, x).ended
BY DEF Closed, Open, Job

\* A value an update may give to the item of r.
Fits(r, job) ==
  /\ job \in Job /\ job.status \notin NotBegun
  /\ items[r].started => job.started
  /\ job.ended <=> job.status \in ClosedStatuses
  /\ r \in ackCancelled => job.status = "CANCELLED"

\* What else a step that updates the item of r may do: free one worker, or end
\* one cancellation of r.
Aside(r) ==
  /\ up /\ Exists(db[r])
  /\ UNCHANGED <<reserved, queue, stop, up, crashes, dispatched, ackCancelled>>
  /\ \/ worker' = worker
     \/ \E w \in Workers : worker' = [worker EXCEPT ![w] = IdleWorker]
  /\ \/ canceller' = canceller
     \/ \E c \in Cancellers : /\ canceller[c].run = r
                              /\ canceller' = [canceller EXCEPT ![c] = IdleCancel]

LEMMA AsideLemma ==
  ASSUME ManagerInv, NEW r \in Runs, Aside(r)
  PROVE  /\ \A w \in Workers : Moved(w)
         /\ \A c \in Cancellers : canceller'[c] \in {canceller[c], IdleCancel}
         /\ \A q \in Runs \ {r} : Cancelling(q)' <=> Cancelling(q)
         /\ worker' \in [Workers -> WorkerStates]
         /\ canceller' \in [Cancellers -> CancelStates]
<1> USE ManagerAssumption DEF ManagerInv, QueueingInv, ManagerTypeOK, Aside
<1>1. \A w \in Workers : Moved(w)
  BY DEF Moved
<1>2. \A c \in Cancellers : canceller'[c] \in {canceller[c], IdleCancel}
  OBVIOUS
<1>3. \A q \in Runs \ {r} : Cancelling(q)' <=> Cancelling(q)
  <2> SUFFICES ASSUME NEW q \in Runs \ {r} PROVE Cancelling(q)' <=> Cancelling(q)
    OBVIOUS
  <2>1. CASE canceller' = canceller
    BY <2>1 DEF Cancelling
  <2>2. ASSUME NEW c \in Cancellers, canceller[c].run = r,
               canceller' = [canceller EXCEPT ![c] = IdleCancel]
        PROVE  Cancelling(q)' <=> Cancelling(q)
    BY <2>2 DEF Cancelling, IdleCancel
  <2> QED  BY <2>1, <2>2
<1>4. IdleWorker \in WorkerStates
  BY DEF IdleWorker, WorkerStates
<1>5. IdleCancel \in CancelStates
  BY DEF IdleCancel, CancelStates, ItemStatuses
<1>6. worker' \in [Workers -> WorkerStates]
  BY <1>4
<1>7. canceller' \in [Cancellers -> CancelStates]
  BY <1>5
<1> QED  BY <1>1, <1>2, <1>3, <1>6, <1>7

\* PersistItem with fitting values is an update.
LEMMA PersistLemma ==
  ASSUME ManagerInv, NEW r \in Runs, NEW job, NEW other, Fits(r, job), Fits(r, other),
         PersistItem(r, job, other), Aside(r)
  PROVE  QueueingInv' /\ Narrows
<1> USE ManagerAssumption DEF ManagerInv, QueueingInv, PersistItem, Saved, SaveFails
<1>1. PICK val \in {job, other} :
        /\ items' = [items EXCEPT ![r] = val] /\ Fits(r, val)
        /\ \/ db' = [db EXCEPT ![r] = val] /\ faults' = faults
           \/ db' = db /\ faults' = faults + 1
  OBVIOUS
<1>2. ManagerTypeOK'
  <2>1. items' \in [Runs -> Job] /\ db' \in [Runs -> Job] /\ faults' \in Nat
    BY <1>1 DEF ManagerTypeOK, Fits
  <2>2. UNCHANGED <<queue, stop, up, crashes, dispatched, ackCancelled>>
    BY DEF Aside
  <2> QED  BY <2>1, <2>2, AsideLemma DEF ManagerTypeOK
<1>3. faults' >= faults /\ (faults' = faults \/ faults' # 0)
  BY <1>1 DEF ManagerTypeOK
<1>4. ASSUME NEW q \in Runs, q # r PROVE Same(q)
  BY <1>1, <1>4, AsideLemma DEF Same, Aside, ManagerTypeOK
<1>5. Settled(r)
  BY <1>1, <1>3 DEF Settled, Aside, Fits, ManagerTypeOK
<1>6. Update
  BY <1>2, <1>3, <1>4, <1>5, AsideLemma DEF Update, Aside
<1> QED  BY <1>6, UpdateLemma

\* Closed and reopened items fit.
LEMMA FitsLemma ==
  ASSUME ManagerInv, NEW r \in Runs, r \notin ackCancelled
  PROVE  /\ \A x \in ClosedStatuses : Fits(r, Closed(items[r], x))
         /\ \A x \in {"RUNNING", "PAUSED", "WAITING_APPROVAL", "WAITING_TOOL",
                      "RECOVERY_REQUIRED"} : Fits(r, Open(items[r], x))
<1>1. items[r] \in Job
  BY DEF ManagerInv, QueueingInv, ManagerTypeOK
<1> QED  BY <1>1, JobLemma
            DEF Fits, NotBegun, Unstarted, ItemStatuses, ActiveStatuses, ClosedStatuses

\* What a worker that holds a run knows.
LEMMA HeldLemma ==
  ASSUME ManagerInv, NEW w \in Workers, worker[w].pc \notin {"poll", "exit"}
  PROVE  /\ up /\ worker[w].run \in Runs /\ Exists(db[worker[w].run])
         /\ items[worker[w].run] \in Job
         /\ worker[w].pc \in Committed => worker[w].run \notin ackCancelled
BY ManagerAssumption DEF ManagerInv, QueueingInv, WorkerInv, ManagerTypeOK, WorkerStates

\* What a thread inside cancel_run knows.
LEMMA CancellingLemma ==
  ASSUME ManagerInv, NEW c \in Cancellers, canceller[c].pc # "idle"
  PROVE  /\ up /\ canceller[c].run \in Runs /\ items[canceller[c].run] \in Job
         /\ items[canceller[c].run].status \notin NotBegun
         /\ Exists(db[canceller[c].run]) /\ canceller[c].run \notin ackCancelled
         /\ canceller[c].prev \in ActiveStatuses \ Unstarted
<1>1. /\ up /\ canceller[c].run \in Runs /\ items[canceller[c].run] \in Job
      /\ items[canceller[c].run].status \notin NotBegun
      /\ canceller[c].run \notin ackCancelled
      /\ canceller[c].prev \in ActiveStatuses \ Unstarted
  BY ManagerAssumption DEF ManagerInv, QueueingInv, CancelInv, ManagerTypeOK, CancelStates
<1> QED  BY <1>1 DEF ManagerInv, QueueingInv, ItemInv, Exists, NotBegun

-----------------------------------------------------------------------------
(* QueueingInv is preserved: one lemma per action.                          *)

LEMMA FinishInv ==
  ASSUME ManagerInv, NEW w \in Workers, WorkerFinish(w) PROVE QueueingInv' /\ Narrows
<1> DEFINE r == worker[w].run
<1>1. /\ worker[w].pc = "final"
      /\ PersistItem(r, FinalJob(r), Open(items[r], "RECOVERY_REQUIRED"))
      /\ BackToPoll(w)
      /\ UNCHANGED <<rtVars, queue, stop, canceller, up, crashes, dispatched, ackCancelled>>
  BY DEF WorkerFinish
<1>2. up /\ r \in Runs /\ Exists(db[r]) /\ r \notin ackCancelled
  BY <1>1, HeldLemma DEF Committed
<1>3. Aside(r)
  BY <1>1, <1>2 DEF Aside, BackToPoll, rtVars
<1>4. FinalJob(r) \in {Closed(items[r], x) : x \in ClosedStatuses}
                        \union {Open(items[r], x) : x \in {"WAITING_APPROVAL", "PAUSED"}}
  BY DEF FinalJob, ClosedStatuses
<1>5. Fits(r, FinalJob(r)) /\ Fits(r, Open(items[r], "RECOVERY_REQUIRED"))
  BY <1>2, <1>4, FitsLemma
<1> QED  BY <1>1, <1>2, <1>3, <1>5, PersistLemma

LEMMA FailedInv ==
  ASSUME ManagerInv, NEW w \in Workers, WorkerFailed(w) PROVE QueueingInv' /\ Narrows
<1> DEFINE r == worker[w].run
<1>1. /\ worker[w].pc = "failed"
      /\ PersistItem(r, Closed(items[r], "FAILED"), Open(items[r], "RECOVERY_REQUIRED"))
      /\ BackToPoll(w)
      /\ UNCHANGED <<rtVars, queue, stop, canceller, up, crashes, dispatched, ackCancelled>>
  BY DEF WorkerFailed
<1>2. up /\ r \in Runs /\ Exists(db[r]) /\ r \notin ackCancelled
  BY <1>1, HeldLemma DEF Committed
<1>3. Aside(r)
  BY <1>1, <1>2 DEF Aside, BackToPoll, rtVars
<1>4. Fits(r, Closed(items[r], "FAILED")) /\ Fits(r, Open(items[r], "RECOVERY_REQUIRED"))
  BY <1>2, FitsLemma DEF ClosedStatuses
<1> QED  BY <1>1, <1>2, <1>3, <1>4, PersistLemma

\* RuntimeInv gives an active run a status that SyncedJob translates.
LEMMA SyncItemInv ==
  ASSUME ManagerInv, NEW r \in Runs, SyncItem(r) PROVE QueueingInv' /\ Narrows
<1>1. /\ up /\ items[r].status \in ActiveStatuses /\ r \in active
      /\ PersistItem(r, SyncedJob(r), SyncedJob(r))
      /\ UNCHANGED <<rtVars, queue, stop, worker, canceller, up, crashes, dispatched,
                     ackCancelled>>
  BY DEF SyncItem
<1>2. Exists(db[r]) /\ r \notin ackCancelled
  BY <1>1 DEF ManagerInv, QueueingInv, ItemInv, Exists, ActiveStatuses
<1>3. Aside(r)
  BY <1>1, <1>2 DEF Aside, rtVars
<1>4. status[r] \in {"RUNNING", "PAUSED", "WAITING_FOR_APPROVAL"} \union Terminals
  BY <1>1 DEF ManagerInv, RuntimeInv, RuntimeTypeOK, RunInv, LiveInv, Statuses, Terminals
<1>5. SyncedJob(r) \in {Closed(items[r], x) : x \in ClosedStatuses}
        \union {Open(items[r], x) : x \in {"RUNNING", "PAUSED", "WAITING_APPROVAL"}}
  BY <1>4 DEF SyncedJob, Terminals, ClosedStatuses
<1>6. Fits(r, SyncedJob(r))
  BY <1>2, <1>5, FitsLemma
<1> QED  BY <1>1, <1>3, <1>6, PersistLemma

LEMMA ResolveInv ==
  ASSUME ManagerInv, NEW r \in Runs, NEW x \in {"CANCELLED", "FAILED"},
         ResolveRecovery(r, x)
  PROVE  QueueingInv' /\ Narrows
<1>1. /\ up /\ items[r].status = "RECOVERY_REQUIRED"
      /\ PersistItem(r, Closed(items[r], x), items[r])
      /\ UNCHANGED <<rtVars, queue, stop, worker, canceller, up, crashes, dispatched,
                     ackCancelled>>
  BY DEF ResolveRecovery
<1>2. Exists(db[r]) /\ r \notin ackCancelled
  BY <1>1 DEF ManagerInv, QueueingInv, ItemInv, Exists
<1>3. Aside(r)
  BY <1>1, <1>2 DEF Aside, rtVars
<1>4. Fits(r, Closed(items[r], x))
  BY <1>2, FitsLemma DEF ClosedStatuses
<1>5. Fits(r, items[r])
  BY <1>1, <1>2 DEF Fits, ManagerInv, QueueingInv, ManagerTypeOK, SyncInv, NotBegun,
                    Unstarted, ClosedStatuses
<1> QED  BY <1>1, <1>3, <1>4, <1>5, PersistLemma

LEMMA ConfirmInv ==
  ASSUME ManagerInv, NEW c \in Cancellers, CancelConfirm(c) PROVE QueueingInv' /\ Narrows
<1> DEFINE r == canceller[c].run
<1>1. /\ canceller[c].pc = "confirm"
      /\ PersistItem(r, Closed(items[r], "CANCELLED"), Closed(items[r], "CANCELLED"))
      /\ canceller' = [canceller EXCEPT ![c] = IdleCancel]
      /\ UNCHANGED <<rtVars, queue, stop, worker, up, crashes, dispatched, ackCancelled>>
  BY DEF CancelConfirm
<1>2. up /\ r \in Runs /\ Exists(db[r]) /\ r \notin ackCancelled
  BY <1>1, CancellingLemma
<1>3. Aside(r)
  BY <1>1, <1>2 DEF Aside, rtVars
<1>4. Fits(r, Closed(items[r], "CANCELLED"))
  BY <1>2, FitsLemma DEF ClosedStatuses
<1> QED  BY <1>1, <1>2, <1>3, <1>4, PersistLemma

LEMMA RollbackInv ==
  ASSUME ManagerInv, NEW c \in Cancellers, CancelRollback(c) PROVE QueueingInv' /\ Narrows
<1> DEFINE r == canceller[c].run
           restored == Open(items[r], canceller[c].prev)
<1>1. /\ canceller[c].pc = "rollback"
      /\ \/ items[r].status = "CANCELLED" /\ PersistItem(r, restored, restored)
         \/ items[r].status # "CANCELLED" /\ UNCHANGED <<items, db, faults>>
      /\ canceller' = [canceller EXCEPT ![c] = IdleCancel]
      /\ UNCHANGED <<rtVars, queue, stop, worker, up, crashes, dispatched, ackCancelled>>
  BY DEF CancelRollback
<1>2. /\ up /\ r \in Runs /\ Exists(db[r]) /\ r \notin ackCancelled
      /\ items[r] \in Job /\ items[r].status \notin NotBegun
      /\ canceller[c].prev \in ActiveStatuses \ Unstarted
  BY <1>1, CancellingLemma
<1>3. Aside(r)
  BY <1>1, <1>2 DEF Aside, rtVars
<1>4. CASE PersistItem(r, restored, restored)
  <2>1. Fits(r, restored)
    BY <1>2, FitsLemma DEF ActiveStatuses, Unstarted
  <2> QED  BY <1>2, <1>3, <1>4, <2>1, PersistLemma
<1>5. CASE items[r].status # "CANCELLED" /\ UNCHANGED <<items, db, faults>>
  <2>1. ManagerTypeOK'
    BY <1>2, <1>3, <1>5, AsideLemma DEF ManagerInv, QueueingInv, ManagerTypeOK, Aside
  <2>2. ASSUME NEW q \in Runs, q # r PROVE Same(q)
    BY <1>2, <1>3, <1>5, <2>2, AsideLemma DEF Same, Aside
  <2>3. Settled(r)
    BY <1>2, <1>3, <1>5
       DEF Settled, Aside, ManagerInv, QueueingInv, SyncInv, ItemInv, ManagerTypeOK
  <2>4. Update
    BY <1>2, <1>3, <1>5, <2>1, <2>2, <2>3, AsideLemma
       DEF Update, Aside, ManagerInv, QueueingInv, ManagerTypeOK
  <2> QED  BY <2>4, UpdateLemma
<1> QED  BY <1>1, <1>4, <1>5

LEMMA CheckpointsInv ==
  ASSUME ManagerInv, NEW w \in Workers, WorkerCheckpoints(w) PROVE QueueingInv' /\ Narrows
<1> DEFINE r == worker[w].run
           recovery == Open(items[r], "RECOVERY_REQUIRED")
<1>1. worker[w].pc = "persist" /\ UNCHANGED <<rtVars, queue, stop, canceller, up,
                                              crashes, dispatched, ackCancelled>>
  BY DEF WorkerCheckpoints
<1>2. up /\ r \in Runs /\ Exists(db[r]) /\ r \notin ackCancelled
  BY <1>1, HeldLemma DEF Committed
<1>3. CASE Goto(w, "final") /\ UNCHANGED <<items, db, faults>>
  <2> USE <1>1, <1>2, <1>3, ManagerAssumption
      DEF ManagerInv, QueueingInv, ManagerTypeOK, Goto, rtVars
  <2>1. ManagerTypeOK' /\ QueueInv'
    BY DEF QueueInv, WorkerStates
  <2>2. ASSUME NEW q \in Runs PROVE ItemInv(q)' /\ SyncInv(q)'
    BY DEF ItemInv, SyncInv, Cancelling
  <2>3. ASSUME NEW v \in Workers PROVE WorkerInv(v)'
    BY DEF WorkerInv, Committed
  <2>4. ASSUME NEW c \in Cancellers PROVE CancelInv(c)'
    BY DEF CancelInv
  <2>5. Narrows
    BY DEF Narrows, Waiting
  <2> QED  BY <2>1, <2>2, <2>3, <2>4, <2>5
<1>4. CASE /\ items' = [items EXCEPT ![r] = recovery]
           /\ \/ db' = [db EXCEPT ![r] = recovery] /\ faults' = faults + 1
              \/ UNCHANGED db /\ faults' = faults + 2
           /\ BackToPoll(w)
  <2>1. Fits(r, recovery)
    BY <1>2, FitsLemma
  <2>2. Aside(r)
    BY <1>1, <1>2, <1>4 DEF Aside, BackToPoll, rtVars
  <2>3. faults \in Nat /\ items \in [Runs -> Job] /\ db \in [Runs -> Job]
    BY DEF ManagerInv, QueueingInv, ManagerTypeOK
  <2>4. faults' \in Nat /\ faults' >= faults /\ faults' # 0
    BY <1>4, <2>3
  <2>5. items' \in [Runs -> Job] /\ db' \in [Runs -> Job]
    BY <1>2, <1>4, <2>1, <2>3 DEF Fits
  <2>6. ManagerTypeOK'
    BY <1>2, <2>2, <2>4, <2>5, AsideLemma DEF ManagerInv, QueueingInv, ManagerTypeOK, Aside
  <2>7. ASSUME NEW q \in Runs, q # r PROVE Same(q)
    BY <1>2, <1>4, <2>2, <2>3, <2>7, AsideLemma DEF Same, Aside
  <2>8. Settled(r)
    BY <1>2, <1>4, <2>1, <2>2, <2>3, <2>4 DEF Settled, Aside, Fits
  <2>9. Update
    BY <1>2, <2>2, <2>4, <2>6, <2>7, <2>8, AsideLemma DEF Update, Aside
  <2> QED  BY <2>9, UpdateLemma
<1> QED  BY <1>3, <1>4 DEF WorkerCheckpoints

LEMMA CancelQueuedInv ==
  ASSUME ManagerInv, NEW r \in Runs, CancelQueued(r) PROVE QueueingInv' /\ Narrows
<1> DEFINE job == Closed(items[r], "CANCELLED")
<1>1. /\ up /\ items[r].status \in Unstarted
      /\ \/ db' = [db EXCEPT ![r] = job] /\ faults' = faults
              /\ ackCancelled' = ackCancelled \union {r}
         \/ db' = db /\ faults' = faults + 1 /\ ackCancelled' = ackCancelled
      /\ items' = [items EXCEPT ![r] = job]
      /\ UNCHANGED <<rtVars, queue, stop, worker, canceller, up, crashes, dispatched>>
  BY DEF CancelQueued, Saved, SaveFails
<1>2. Exists(db[r]) /\ r \notin ackCancelled
  BY <1>1 DEF ManagerInv, QueueingInv, ItemInv, Exists, Unstarted
<1>3. Fits(r, job) /\ job.status = "CANCELLED"
  BY <1>2, FitsLemma, JobLemma
     DEF ClosedStatuses, ItemStatuses, ManagerInv, QueueingInv, ManagerTypeOK
<1>4. faults \in Nat /\ items \in [Runs -> Job] /\ db \in [Runs -> Job]
  BY DEF ManagerInv, QueueingInv, ManagerTypeOK
<1> HIDE DEF job
<1>5. ManagerTypeOK'
  <2>1. items' \in [Runs -> Job] /\ db' \in [Runs -> Job] /\ faults' \in Nat
    BY <1>1, <1>3, <1>4 DEF Fits
  <2> QED  BY <1>1, <2>1 DEF ManagerInv, QueueingInv, ManagerTypeOK
<1>6. faults' >= faults /\ (faults' = faults \/ faults' # 0)
  BY <1>1, <1>4
<1>7. ASSUME NEW q \in Runs, q # r PROVE Same(q)
  BY <1>1, <1>4, <1>7 DEF Same, Cancelling
<1>8. Settled(r)
  BY <1>1, <1>2, <1>3, <1>4, <1>6 DEF Settled, Fits
<1>9. Update
  BY <1>1, <1>5, <1>6, <1>7, <1>8 DEF Update, Moved, rtVars
<1> QED  BY <1>9, UpdateLemma

\* The common part of the two outcomes of shutdown: the runs of S are cancelled
\* in memory, those of D durably.
LEMMA CancelManyLemma ==
  ASSUME ManagerInv, NEW S \in SUBSET Runs, NEW D \in SUBSET S, S \subseteq Pending, up,
         items' = CancelAll(items, S), db' = CancelAll(db, D),
         ackCancelled' = ackCancelled \union D, stop' = TRUE,
         faults' \in Nat, faults' >= faults, D = S \/ faults' # 0,
         UNCHANGED <<rtVars, queue, worker, canceller, up, crashes, dispatched>>
  PROVE  QueueingInv' /\ Narrows
<1>1. items \in [Runs -> Job] /\ db \in [Runs -> Job]
  BY DEF ManagerInv, QueueingInv, ManagerTypeOK
<1>2. \A q \in Runs : Closed(items[q], "CANCELLED") \in Job
  BY <1>1, JobLemma DEF ItemStatuses, ClosedStatuses
<1>3. ManagerTypeOK'
  <2>1. items' \in [Runs -> Job] /\ db' \in [Runs -> Job]
    BY <1>1, <1>2 DEF CancelAll
  <2> QED  BY <2>1 DEF ManagerInv, QueueingInv, ManagerTypeOK
<1>4. ASSUME NEW q \in Runs, q \notin S PROVE Same(q)
  <2>1. items'[q] = items[q] /\ db'[q] = db[q]
    BY <1>4 DEF CancelAll
  <2> QED  BY <1>4, <2>1 DEF Same, Cancelling
<1>5. ASSUME NEW q \in S PROVE Settled(q)
  <2>1. items[q].status \in Unstarted /\ Exists(db[q]) /\ q \notin ackCancelled
    BY DEF Pending, ManagerInv, QueueingInv, ItemInv, Exists, Unstarted
  <2>2. Fits(q, Closed(items[q], "CANCELLED"))
        /\ Closed(items[q], "CANCELLED").status = "CANCELLED"
    BY <1>1, <2>1, FitsLemma, JobLemma DEF ClosedStatuses, ItemStatuses
  <2>3. /\ items'[q] = Closed(items[q], "CANCELLED")
        /\ db'[q] = IF q \in D THEN Closed(items[q], "CANCELLED") ELSE db[q]
    BY DEF CancelAll
  <2> QED  BY <2>1, <2>2, <2>3 DEF Settled, Fits
<1>6. Update
  BY <1>3, <1>4, <1>5 DEF Update, Moved, rtVars
<1> QED  BY <1>6, UpdateLemma

LEMMA ShutdownInv ==
  ASSUME ManagerInv, NEW x \in BOOLEAN, ShutdownRuns(x) PROVE QueueingInv' /\ Narrows
<1> DEFINE S == IF x THEN Pending ELSE {}
<1>1. S \in SUBSET Runs /\ S \subseteq Pending
  BY DEF Pending
<1>2. faults \in Nat
  BY DEF ManagerInv, QueueingInv, ManagerTypeOK
<1>3. faults' \in Nat /\ faults' >= faults
  BY <1>2 DEF ShutdownRuns
<1> QED  BY <1>1, <1>3, CancelManyLemma DEF ShutdownRuns

LEMMA ShutdownFailsInv ==
  ASSUME ManagerInv, NEW r \in Runs, NEW D \in SUBSET Runs, ShutdownFails(r, D)
  PROVE  QueueingInv' /\ Narrows
<1> DEFINE S == D \union {r}
<1>1. S \in SUBSET Runs /\ D \in SUBSET S /\ S \subseteq Pending
  BY DEF ShutdownFails
<1>2. faults \in Nat
  BY DEF ManagerInv, QueueingInv, ManagerTypeOK
<1>3. faults' \in Nat /\ faults' >= faults /\ faults' # 0
  BY <1>2 DEF ShutdownFails
<1> QED  BY <1>1, <1>3, CancelManyLemma DEF ShutdownFails

LEMMA BeginInv ==
  ASSUME ManagerInv, NEW w \in Workers, WorkerBegin(w) PROVE QueueingInv' /\ Narrows
<1> DEFINE r == worker[w].run
           running == [items[r] EXCEPT !.status = "RUNNING", !.started = TRUE, !.ended = FALSE]
<1>1. /\ worker[w].pc = "got"
      /\ UNCHANGED <<rtVars, queue, stop, canceller, up, crashes, dispatched, ackCancelled>>
  BY DEF WorkerBegin
<1>2. up /\ r \in Runs /\ Exists(db[r]) /\ items[r] \in Job
  BY <1>1, HeldLemma
<1>3. faults \in Nat /\ items \in [Runs -> Job] /\ db \in [Runs -> Job]
  BY DEF ManagerInv, QueueingInv, ManagerTypeOK
<1>4. items[r].status # "CANCELLED" => r \notin ackCancelled
  BY <1>2 DEF ManagerInv, QueueingInv, ItemInv
<1>5. running \in Job /\ running.status = "RUNNING" /\ running.started /\ ~running.ended
  BY <1>2 DEF Job, ItemStatuses, ActiveStatuses
<1> HIDE DEF running
<1>6. CASE BackToPoll(w) /\ UNCHANGED <<items, db, faults>>
  <2>1. Aside(r)
    BY <1>1, <1>2, <1>6 DEF Aside, BackToPoll, rtVars
  <2>2. ManagerTypeOK'
    BY <1>2, <1>6, <2>1, AsideLemma DEF ManagerInv, QueueingInv, ManagerTypeOK, Aside
  <2>3. ASSUME NEW q \in Runs PROVE Same(q)
    BY <1>1, <1>6 DEF Same, Cancelling
  <2>4. Update
    BY <1>2, <1>3, <1>6, <2>1, <2>2, <2>3, AsideLemma DEF Update, Aside
  <2> QED  BY <2>4, UpdateLemma
<1>7. CASE /\ items[r].status # "CANCELLED" /\ items' = [items EXCEPT ![r] = running]
           /\ Saved(r, running) /\ Goto(w, "start")
  <2>1. items' \in [Runs -> Job] /\ db' \in [Runs -> Job] /\ faults' = faults
    BY <1>2, <1>3, <1>5, <1>7 DEF Saved
  <2>2. worker' = [worker EXCEPT ![w] = [worker[w] EXCEPT !.pc = "start"]]
    BY <1>7 DEF Goto
  <2>3. ManagerTypeOK'
    BY <1>1, <1>2, <2>1, <2>2 DEF ManagerInv, QueueingInv, ManagerTypeOK, WorkerStates
  <2>4. items'[r] = running /\ db'[r] = running
    BY <1>2, <1>3, <1>7 DEF Saved
  <2>5. ASSUME NEW q \in Runs, q # r PROVE Same(q)
    BY <1>1, <1>3, <1>7, <2>5 DEF Same, Cancelling, Saved
  <2>6. Settled(r)
    BY <1>1, <1>2, <1>4, <1>5, <1>7, <2>4 DEF Settled, NotBegun, Unstarted, ClosedStatuses
  <2>7. ASSUME NEW v \in Workers PROVE Moved(v)
    <3>1. worker \in [Workers -> WorkerStates]
      BY DEF ManagerInv, QueueingInv, ManagerTypeOK
    <3>2. CASE v # w
      BY <2>2, <3>1, <3>2 DEF Moved
    <3>3. CASE v = w
      BY <1>1, <1>4, <1>5, <1>7, <2>2, <2>4, <3>1, <3>3 DEF Moved, NotBegun, Unstarted
    <3> QED  BY <3>2, <3>3
  <2>8. Update
    BY <1>1, <1>2, <1>3, <2>1, <2>3, <2>5, <2>6, <2>7 DEF Update, rtVars
  <2> QED  BY <2>8, UpdateLemma
<1>8. CASE /\ items[r].status # "CANCELLED"
           /\ items' = [items EXCEPT ![r] = Closed(running, "FAILED")]
           /\ SaveFails /\ BackToPoll(w)
  <2>1. Fits(r, Closed(running, "FAILED"))
    BY <1>4, <1>5, <1>8, JobLemma
       DEF Fits, NotBegun, Unstarted, ItemStatuses, ClosedStatuses
  <2>2. Aside(r)
    BY <1>1, <1>2, <1>8 DEF Aside, BackToPoll, rtVars
  <2>3. PersistItem(r, Closed(running, "FAILED"), Closed(running, "FAILED"))
    BY <1>8 DEF PersistItem
  <2> QED  BY <1>2, <2>1, <2>2, <2>3, PersistLemma
<1> QED  BY <1>6, <1>7, <1>8 DEF WorkerBegin, running


LEMMA TakeInv ==
  ASSUME ManagerInv, NEW w \in Workers, WorkerTake(w)
  PROVE  QueueingInv' /\ Narrows
<1> USE ManagerAssumption DEF ManagerInv, QueueingInv, ManagerTypeOK, WorkerTake, rtVars
<1>1. ManagerTypeOK'
  BY TailLemma DEF WorkerStates
<1>2. QueueInv'
  BY TailLemma DEF QueueInv
<1>3. ASSUME NEW q \in Runs PROVE ItemInv(q)'
  BY DEF ItemInv
<1>4. ASSUME NEW q \in Runs PROVE SyncInv(q)'
  BY DEF SyncInv, Cancelling
<1>5. ASSUME NEW v \in Workers PROVE WorkerInv(v)'
  BY TailLemma DEF WorkerInv, QueueInv, Committed
<1>6. ASSUME NEW d \in Cancellers PROVE CancelInv(d)'
  BY DEF CancelInv
<1>7. Narrows
  BY TailLemma DEF Narrows, Waiting
<1> QED  BY <1>7, <1>1, <1>2, <1>3, <1>4, <1>5, <1>6

LEMMA StopInv ==
  ASSUME ManagerInv, NEW w \in Workers, WorkerStop(w)
  PROVE  QueueingInv' /\ Narrows
<1> USE ManagerAssumption DEF ManagerInv, QueueingInv, ManagerTypeOK, WorkerStop, rtVars
<1>1. ManagerTypeOK'
  BY DEF WorkerStates
<1>2. QueueInv'
  BY DEF QueueInv
<1>3. ASSUME NEW q \in Runs PROVE ItemInv(q)'
  BY DEF ItemInv
<1>4. ASSUME NEW q \in Runs PROVE SyncInv(q)'
  BY DEF SyncInv, Cancelling
<1>5. ASSUME NEW v \in Workers PROVE WorkerInv(v)'
  BY DEF WorkerInv, Committed
<1>6. ASSUME NEW d \in Cancellers PROVE CancelInv(d)'
  BY DEF CancelInv
<1>7. Narrows
  BY DEF Narrows, Waiting
<1> QED  BY <1>7, <1>1, <1>2, <1>3, <1>4, <1>5, <1>6

LEMMA StartRaisesInv ==
  ASSUME ManagerInv, NEW w \in Workers, WorkerStartRaises(w)
  PROVE  QueueingInv' /\ Narrows
<1> USE ManagerAssumption DEF ManagerInv, QueueingInv, ManagerTypeOK, WorkerStartRaises, StartRunRaises, Goto
<1>1. ManagerTypeOK'
  BY DEF WorkerStates
<1>2. QueueInv'
  BY DEF QueueInv
<1>3. ASSUME NEW q \in Runs PROVE ItemInv(q)'
  BY DEF ItemInv
<1>4. ASSUME NEW q \in Runs PROVE SyncInv(q)'
  BY DEF SyncInv, Cancelling
<1>5. ASSUME NEW v \in Workers PROVE WorkerInv(v)'
  BY DEF WorkerInv, Committed
<1>6. ASSUME NEW d \in Cancellers PROVE CancelInv(d)'
  BY DEF CancelInv
<1>7. Narrows
  BY DEF Narrows, Waiting
<1> QED  BY <1>7, <1>1, <1>2, <1>3, <1>4, <1>5, <1>6

LEMMA ExecutedInv ==
  ASSUME ManagerInv, NEW w \in Workers, WorkerExecuted(w)
  PROVE  QueueingInv' /\ Narrows
<1> USE ManagerAssumption DEF ManagerInv, QueueingInv, ManagerTypeOK, WorkerExecuted, Goto, rtVars
<1>1. ManagerTypeOK'
  BY DEF WorkerStates
<1>2. QueueInv'
  BY DEF QueueInv
<1>3. ASSUME NEW q \in Runs PROVE ItemInv(q)'
  BY DEF ItemInv
<1>4. ASSUME NEW q \in Runs PROVE SyncInv(q)'
  BY DEF SyncInv, Cancelling
<1>5. ASSUME NEW v \in Workers PROVE WorkerInv(v)'
  BY DEF WorkerInv, Committed
<1>6. ASSUME NEW d \in Cancellers PROVE CancelInv(d)'
  BY DEF CancelInv
<1>7. Narrows
  BY DEF Narrows, Waiting
<1> QED  BY <1>7, <1>1, <1>2, <1>3, <1>4, <1>5, <1>6

LEMMA RestoreMarkInv ==
  ASSUME ManagerInv, NEW r \in Runs, RestoreMark(r)
  PROVE  QueueingInv' /\ Narrows
<1> USE ManagerAssumption DEF ManagerInv, QueueingInv, ManagerTypeOK, RestoreMark, Interrupted, Open, rtVars
<1>1. ManagerTypeOK'
  <2>1. db[r] \in Job /\ db' = [db EXCEPT ![r] = Open(db[r], "RECOVERY_REQUIRED")]
    OBVIOUS
  <2>2. Open(db[r], "RECOVERY_REQUIRED") \in Job
    BY <2>1 DEF Job, ItemStatuses
  <2>3. db' \in [Runs -> Job]
    BY <2>1, <2>2
  <2> QED  BY <2>3
<1>2. QueueInv'
  BY DEF QueueInv, Exists
<1>3. ASSUME NEW q \in Runs PROVE ItemInv(q)'
  BY DEF ItemInv, Exists, NotBegun, Job, ActiveStatuses, Unstarted
<1>4. ASSUME NEW q \in Runs PROVE SyncInv(q)'
  BY DEF SyncInv, Cancelling, ClosedStatuses, Job
<1>5. ASSUME NEW v \in Workers PROVE WorkerInv(v)'
  BY DEF WorkerInv, Committed
<1>6. ASSUME NEW d \in Cancellers PROVE CancelInv(d)'
  BY DEF CancelInv
<1>7. Narrows
  BY DEF Narrows, Waiting, Exists, ActiveStatuses, Job
<1> QED  BY <1>7, <1>1, <1>2, <1>3, <1>4, <1>5, <1>6

LEMMA RestoreDoneInv ==
  ASSUME ManagerInv, RestoreDone
  PROVE  QueueingInv' /\ Narrows
<1> USE ManagerAssumption DEF ManagerInv, QueueingInv, ManagerTypeOK, RestoreDone, Interrupted, rtVars
<1>1. ManagerTypeOK'
  OBVIOUS
<1>2. QueueInv'
  BY DEF QueueInv
<1>3. ASSUME NEW q \in Runs PROVE ItemInv(q)'
  BY DEF ItemInv, Exists
<1>4. ASSUME NEW q \in Runs PROVE SyncInv(q)'
  BY DEF SyncInv
<1>5. ASSUME NEW v \in Workers PROVE WorkerInv(v)'
  BY DEF WorkerInv, Committed
<1>6. ASSUME NEW d \in Cancellers PROVE CancelInv(d)'
  BY DEF CancelInv
<1>7. Narrows
  BY DEF Narrows, Waiting
<1> QED  BY <1>7, <1>1, <1>2, <1>3, <1>4, <1>5, <1>6

LEMMA EnqueueInv ==
  ASSUME ManagerInv, NEW r \in Runs, EnqueueRun(r) PROVE QueueingInv'
<1>1. /\ up /\ ~Exists(items[r]) /\ ~Exists(db[r])
      /\ db' = [db EXCEPT ![r] = NewJob] /\ items' = [items EXCEPT ![r] = NewJob]
      /\ queue' = Append(queue, r)
      /\ UNCHANGED <<stop, worker, canceller, up, crashes, dispatched, ackCancelled, faults>>
  BY DEF EnqueueRun, CanAdmit, Saved
<1>2. reserved' = reserved \union {r}
  BY DEF EnqueueRun, ReserveForAdmission, ReserveRunId, rtVars
<1> USE ManagerAssumption DEF ManagerInv, QueueingInv, ManagerTypeOK
<1>3. NewJob \in Job /\ NewJob.status = "QUEUED" /\ ~NewJob.started /\ ~NewJob.ended
  BY DEF NewJob, Job, ItemStatuses, ActiveStatuses
<1>4. ~Contains(queue, r) /\ \A w \in Workers : worker[w].run # r
  BY <1>1 DEF QueueInv, WorkerInv
<1>5. /\ dispatched[r] = 0 /\ r \notin ackCancelled
      /\ \A c \in Cancellers : canceller[c].run # r
  <2>1. db[r].status = "NONE" /\ items[r].status = "NONE" /\ ItemInv(r)
    BY <1>1 DEF Exists
  <2>2. dispatched[r] = 0 /\ r \notin ackCancelled
    BY <2>1 DEF ItemInv, NotBegun
  <2>3. \A c \in Cancellers : canceller[c].run # r
    BY <2>1 DEF CancelInv, NotBegun
  <2> QED  BY <2>2, <2>3
<1>6. ManagerTypeOK'
  BY <1>1, <1>3, AppendLemma
<1>7. QueueInv'
  BY <1>1, <1>2, <1>3, <1>4, <1>5, AppendLemma DEF QueueInv, Exists
<1>8. ASSUME NEW q \in Runs PROVE ItemInv(q)' /\ SyncInv(q)'
  <2>1. CASE q = r
    BY <1>1, <1>3, <1>5, <2>1 DEF ItemInv, SyncInv, Exists, NotBegun, ClosedStatuses
  <2>2. CASE q # r
    <3>1. items'[q] = items[q] /\ db'[q] = db[q] /\ (Cancelling(q)' <=> Cancelling(q))
      BY <1>1, <2>2 DEF Cancelling
    <3> QED  BY <1>1, <3>1 DEF ItemInv, SyncInv
  <2> QED  BY <2>1, <2>2
<1>9. ASSUME NEW v \in Workers PROVE WorkerInv(v)'
  BY <1>1, <1>2, <1>3, <1>4 DEF WorkerInv, Exists, Committed
<1>10. ASSUME NEW c \in Cancellers PROVE CancelInv(c)'
  BY <1>1, <1>5 DEF CancelInv
<1> QED  BY <1>6, <1>7, <1>8, <1>9, <1>10

LEMMA EnqueueFailsInv ==
  ASSUME ManagerInv, NEW r \in Runs, EnqueueRunFails(r) PROVE QueueingInv' /\ Narrows
<1>1. /\ faults' = faults + 1
      /\ UNCHANGED <<items, queue, stop, worker, canceller, up, crashes, dispatched,
                     ackCancelled, db>>
  BY DEF EnqueueRunFails, SaveFails
<1>2. reserved' = reserved \union {r}
  BY DEF EnqueueRunFails, ReserveForAdmission, ReserveRunId, rtVars
<1> USE ManagerAssumption DEF ManagerInv, QueueingInv, ManagerTypeOK
<1>3. ManagerTypeOK' /\ faults' # 0
  BY <1>1
<1>4. QueueInv'
  BY <1>1, <1>2 DEF QueueInv
<1>5. ASSUME NEW q \in Runs PROVE ItemInv(q)' /\ SyncInv(q)'
  BY <1>1, <1>3 DEF ItemInv, SyncInv, Cancelling
<1>6. ASSUME NEW v \in Workers PROVE WorkerInv(v)'
  BY <1>1, <1>2 DEF WorkerInv
<1>7. ASSUME NEW c \in Cancellers PROVE CancelInv(c)'
  BY <1>1 DEF CancelInv
<1>8. Narrows
  BY <1>1 DEF Narrows, Waiting
<1> QED  BY <1>8, <1>3, <1>4, <1>5, <1>6, <1>7

LEMMA StartRunInv ==
  ASSUME ManagerInv, NEW w \in Workers, WorkerStartRun(w) PROVE QueueingInv'
<1> DEFINE r == worker[w].run
<1>1. /\ worker[w].pc = "start" /\ Goto(w, "exec") /\ reserved' = reserved \ {r}
      /\ dispatched' = [dispatched EXCEPT ![r] = @ + 1]
      /\ UNCHANGED <<items, queue, stop, canceller, db, up, faults, crashes, ackCancelled>>
  BY DEF WorkerStartRun, StartRun
<1>2. up /\ r \in Runs /\ r \notin ackCancelled
  BY <1>1, HeldLemma DEF Committed
<1> USE ManagerAssumption DEF ManagerInv, QueueingInv, ManagerTypeOK
<1>3. dispatched[r] = 0 /\ db[r].started
  BY <1>1 DEF WorkerInv
<1>4. dispatched' = [dispatched EXCEPT ![r] = 1]
  BY <1>1, <1>2, <1>3
<1>5. worker' = [worker EXCEPT ![w].pc = "exec"]
  BY <1>1 DEF Goto
<1>6. ManagerTypeOK'
  <2>1. dispatched' \in [Runs -> Nat]
    BY <1>4
  <2>2. worker' \in [Workers -> WorkerStates]
    BY <1>5 DEF WorkerStates
  <2> QED  BY <1>1, <2>1, <2>2
<1>7. QueueInv'
  BY <1>1, <1>2, <1>4, <1>5 DEF QueueInv
<1>8. ASSUME NEW q \in Runs PROVE ItemInv(q)' /\ SyncInv(q)'
  BY <1>1, <1>2, <1>3, <1>4 DEF ItemInv, SyncInv, Cancelling
<1>9. ASSUME NEW v \in Workers PROVE WorkerInv(v)'
  BY <1>1, <1>2, <1>4, <1>5 DEF WorkerInv, Committed
<1>10. ASSUME NEW c \in Cancellers PROVE CancelInv(c)'
  BY <1>1 DEF CancelInv
<1> QED  BY <1>6, <1>7, <1>8, <1>9, <1>10

LEMMA CancelBeginInv ==
  ASSUME ManagerInv, NEW c \in Cancellers, NEW r \in Runs, CancelBegin(c, r)
  PROVE  QueueingInv' /\ Narrows
<1> DEFINE job == [items[r] EXCEPT !.status = "CANCELLED"]
           rec == [pc |-> "signal", run |-> r, prev |-> items[r].status]
<1>1. /\ up /\ canceller[c].pc = "idle" /\ items[r].status \in ActiveStatuses \ Unstarted
      /\ canceller' = [canceller EXCEPT ![c] = rec]
      /\ items' = [items EXCEPT ![r] = job]
      /\ UNCHANGED <<rtVars, queue, stop, worker, db, up, faults, crashes, dispatched,
                     ackCancelled>>
  BY DEF CancelBegin
<1> USE ManagerAssumption DEF ManagerInv, QueueingInv, ManagerTypeOK
<1>2. /\ job \in Job /\ job.status = "CANCELLED"
      /\ job.started = items[r].started /\ job.ended = items[r].ended
  <2>1. items[r] \in Job
    OBVIOUS
  <2> QED  BY <2>1 DEF Job, ItemStatuses, ClosedStatuses
<1>3. rec \in CancelStates
  BY <1>1 DEF ItemStatuses, CancelStates
<1>4. rec.pc = "signal" /\ rec.run = r /\ rec.prev = items[r].status
  OBVIOUS
<1>5. r \notin ackCancelled /\ canceller[c].run = NoRun
  BY <1>1 DEF ItemInv, CancelInv, ActiveStatuses
<1> HIDE DEF job, rec
<1>6. ManagerTypeOK'
  BY <1>1, <1>2, <1>3
<1>7. QueueInv'
  BY <1>1 DEF QueueInv, rtVars
<1>8. ASSUME NEW q \in Runs PROVE ItemInv(q)' /\ SyncInv(q)'
  <2>1. CASE q = r
    <3>1. items'[r] = job /\ canceller'[c] = rec
      BY <1>1
    <3>2. Cancelling(r)'
      BY <1>4, <3>1 DEF Cancelling
    <3>3. items[r].status # "NONE" /\ items[r].status \notin ClosedStatuses
      BY <1>1 DEF ActiveStatuses, ClosedStatuses
    <3> QED  BY <1>1, <1>2, <1>5, <2>1, <3>1, <3>2, <3>3
                DEF ItemInv, SyncInv, Exists, NotBegun, Unstarted, ClosedStatuses
  <2>2. CASE q # r
    <3>1. items'[q] = items[q]
      BY <1>1, <2>2
    <3>2. Cancelling(q)' <=> Cancelling(q)
      BY <1>1, <1>4, <1>5, <2>2 DEF Cancelling
    <3> QED  BY <1>1, <3>1, <3>2 DEF ItemInv, SyncInv
  <2> QED  BY <2>1, <2>2
<1>9. ASSUME NEW v \in Workers PROVE WorkerInv(v)'
  <2>1. \A q \in Runs : items'[q].status = items[q].status \/ items'[q].status = "CANCELLED"
    BY <1>1, <1>2
  <2> QED  BY <1>1, <2>1 DEF WorkerInv, Committed, NotBegun, Unstarted, rtVars
<1>10. ASSUME NEW d \in Cancellers PROVE CancelInv(d)'
  BY <1>1, <1>2, <1>4, <1>5 DEF CancelInv, NotBegun, Unstarted
<1>11. Narrows
  BY <1>1 DEF Narrows, Waiting
<1> QED  BY <1>11, <1>6, <1>7, <1>8, <1>9, <1>10

LEMMA CancelSignalInv ==
  ASSUME ManagerInv, NEW c \in Cancellers, NEW x \in BOOLEAN, CancelSignal(c, x)
  PROVE  QueueingInv' /\ Narrows
<1>1. /\ canceller[c].pc = "signal"
      /\ UNCHANGED <<reserved, items, queue, stop, worker, db, up, faults, crashes,
                     dispatched, ackCancelled>>
  BY DEF CancelSignal, CancelRun
<1>2. PICK p \in {"confirm", "rollback"} : canceller' = [canceller EXCEPT ![c].pc = p]
  BY DEF CancelSignal
<1> USE ManagerAssumption DEF ManagerInv, QueueingInv, ManagerTypeOK
<1>3. ManagerTypeOK'
  BY <1>1, <1>2 DEF CancelStates
<1>4. QueueInv'
  BY <1>1 DEF QueueInv
<1>5. ASSUME NEW q \in Runs PROVE ItemInv(q)' /\ SyncInv(q)'
  <2>1. Cancelling(q)' <=> Cancelling(q)
    BY <1>2 DEF Cancelling
  <2> QED  BY <1>1, <2>1 DEF ItemInv, SyncInv
<1>6. ASSUME NEW v \in Workers PROVE WorkerInv(v)'
  BY <1>1 DEF WorkerInv
<1>7. ASSUME NEW d \in Cancellers PROVE CancelInv(d)'
  BY <1>1, <1>2 DEF CancelInv
<1>8. Narrows
  BY <1>1 DEF Narrows, Waiting
<1> QED  BY <1>8, <1>3, <1>4, <1>5, <1>6, <1>7

LEMMA CrashKeepsInv == ASSUME ManagerInv, Crash PROVE QueueingInv' /\ Narrows
<1>1. /\ items' = [r \in Runs |-> NoJob] /\ queue' = <<>> /\ stop' = FALSE /\ up' = FALSE
      /\ worker' = [w \in Workers |-> IdleWorker]
      /\ canceller' = [c \in Cancellers |-> IdleCancel]
      /\ crashes' = crashes + 1
      /\ UNCHANGED <<db, faults, dispatched, ackCancelled>>
  BY DEF Crash
<1> USE ManagerAssumption DEF ManagerInv, QueueingInv, ManagerTypeOK
<1>2. NoJob \in Job /\ NoJob.status = "NONE" /\ ~NoJob.started /\ ~NoJob.ended
  BY DEF NoJob, Job, ItemStatuses
<1>3. ManagerTypeOK'
  <2>1. IdleWorker \in WorkerStates
    BY DEF IdleWorker, WorkerStates
  <2>2. IdleCancel \in CancelStates
    BY DEF IdleCancel, CancelStates, ItemStatuses
  <2>3. items' \in [Runs -> Job] /\ queue' \in Seq(Runs)
    BY <1>1, <1>2
  <2>4. crashes' \in Nat
    BY <1>1
  <2> QED  BY <1>1, <2>1, <2>2, <2>3, <2>4
<1>4. QueueInv'
  <2>1. \A r \in Runs : ~Contains(<<>>, r)
    BY DEF Contains
  <2>2. IsInjective(<<>>)
    BY DEF IsInjective
  <2> QED  BY <1>1, <2>1, <2>2 DEF QueueInv
<1>5. ASSUME NEW q \in Runs PROVE ItemInv(q)' /\ SyncInv(q)'
  BY <1>1, <1>2 DEF ItemInv, SyncInv, ClosedStatuses
<1>6. ASSUME NEW v \in Workers PROVE WorkerInv(v)'
  BY <1>1 DEF WorkerInv, IdleWorker, Committed
<1>7. ASSUME NEW d \in Cancellers PROVE CancelInv(d)'
  BY <1>1 DEF CancelInv, IdleCancel
<1>8. Narrows
  BY <1>1 DEF Narrows, Waiting, Contains, IdleWorker
<1> QED  BY <1>8, <1>3, <1>4, <1>5, <1>6, <1>7

\* A step of the runtime, or no step at all, leaves what the manager relies on.
LEMMA UnchangedInv ==
  ASSUME ManagerInv, UNCHANGED <<reserved, mgrVars>> PROVE QueueingInv' /\ Narrows
<1> USE DEF ManagerInv, QueueingInv, ManagerTypeOK, mgrVars
<1>1. ManagerTypeOK' /\ QueueInv'
  BY DEF QueueInv
<1>2. ASSUME NEW q \in Runs PROVE ItemInv(q)' /\ SyncInv(q)'
  BY DEF ItemInv, SyncInv, Cancelling
<1>3. ASSUME NEW v \in Workers PROVE WorkerInv(v)'
  BY DEF WorkerInv
<1>4. ASSUME NEW d \in Cancellers PROVE CancelInv(d)'
  BY DEF CancelInv
<1>5. Narrows
  BY DEF Narrows, Waiting
<1> QED  BY <1>5, <1>1, <1>2, <1>3, <1>4

LEMMA RuntimeStepInv ==
  ASSUME ManagerInv, NEW r \in Runs, RuntimeStep(r) PROVE QueueingInv' /\ Narrows
<1>1. UNCHANGED reserved
  <2>1. CASE Executor(r)
    BY <2>1 DEF Executor, CheckCancellation, SpecialistStage, FinalCmoStage, StageRaises,
        HandleException, ResearchStage, CompleteDecide, CompleteAssign, CompleteMemory,
        CompleteMemoryRaises, CompleteSettle, CompleteSeal, CompleteRetire
  <2>2. CASE Operator(r)
    BY <2>2 DEF Operator, CancelRun, PauseRun, ResumeRun, PublishBegin, PublishEnd
  <2> QED  BY <2>1, <2>2 DEF RuntimeStep
<1> QED  BY <1>1, UnchangedInv DEF RuntimeStep

-----------------------------------------------------------------------------
(* The invariant and the theorems.                                          *)

LEMMA ManagerInitInv == Init => ManagerInv
<1> SUFFICES ASSUME Init PROVE ManagerInv
  OBVIOUS
<1>1. RuntimeInv
  BY InitInv DEF Init
<1> USE ManagerAssumption DEF Init
<1>2. NoJob \in Job /\ NoJob.status = "NONE" /\ ~NoJob.started /\ ~NoJob.ended
  BY DEF NoJob, Job, ItemStatuses
<1>3. ManagerTypeOK
  <2>1. IdleWorker \in WorkerStates
    BY DEF IdleWorker, WorkerStates
  <2>2. IdleCancel \in CancelStates
    BY DEF IdleCancel, CancelStates, ItemStatuses
  <2>3. items \in [Runs -> Job] /\ db \in [Runs -> Job] /\ queue \in Seq(Runs)
    BY <1>2
  <2>4. dispatched \in [Runs -> Nat] /\ faults \in Nat /\ crashes \in Nat
    OBVIOUS
  <2> QED  BY <2>1, <2>2, <2>3, <2>4 DEF ManagerTypeOK
<1>4. QueueInv
  BY DEF QueueInv, IsInjective, Contains
<1>5. ASSUME NEW q \in Runs PROVE ItemInv(q) /\ SyncInv(q)
  BY <1>2 DEF ItemInv, SyncInv, Exists, ClosedStatuses
<1>6. ASSUME NEW v \in Workers PROVE WorkerInv(v)
  BY DEF WorkerInv, IdleWorker, Committed
<1>7. ASSUME NEW d \in Cancellers PROVE CancelInv(d)
  BY DEF CancelInv, IdleCancel
<1> QED  BY <1>1, <1>3, <1>4, <1>5, <1>6, <1>7 DEF ManagerInv, QueueingInv

\* Every step of the manager is a step of the runtime, a crash of it, or leaves
\* it alone.
LEMMA RuntimePart == ManagerInv /\ [Next]_vars => RuntimeInv'
<1> SUFFICES ASSUME ManagerInv, [Next]_vars PROVE RuntimeInv'
  OBVIOUS
<1>0. RuntimeInv /\ reserved \subseteq Runs
  BY DEF ManagerInv, RuntimeInv, RuntimeTypeOK
<1>1. ASSUME NEW w \in Workers, WorkerStep(w) PROVE RuntimeInv'
  <2>1. CASE WorkerStartRun(w)
    <3>1. StartRun(worker[w].run) /\ worker[w].run \in Runs
      BY <1>0, <2>1 DEF WorkerStartRun, StartRun
    <3> QED  BY <1>0, <3>1, RegistryKeepsInv DEF Registry
  <2>2. CASE WorkerStartRaises(w)
    <3>1. StartRunRaises(worker[w].run) /\ worker[w].run \in Runs
      BY <1>0, <2>2 DEF WorkerStartRaises, StartRunRaises
    <3> QED  BY <1>0, <3>1, RegistryKeepsInv DEF Registry
  <2>3. CASE UNCHANGED rtVars
    BY <1>0, <2>3, StutterKeepsInv
  <2> QED  BY <1>1, <2>1, <2>2, <2>3
            DEF WorkerStep, WorkerTake, WorkerStop, WorkerBegin, WorkerExecuted,
                WorkerCheckpoints, WorkerFinish, WorkerFailed
<1>2. ASSUME NEW r \in Runs, ManagerRequest(r) PROVE RuntimeInv'
  <2>1. CASE ReserveRunId(r)
    BY <1>0, <2>1, RegistryKeepsInv DEF Registry
  <2>2. CASE UNCHANGED rtVars
    BY <1>0, <2>2, StutterKeepsInv
  <2> QED  BY <1>2, <2>1, <2>2
            DEF ManagerRequest, EnqueueRun, EnqueueRunFails, ReserveForAdmission, SyncItem,
                ResolveRecovery, CancelQueued, CancelBegin, ShutdownFails
<1>3. ASSUME NEW r \in Runs, RuntimeStep(r) PROVE RuntimeInv'
  BY <1>0, <1>3, ExecutorKeepsInv, OperatorsKeepInv DEF RuntimeStep
<1>4. ASSUME NEW c \in Cancellers, CancelStep(c) PROVE RuntimeInv'
  <2>1. CASE \E raises \in BOOLEAN : CancelSignal(c, raises)
    <3>1. CancelRun(canceller[c].run) /\ canceller[c].pc = "signal"
      BY <2>1 DEF CancelSignal
    <3>2. canceller[c].run \in Runs
      BY <3>1, CancellingLemma
    <3> QED  BY <1>0, <3>1, <3>2, OperatorsKeepInv DEF Operator
  <2>2. CASE UNCHANGED rtVars
    BY <1>0, <2>2, StutterKeepsInv
  <2> QED  BY <1>4, <2>1, <2>2 DEF CancelStep, CancelRollback, CancelConfirm
<1>5. CASE Crash
  BY <1>0, <1>5, LossKeepsInv DEF Crash
<1>6. CASE UNCHANGED rtVars
  BY <1>0, <1>6, StutterKeepsInv
<1>7. (\E x \in BOOLEAN : ShutdownRuns(x)) \/ RestoreDone \/ (\E r \in Runs : RestoreMark(r))
        \/ UNCHANGED vars => UNCHANGED rtVars
  BY DEF ShutdownRuns, RestoreDone, RestoreMark, vars
<1> QED  BY <1>1, <1>2, <1>3, <1>4, <1>5, <1>6, <1>7 DEF Next

LEMMA ManagerNextInv == ManagerInv /\ [Next]_vars => ManagerInv'
<1> SUFFICES ASSUME ManagerInv, [Next]_vars PROVE QueueingInv'
  BY RuntimePart DEF ManagerInv
<1>1. ASSUME NEW w \in Workers, WorkerStep(w) PROVE QueueingInv'
  BY <1>1, TakeInv, StopInv, BeginInv, StartRunInv, StartRaisesInv, ExecutedInv,
     CheckpointsInv, FinishInv, FailedInv DEF WorkerStep
<1>2. ASSUME NEW r \in Runs, ManagerRequest(r) PROVE QueueingInv'
  BY <1>2, EnqueueInv, EnqueueFailsInv, SyncItemInv, ResolveInv, CancelQueuedInv,
     CancelBeginInv, ShutdownFailsInv DEF ManagerRequest
<1>3. ASSUME NEW c \in Cancellers, CancelStep(c) PROVE QueueingInv'
  BY <1>3, CancelSignalInv, RollbackInv, ConfirmInv DEF CancelStep
<1>4. CASE UNCHANGED vars
  BY <1>4, UnchangedInv DEF vars, rtVars
<1> QED  BY <1>1, <1>2, <1>3, <1>4, RuntimeStepInv, RestoreMarkInv, ShutdownInv,
            CrashKeepsInv, RestoreDoneInv DEF Next

\* ManagerInv holds in every reachable state.
THEOREM ManagerInvariance == Spec => []ManagerInv
BY ManagerInitInv, ManagerNextInv, PTL DEF Spec

\* Type correctness of the manager and of the runtime below it.
THEOREM TypeCorrect == Spec => []TypeOK
<1>1. ManagerInv => TypeOK
  BY DEF ManagerInv, QueueingInv, RuntimeInv, TypeOK
<1> QED  BY <1>1, ManagerInvariance, PTL

\* A run id reaches runtime.start_run at most once, over any number of crashes,
\* restarts and failed saves.
THEOREM AtMostOnceTheorem == Spec => []AtMostOneDispatch
<1>1. ManagerInv => AtMostOneDispatch
  BY DEF ManagerInv, QueueingInv, ItemInv, AtMostOneDispatch
<1> QED  BY <1>1, ManagerInvariance, PTL

\* WORKER_STARTED is durable before the runtime can have caused any effect.
THEOREM DurableFirstTheorem == Spec => []StartIsDurableFirst
<1>1. ManagerInv => StartIsDurableFirst
  BY DEF ManagerInv, QueueingInv, ItemInv, NotBegun, StartIsDurableFirst
<1> QED  BY <1>1, ManagerInvariance, PTL

\* Every run waiting for dispatch waits once and still holds its reservation.
THEOREM AdmittedIdTheorem == Spec => []DispatchUnderAdmittedId
<1>1. ManagerInv => DispatchUnderAdmittedId
  <2> SUFFICES ASSUME ManagerInv PROVE DispatchUnderAdmittedId
    OBVIOUS
  <2> USE ManagerAssumption DEF ManagerInv, QueueingInv, QueueInv
  <2>1. ASSUME NEW w \in Workers, worker[w].pc \in {"got", "start"}
        PROVE  /\ worker[w].run \in reserved /\ ~Contains(queue, worker[w].run)
               /\ HeldBy(worker[w].run) = {w}
    <3>1. worker[w].run \in Runs
      BY <2>1, HeldLemma
    <3> QED  BY <2>1, <3>1 DEF WorkerInv, HeldBy
  <2> QED  BY <2>1 DEF DispatchUnderAdmittedId
<1> QED  BY <1>1, ManagerInvariance, PTL

\* A queued run whose cancellation was acknowledged is never dispatched.
THEOREM CancelledTheorem == Spec => []CancelledNeverDispatched
<1>1. ManagerInv => CancelledNeverDispatched
  BY DEF ManagerInv, QueueingInv, ManagerTypeOK, ItemInv, CancelledNeverDispatched
<1> QED  BY <1>1, ManagerInvariance, PTL

\* Without store failures memory and table agree, but for a cancellation in
\* flight.
THEOREM DurableTheorem == Spec => []DurableMatchesMemory
<1>1. ManagerInv => DurableMatchesMemory
  BY DEF ManagerInv, QueueingInv, SyncInv, Cancelling, CancelsOf, DurableMatchesMemory
<1> QED  BY <1>1, ManagerInvariance, PTL

\* completed_at is set exactly for terminal outcomes.
THEOREM EndedTheorem == Spec => []EndedIffTerminal
<1>1. ManagerInv => EndedIffTerminal
  BY DEF ManagerInv, QueueingInv, SyncInv, Cancelling, CancelsOf, EndedIffTerminal
<1> QED  BY <1>1, ManagerInvariance, PTL

-----------------------------------------------------------------------------
(* RunManager implements DispatchOnce.                                      *)

\* Every step but an admission and a dispatch narrows.
LEMMA NarrowsLemma ==
  ASSUME ManagerInv, [Next]_vars
  PROVE  \/ Narrows
         \/ \E r \in Runs : EnqueueRun(r)
         \/ \E w \in Workers : WorkerStartRun(w)
<1>1. ASSUME NEW w \in Workers, WorkerStep(w) PROVE Narrows \/ WorkerStartRun(w)
  BY <1>1, TakeInv, StopInv, BeginInv, StartRaisesInv, ExecutedInv,
     CheckpointsInv, FinishInv, FailedInv DEF WorkerStep
<1>2. ASSUME NEW r \in Runs, ManagerRequest(r) PROVE Narrows \/ EnqueueRun(r)
  BY <1>2, EnqueueFailsInv, SyncItemInv, ResolveInv, CancelQueuedInv,
     CancelBeginInv, ShutdownFailsInv DEF ManagerRequest
<1>3. ASSUME NEW c \in Cancellers, CancelStep(c) PROVE Narrows
  BY <1>3, CancelSignalInv, RollbackInv, ConfirmInv DEF CancelStep
<1>4. CASE UNCHANGED vars
  BY <1>4, UnchangedInv DEF vars, rtVars
<1> QED  BY <1>1, <1>2, <1>3, <1>4, RuntimeStepInv, RestoreMarkInv, ShutdownInv,
            CrashKeepsInv, RestoreDoneInv DEF Next

\* A run that waits has a record.
LEMMA WaitingLemma ==
  ASSUME ManagerInv, NEW r \in Runs, Waiting(r) PROVE Exists(db[r]) /\ dispatched[r] = 0
BY ManagerAssumption DEF Waiting, ManagerInv, QueueingInv, QueueInv, WorkerInv

\* A run id is admitted once and then dispatched once or closed for good.
THEOREM DispatchOnceTheorem == Spec => ImplementsDispatchOnce
<1> DEFINE phase == [r \in Runs |-> Phase(r)]
<1>1. Init => Once!Init
  <2> SUFFICES ASSUME Init, NEW r \in Runs PROVE Phase(r) = "unknown"
    BY DEF Once!Init
  <2>1. ~Waiting(r)
    BY DEF Init, Waiting, Contains, IdleWorker
  <2> QED  BY <2>1 DEF Init, Phase, Exists, NoJob
<1>2. ManagerInv /\ [Next]_vars => [Once!Next]_phase
  <2> SUFFICES ASSUME ManagerInv, [Next]_vars PROVE Once!Next \/ phase' = phase
    OBVIOUS
  <2>1. CASE Narrows
    <3> DEFINE S == {r \in Runs : Phase(r) # Phase(r)'}
    <3>1. ASSUME NEW r \in S PROVE Phase(r) = "admitted" /\ Phase(r)' = "closed"
      BY <2>1, WaitingLemma DEF Narrows, Phase
    <3>2. Once!Close(S)
      BY <3>1 DEF Once!Close
    <3> QED  BY <3>2 DEF Once!Next
  <2>2. ASSUME NEW r \in Runs, EnqueueRun(r) PROVE Once!Next
    <3>1. /\ ~Exists(db[r]) /\ db' = [db EXCEPT ![r] = NewJob] /\ queue' = Append(queue, r)
          /\ UNCHANGED <<worker, dispatched>>
      BY <2>2 DEF EnqueueRun, CanAdmit, Saved
    <3>2. queue \in Seq(Runs) /\ db \in [Runs -> Job] /\ dispatched \in [Runs -> Nat]
      BY DEF ManagerInv, QueueingInv, ManagerTypeOK
    <3>3. dispatched[r] = 0
      BY <3>1, <3>2 DEF ManagerInv, QueueingInv, ItemInv, Exists, NotBegun
    <3>4. Phase(r) = "unknown" /\ Phase(r)' = "admitted"
      BY <3>1, <3>2, <3>3, WaitingLemma, AppendLemma DEF Phase, Waiting
    <3>5. ASSUME NEW q \in Runs, q # r PROVE Phase(q)' = Phase(q)
      <4>1. Waiting(q)' <=> Waiting(q)
        BY <3>1, <3>2, <3>5, AppendLemma DEF Waiting
      <4> QED  BY <3>1, <3>2, <3>5, <4>1 DEF Phase
    <3>6. Once!Admit(r)
      BY <3>4, <3>5 DEF Once!Admit
    <3> QED  BY <3>6 DEF Once!Next
  <2>3. ASSUME NEW w \in Workers, WorkerStartRun(w) PROVE Once!Next
    <3>0. worker[w].pc = "start" /\ worker[w].run \in Runs
      BY <2>3, HeldLemma DEF WorkerStartRun
    <3> PICK r \in Runs : r = worker[w].run
      BY <3>0
    <3>1. /\ worker[w].pc = "start" /\ worker' = [worker EXCEPT ![w].pc = "exec"]
          /\ dispatched' = [dispatched EXCEPT ![r] = @ + 1] /\ UNCHANGED <<queue, db>>
      BY <2>3 DEF WorkerStartRun, Goto
    <3>2. dispatched \in [Runs -> Nat] /\ dispatched[r] = 0
      BY <3>1 DEF ManagerInv, QueueingInv, WorkerInv, ManagerTypeOK
    <3>3. Phase(r) = "admitted" /\ Phase(r)' = "dispatched"
      BY <3>1, <3>2 DEF Phase, Waiting
    <3>4. ASSUME NEW q \in Runs, q # r PROVE Phase(q)' = Phase(q)
      <4>1. worker \in [Workers -> WorkerStates]
        BY DEF ManagerInv, QueueingInv, ManagerTypeOK
      <4>2. Waiting(q)' <=> Waiting(q)
        BY <3>1, <3>4, <4>1 DEF Waiting
      <4> QED  BY <3>1, <3>2, <3>4, <4>2 DEF Phase
    <3>5. phase' = [phase EXCEPT ![r] = "dispatched"]
      BY <3>3, <3>4
    <3>6. Once!Dispatch(r)
      BY <3>3, <3>5 DEF Once!Dispatch
    <3> QED  BY <3>6 DEF Once!Next
  <2> QED  BY <2>1, <2>2, <2>3, NarrowsLemma
<1> QED  BY <1>1, <1>2, ManagerInvariance, PTL DEF Spec, ImplementsDispatchOnce, Once!Spec
=============================================================================
