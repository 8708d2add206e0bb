-------------------------- MODULE DepartmentRuntime --------------------------
(***************************************************************************)
(* The run registry and run lifecycle of FiveAgentDepartmentRuntime         *)
(* (runtime/engine.py): run-id reservation, start_run, the six-stage        *)
(* execute_run loop with its cooperative pause/cancel check, the            *)
(* research-only path, request_publish_action and complete_run.             *)
(*                                                                         *)
(* Every run r has one executor thread (the caller of execute_run); pause,  *)
(* resume, cancel and publish arrive from other threads at any moment.      *)
(* context.status is written both under the engine lock (pause, resume,     *)
(* cancel) and outside it (stages, complete_run, request_publish_action),   *)
(* so the unlocked read and the unlocked write of complete_run are two      *)
(* steps.  The engine lock is held over the three steps of the sealing      *)
(* block, which an unlocked write can fall between.  What a stage computes  *)
(* is abstracted to its outcome.                                            *)
(***************************************************************************)
EXTENDS Integers, Sequences, SequencesExt

CONSTANTS
  Runs,        \* run ids
  NumStages,   \* stages of execute_run; 6 in the code, the last is FINAL_CMO
  CacheSize    \* max_completed_runs_cache; 1000 in the code

ASSUME StagesAssumption == NumStages \in Nat /\ NumStages >= 2
ASSUME CacheAssumption  == CacheSize \in Nat

VARIABLES
  reserved,    \* _reserved_run_ids
  active,      \* keys of _active_contexts
  cancelled,   \* _cancelled_run_ids
  completed,   \* keys of _completed_runs, oldest first
  status,      \* context.status of the run's context object
  kind,        \* execute_run or run_research_inquiry
  pc,          \* where the run's executor thread is
  stage,       \* stages entered or skipped so far; NumStages + 1 in complete_run
  final,       \* status field of stage_outputs["final_cmo"]
  bound,       \* final_cmo carries checkpoint provenance (deployment_binding)
  target,      \* the status complete_run decided on before assigning it
  publishing,  \* runs with a request_publish_action in flight
  memory,      \* runs whose decision memory was written
  artifact,    \* status sealed in the DepartmentRunArtifact
  early        \* history: cancellation was requested before FINAL_CMO began

rtVars == <<reserved, active, cancelled, completed, status, kind, pc, stage,
            final, bound, target, publishing, memory, artifact, early>>

Statuses  == {"NONE", "RUNNING", "WAITING_FOR_APPROVAL", "PAUSED",
              "COMPLETED", "FAILED", "CANCELLED"}
Terminals == {"COMPLETED", "FAILED", "CANCELLED"}
Finals    == {"NONE", "READY_FOR_DEPLOYMENT", "READY_FOR_HUMAN_APPROVAL",
              "NOT_READY", "NOT_REACHED", "FAILED", "CANCELLED", "RESEARCH"}
PCs       == {"idle", "check", "stage", "raised", "research", "seal", "assign",
              "memory", "finish", "settled", "sealed", "returned", "escaped"}
Done      == {"returned", "escaped"}

\* Outcomes request_publish_action distinguishes in the receipt it gets back.
Receipts  == {"APPROVAL_REQUIRED", "SUCCESS", "OTHER"}

IsCompleted(r) == Contains(completed, r)

\* The engine lock is free: no executor is inside the sealing block, the only
\* critical section of more than one step.  Everything that takes the lock waits.
LockFree == \A r \in Runs : pc[r] \notin {"settled", "sealed"}

\* reserve_run_id and start_run refuse an id that is live or still cached.
AvailableUnlessLive(r) == r \notin active  \* mutant: the cache is not consulted
Available(r) == r \notin active /\ ~IsCompleted(r)

\* An OrderedDict bounded to CacheSize: re-inserting a key keeps its place,
\* and the oldest keys are evicted.
Remember(cache, r) ==
  LET grown == IF Contains(cache, r) THEN cache ELSE Append(cache, r)
  IN  IF Len(grown) > CacheSize THEN Tail(grown) ELSE grown

\* is_cancelled and the result of _wait_if_paused for the executor of r.
IsCancelledByStatus(r) == status[r] = "CANCELLED"  \* mutant: recorded ids ignored
IsCancelled(r) == r \in cancelled \/ status[r] = "CANCELLED"

\* _wait_if_paused blocks the executor while the run is paused and no
\* cancellation was requested.
BlockedWhilePaused(r) == status[r] = "PAUSED"  \* mutant: cancellation does not wake it
BlockedUnlessRunning(r) ==                    \* mutant: waits for RUNNING
  status[r] # "RUNNING" /\ r \notin cancelled
Blocked(r) == status[r] = "PAUSED" /\ r \notin cancelled

RuntimeInit ==
  /\ reserved   = {}
  /\ active     = {}
  /\ cancelled  = {}
  /\ completed  = <<>>
  /\ status     = [r \in Runs |-> "NONE"]
  /\ kind       = [r \in Runs |-> "workflow"]
  /\ pc         = [r \in Runs |-> "idle"]
  /\ stage      = [r \in Runs |-> 0]
  /\ final      = [r \in Runs |-> "NONE"]
  /\ bound      = [r \in Runs |-> FALSE]
  /\ target     = [r \in Runs |-> "NONE"]
  /\ publishing = {}
  /\ memory     = {}
  /\ artifact   = [r \in Runs |-> "NONE"]
  /\ early      = {}

-----------------------------------------------------------------------------
(* The registry of run ids.                                                 *)

\* reserve_run_id(custom_id, trusted=True), or a fresh random id.
ReserveRunId(r) ==
  /\ LockFree
  /\ Available(r) /\ r \notin reserved
  /\ reserved' = reserved \union {r}
  /\ UNCHANGED <<active, cancelled, completed, status, kind, pc, stage, final,
                 bound, target, publishing, memory, artifact, early>>

ReleaseReservation(r) ==
  /\ LockFree
  /\ r \in reserved
  /\ reserved' = reserved \ {r}
  /\ UNCHANGED <<active, cancelled, completed, status, kind, pc, stage, final,
                 bound, target, publishing, memory, artifact, early>>

\* The part of start_run that builds and registers the context.  An id whose
\* artifact was evicted from the cache may be opened again; a publish still in
\* flight then holds the old context object, which nothing reads any more.
OpenContext(r, k) ==
  /\ LockFree
  /\ Available(r)
  /\ active'   = active \union {r}
  /\ status'   = [status EXCEPT ![r] = "RUNNING"]
  /\ kind'     = [kind EXCEPT ![r] = k]
  /\ pc'       = [pc EXCEPT ![r] = IF k = "workflow" THEN "check" ELSE "research"]
  /\ stage'    = [stage EXCEPT ![r] = 0]
  /\ final'    = [final EXCEPT ![r] = "NONE"]
  /\ bound'    = [bound EXCEPT ![r] = FALSE]
  /\ target'   = [target EXCEPT ![r] = "NONE"]
  /\ artifact' = [artifact EXCEPT ![r] = "NONE"]
  /\ early'    = IF k = "workflow" /\ r \in cancelled
                   THEN early \union {r} ELSE early \ {r}
  /\ publishing' = publishing \ {r}
  /\ UNCHANGED <<cancelled, completed, memory>>

\* start_run(reserved_run_id=r) followed by execute_run: consumes the
\* reservation.
StartRun(r) ==
  /\ r \in reserved
  /\ reserved' = reserved \ {r}
  /\ OpenContext(r, "workflow")

\* start_run(reserved_run_id=r) raising after the reservation was consumed:
\* the id is taken, or the provider registry snapshot failed.
StartRunRaises(r) ==
  /\ LockFree
  /\ r \in reserved
  /\ reserved' = reserved \ {r}
  /\ UNCHANGED <<active, cancelled, completed, status, kind, pc, stage, final,
                 bound, target, publishing, memory, artifact, early>>

\* start_run with a trusted or random id: the reservations are not consulted.
StartUnreserved(r) ==
  /\ OpenContext(r, "workflow")
  /\ UNCHANGED reserved

\* run_research_inquiry up to its intelligence stage; start_run draws a random
\* id, which no caller has reserved or cancelled before.
StartResearch(r) ==
  /\ pc[r] = "idle" /\ r \notin reserved \union cancelled
  /\ OpenContext(r, "research")
  /\ UNCHANGED reserved

-----------------------------------------------------------------------------
(* The executor thread of execute_run.                                      *)

\* The executor leaves the stages with final_cmo.status f for complete_run.
LeaveStages(r, f) ==
  /\ final' = [final EXCEPT ![r] = f]
  /\ pc'    = [pc EXCEPT ![r] = "seal"]

\* _check_cancellation before the first stage and after stages 1 to 5, then
\* the choice of what runs next.  Stages after a failed one are skipped, and a
\* failed run reaches FINAL_CMO only as NOT_REACHED.
CheckCancellation(r) ==
  /\ pc[r] = "check" /\ LockFree /\ ~Blocked(r)
  /\ IF IsCancelled(r)
       THEN /\ status' = [status EXCEPT ![r] = "CANCELLED"]
            /\ LeaveStages(r, "CANCELLED")
            /\ UNCHANGED stage
       ELSE /\ stage' = [stage EXCEPT ![r] = @ + 1]
            /\ IF status[r] # "FAILED"
                 THEN pc' = [pc EXCEPT ![r] = "stage"] /\ UNCHANGED final
                 ELSE IF stage[r] + 1 < NumStages
                        THEN UNCHANGED <<pc, final>>
                        ELSE LeaveStages(r, "NOT_REACHED")
            /\ UNCHANGED status
  /\ UNCHANGED <<reserved, active, cancelled, completed, kind, bound, target,
                 publishing, memory, artifact, early>>

\* A specialist stage returns; it leaves context.status alone on success and
\* writes FAILED when its model call fails.
SpecialistStage(r, ok) ==
  /\ pc[r] = "stage" /\ stage[r] < NumStages
  /\ status' = IF ok THEN status ELSE [status EXCEPT ![r] = "FAILED"]
  /\ pc'     = [pc EXCEPT ![r] = "check"]
  /\ UNCHANGED <<reserved, active, cancelled, completed, kind, stage, final,
                 bound, target, publishing, memory, artifact, early>>

\* execute_stage_final_cmo returns.  Its last checkpoint binds a
\* deployment-ready output only while the run is RUNNING.  No cancellation
\* check follows this stage.
FinalCmoStage(r, f) ==
  /\ pc[r] = "stage" /\ stage[r] = NumStages
  /\ status' = IF f \in {"NOT_READY", "FAILED"}
                 THEN [status EXCEPT ![r] = "FAILED"] ELSE status
  /\ bound'  = [bound EXCEPT ![r] =
                  f = "READY_FOR_DEPLOYMENT" /\ status[r] = "RUNNING"]
  /\ LeaveStages(r, f)
  /\ UNCHANGED <<reserved, active, cancelled, completed, kind, stage, target,
                 publishing, memory, artifact, early>>

FinalOutcomes == {"READY_FOR_DEPLOYMENT", "READY_FOR_HUMAN_APPROVAL",
                  "NOT_READY", "FAILED"}

\* A stage raises; the handler of execute_run catches it.
StageRaises(r) ==
  /\ pc[r] = "stage"
  /\ pc' = [pc EXCEPT ![r] = "raised"]
  /\ UNCHANGED <<reserved, active, cancelled, completed, status, kind, stage,
                 final, bound, target, publishing, memory, artifact, early>>

\* The handler runs _check_cancellation again, so it too waits out a pause.
HandleException(r) ==
  /\ pc[r] = "raised" /\ LockFree /\ ~Blocked(r)
  /\ LET outcome == IF IsCancelled(r) THEN "CANCELLED" ELSE "FAILED"
     IN  /\ status' = [status EXCEPT ![r] = outcome]
         /\ LeaveStages(r, outcome)
  /\ UNCHANGED <<reserved, active, cancelled, completed, kind, stage, bound,
                 target, publishing, memory, artifact, early>>

\* run_research_inquiry: one intelligence stage whose outcome overwrites
\* context.status; there is no cancellation or pause check on this path.
ResearchStage(r, ok) ==
  /\ pc[r] = "research"
  /\ status' = [status EXCEPT ![r] = IF ok THEN "COMPLETED" ELSE "FAILED"]
  /\ LeaveStages(r, IF ok THEN "RESEARCH" ELSE "FAILED")
  /\ UNCHANGED <<reserved, active, cancelled, completed, kind, stage, bound,
                 target, publishing, memory, artifact, early>>

-----------------------------------------------------------------------------
(* complete_run.                                                            *)

\* The terminal status that belongs to a final_cmo output.
SealStatus(f) == IF f \in {"CANCELLED", "FAILED"} THEN f ELSE "COMPLETED"

\* The first status test, made without the lock ...
CompleteDecide(r) ==
  /\ pc[r] = "seal"
  /\ stage'  = [stage EXCEPT ![r] = NumStages + 1]
  /\ target' = [target EXCEPT ![r] =
                  IF status[r] \in {"FAILED", "CANCELLED"}
                    THEN "NONE" ELSE SealStatus(final[r])]
  /\ pc'     = [pc EXCEPT ![r] = "assign"]
  /\ UNCHANGED <<reserved, active, cancelled, completed, status, kind, final,
                 bound, publishing, memory, artifact, early>>

\* ... and the assignment that follows it, also without the lock.
CompleteAssign(r) ==
  /\ pc[r] = "assign"
  /\ status' = IF target[r] = "NONE" THEN status
                                     ELSE [status EXCEPT ![r] = target[r]]
  /\ pc'     = [pc EXCEPT ![r] = "memory"]
  /\ UNCHANGED <<reserved, active, cancelled, completed, kind, stage, final,
                 bound, target, publishing, memory, artifact, early>>

WritesMemory(r) == status[r] = "COMPLETED" /\ final[r] = "READY_FOR_DEPLOYMENT"

CompleteMemory(r) ==
  /\ pc[r] = "memory"
  /\ memory' = IF WritesMemory(r) THEN memory \union {r} ELSE memory
  /\ pc'     = [pc EXCEPT ![r] = "finish"]
  /\ UNCHANGED <<reserved, active, cancelled, completed, status, kind, stage,
                 final, bound, target, publishing, artifact, early>>

\* save_memory raises: the exception leaves complete_run and execute_run, and
\* the context stays registered.
CompleteMemoryRaises(r) ==
  /\ pc[r] = "memory" /\ WritesMemory(r)
  /\ pc' = [pc EXCEPT ![r] = "escaped"]
  /\ UNCHANGED <<reserved, active, cancelled, completed, status, kind, stage,
                 final, bound, target, publishing, memory, artifact, early>>

\* The locked block, which PublishEnd does not wait for: settle the status ...
CompleteSettle(r) ==
  /\ pc[r] = "finish" /\ LockFree
  /\ status' = [status EXCEPT ![r] =
                  IF @ \in Terminals THEN @ ELSE SealStatus(final[r])]
  /\ pc'     = [pc EXCEPT ![r] = "settled"]
  /\ UNCHANGED <<reserved, active, cancelled, completed, kind, stage, final,
                 bound, target, publishing, memory, artifact, early>>

\* ... seal the artifact under whatever the status is by now, and cache it ...
CompleteSeal(r) ==
  /\ pc[r] = "settled"
  /\ artifact'  = [artifact EXCEPT ![r] = status[r]]
  /\ completed' = Remember(completed, r)
  /\ pc'        = [pc EXCEPT ![r] = "sealed"]
  /\ UNCHANGED <<reserved, active, cancelled, status, kind, stage, final, bound,
                 target, publishing, memory, early>>

\* ... and retire the context, unless its status is not terminal any more.
CompleteRetire(r) ==
  /\ pc[r] = "sealed"
  /\ IF status[r] \in Terminals
       THEN active' = active \ {r} /\ cancelled' = cancelled \ {r}
       ELSE UNCHANGED <<active, cancelled>>
  /\ pc' = [pc EXCEPT ![r] = "returned"]
  /\ UNCHANGED <<reserved, completed, status, kind, stage, final, bound, target,
                 publishing, memory, artifact, early>>

-----------------------------------------------------------------------------
(* Operator requests.                                                       *)

\* The stages at which a cancellation still meets a check of execute_run.
BeforeFinalCmo(r) ==
  \/ pc[r] \in {"check", "raised"}
  \/ pc[r] = "stage" /\ stage[r] < NumStages

\* cancel_run: the id is recorded even when there is no such context, in which
\* case the caller is told False.
CancelRun(r) ==
  /\ LockFree
  /\ cancelled' = cancelled \union {r}
  /\ status'    = IF r \in active THEN [status EXCEPT ![r] = "CANCELLED"]
                                  ELSE status
  /\ early'     = IF r \in active /\ BeforeFinalCmo(r)
                    THEN early \union {r} ELSE early
  /\ UNCHANGED <<reserved, active, completed, kind, pc, stage, final, bound,
                 target, publishing, memory, artifact>>

\* Mutant of PauseRun: a failed run can be paused.
PauseEvenFailed(r) ==
  /\ LockFree
  /\ r \in active /\ status[r] \notin {"COMPLETED", "CANCELLED"}
  /\ status' = [status EXCEPT ![r] = "PAUSED"]
  /\ UNCHANGED <<reserved, active, cancelled, completed, kind, pc, stage,
                 final, bound, target, publishing, memory, artifact, early>>

\* pause_run of a non-terminal active run (also reject_gated_action).
PauseRun(r) ==
  /\ LockFree
  /\ r \in active /\ status[r] \notin Terminals
  /\ status' = [status EXCEPT ![r] = "PAUSED"]
  /\ UNCHANGED <<reserved, active, cancelled, completed, kind, pc, stage,
                 final, bound, target, publishing, memory, artifact, early>>

\* The checkpoint of resume_run binds a final_cmo output that was produced
\* while the run was paused.
ResumeRun(r) ==
  /\ LockFree
  /\ r \in active /\ status[r] = "PAUSED"
  /\ status' = [status EXCEPT ![r] = "RUNNING"]
  /\ bound'  = [bound EXCEPT ![r] = @ \/ (/\ stage[r] = NumStages
                                          /\ final[r] = "READY_FOR_DEPLOYMENT")]
  /\ UNCHANGED <<reserved, active, cancelled, completed, kind, pc, stage,
                 final, target, publishing, memory, artifact, early>>

\* request_publish_action on a live context: the parameters are built from a
\* bound, deployment-ready final_cmo, then the tool call runs.
PublishBegin(r) ==
  /\ LockFree
  /\ r \in active /\ r \notin publishing
  /\ final[r] = "READY_FOR_DEPLOYMENT" /\ bound[r]
  /\ publishing' = publishing \union {r}
  /\ UNCHANGED <<reserved, active, cancelled, completed, status, kind, pc,
                 stage, final, bound, target, memory, artifact, early>>

\* The receipt is back and context.status is written without the lock, even if
\* the run was sealed or cancelled meanwhile.
PublishEnd(r, receipt) ==
  /\ r \in publishing
  /\ publishing' = publishing \ {r}
  /\ status' = CASE receipt = "APPROVAL_REQUIRED" ->
                      [status EXCEPT ![r] = "WAITING_FOR_APPROVAL"]
                 [] receipt = "SUCCESS" -> [status EXCEPT ![r] = "RUNNING"]
                 [] receipt = "OTHER"   -> status
  /\ UNCHANGED <<reserved, active, cancelled, completed, kind, pc, stage,
                 final, bound, target, memory, artifact, early>>

\* The process dies: everything but the memory repository is volatile.
LoseRuntime ==
  /\ reserved'   = {}
  /\ active'     = {}
  /\ cancelled'  = {}
  /\ completed'  = <<>>
  /\ status'     = [r \in Runs |-> "NONE"]
  /\ kind'       = [r \in Runs |-> "workflow"]
  /\ pc'         = [r \in Runs |-> "idle"]
  /\ stage'      = [r \in Runs |-> 0]
  /\ final'      = [r \in Runs |-> "NONE"]
  /\ bound'      = [r \in Runs |-> FALSE]
  /\ target'     = [r \in Runs |-> "NONE"]
  /\ publishing' = {}
  /\ artifact'   = [r \in Runs |-> "NONE"]
  /\ early'      = {}
  /\ UNCHANGED memory

-----------------------------------------------------------------------------

Executor(r) ==
  \/ CheckCancellation(r)
  \/ \E ok \in BOOLEAN : SpecialistStage(r, ok)
  \/ \E f \in FinalOutcomes : FinalCmoStage(r, f)
  \/ StageRaises(r)
  \/ HandleException(r)
  \/ \E ok \in BOOLEAN : ResearchStage(r, ok)
  \/ CompleteDecide(r)
  \/ CompleteAssign(r)
  \/ CompleteMemory(r)
  \/ CompleteMemoryRaises(r)
  \/ CompleteSettle(r)
  \/ CompleteSeal(r)
  \/ CompleteRetire(r)

Operator(r) ==
  \/ CancelRun(r)
  \/ PauseRun(r)
  \/ ResumeRun(r)
  \/ PublishBegin(r)
  \/ \E receipt \in Receipts : PublishEnd(r, receipt)

Registry(r) ==
  \/ ReserveRunId(r)
  \/ ReleaseReservation(r)
  \/ StartRun(r)
  \/ StartRunRaises(r)
  \/ StartUnreserved(r)
  \/ StartResearch(r)

RuntimeNext == \E r \in Runs : Executor(r) \/ Operator(r) \/ Registry(r)

RuntimeSpec == RuntimeInit /\ [][RuntimeNext]_rtVars

\* Stages end (model calls carry timeouts) and the executor thread keeps
\* running; operators owe nothing.
RuntimeFairSpec == RuntimeSpec /\ \A r \in Runs : WF_rtVars(Executor(r))

-----------------------------------------------------------------------------
(* Properties.                                                              *)

\* Every variable keeps its type (engine.py registries, RuntimeStatus).
RuntimeTypeOK ==
  /\ reserved \subseteq Runs /\ active \subseteq Runs /\ cancelled \subseteq Runs
  /\ publishing \subseteq Runs /\ memory \subseteq Runs /\ early \subseteq Runs
  /\ completed \in Seq(Runs)
  /\ status   \in [Runs -> Statuses]
  /\ kind     \in [Runs -> {"workflow", "research"}]
  /\ pc       \in [Runs -> PCs]
  /\ stage    \in [Runs -> 0..(NumStages + 1)]
  /\ final    \in [Runs -> Finals]
  /\ bound    \in [Runs -> BOOLEAN]
  /\ target   \in [Runs -> {"NONE"} \union Terminals]
  /\ artifact \in [Runs -> Statuses]

\* A run is registered in _active_contexts from start_run until complete_run
\* retires it, so that get_run and the operator endpoints find every run that
\* executes.  What was sealed stays registered only when FINAL_CMO made the
\* run ready for deployment: no failed or cancelled run is left behind.
RegistryConsistent ==
  \A r \in Runs :
    /\ pc[r] \notin {"idle"} \union Done => r \in active
    /\ r \in active => pc[r] # "idle"
    /\ r \in active /\ (IsCompleted(r) \/ pc[r] = "returned") =>
         /\ pc[r] \in {"sealed", "returned"}
         /\ pc[r] = "returned" => final[r] = "READY_FOR_DEPLOYMENT"

\* complete_run never seals COMPLETED for a run whose stages failed, were
\* cancelled, were not reached or were refused by the authorization gate,
\* whatever pauses, resumes, cancellations and publishes came in between.
NoFalseCompletion ==
  \A r \in Runs : artifact[r] = "COMPLETED" =>
    final[r] \in {"READY_FOR_DEPLOYMENT", "READY_FOR_HUMAN_APPROVAL", "RESEARCH"}

\* A cancellation requested before FINAL_CMO begins (also one requested before
\* the run was started) is always what execute_run ends with: no later stage
\* failure, exception, pause or resume turns it into another outcome.
EarlyCancelWins ==
  \A r \in early : artifact[r] # "NONE" => artifact[r] = "CANCELLED"

\* While an artifact is cached, its sealed status never changes, whatever a
\* late publish writes into the context meanwhile, and nothing runs under its
\* id again: no context is opened, no stage is entered.
SealedIsImmutable ==
  [][\A r \in Runs : IsCompleted(r) /\ IsCompleted(r)' =>
       /\ artifact'[r] = artifact[r]
       /\ r \in active' => r \in active
       /\ pc'[r] \in {"sealed", "returned"}]_rtVars

\* "A COMPLETED run is removed from _active_contexts upon completion"
\* (tests/test_prod_runtime_01_single_run_authority.py).  Refuted: README.md, section 5.
CompletedIsRetired ==
  \A r \in Runs : pc[r] = "returned" /\ artifact[r] = "COMPLETED" => r \notin active

\* "Enforce terminal immutability: CANCELLED or FAILED statuses are preserved"
\* (complete_run): a cancellation recorded for an executing workflow is not
\* overwritten with COMPLETED by the time the artifact is sealed.
CancelledPreserved ==
  \A r \in active \cap cancelled :
    kind[r] = "workflow" /\ pc[r] = "finish" => status[r] \in {"CANCELLED", "FAILED"}

\* The same promise for a run of run_research_inquiry.  Refuted: README.md, section 5.
ResearchCancelPreserved ==
  \A r \in active \cap cancelled :
    kind[r] = "research" /\ pc[r] = "finish" => status[r] \in {"CANCELLED", "FAILED"}

\* A cancelled run stops: cancel_run wakes an executor that waits in
\* _wait_if_paused and execute_run returns.
CancelEventuallyStops ==
  \A r \in Runs : (r \in active \cap cancelled) ~> (pc[r] \in Done)

\* A run that is not left paused for ever comes to an end.
RunEventuallyEnds ==
  \A r \in Runs : <>[](status[r] # "PAUSED") =>
    ((pc[r] \notin {"idle"} \union Done) ~> (pc[r] \in Done))
=============================================================================
