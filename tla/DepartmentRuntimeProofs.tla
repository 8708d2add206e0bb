----------------------- MODULE DepartmentRuntimeProofs -----------------------
(***************************************************************************)
(* TLAPS proofs about DepartmentRuntime, for every set of run ids, every     *)
(* number of stages and every cache size.  RuntimeInv is the inductive       *)
(* invariant; the properties of the runs follow from it.                     *)
(***************************************************************************)
EXTENDS DepartmentRuntime, TLAPS

Before  == {"idle", "check", "stage", "raised", "research"}
After   == {"seal", "assign", "memory", "finish", "settled", "sealed", "returned",
            "escaped"}
Good    == {"READY_FOR_DEPLOYMENT", "READY_FOR_HUMAN_APPROVAL", "RESEARCH"}
Bad     == {"NOT_READY", "NOT_REACHED", "FAILED", "CANCELLED"}

\* The stage counter stays below FINAL_CMO while a check is pending.
StageInv(r) == pc[r] = "check" => stage[r] < NumStages

\* What links the registry to the executor's position.  A status that is not
\* terminal inside the sealing block, and a context that survives it, come from
\* a publish, so the output is deployment-ready.
LiveInv(r) ==
  /\ pc[r] \notin {"idle"} \union Done => r \in active
  /\ r \in active => pc[r] # "idle" /\ status[r] # "NONE"
  /\ IsCompleted(r) => pc[r] \in {"sealed", "returned"}
  /\ pc[r] \in {"settled", "sealed"} /\ status[r] \notin Terminals =>
       final[r] = "READY_FOR_DEPLOYMENT"
  /\ pc[r] = "returned" /\ r \in active => final[r] = "READY_FOR_DEPLOYMENT"

\* A final_cmo output exists exactly once the stages are left; a bad one comes
\* with a status complete_run will not replace.
FinalInv(r) ==
  /\ pc[r] \in Before => final[r] = "NONE" /\ artifact[r] = "NONE"
  /\ pc[r] \in After  => final[r] \in Good \union Bad
  /\ pc[r] \in After /\ final[r] \in Bad => status[r] \in {"FAILED", "CANCELLED"}
  /\ pc[r] = "assign" /\ final[r] \in Bad => target[r] = "NONE"
  /\ r \in publishing => final[r] = "READY_FOR_DEPLOYMENT"
  /\ artifact[r] = "COMPLETED" => final[r] \in Good

\* An early cancellation stays recorded until a check of execute_run turns it
\* into the final output.
EarlyInv(r) ==
  r \in early =>
    /\ pc[r] \notin {"idle", "research"}
    /\ pc[r] \in Before => /\ r \in cancelled
                           /\ pc[r] = "stage" => stage[r] < NumStages
    /\ pc[r] \in After  => final[r] = "CANCELLED" /\ status[r] = "CANCELLED"
    /\ artifact[r] \in {"NONE", "CANCELLED"}

RunInv(r)  == StageInv(r) /\ LiveInv(r) /\ FinalInv(r) /\ EarlyInv(r)
RuntimeInv == RuntimeTypeOK /\ \A r \in Runs : RunInv(r)

-----------------------------------------------------------------------------
(* The completed-run cache.                                                 *)

\* Inserting into the bounded OrderedDict of complete_run keeps it a sequence
\* of run ids and adds no id but the new one.
LEMMA RememberLemma ==
  ASSUME NEW cache \in Seq(Runs), NEW r \in Runs
  PROVE  /\ Remember(cache, r) \in Seq(Runs)
         /\ \A q \in Runs : Contains(Remember(cache, r), q) => Contains(cache, q) \/ q = r
<1> DEFINE grown == IF Contains(cache, r) THEN cache ELSE Append(cache, r)
<1>1. grown \in Seq(Runs)
  OBVIOUS
<1>2. \A q \in Runs : Contains(grown, q) => Contains(cache, q) \/ q = r
  BY DEF Contains
<1>3. Len(grown) > CacheSize => Len(grown) > 0
  BY <1>1, CacheAssumption
<1>4. ASSUME Len(grown) > 0
      PROVE  /\ Tail(grown) \in Seq(Runs)
             /\ \A q \in Runs : Contains(Tail(grown), q) => Contains(grown, q)
  <2> HIDE DEF grown
  <2> QED  BY <1>1, <1>4 DEF Contains
<1> QED  BY <1>1, <1>2, <1>3, <1>4 DEF Remember

-----------------------------------------------------------------------------
(* RuntimeInv is inductive: one lemma per group of actions.                 *)

LEMMA InitInv == RuntimeInit => RuntimeInv
BY StagesAssumption
   DEF RuntimeInit, RuntimeInv, RuntimeTypeOK, RunInv, StageInv, LiveInv, FinalInv,
       EarlyInv, Statuses, PCs, Finals, Before, After, Good, Bad, Done, IsCompleted, Contains

LEMMA ReservationsKeepInv ==
  ASSUME RuntimeInv, NEW q \in Runs,
         ReserveRunId(q) \/ ReleaseReservation(q) \/ StartRunRaises(q)
  PROVE  RuntimeInv'
BY DEF RuntimeInv, RuntimeTypeOK, RunInv, StageInv, LiveInv, FinalInv, EarlyInv,
       IsCompleted, ReserveRunId, ReleaseReservation, StartRunRaises

LEMMA StartsKeepInv ==
  ASSUME RuntimeInv, NEW q \in Runs, NEW k \in {"workflow", "research"},
         OpenContext(q, k), reserved' \subseteq Runs,
         k = "research" => q \notin cancelled
  PROVE  RuntimeInv'
<1> USE StagesAssumption DEF RuntimeInv, RuntimeTypeOK, RunInv, OpenContext, Available
<1>1. RuntimeTypeOK'
  BY DEF Statuses, PCs, Finals
<1> SUFFICES ASSUME NEW r \in Runs PROVE RunInv(r)'
  BY <1>1
<1>2. StageInv(r)'
  BY DEF StageInv
<1>3. LiveInv(r)'
  BY DEF LiveInv, IsCompleted, Done
<1>4. FinalInv(r)'
  BY DEF FinalInv, LiveInv, Before, After, Good, Bad
<1>5. EarlyInv(r)'
  BY DEF EarlyInv, FinalInv, LiveInv, Before, After
<1> QED  BY <1>2, <1>3, <1>4, <1>5

LEMMA CheckKeepsInv ==
  ASSUME RuntimeInv, NEW q \in Runs, CheckCancellation(q)
  PROVE  RuntimeInv'
<1> USE StagesAssumption DEF RuntimeInv, RuntimeTypeOK, RunInv, CheckCancellation, LeaveStages, IsCancelled
<1>1. RuntimeTypeOK'
  <2>1. CASE IsCancelled(q)
    BY <2>1 DEF Statuses, PCs, Finals
  <2>2. CASE ~IsCancelled(q)
    <3>1. stage[q] + 1 \in 0..(NumStages + 1)
      BY DEF StageInv
    <3>2. stage' \in [Runs -> 0..(NumStages + 1)]
      BY <2>2, <3>1
    <3> QED  BY <2>2, <3>2 DEF Statuses, PCs, Finals
  <2> QED  BY <2>1, <2>2
<1> SUFFICES ASSUME NEW r \in Runs PROVE RunInv(r)'
  BY <1>1
<1>2. StageInv(r)'
  BY DEF StageInv
<1>3. LiveInv(r)'
  BY DEF LiveInv, IsCompleted, Done, Statuses, PCs
<1>4. FinalInv(r)'
  BY DEF FinalInv, LiveInv, Before, After, Good, Bad, Done, PCs
<1>5. EarlyInv(r)'
  BY DEF EarlyInv, FinalInv, LiveInv, Before, After, Bad, Done, PCs
<1> QED  BY <1>2, <1>3, <1>4, <1>5

LEMMA SpecialistKeepsInv ==
  ASSUME RuntimeInv, NEW q \in Runs, NEW ok \in BOOLEAN, SpecialistStage(q, ok)
  PROVE  RuntimeInv'
<1> USE StagesAssumption DEF RuntimeInv, RuntimeTypeOK, RunInv, SpecialistStage
<1>1. RuntimeTypeOK'
  BY DEF Statuses, PCs, Finals, StageInv
<1> SUFFICES ASSUME NEW r \in Runs PROVE RunInv(r)'
  BY <1>1
<1>2. StageInv(r)'
  BY DEF StageInv
<1>3. LiveInv(r)'
  BY DEF LiveInv, IsCompleted, Done, Statuses, PCs
<1>4. FinalInv(r)'
  BY DEF FinalInv, LiveInv, Before, After, Good, Bad, Done, PCs
<1>5. EarlyInv(r)'
  BY DEF EarlyInv, FinalInv, LiveInv, Before, After, Bad, Done, PCs
<1> QED  BY <1>2, <1>3, <1>4, <1>5

LEMMA FinalCmoKeepsInv ==
  ASSUME RuntimeInv, NEW q \in Runs, NEW f \in FinalOutcomes, FinalCmoStage(q, f)
  PROVE  RuntimeInv'
<1> USE StagesAssumption DEF RuntimeInv, RuntimeTypeOK, RunInv, FinalCmoStage, LeaveStages, FinalOutcomes
<1>1. RuntimeTypeOK'
  BY DEF Statuses, PCs, Finals, StageInv
<1> SUFFICES ASSUME NEW r \in Runs PROVE RunInv(r)'
  BY <1>1
<1>2. StageInv(r)'
  BY DEF StageInv
<1>3. LiveInv(r)'
  BY DEF LiveInv, IsCompleted, Done, Statuses, PCs
<1>4. FinalInv(r)'
  BY DEF FinalInv, LiveInv, Before, After, Good, Bad, Done, PCs
<1>5. EarlyInv(r)'
  BY DEF EarlyInv, FinalInv, LiveInv, Before, After, Bad, Done, PCs
<1> QED  BY <1>2, <1>3, <1>4, <1>5

LEMMA RaiseKeepsInv ==
  ASSUME RuntimeInv, NEW q \in Runs, StageRaises(q) \/ HandleException(q)
  PROVE  RuntimeInv'
<1> USE StagesAssumption DEF RuntimeInv, RuntimeTypeOK, RunInv, StageRaises, HandleException, LeaveStages, IsCancelled
<1>1. RuntimeTypeOK'
  BY DEF Statuses, PCs, Finals, StageInv
<1> SUFFICES ASSUME NEW r \in Runs PROVE RunInv(r)'
  BY <1>1
<1>2. StageInv(r)'
  BY DEF StageInv
<1>3. LiveInv(r)'
  <2>1. CASE StageRaises(q)
    BY <2>1 DEF LiveInv, IsCompleted, Done
  <2>2. CASE HandleException(q)
    BY <2>2 DEF LiveInv, IsCompleted, Done
  <2> QED  BY <2>1, <2>2
<1>4. FinalInv(r)'
  BY DEF FinalInv, LiveInv, Before, After, Good, Bad, Done, PCs
<1>5. EarlyInv(r)'
  BY DEF EarlyInv, FinalInv, LiveInv, Before, After, Bad, Done, PCs
<1> QED  BY <1>2, <1>3, <1>4, <1>5

LEMMA ResearchKeepsInv ==
  ASSUME RuntimeInv, NEW q \in Runs, NEW ok \in BOOLEAN, ResearchStage(q, ok)
  PROVE  RuntimeInv'
<1> USE StagesAssumption DEF RuntimeInv, RuntimeTypeOK, RunInv, ResearchStage, LeaveStages
<1>1. RuntimeTypeOK'
  BY DEF Statuses, PCs, Finals, StageInv
<1> SUFFICES ASSUME NEW r \in Runs PROVE RunInv(r)'
  BY <1>1
<1>2. StageInv(r)'
  BY DEF StageInv
<1>3. LiveInv(r)'
  BY DEF LiveInv, IsCompleted, Done, Statuses, PCs
<1>4. FinalInv(r)'
  BY DEF FinalInv, LiveInv, Before, After, Good, Bad, Done, PCs
<1>5. EarlyInv(r)'
  BY DEF EarlyInv, FinalInv, LiveInv, Before, After, Bad, Done, PCs
<1> QED  BY <1>2, <1>3, <1>4, <1>5

LEMMA DecideKeepsInv ==
  ASSUME RuntimeInv, NEW q \in Runs, CompleteDecide(q) \/ CompleteAssign(q)
  PROVE  RuntimeInv'
<1> USE StagesAssumption DEF RuntimeInv, RuntimeTypeOK, RunInv, CompleteDecide, CompleteAssign, SealStatus, Terminals
<1>1. RuntimeTypeOK'
  <2>1. CASE CompleteDecide(q)
    BY <2>1 DEF PCs
  <2>2. CASE CompleteAssign(q)
    BY <2>2 DEF Statuses, PCs
  <2> QED  BY <2>1, <2>2
<1> SUFFICES ASSUME NEW r \in Runs PROVE RunInv(r)'
  BY <1>1
<1>2. StageInv(r)'
  BY DEF StageInv
<1>3. LiveInv(r)'
  <2>1. CASE CompleteDecide(q)
    BY <2>1 DEF LiveInv, IsCompleted, Done
  <2>2. CASE CompleteAssign(q)
    <3>1. status[q] # "NONE" => status'[r] # "NONE" \/ status[r] = "NONE"
      BY <2>2
    <3>2. q \in active /\ status[q] # "NONE"
      BY <2>2 DEF LiveInv, Done
    <3> QED  BY <2>2, <3>1, <3>2 DEF LiveInv, IsCompleted, Done
  <2> QED  BY <2>1, <2>2
<1>4. FinalInv(r)'
  BY DEF FinalInv, LiveInv, Before, After, Good, Bad, Done, PCs
<1>5. EarlyInv(r)'
  BY DEF EarlyInv, FinalInv, LiveInv, Before, After, Bad, Done, PCs
<1> QED  BY <1>2, <1>3, <1>4, <1>5

LEMMA MemoryKeepsInv ==
  ASSUME RuntimeInv, NEW q \in Runs, CompleteMemory(q) \/ CompleteMemoryRaises(q)
  PROVE  RuntimeInv'
<1> USE StagesAssumption DEF RuntimeInv, RuntimeTypeOK, RunInv, CompleteMemory, CompleteMemoryRaises, WritesMemory
<1>1. RuntimeTypeOK'
  BY DEF Statuses, PCs, Finals, StageInv
<1> SUFFICES ASSUME NEW r \in Runs PROVE RunInv(r)'
  BY <1>1
<1>2. StageInv(r)'
  BY DEF StageInv
<1>3. LiveInv(r)'
  BY DEF LiveInv, IsCompleted, Done, Statuses, PCs
<1>4. FinalInv(r)'
  BY DEF FinalInv, LiveInv, Before, After, Good, Bad, Done, PCs
<1>5. EarlyInv(r)'
  BY DEF EarlyInv, FinalInv, LiveInv, Before, After, Bad, Done, PCs
<1> QED  BY <1>2, <1>3, <1>4, <1>5

LEMMA SettleKeepsInv ==
  ASSUME RuntimeInv, NEW q \in Runs, CompleteSettle(q)
  PROVE  RuntimeInv'
<1> USE StagesAssumption DEF RuntimeInv, RuntimeTypeOK, RunInv, CompleteSettle, SealStatus, Terminals
<1>1. RuntimeTypeOK'
  <2>1. status' \in [Runs -> Statuses]
    BY DEF Statuses
  <2>2. pc' \in [Runs -> PCs]
    BY DEF PCs
  <2> QED  BY <2>1, <2>2
<1> SUFFICES ASSUME NEW r \in Runs PROVE RunInv(r)'
  BY <1>1
<1>2. StageInv(r)' /\ LiveInv(r)'
  BY DEF StageInv, LiveInv, IsCompleted, Done
<1>3. FinalInv(r)'
  BY DEF FinalInv, Before, After, Good, Bad
<1>4. EarlyInv(r)'
  BY DEF EarlyInv, FinalInv, Before, After
<1> QED  BY <1>2, <1>3, <1>4

LEMMA SealKeepsInv ==
  ASSUME RuntimeInv, NEW q \in Runs, CompleteSeal(q)
  PROVE  RuntimeInv'
<1> USE StagesAssumption DEF RuntimeInv, RuntimeTypeOK, RunInv, CompleteSeal
<1>1. RuntimeTypeOK'
  <2>1. completed' \in Seq(Runs) /\ artifact' \in [Runs -> Statuses]
    BY RememberLemma
  <2>2. pc' \in [Runs -> PCs]
    BY DEF PCs
  <2> QED  BY <2>1, <2>2
<1> SUFFICES ASSUME NEW r \in Runs PROVE RunInv(r)'
  BY <1>1
<1>2. StageInv(r)' /\ LiveInv(r)'
  BY RememberLemma DEF StageInv, LiveInv, IsCompleted, Done
<1>3. FinalInv(r)'
  BY DEF FinalInv, Before, After, Good, Bad
<1>4. EarlyInv(r)'
  BY DEF EarlyInv, FinalInv, Before, After
<1> QED  BY <1>2, <1>3, <1>4

LEMMA RetireKeepsInv ==
  ASSUME RuntimeInv, NEW q \in Runs, CompleteRetire(q)
  PROVE  RuntimeInv'
<1> USE StagesAssumption DEF RuntimeInv, RuntimeTypeOK, RunInv, CompleteRetire
<1>1. RuntimeTypeOK'
  BY DEF PCs
<1> SUFFICES ASSUME NEW r \in Runs PROVE RunInv(r)'
  BY <1>1
<1>2. StageInv(r)' /\ LiveInv(r)'
  BY DEF StageInv, LiveInv, IsCompleted, Done
<1>3. FinalInv(r)'
  BY DEF FinalInv, Before, After, Good, Bad
<1>4. EarlyInv(r)'
  BY DEF EarlyInv, FinalInv, Before, After
<1> QED  BY <1>2, <1>3, <1>4

LEMMA OperatorKeepsInv ==
  ASSUME RuntimeInv, NEW q \in Runs, CancelRun(q) \/ PauseRun(q) \/ ResumeRun(q)
  PROVE  RuntimeInv'
<1> USE StagesAssumption DEF RuntimeInv, RuntimeTypeOK, RunInv, CancelRun, PauseRun, ResumeRun, BeforeFinalCmo, Terminals
<1>1. RuntimeTypeOK'
  <2>1. CASE CancelRun(q)
    BY <2>1 DEF Statuses
  <2>2. CASE PauseRun(q)
    BY <2>2 DEF Statuses
  <2>3. CASE ResumeRun(q)
    BY <2>3 DEF Statuses, Finals
  <2> QED  BY <2>1, <2>2, <2>3
<1> SUFFICES ASSUME NEW r \in Runs PROVE RunInv(r)'
  BY <1>1
<1>2. StageInv(r)'
  BY DEF StageInv
<1>3. LiveInv(r)'
  BY DEF LiveInv, IsCompleted, Done, Statuses, PCs
<1>4. FinalInv(r)'
  BY DEF FinalInv, LiveInv, Before, After, Good, Bad, Done, PCs
<1>5. EarlyInv(r)'
  <2>1. CASE CancelRun(q)
    <3>1. CASE r \in early
      BY <2>1, <3>1 DEF EarlyInv
    <3>2. CASE r \notin early
      <4> SUFFICES ASSUME r \in early' PROVE EarlyInv(r)'
        BY DEF EarlyInv
      <4>1. r = q /\ r \in active /\ BeforeFinalCmo(r)
        BY <2>1, <3>2
      <4>2. artifact[r] = "NONE" /\ pc[r] \in Before
        BY <4>1 DEF FinalInv, Before, Good
      <4> QED  BY <2>1, <4>1, <4>2 DEF EarlyInv, Before, After
    <3> QED  BY <3>1, <3>2
  <2>2. CASE PauseRun(q) \/ ResumeRun(q)
    BY <2>2 DEF EarlyInv, LiveInv, Before, After, PCs
  <2> QED  BY <2>1, <2>2
<1> QED  BY <1>2, <1>3, <1>4, <1>5

LEMMA PublishKeepsInv ==
  ASSUME RuntimeInv, NEW q \in Runs, PublishBegin(q) \/ (\E receipt \in Receipts : PublishEnd(q, receipt))
  PROVE  RuntimeInv'
<1> USE StagesAssumption DEF RuntimeInv, RuntimeTypeOK, RunInv, PublishBegin, PublishEnd, Receipts
<1>1. RuntimeTypeOK'
  BY DEF Statuses, PCs, Finals, StageInv
<1> SUFFICES ASSUME NEW r \in Runs PROVE RunInv(r)'
  BY <1>1
<1>2. StageInv(r)'
  BY DEF StageInv
<1>3. LiveInv(r)'
  <2>1. CASE PublishBegin(q)
    BY <2>1 DEF LiveInv, IsCompleted, Done
  <2>2. CASE \E receipt \in Receipts : PublishEnd(q, receipt)
    <3>1. q \in publishing /\ UNCHANGED <<active, completed, pc, final>>
      BY <2>2
    <3>2. final[q] = "READY_FOR_DEPLOYMENT"
      BY <3>1 DEF FinalInv
    <3>3. status'[r] = status[r] \/ (r = q /\ status'[r] # "NONE")
      BY <2>2
    <3> QED  BY <3>1, <3>2, <3>3 DEF LiveInv, IsCompleted, Done
  <2> QED  BY <2>1, <2>2
<1>4. FinalInv(r)'
  BY DEF FinalInv, LiveInv, Before, After, Good, Bad, Done, PCs
<1>5. EarlyInv(r)'
  BY DEF EarlyInv, FinalInv, LiveInv, Before, After, Bad, Done, PCs
<1> QED  BY <1>2, <1>3, <1>4, <1>5

LEMMA LossKeepsInv == RuntimeInv /\ LoseRuntime => RuntimeInv'
BY StagesAssumption
   DEF LoseRuntime, RuntimeInv, RuntimeTypeOK, RunInv, StageInv, LiveInv, FinalInv,
       EarlyInv, Statuses, PCs, Finals, Before, After, Good, Bad, Done, IsCompleted, Contains

LEMMA StutterKeepsInv == RuntimeInv /\ UNCHANGED rtVars => RuntimeInv'
BY DEF rtVars, RuntimeInv, RuntimeTypeOK, RunInv, StageInv, LiveInv, FinalInv,
       EarlyInv, IsCompleted

LEMMA ExecutorKeepsInv ==
  ASSUME RuntimeInv, NEW q \in Runs, Executor(q) PROVE RuntimeInv'
BY CheckKeepsInv, SpecialistKeepsInv, FinalCmoKeepsInv, RaiseKeepsInv,
   ResearchKeepsInv, DecideKeepsInv, MemoryKeepsInv, SettleKeepsInv, SealKeepsInv,
   RetireKeepsInv DEF Executor

LEMMA OperatorsKeepInv ==
  ASSUME RuntimeInv, NEW q \in Runs, Operator(q) PROVE RuntimeInv'
BY OperatorKeepsInv, PublishKeepsInv DEF Operator

LEMMA RegistryKeepsInv ==
  ASSUME RuntimeInv, NEW q \in Runs, Registry(q) PROVE RuntimeInv'
<1>1. CASE ReserveRunId(q) \/ ReleaseReservation(q) \/ StartRunRaises(q)
  BY <1>1, ReservationsKeepInv
<1>2. CASE StartRun(q) \/ StartUnreserved(q)
  <2>1. OpenContext(q, "workflow") /\ reserved' \subseteq Runs
    BY <1>2 DEF StartRun, StartUnreserved, RuntimeInv, RuntimeTypeOK
  <2> QED  BY <2>1, StartsKeepInv
<1>3. CASE StartResearch(q)
  <2>1. OpenContext(q, "research") /\ reserved' \subseteq Runs /\ q \notin cancelled
    BY <1>3 DEF StartResearch, RuntimeInv, RuntimeTypeOK
  <2> QED  BY <2>1, StartsKeepInv
<1> QED  BY <1>1, <1>2, <1>3 DEF Registry

LEMMA NextKeepsInv == RuntimeInv /\ [RuntimeNext]_rtVars => RuntimeInv'
BY ExecutorKeepsInv, OperatorsKeepInv, RegistryKeepsInv, StutterKeepsInv DEF RuntimeNext

-----------------------------------------------------------------------------
(* The theorems.                                                            *)

\* RuntimeInv holds in every reachable state of the runtime.
THEOREM RuntimeInvariance == RuntimeSpec => []RuntimeInv
BY InitInv, NextKeepsInv, PTL DEF RuntimeSpec

\* Type correctness of the runtime's registries and contexts.
THEOREM RuntimeTypeCorrect == RuntimeSpec => []RuntimeTypeOK
<1>1. RuntimeInv => RuntimeTypeOK
  BY DEF RuntimeInv
<1> QED  BY <1>1, RuntimeInvariance, PTL

\* A run that executes can be found in _active_contexts, and of the runs that
\* are over only one whose publish was in flight can still be there.
THEOREM RegistryTheorem == RuntimeSpec => []RegistryConsistent
<1>1. RuntimeInv => RegistryConsistent
  BY DEF RuntimeInv, RunInv, LiveInv, RegistryConsistent
<1> QED  BY <1>1, RuntimeInvariance, PTL

\* complete_run never seals COMPLETED over a failed, cancelled, unreached or
\* refused FINAL_CMO, however pause, resume, cancel and publish interleave.
THEOREM NoFalseCompletionTheorem == RuntimeSpec => []NoFalseCompletion
<1>1. RuntimeInv => NoFalseCompletion
  BY DEF RuntimeInv, RunInv, FinalInv, NoFalseCompletion, Good
<1> QED  BY <1>1, RuntimeInvariance, PTL

\* A cancellation requested before FINAL_CMO is what the run ends with.
THEOREM EarlyCancelTheorem == RuntimeSpec => []EarlyCancelWins
<1>1. RuntimeInv => EarlyCancelWins
  BY DEF RuntimeInv, RuntimeTypeOK, RunInv, EarlyInv, EarlyCancelWins
<1> QED  BY <1>1, RuntimeInvariance, PTL

\* While an artifact is cached its status is fixed and nothing runs under its id,
\* although publishes write the status of its context at any moment.
THEOREM SealedTheorem == RuntimeSpec => SealedIsImmutable
<1> DEFINE Fixed == \A r \in Runs : IsCompleted(r) /\ IsCompleted(r)' =>
                      /\ artifact'[r] = artifact[r]
                      /\ r \in active' => r \in active
                      /\ pc'[r] \in {"sealed", "returned"}
<1>1. RuntimeInv /\ RuntimeNext => Fixed
  <2> SUFFICES ASSUME RuntimeInv, NEW q \in Runs, Executor(q) \/ Operator(q) \/ Registry(q),
                      NEW r \in Runs, IsCompleted(r)
               PROVE  /\ artifact'[r] = artifact[r]
                      /\ r \in active' => r \in active
                      /\ pc'[r] \in {"sealed", "returned"}
    BY DEF RuntimeNext
  <2>1. pc[r] \in {"sealed", "returned"}
    BY DEF RuntimeInv, RunInv, LiveInv
  <2>2. CASE Executor(q)
    BY <2>1, <2>2
       DEF Executor, CheckCancellation, SpecialistStage, FinalCmoStage, StageRaises,
           HandleException, ResearchStage, CompleteDecide, CompleteAssign, CompleteMemory,
           CompleteMemoryRaises, CompleteSettle, CompleteSeal, CompleteRetire, LeaveStages,
           RuntimeInv, RuntimeTypeOK
  <2>3. CASE Operator(q)
    BY <2>1, <2>3 DEF Operator, CancelRun, PauseRun, ResumeRun, PublishBegin, PublishEnd
  <2>4. CASE Registry(q)
    BY <2>1, <2>4 DEF Registry, ReserveRunId, ReleaseReservation, StartRun, StartRunRaises,
           StartUnreserved, StartResearch, OpenContext, Available, RuntimeInv, RuntimeTypeOK
  <2> QED  BY <2>2, <2>3, <2>4
<1>2. RuntimeInv /\ [RuntimeNext]_rtVars => [Fixed]_rtVars
  BY <1>1
<1> QED  BY <1>2, RuntimeInvariance, PTL DEF RuntimeSpec, SealedIsImmutable
=============================================================================
