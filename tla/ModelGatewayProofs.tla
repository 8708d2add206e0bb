-------------------------- MODULE ModelGatewayProofs --------------------------
(***************************************************************************)
(* TLAPS proofs about ModelSettings and ModelGateway, for any providers,    *)
(* runs, updates, failing stages and stops of the process.  SettingsInv is  *)
(* the inductive invariant of the settings; what a call adds to it is       *)
(* CallInv, from which the refinement of OneVoice follows step by step.     *)
(***************************************************************************)
EXTENDS ModelGateway, SequenceTheorems, TLAPS

\* Between the file's replacement and the commit the transaction owns disk and registry;
\* at every other stage the registry shows the settings in memory.
Applying == {"register", "policy", "free", "commit", "restore", "restorePolicy"}

\* What the stage of a transaction says of file, memory and registry.
StageInv ==
  /\ tx.pc \notin Applying => live = Compiled(mem)
  /\ tx.pc \in Applying => tx.published /\ disk = tx.new /\ tx.saved = Compiled(mem)
  /\ tx.pc \in {"idle", "stage", "publish", "unstage"} /\ ~torn => disk = mem
  /\ tx.pc \in {"idle", "stage", "publish", "reclaim"} => ~tx.published
  /\ tx.pc = "reclaim" => disk = mem /\ tx.new = mem /\ tx.saved = live
  /\ tx.pc = "register" =>
       \A p \in Present(tx.new) \ tx.todo : live.cred[p] = tx.new.cred[p]
  /\ tx.pc \in {"policy", "free", "commit"} => live.cred = tx.new.cred
  /\ tx.pc \in {"free", "commit"} => live.target = tx.new.target
  /\ tx.pc = "commit" => live = Compiled(tx.new)
  /\ tx.pc = "restorePolicy" => live.cred = tx.saved.cred
  /\ \A p \in Providers : cache[p] \in {Gone, live.cred[p]}

\* Whatever settings, registry or running run asks for was written once and was not
\* reclaimed; while no rollback has failed it is still there.  A version about to be
\* reclaimed is named by nobody.
VaultInv ==
  /\ vault \union undone \union tx.staged \subseteq Providers \X (1 .. versions)
  /\ \A s \in {mem, disk, live, tx.new, tx.saved} : Committed(s) \subseteq vault \union undone
  /\ ~torn => \A s \in {mem, disk, tx.new} : Committed(s) \subseteq vault
  /\ tx.staged \intersect Committed(mem) = {}
  /\ tx.pc \in {"idle", "stage", "reclaim"} => tx.staged = {}
  /\ tx.doomed # {} => tx.pc = "reclaim"
  /\ tx.doomed \intersect Committed(mem) = {}
  /\ \A r \in Pinning \union Active :
       /\ PinnedBy(r) \subseteq vault \union undone
       /\ PinnedBy(r) \intersect tx.doomed = {}

\* Paid models are allowed somewhere only if settings that allow them were published.
ConsentInv ==
  \/ consented
  \/ /\ mem.free /\ disk.free
     /\ live.gwFree /\ live.polFree /\ tx.saved.gwFree /\ tx.saved.polFree
     /\ tx.published => tx.new.free
     /\ \A r \in ModelRuns : pins[r].free

SettingsInv == SettingsTypeOK /\ StageInv /\ VaultInv /\ ConsentInv

\* What a call has said at each point: nothing before a provider answers, and then
\* only what the candidate in front has said.
CallInv ==
  /\ CallTypeOK
  /\ call.pc \in {"idle", "candidate", "gate"} => answer = <<>> /\ call.open = NoProvider
  /\ call.pc \in {"gate"} \union Talking => call.rest # <<>>
  /\ call.pc \in Talking => call.open = Candidate
  /\ call.pc \in {"waiting", "first", "degraded"} => answer = <<>>
  /\ call.pc = "streaming" =>
       answer # <<>> /\ \A i \in DOMAIN answer : answer[i] = <<Candidate, "text">>
  /\ call.pc = "done" => call.open = NoProvider

ModelInv == SettingsInv /\ CallInv /\ PaidNeedsConsent

----------------------------------------------------------------------------
(* The transaction, stage by stage *)

LEMMA UpdateBeginKeeps == ASSUME SettingsInv, NEW u \in Updates, UpdateBegin(u) PROVE SettingsInv'
<1>1. SettingsTypeOK /\ StageInv /\ VaultInv /\ ConsentInv BY DEF SettingsInv
<1>2. SettingsTypeOK'
  <2>1. mem \in SettingsFiles /\ live \in Registries /\ tx \in Transactions /\ pins \in [ModelRuns -> PinnedConfigs]
    BY <1>1 DEF SettingsTypeOK
  <2>2. PICK k \in Credentials :
          tx' = [IdleTx EXCEPT !.pc = IF u.rotate THEN "stage" ELSE "publish",
                   !.new = [rev |-> mem.rev + 1, free |-> u.f, target |-> u.t, cred |-> k],
                   !.rotate = IF u.rotate THEN {u.p} ELSE {}]
    BY <2>1 DEF UpdateBegin, SettingsFiles, Credentials
  <2>3. [rev |-> mem.rev + 1, free |-> u.f, target |-> u.t, cred |-> k] \in SettingsFiles
    BY <2>1, SettingsAssumption DEF UpdateBegin, SettingsFiles
  <2>4. tx' \in Transactions
    BY <2>1, <2>2, <2>3, SettingsAssumption DEF IdleTx, Transactions, Stages, Vaults
  <2> QED BY <1>1, <2>1, <2>4 DEF UpdateBegin, SettingsTypeOK
<1>3. StageInv'
  BY <1>1, <1>2 DEF StageInv, Applying, UpdateBegin, At, IdleTx
<1>4. VaultInv'
  <2>1. /\ \A p \in Providers : tx'.new.cred[p] \in {mem.cred[p], NoRef}
        /\ tx'.saved = live /\ tx'.staged = {} /\ tx'.doomed = {}
    BY <1>1 DEF UpdateBegin, IdleTx, SettingsTypeOK, SettingsFiles, Credentials
  <2>2. Committed(tx'.new) \subseteq Committed(mem) BY <2>1 DEF Committed, Refs, NoRef
  <2> QED BY <1>1, <2>1, <2>2 DEF VaultInv, UpdateBegin, PinnedBy, Pinning, Active
<1>5. ConsentInv'
  BY <1>1, <1>2 DEF ConsentInv, UpdateBegin, IdleTx
<1> QED BY <1>2, <1>3, <1>4, <1>5 DEF SettingsInv

LEMMA DeleteBeginKeeps == ASSUME SettingsInv, NEW p \in Providers, DeleteBegin(p) PROVE SettingsInv'
<1>1. SettingsTypeOK /\ StageInv /\ VaultInv /\ ConsentInv BY DEF SettingsInv
<1>2. SettingsTypeOK'
  <2>1. mem \in SettingsFiles /\ live \in Registries /\ tx \in Transactions /\ pins \in [ModelRuns -> PinnedConfigs]
    BY <1>1 DEF SettingsTypeOK
  <2>2. mem.rev + 1 \in 1 .. MaxRevisions + 1 /\ [mem.cred EXCEPT ![p] = Gone] \in Credentials
    BY <2>1, SettingsAssumption DEF DeleteBegin, SettingsFiles, Credentials
  <2>3. tx' \in Transactions
    BY <2>1, <2>2 DEF DeleteBegin, IdleTx, Transactions, Stages, Vaults, SettingsFiles
  <2> QED BY <1>1, <2>1, <2>3 DEF DeleteBegin, SettingsTypeOK
<1>3. StageInv'
  BY <1>1, <1>2 DEF StageInv, Applying, DeleteBegin, At, IdleTx
<1>4. VaultInv'
  <2>1. /\ \A q \in Providers : tx'.new.cred[q] \in {mem.cred[q], Gone}
        /\ tx'.saved = live /\ tx'.staged = {} /\ tx'.doomed = {}
    BY <1>1 DEF DeleteBegin, IdleTx, SettingsTypeOK, SettingsFiles, Credentials
  <2>2. Committed(tx'.new) \subseteq Committed(mem) BY <2>1 DEF Committed, Refs, Gone
  <2>3. \A s \in {mem, disk, live, tx.new, tx.saved}' : Committed(s) \subseteq vault \union undone
    BY <1>1, <2>1, <2>2 DEF VaultInv, DeleteBegin
  <2>4. ~torn => \A s \in {mem, disk, tx.new}' : Committed(s) \subseteq vault
    BY <1>1, <2>1, <2>2 DEF VaultInv, DeleteBegin
  <2> QED BY <1>1, <2>1, <2>3, <2>4 DEF VaultInv, DeleteBegin, PinnedBy, Pinning, Active
<1>5. ConsentInv'
  BY <1>1, <1>2 DEF ConsentInv, DeleteBegin, IdleTx
<1> QED BY <1>2, <1>3, <1>4, <1>5 DEF SettingsInv

LEMMA SetSecretKeeps == ASSUME SettingsInv, SetSecret PROVE SettingsInv'
<1>1. SettingsTypeOK /\ StageInv /\ VaultInv /\ ConsentInv BY DEF SettingsInv
<1>2. SettingsTypeOK'
  <2>1. mem \in SettingsFiles /\ live \in Registries /\ tx \in Transactions /\ pins \in [ModelRuns -> PinnedConfigs]
    BY <1>1 DEF SettingsTypeOK
  <2>2. versions \in 1 .. MaxVersions /\ versions' \in 1 .. MaxVersions
    BY <1>1, SettingsAssumption DEF SettingsTypeOK, SetSecret
  <2>3. tx.rotate \X {versions'} \in Vaults
    BY <2>1, <2>2 DEF Vaults, Refs, Transactions
  <2>4. [p \in Providers |-> IF p \in tx.rotate THEN versions' ELSE tx.new.cred[p]] \in Credentials
    BY <2>1, <2>2 DEF Transactions, SettingsFiles, Credentials
  <2>5. tx' \in Transactions
    BY <2>1, <2>3, <2>4 DEF SetSecret, Transactions, Stages, SettingsFiles
  <2>6. vault' \in Vaults BY <1>1, <2>3 DEF SetSecret, SettingsTypeOK, Vaults
  <2> QED BY <1>1, <2>1, <2>2, <2>5, <2>6 DEF SetSecret, SettingsTypeOK
<1>3. StageInv'
  BY <1>1, <1>2 DEF StageInv, Applying, SetSecret, At
<1>4. VaultInv'
  <2>1. /\ versions \in Nat /\ versions' = versions + 1
        /\ vault' = vault \union tx'.staged /\ tx'.staged = tx.rotate \X {versions'}
    BY <1>1, SettingsAssumption DEF SetSecret, SettingsTypeOK
  <2>2. /\ \A p \in Providers : tx'.new.cred[p] = IF p \in tx.rotate THEN versions' ELSE tx.new.cred[p]
        /\ tx'.saved = tx.saved /\ tx'.doomed = tx.doomed /\ tx'.pc = "publish" /\ tx.pc = "stage"
    BY <1>1 DEF SetSecret, At, SettingsTypeOK, Transactions, SettingsFiles
  <2>3. Committed(tx'.new) \subseteq Committed(tx.new) \union tx'.staged
    BY <2>1, <2>2 DEF Committed, Refs
  <2>4. (vault \union undone \union tx.staged) \subseteq Providers \X (1 .. versions)
    BY <1>1 DEF VaultInv
  <2>5. vault' \union undone \union tx'.staged \subseteq Providers \X (1 .. versions')
    BY <1>1, <2>1, <2>4 DEF SettingsTypeOK, Transactions
  <2>6. tx'.staged \intersect Committed(mem) = {}
    BY <1>1, <2>1, <2>4 DEF VaultInv
  <2>7. \A s \in {mem, disk, live, tx.new, tx.saved}' : Committed(s) \subseteq vault' \union undone
    BY <1>1, <2>1, <2>2, <2>3 DEF VaultInv, SetSecret
  <2>8. ~torn => \A s \in {mem, disk, tx.new}' : Committed(s) \subseteq vault'
    BY <1>1, <2>1, <2>2, <2>3 DEF VaultInv, SetSecret
  <2> QED BY <1>1, <2>1, <2>2, <2>5, <2>6, <2>7, <2>8
          DEF VaultInv, SetSecret, PinnedBy, Pinning, Active
<1>5. ConsentInv'
  BY <1>1, <1>2 DEF ConsentInv, StageInv, SetSecret, At
<1> QED BY <1>2, <1>3, <1>4, <1>5 DEF SettingsInv

LEMMA PublishKeeps == ASSUME SettingsInv, Publish PROVE SettingsInv'
<1>1. SettingsTypeOK /\ StageInv /\ VaultInv /\ ConsentInv BY DEF SettingsInv
<1>2. SettingsTypeOK'
  BY <1>1, SettingsAssumption DEF Publish, SettingsTypeOK, Transactions, Stages, Present
<1>3. StageInv'
  BY <1>1, <1>2 DEF StageInv, Publish, At
<1>4. VaultInv'
  BY <1>1, <1>2 DEF VaultInv, Publish, At, PinnedBy, Pinning, Active
<1>5. ConsentInv'
  BY <1>1, <1>2 DEF ConsentInv, Publish, SettingsTypeOK, Transactions
<1> QED BY <1>2, <1>3, <1>4, <1>5 DEF SettingsInv

LEMMA StageFailsKeeps == ASSUME SettingsInv, StageFails PROVE SettingsInv'
<1>1. SettingsTypeOK /\ StageInv /\ VaultInv /\ ConsentInv BY DEF SettingsInv
<1>2. SettingsTypeOK'
  BY <1>1, SettingsAssumption DEF StageFails, RollBack, SetFault, SettingsTypeOK,
                                  Transactions, Stages
<1>3. StageInv'
  BY <1>1, <1>2 DEF StageInv, Applying, StageFails, RollBack, SetFault
<1>4. VaultInv'
  BY <1>1, <1>2 DEF VaultInv, StageFails, RollBack, SetFault, PinnedBy, Pinning, Active
<1>5. ConsentInv'
  BY <1>1, <1>2 DEF ConsentInv, StageFails, RollBack, SetFault
<1> QED BY <1>2, <1>3, <1>4, <1>5 DEF SettingsInv

LEMMA RegisterProviderKeeps == ASSUME SettingsInv, NEW p \in Providers, RegisterProvider(p) PROVE SettingsInv'
<1>1. SettingsTypeOK /\ StageInv /\ VaultInv /\ ConsentInv BY DEF SettingsInv
<1>2. SettingsTypeOK'
  BY <1>1, SettingsAssumption DEF RegisterProvider, SettingsTypeOK, Transactions,
                                  SettingsFiles, Registries, Credentials
<1>3. StageInv'
  BY <1>1, <1>2 DEF StageInv, Applying, RegisterProvider, At, SettingsTypeOK, Registries,
                    Credentials
<1>4. VaultInv'
  BY <1>1, <1>2 DEF VaultInv, RegisterProvider, Committed, PinnedBy, Pinning, Active
<1>5. ConsentInv'
  BY <1>1, <1>2 DEF ConsentInv, RegisterProvider
<1> QED BY <1>2, <1>3, <1>4, <1>5 DEF SettingsInv

LEMMA ReconcileKeeps == ASSUME SettingsInv, Reconcile PROVE SettingsInv'
<1>1. SettingsTypeOK /\ StageInv /\ VaultInv /\ ConsentInv BY DEF SettingsInv
<1>2. SettingsTypeOK'
  BY <1>1, SettingsAssumption DEF Reconcile, Evicted, PinnedAdapters, SettingsTypeOK,
                                  Transactions, Stages, SettingsFiles, Registries, Credentials
<1>3. StageInv'
  BY <1>1, <1>2 DEF StageInv, Applying, Reconcile, At, Evicted, Present
<1>4. VaultInv'
  BY <1>1, <1>2 DEF VaultInv, Reconcile, At, Evicted, Committed, PinnedBy, Pinning, Active
<1>5. ConsentInv'
  BY <1>1, <1>2 DEF ConsentInv, Reconcile, Evicted
<1> QED BY <1>2, <1>3, <1>4, <1>5 DEF SettingsInv

LEMMA InstallPolicyKeeps == ASSUME SettingsInv, InstallPolicy PROVE SettingsInv'
<1>1. SettingsTypeOK /\ StageInv /\ VaultInv /\ ConsentInv BY DEF SettingsInv
<1>2. SettingsTypeOK'
  BY <1>1, SettingsAssumption DEF InstallPolicy, SettingsTypeOK, Transactions, Stages,
                                  SettingsFiles, Registries
<1>3. StageInv'
  BY <1>1, <1>2 DEF StageInv, Applying, InstallPolicy, At
<1>4. VaultInv'
  BY <1>1, <1>2 DEF VaultInv, InstallPolicy, At, Committed, PinnedBy, Pinning, Active
<1>5. ConsentInv'
  BY <1>1, <1>2 DEF ConsentInv, InstallPolicy
<1> QED BY <1>2, <1>3, <1>4, <1>5 DEF SettingsInv

LEMMA InstallFreeOnlyKeeps == ASSUME SettingsInv, InstallFreeOnly PROVE SettingsInv'
<1>1. SettingsTypeOK /\ StageInv /\ VaultInv /\ ConsentInv BY DEF SettingsInv
<1>2. SettingsTypeOK'
  BY <1>1, SettingsAssumption DEF InstallFreeOnly, SettingsTypeOK, Transactions, Stages,
                                  SettingsFiles, Registries
<1>3. StageInv'
  BY <1>1, <1>2 DEF StageInv, Applying, InstallFreeOnly, At, SettingsTypeOK, Transactions,
                    Registries, Compiled
<1>4. VaultInv'
  BY <1>1, <1>2 DEF VaultInv, InstallFreeOnly, At, Committed, PinnedBy, Pinning, Active
<1>5. ConsentInv'
  BY <1>1, <1>2 DEF ConsentInv, StageInv, Applying, InstallFreeOnly, At
<1> QED BY <1>2, <1>3, <1>4, <1>5 DEF SettingsInv

LEMMA ApplyFailsKeeps == ASSUME SettingsInv, ApplyFails PROVE SettingsInv'
<1>1. SettingsTypeOK /\ StageInv /\ VaultInv /\ ConsentInv BY DEF SettingsInv
<1>2. SettingsTypeOK'
  BY <1>1, SettingsAssumption DEF ApplyFails, SetFault, SettingsTypeOK, Transactions, Stages
<1>3. StageInv'
  BY <1>1, <1>2 DEF StageInv, Applying, ApplyFails, SetFault
<1>4. VaultInv'
  BY <1>1, <1>2 DEF VaultInv, ApplyFails, SetFault, PinnedBy, Pinning, Active
<1>5. ConsentInv'
  BY <1>1, <1>2 DEF ConsentInv, ApplyFails, SetFault
<1> QED BY <1>2, <1>3, <1>4, <1>5 DEF SettingsInv

LEMMA RestoreRegistryKeeps == ASSUME SettingsInv, RestoreRegistry PROVE SettingsInv'
<1>1. SettingsTypeOK /\ StageInv /\ VaultInv /\ ConsentInv BY DEF SettingsInv
<1>2. SettingsTypeOK'
  BY <1>1, SettingsAssumption DEF RestoreRegistry, PinnedAdapters, SettingsTypeOK,
                                  Transactions, Stages, Registries, Credentials
<1>3. StageInv'
  BY <1>1, <1>2 DEF StageInv, Applying, RestoreRegistry, At
<1>4. VaultInv'
  BY <1>1, <1>2 DEF VaultInv, RestoreRegistry, At, Committed, PinnedBy, Pinning, Active
<1>5. ConsentInv'
  BY <1>1, <1>2 DEF ConsentInv, RestoreRegistry
<1> QED BY <1>2, <1>3, <1>4, <1>5 DEF SettingsInv

LEMMA RestorePolicyKeeps == ASSUME SettingsInv, RestorePolicy PROVE SettingsInv'
<1>1. SettingsTypeOK /\ StageInv /\ VaultInv /\ ConsentInv BY DEF SettingsInv
<1>2. SettingsTypeOK'
  BY <1>1, SettingsAssumption DEF RestorePolicy, RollBack, SettingsTypeOK, Transactions, Stages
<1>3. StageInv'
  BY <1>1, <1>2 DEF StageInv, Applying, RestorePolicy, At, RollBack
<1>4. VaultInv'
  BY <1>1, <1>2 DEF VaultInv, RestorePolicy, At, RollBack, PinnedBy, Pinning, Active
<1>5. ConsentInv'
  BY <1>1, <1>2 DEF ConsentInv, RestorePolicy, RollBack
<1> QED BY <1>2, <1>3, <1>4, <1>5 DEF SettingsInv

LEMMA UnpublishKeeps == ASSUME SettingsInv, Unpublish PROVE SettingsInv'
<1>1. SettingsTypeOK /\ StageInv /\ VaultInv /\ ConsentInv BY DEF SettingsInv
<1>2. SettingsTypeOK'
  BY <1>1, SettingsAssumption DEF Unpublish, SetFault, SettingsTypeOK, Transactions, Stages
<1>3. StageInv'
  BY <1>1, <1>2 DEF StageInv, Applying, Unpublish, At, SetFault
<1>4. VaultInv'
  BY <1>1, <1>2 DEF VaultInv, Unpublish, At, SetFault, PinnedBy, Pinning, Active
<1>5. ConsentInv'
  BY <1>1, <1>2 DEF ConsentInv, Unpublish, SetFault
<1> QED BY <1>2, <1>3, <1>4, <1>5 DEF SettingsInv

LEMMA UnstageKeeps == ASSUME SettingsInv, Unstage PROVE SettingsInv'
<1>1. SettingsTypeOK /\ StageInv /\ VaultInv /\ ConsentInv BY DEF SettingsInv
<1>2. SettingsTypeOK'
  BY <1>1, SettingsAssumption DEF Unstage, SetFault, IdleTx, Vaults, SettingsTypeOK,
                                  Transactions, Stages
<1>3. StageInv'
  BY <1>1, <1>2 DEF StageInv, Applying, Unstage, At, SetFault, IdleTx
<1>4. VaultInv'
  BY <1>1, <1>2 DEF VaultInv, StageInv, Unstage, At, SetFault, IdleTx, PinnedBy, Pinning, Active
<1>5. ConsentInv'
  BY <1>1, <1>2 DEF ConsentInv, Unstage, SetFault, IdleTx
<1> QED BY <1>2, <1>3, <1>4, <1>5 DEF SettingsInv

LEMMA CommitKeeps == ASSUME SettingsInv, Commit PROVE SettingsInv'
<1>1. SettingsTypeOK /\ StageInv /\ VaultInv /\ ConsentInv BY DEF SettingsInv
<1>2. SettingsTypeOK'
  <2>1. mem \in SettingsFiles /\ live \in Registries /\ tx \in Transactions /\ pins \in [ModelRuns -> PinnedConfigs]
    BY <1>1 DEF SettingsTypeOK
  <2>2. tx' \in Transactions
    BY <2>1 DEF Commit, IdleTx, Transactions, Stages, Vaults, Present
  <2>3. cache' \in Credentials /\ pinCache' \in PinnedAdapters
    BY <1>1 DEF Commit, SettingsTypeOK, Credentials, PinnedAdapters
  <2> QED BY <1>1, <2>1, <2>2, <2>3 DEF Commit, SettingsTypeOK, Transactions
<1>3. StageInv'
  BY <1>1, <1>2 DEF StageInv, Applying, Commit, At, IdleTx
<1>4. VaultInv'
  <2>1. /\ tx'.new = tx.new /\ tx'.saved = live /\ tx'.staged = {} /\ tx'.doomed = {}
        /\ mem' = tx.new /\ disk' = tx.new /\ live.cred = tx.new.cred
    BY <1>1 DEF Commit, At, IdleTx, StageInv, Applying
  <2> QED BY <1>1, <2>1 DEF VaultInv, Commit, PinnedBy, Pinning, Active
<1>5. ConsentInv'
  BY <1>1, <1>2 DEF ConsentInv, StageInv, Applying, Commit, At
<1> QED BY <1>2, <1>3, <1>4, <1>5 DEF SettingsInv

LEMMA ReclaimCheckKeeps == ASSUME SettingsInv, NEW ref \in Refs, ReclaimCheck(ref) PROVE SettingsInv'
<1>1. SettingsTypeOK /\ StageInv /\ VaultInv /\ ConsentInv BY DEF SettingsInv
<1>2. SettingsTypeOK'
  BY <1>1, SettingsAssumption DEF ReclaimCheck, Unlooked, Reclaimable, Vaults, SettingsTypeOK,
                                  Transactions
<1>3. StageInv'
  BY <1>1, <1>2 DEF StageInv, ReclaimCheck, Unlooked, Reclaimable
<1>4. VaultInv'
  <2>1. /\ tx'.new = tx.new /\ tx'.saved = tx.saved /\ tx'.staged = tx.staged
        /\ tx'.pc = tx.pc /\ tx.pc = "reclaim"
        /\ tx'.doomed = IF Reclaimable(ref) THEN {ref} ELSE {}
    BY <1>1 DEF ReclaimCheck, At
  <2>2. tx'.doomed \intersect Committed(mem) = {} BY <2>1 DEF Reclaimable
  <2>3. \A r \in Active : PinnedBy(r) \intersect tx'.doomed = {} BY <2>1 DEF Reclaimable
  <2>4. Pinning = {} BY DEF ReclaimCheck
  <2> QED BY <1>1, <2>1, <2>2, <2>3, <2>4
          DEF VaultInv, ReclaimCheck, PinnedBy, Pinning, Active
<1>5. ConsentInv'
  BY <1>1, <1>2 DEF ConsentInv, ReclaimCheck, Unlooked, Reclaimable
<1> QED BY <1>2, <1>3, <1>4, <1>5 DEF SettingsInv

LEMMA ReclaimDeleteKeeps == ASSUME SettingsInv, ReclaimDelete PROVE SettingsInv'
<1>1. SettingsTypeOK /\ StageInv /\ VaultInv /\ ConsentInv BY DEF SettingsInv
<1>2. SettingsTypeOK'
  BY <1>1, SettingsAssumption DEF ReclaimDelete, SetFault, Vaults, PinnedAdapters,
                                  SettingsTypeOK, Transactions
<1>3. StageInv'
  BY <1>1, <1>2 DEF StageInv, ReclaimDelete, SetFault
<1>4. VaultInv'
  BY <1>1, <1>2 DEF VaultInv, StageInv, ReclaimDelete, SetFault, Compiled, Committed,
                    PinnedBy, Pinning, Active
<1>5. ConsentInv'
  BY <1>1, <1>2 DEF ConsentInv, ReclaimDelete, SetFault
<1> QED BY <1>2, <1>3, <1>4, <1>5 DEF SettingsInv

LEMMA ReclaimEndKeeps == ASSUME SettingsInv, ReclaimEnd PROVE SettingsInv'
<1>1. SettingsTypeOK /\ StageInv /\ VaultInv /\ ConsentInv BY DEF SettingsInv
<1>2. SettingsTypeOK'
  BY <1>1, SettingsAssumption DEF ReclaimEnd, IdleTx, SettingsTypeOK, Transactions, Stages
<1>3. StageInv'
  BY <1>1, <1>2 DEF StageInv, Applying, ReclaimEnd, At, IdleTx
<1>4. VaultInv'
  BY <1>1, <1>2 DEF VaultInv, ReclaimEnd, IdleTx, PinnedBy, Pinning, Active
<1>5. ConsentInv'
  BY <1>1, <1>2 DEF ConsentInv, ReclaimEnd, IdleTx
<1> QED BY <1>2, <1>3, <1>4, <1>5 DEF SettingsInv

LEMMA StartupKeeps == ASSUME SettingsInv, Startup PROVE SettingsInv'
<1>1. SettingsTypeOK /\ StageInv /\ VaultInv /\ ConsentInv BY DEF SettingsInv
<1>2. SettingsTypeOK'
  BY <1>1, SettingsAssumption DEF Startup, Unpinned, Vaults, PinnedAdapters, SettingsTypeOK,
                                  Transactions, Stages, SettingsFiles, Registries,
                                  Credentials, PinnedConfigs, Compiled, Present
<1>3. StageInv'
  BY <1>1, <1>2 DEF StageInv, Applying, Startup, Unpinned
<1>4. VaultInv'
  BY <1>1, <1>2 DEF VaultInv, Startup, Unpinned, Compiled, Committed, Pinning, Active
<1>5. ConsentInv'
  BY <1>1, <1>2 DEF ConsentInv, Startup, Unpinned, Compiled
<1> QED BY <1>2, <1>3, <1>4, <1>5 DEF SettingsInv

LEMMA PinProvidersKeeps == ASSUME SettingsInv, NEW r \in ModelRuns, PinProviders(r) PROVE SettingsInv'
<1>1. SettingsTypeOK /\ StageInv /\ VaultInv /\ ConsentInv BY DEF SettingsInv
<1>2. SettingsTypeOK'
  <2>1. mem \in SettingsFiles /\ live \in Registries /\ tx \in Transactions /\ pins \in [ModelRuns -> PinnedConfigs]
    BY <1>1 DEF SettingsTypeOK
  <2>2. [pins[r] EXCEPT !.phase = "pinning", !.cred = live.cred] \in PinnedConfigs
    BY <2>1 DEF PinnedConfigs, Registries
  <2>3. pins' = [pins EXCEPT ![r] = [pins[r] EXCEPT !.phase = "pinning", !.cred = live.cred]]
    BY <2>1 DEF PinProviders
  <2>4. tx' \in Transactions BY <2>1 DEF PinProviders, Transactions
  <2> QED BY <1>1, <2>1, <2>2, <2>3, <2>4 DEF PinProviders, SettingsTypeOK
<1>3. StageInv'
  BY <1>1, <1>2 DEF StageInv, PinProviders
<1>4. VaultInv'
  BY <1>1, <1>2 DEF VaultInv, StageInv, PinProviders, SettingsTypeOK, Compiled, Committed,
                    PinnedBy, Pinning, Active
<1>5. ConsentInv'
  BY <1>1, <1>2 DEF ConsentInv, PinProviders, SettingsTypeOK
<1> QED BY <1>2, <1>3, <1>4, <1>5 DEF SettingsInv

LEMMA PinPolicyKeeps == ASSUME SettingsInv, NEW r \in ModelRuns, PinPolicy(r) PROVE SettingsInv'
<1>1. SettingsTypeOK /\ StageInv /\ VaultInv /\ ConsentInv BY DEF SettingsInv
<1>2. SettingsTypeOK'
  <2>1. mem \in SettingsFiles /\ live \in Registries /\ tx \in Transactions /\ pins \in [ModelRuns -> PinnedConfigs]
    BY <1>1 DEF SettingsTypeOK
  <2>2. [pins[r] EXCEPT !.phase = "active", !.target = live.target,
                                                          !.free = live.polFree] \in PinnedConfigs
    BY <2>1 DEF PinnedConfigs, Registries
  <2>3. pins' = [pins EXCEPT ![r] = [pins[r] EXCEPT !.phase = "active", !.target = live.target,
                                                          !.free = live.polFree]]
    BY <2>1 DEF PinPolicy
  <2>4. tx' \in Transactions BY <2>1 DEF PinPolicy
  <2> QED BY <1>1, <2>1, <2>2, <2>3, <2>4 DEF PinPolicy, SettingsTypeOK
<1>3. StageInv'
  BY <1>1, <1>2 DEF StageInv, PinPolicy
<1>4. VaultInv'
  BY <1>1, <1>2 DEF VaultInv, PinPolicy, SettingsTypeOK, PinnedBy, Pinning, Active
<1>5. ConsentInv'
  BY <1>1, <1>2 DEF ConsentInv, PinPolicy, SettingsTypeOK
<1> QED BY <1>2, <1>3, <1>4, <1>5 DEF SettingsInv

LEMMA PinEndsKeeps == ASSUME SettingsInv, NEW r \in ModelRuns, PinEnds(r) PROVE SettingsInv'
<1>1. SettingsTypeOK /\ StageInv /\ VaultInv /\ ConsentInv BY DEF SettingsInv
<1>2. SettingsTypeOK'
  BY <1>1, SettingsAssumption DEF PinEnds, SettingsTypeOK, PinnedConfigs
<1>3. StageInv'
  BY <1>1, <1>2 DEF StageInv, PinEnds
<1>4. VaultInv'
  BY <1>1, <1>2 DEF VaultInv, PinEnds, PinnedBy, Pinning, Active
<1>5. ConsentInv'
  BY <1>1, <1>2 DEF ConsentInv, PinEnds
<1> QED BY <1>2, <1>3, <1>4, <1>5 DEF SettingsInv

----------------------------------------------------------------------------
(* The settings alone *)

LEMMA SettingsInitially == SettingsInit => SettingsInv
<1> SUFFICES ASSUME SettingsInit PROVE SettingsInv OBVIOUS
<1>1. PICK f \in BOOLEAN :
        /\ disk = [rev |-> 1, free |-> f, target |-> Unpinned.target, cred |-> [p \in Providers |-> 1]]
        /\ mem = disk /\ live = Compiled(disk) /\ consented = ~f
  BY DEF SettingsInit
<1>2. 1 \in 1 .. MaxVersions /\ 1 \in 1 .. MaxRevisions + 1 /\ Unpinned.target \in Providers
  BY SettingsAssumption DEF Unpinned
<1>3. [p \in Providers |-> 1] \in Credentials /\ [p \in Providers |-> Gone] \in Credentials
  BY <1>2 DEF Credentials
<1>4. mem \in SettingsFiles /\ disk \in SettingsFiles /\ live \in Registries
  BY <1>1, <1>2, <1>3 DEF SettingsFiles, Registries, Compiled
<1>5. tx \in Transactions BY <1>4 DEF SettingsInit, IdleTx, Transactions, Stages, Vaults
<1>6. Unpinned \in PinnedConfigs BY <1>2, <1>3 DEF Unpinned, PinnedConfigs
<1>7. vault = Providers \X {1} /\ vault \in Vaults /\ undone = {}
  BY <1>2 DEF SettingsInit, Vaults, Refs
<1>8. SettingsTypeOK
  <2>1. pins \in [ModelRuns -> PinnedConfigs] BY <1>6 DEF SettingsInit
  <2>2. cache \in Credentials /\ pinCache \in PinnedAdapters
    BY <1>3 DEF SettingsInit, PinnedAdapters
  <2>3. versions \in 1 .. MaxVersions /\ undone \in Vaults /\ torn \in BOOLEAN
    BY <1>2 DEF SettingsInit, Vaults
  <2> QED BY <1>1, <1>4, <1>5, <1>7, <2>1, <2>2, <2>3 DEF SettingsTypeOK
<1>9. StageInv BY <1>1 DEF StageInv, SettingsInit, IdleTx, Applying
<1>10. VaultInv
  <2>1. /\ tx.new = mem /\ tx.saved = live /\ tx.pc = "idle"
        /\ tx.staged = {} /\ tx.doomed = {} /\ versions = 1
    BY DEF SettingsInit, IdleTx
  <2>2. Committed(mem) = vault /\ Committed(disk) = vault /\ Committed(live) = vault
    BY <1>1, <1>2, <1>7 DEF Committed, Compiled, Refs
  <2>3. vault \subseteq Providers \X (1 .. versions) BY <1>7, <2>1
  <2>4. Pinning \union Active = {} BY DEF SettingsInit, Pinning, Active, Unpinned
  <2>5. \A s \in {mem, disk, live, tx.new, tx.saved} : Committed(s) \subseteq vault
    BY <2>1, <2>2
  <2> QED BY <1>7, <2>1, <2>3, <2>4, <2>5 DEF VaultInv
<1>11. ConsentInv
  <2>1. CASE f = TRUE
    <3>1. mem.free = TRUE /\ disk.free = TRUE /\ live.gwFree = TRUE /\ live.polFree = TRUE
      BY <1>1, <2>1 DEF Compiled
    <3>2. tx.saved = live /\ tx.published = FALSE /\ \A r \in ModelRuns : pins[r].free = TRUE
      BY DEF SettingsInit, IdleTx, Unpinned
    <3> QED BY <3>1, <3>2 DEF ConsentInv
  <2>2. CASE f = FALSE BY <1>1, <2>2 DEF ConsentInv
  <2> QED BY <1>1, <2>1, <2>2
<1> QED BY <1>8, <1>9, <1>10, <1>11 DEF SettingsInv

\* Calls, and steps that touch no setting, change the adapters at most.
LEMMA AdaptersKeep ==
  ASSUME SettingsInv,
         UNCHANGED <<disk, mem, live, vault, versions, tx, pins, undone, torn, consented>>,
         cache' \in Credentials, pinCache' \in PinnedAdapters,
         \A p \in Providers : cache'[p] \in {Gone, live.cred[p]}
  PROVE  SettingsInv'
<1>1. SettingsTypeOK /\ StageInv /\ VaultInv /\ ConsentInv BY DEF SettingsInv
<1>2. SettingsTypeOK' BY <1>1 DEF SettingsTypeOK
<1>3. StageInv' BY <1>1 DEF StageInv
<1>4. VaultInv' BY <1>1 DEF VaultInv, PinnedBy, Pinning, Active
<1>5. ConsentInv' BY <1>1 DEF ConsentInv
<1> QED BY <1>2, <1>3, <1>4, <1>5 DEF SettingsInv

LEMMA SettingsKeep == ASSUME SettingsInv, [SettingsStep]_settingsVars PROVE SettingsInv'
<1>1. CASE SettingsStep
  BY <1>1, UpdateBeginKeeps, DeleteBeginKeeps, SetSecretKeeps, PublishKeeps, StageFailsKeeps,
     RegisterProviderKeeps, ReconcileKeeps, InstallPolicyKeeps, InstallFreeOnlyKeeps,
     ApplyFailsKeeps, RestoreRegistryKeeps, RestorePolicyKeeps, UnpublishKeeps, UnstageKeeps,
     CommitKeeps, ReclaimCheckKeeps, ReclaimDeleteKeeps, ReclaimEndKeeps, StartupKeeps,
     PinProvidersKeeps, PinPolicyKeeps, PinEndsKeeps
     DEF SettingsStep
<1>2. CASE UNCHANGED settingsVars
  <2>1. SettingsTypeOK /\ \A p \in Providers : cache[p] \in {Gone, live.cred[p]}
    BY DEF SettingsInv, StageInv
  <2> QED BY <1>2, <2>1, AdaptersKeep DEF settingsVars, SettingsTypeOK
<1> QED BY <1>1, <1>2

LEMMA SettingsImply == SettingsInv => CredentialsKept /\ OneRevisionWhenIdle
BY DEF SettingsInv, StageInv, VaultInv, CredentialsKept,
       OneRevisionWhenIdle, At

\* The settings manager keeps its promises by itself, whatever fails and wherever the
\* process stops: stored credentials survive, and between transactions the file, the
\* memory, the registry and every adapter show one revision.
THEOREM SettingsTheorem == SettingsSpec => [](CredentialsKept /\ OneRevisionWhenIdle)
<1>1. SettingsInv /\ [SettingsStep]_settingsVars => SettingsInv' BY SettingsKeep
<1> QED BY <1>1, SettingsInitially, SettingsImply, PTL DEF SettingsSpec

----------------------------------------------------------------------------
(* A call beside the settings *)

LEMMA CallBesideSettings == ASSUME SettingsInv, CallStep PROVE SettingsInv'
<1>1. SettingsTypeOK /\ StageInv BY DEF SettingsInv
<1>2. \A p \in Providers : cache[p] \in {Gone, live.cred[p]} BY <1>1 DEF StageInv
<1>3. CASE BindAdapter
  <2>1. pinCache' \in PinnedAdapters
    BY <1>1, <1>3 DEF BindAdapter, BindPinned, BindLive, SettingsTypeOK, PinnedAdapters, Refs
  <2>2. cache' \in Credentials /\ \A p \in Providers : cache'[p] \in {Gone, live.cred[p]}
    BY <1>1, <1>2, <1>3
       DEF BindAdapter, BindPinned, BindLive, SettingsTypeOK, Credentials, Registries
  <2> QED BY <1>3, <2>1, <2>2, AdaptersKeep DEF BindAdapter
<1>4. CASE UNCHANGED settingsVars BY <1>4, SettingsKeep
<1>5. BindAdapter \/ UNCHANGED settingsVars
  BY DEF CallStep, CallBegin, Exhausted, BudgetSpent, NoAdapter, CostGate, Refused, Dispatch,
         SyncSuccess, Late, FailsSilently, StreamUnsupported, DegradedSuccess, Delta,
         StreamStops, StreamBreaks, ConsumerLeaves, CallForgotten
<1> QED BY <1>3, <1>4, <1>5

LEMMA ChainType == ASSUME NEW t \in Providers PROVE ChainFrom(t) \in Seq(Providers)
<1>1. Fallbacks(t) \in Seq(Providers)
  <2>1. CASE \A i \in DOMAIN FallbackChain : FallbackChain[i] # t
    BY <2>1, ModelAssumption DEF Fallbacks
  <2>2. CASE \E i \in DOMAIN FallbackChain : FallbackChain[i] = t
    <3> DEFINE own == CHOOSE i \in DOMAIN FallbackChain : FallbackChain[i] = t
    <3>1. own \in 1 .. Len(FallbackChain) BY <2>2, ModelAssumption
    <3>2. Fallbacks(t) = SubSeq(FallbackChain, 1, own - 1)
                           \o SubSeq(FallbackChain, own + 1, Len(FallbackChain))
      BY <2>2 DEF Fallbacks
    <3> HIDE DEF own
    <3>3. Len(FallbackChain) \in Nat
          /\ \A i \in 1 .. Len(FallbackChain) : FallbackChain[i] \in Providers
      BY ModelAssumption
    <3>4. \A i \in 1 .. own - 1 : FallbackChain[i] \in Providers BY <3>1, <3>3
    <3>5. \A i \in own + 1 .. Len(FallbackChain) : FallbackChain[i] \in Providers BY <3>1, <3>3
    <3>6. own - 1 \in Int /\ own + 1 \in Int /\ 1 \in Int /\ Len(FallbackChain) \in Int BY <3>1, <3>3
    <3>7. SubSeq(FallbackChain, 1, own - 1) \in Seq(Providers) BY <3>4, <3>6, SubSeqProperties
    <3>8. SubSeq(FallbackChain, own + 1, Len(FallbackChain)) \in Seq(Providers)
      BY <3>5, <3>6, SubSeqProperties
    <3> QED BY <3>2, <3>7, <3>8
  <2> QED BY <2>1, <2>2
<1> QED BY <1>1 DEF ChainFrom

LEMMA HeadInChain == ASSUME CallTypeOK, call.rest # <<>>
                     PROVE Candidate \in Providers /\ Tail(call.rest) \in Seq(Providers)
BY DEF CallTypeOK, Calls, Candidate

LEMMA EndedType == /\ Ended \in Calls /\ Ended.pc = "done" /\ Ended.open = NoProvider
                   /\ NoCallYet \in Calls /\ NoCallYet.pc = "idle" /\ NoCallYet.open = NoProvider
<1>1. <<>> \in Seq(Providers) OBVIOUS
<1> QED BY <1>1 DEF Ended, NoCallYet, Calls, Talking

LEMMA MovedType ==
  ASSUME CallTypeOK, call.rest # <<>>
  PROVE  Moved(call) \in Calls /\ Moved(call).pc = "candidate" /\ Moved(call).open = NoProvider
<1>1. call \in Calls /\ Head(call.rest) \in Providers /\ Tail(call.rest) \in Seq(Providers)
  BY HeadInChain DEF Candidate, CallTypeOK
<1> QED BY <1>1 DEF Moved, Calls

----------------------------------------------------------------------------
(* What the caller hears of an answer *)

SaysText(a) == \E i \in DOMAIN a : a[i][2] = "text"
VoiceOf(a) == IF SaysText(a) THEN a[CHOOSE i \in DOMAIN a : a[i][2] = "text"][1] ELSE NoProvider

LEMMA VoiceIsVoiceOf == Voice = VoiceOf(answer) /\ Spoken = SaysText(answer)
BY DEF Voice, VoiceOf, SaysText, Spoken

\* If all its words come from one provider, an answer has that voice, or none.
LEMMA OneSpeaker ==
  ASSUME NEW a, NEW p, \A i \in DOMAIN a : a[i][2] = "text" => a[i][1] = p
  PROVE  VoiceOf(a) = IF SaysText(a) THEN p ELSE NoProvider
BY DEF VoiceOf, SaysText

\* Every word so far comes from the candidate in front.
LEMMA AllByCandidate ==
  ASSUME CallInv, call.pc \notin {"done"}
  PROVE  /\ \A i \in DOMAIN answer : answer[i] = <<Candidate, "text">>
         /\ Voice = IF answer = <<>> THEN NoProvider ELSE Candidate
         /\ Closed = FALSE /\ (Spoken <=> answer # <<>>)
         /\ answer # <<>> => call.pc = "streaming"
<1>1. answer \in Seq(Words) /\ call.pc \in {"idle", "candidate", "gate", "done"} \union Talking
  BY DEF CallInv, CallTypeOK, Calls
<1>2. \A i \in DOMAIN answer : answer[i] = <<Candidate, "text">>
  BY <1>1 DEF CallInv, Talking
<1>3. answer # <<>> => call.pc = "streaming" BY <1>1 DEF CallInv, Talking
<1>4. Spoken <=> answer # <<>> BY <1>1, <1>2 DEF Spoken
<1>5. Voice = IF answer = <<>> THEN NoProvider ELSE Candidate
  <2>1. \A i \in DOMAIN answer : answer[i][2] = "text" => answer[i][1] = Candidate BY <1>2
  <2>2. VoiceOf(answer) = IF SaysText(answer) THEN Candidate ELSE NoProvider
    BY <2>1, OneSpeaker
  <2> QED BY <2>2, <1>4, VoiceIsVoiceOf
<1> QED BY <1>2, <1>3, <1>4, <1>5 DEF Closed, In

\* One step of a call, seen through the caller's contract.
Heard == <<call.open, Voice, Closed>>
Step == CallInv' /\ [Contract!Next]_Heard

----------------------------------------------------------------------------
(* A call, step by step *)

LEMMA CallMoves ==
  ASSUME CallInv, call.pc \in {"candidate", "gate"} \union Talking, call.rest # <<>>,
         answer = <<>>, call' = Moved(call), UNCHANGED <<answer, paidCalls>>
  PROVE  Step
<1>1. Voice = NoProvider /\ Closed = FALSE BY AllByCandidate DEF Talking
<1>2. Voice' = Voice /\ Closed' = FALSE
  BY MovedType, VoiceIsVoiceOf DEF Voice, Spoken, Closed, In, CallInv
<1>3. call'.open = NoProvider BY MovedType DEF CallInv
<1>4. Contract!GiveUp BY <1>1, <1>2, <1>3 DEF Contract!GiveUp
<1>5. CallInv' BY MovedType DEF CallInv, CallTypeOK, Talking
<1> QED BY <1>4, <1>5 DEF Step, Contract!Next

\* The answer is closed: it has the voice it had, or that of the provider asked.
LEMMA CallEnds ==
  ASSUME CallInv, call.pc # "done", call' = Ended, UNCHANGED paidCalls,
         NEW more \in Seq(Words), answer' = answer \o more,
         SaysText(more) => call.pc \in Talking,
         \A i \in DOMAIN more : more[i][2] = "text" => more[i][1] = Candidate
  PROVE  Step
<1>1. answer \in Seq(Words) /\ answer' \in Seq(Words) BY DEF CallInv, CallTypeOK
<1>2. CallInv' BY <1>1, EndedType DEF CallInv, CallTypeOK, Talking
<1>3. \A i \in DOMAIN answer' : answer'[i][2] = "text" => answer'[i][1] = Candidate
  BY <1>1, AllByCandidate
<1>4. SaysText(answer') <=> SaysText(answer) \/ SaysText(more)
  <2>1. /\ \A i \in DOMAIN answer : i \in DOMAIN answer' /\ answer'[i] = answer[i]
        /\ \A i \in DOMAIN more : Len(answer) + i \in DOMAIN answer'
                               /\ answer'[Len(answer) + i] = more[i]
    BY <1>1
  <2>4. \A i \in DOMAIN answer' : i \notin DOMAIN answer =>
          i - Len(answer) \in DOMAIN more /\ answer'[i] = more[i - Len(answer)]
    BY <1>1
  <2>2. SaysText(answer) \/ SaysText(more) => SaysText(answer') BY <2>1 DEF SaysText
  <2>3. SaysText(answer') => SaysText(answer) \/ SaysText(more)
    <3>1. SUFFICES ASSUME NEW i \in DOMAIN answer', answer'[i][2] = "text"
                   PROVE  SaysText(answer) \/ SaysText(more)
      BY DEF SaysText
    <3>2. CASE i \in DOMAIN answer
      <4>1. answer[i][2] = "text" BY <2>1, <3>1, <3>2
      <4> QED BY <3>2, <4>1 DEF SaysText
    <3>3. CASE i \notin DOMAIN answer
      <4> DEFINE k == i - Len(answer)
      <4>1. k \in DOMAIN more /\ more[k][2] = "text" BY <2>4, <3>1, <3>3
      <4> QED BY <4>1, Zenon DEF SaysText
    <3> QED BY <3>2, <3>3
  <2> QED BY <2>2, <2>3
<1>5. Voice' = IF SaysText(answer') THEN Candidate ELSE NoProvider
  <2>1. VoiceOf(answer') = IF SaysText(answer') THEN Candidate ELSE NoProvider
    BY <1>3, OneSpeaker
  <2> QED BY <2>1 DEF Voice, VoiceOf, SaysText, Spoken
<1>6. Voice' \in {Voice, call.open}
  BY <1>4, <1>5, AllByCandidate, VoiceIsVoiceOf DEF CallInv
<1>7. Contract!Close
  BY <1>6, EndedType, AllByCandidate DEF Contract!Close, Closed, In
<1> QED BY <1>2, <1>7 DEF Step, Contract!Next

LEMMA CallResets ==
  ASSUME CallInv, call' = NoCallYet, answer' = <<>>, UNCHANGED paidCalls PROVE Step
<1>1. CallInv' BY EndedType DEF CallInv, CallTypeOK, Talking
<1>2. Voice' = NoProvider /\ Closed' = FALSE BY EndedType DEF Voice, Spoken, Closed, In
<1>3. Contract!Forget BY <1>2, EndedType DEF Contract!Forget
<1> QED BY <1>1, <1>3 DEF Step, Contract!Next

LEMMA CallBeginAnswers ==
  ASSUME CallInv, NEW r \in ModelRuns \union {NoModelRun}, SettingsTypeOK,
         NEW named \in {{}} \union {{p} : p \in Providers}, NEW strict \in BOOLEAN,
         CallBegin(r, named, strict)
  PROVE  Step
<1>1. PICK p \in IF named # {} THEN named ELSE {IF r = NoModelRun THEN live.target
                                                ELSE pins[r].target} :
        call' = [NoCallYet EXCEPT !.pc = "candidate", !.run = r,
                   !.rest = IF strict \/ named # {} THEN <<p>> ELSE ChainFrom(p)]
  BY DEF CallBegin
<1>2. p \in Providers BY DEF SettingsTypeOK, Registries, PinnedConfigs
<1>3. call'.rest \in Seq(Providers) BY <1>1, <1>2, ChainType DEF NoCallYet
<1>4. call' \in Calls /\ call'.pc = "candidate" /\ call'.open = NoProvider
  BY <1>1, <1>3 DEF NoCallYet, Calls
<1>5. CallInv' BY <1>4 DEF CallBegin, CallInv, CallTypeOK, Talking
<1>6. call.pc = "idle" /\ answer = <<>> /\ call.open = NoProvider /\ answer' = <<>>
  BY DEF CallBegin, In, CallInv
<1>7. UNCHANGED Heard
  BY <1>4, <1>6 DEF Heard, Voice, Spoken, Closed, In
<1> QED BY <1>5, <1>7 DEF Step

LEMMA BindAdapterAnswers == ASSUME CallInv, BindAdapter PROVE Step
<1>1. /\ call' = [call EXCEPT !.pc = "gate"] /\ call.pc = "candidate" /\ call.rest # <<>>
      /\ UNCHANGED <<answer, paidCalls>>
  BY DEF BindAdapter, BindPinned, BindLive, In
<1>2. CallInv' BY <1>1 DEF CallInv, CallTypeOK, Calls, Talking
<1>3. UNCHANGED Heard BY <1>1 DEF CallInv, CallTypeOK, Calls, Heard, Voice, Spoken, Closed, In
<1> QED BY <1>2, <1>3 DEF Step

LEMMA StreamUnsupportedAnswers == ASSUME CallInv, StreamUnsupported PROVE Step
<1>1. /\ call' = [call EXCEPT !.pc = "degraded"] /\ call.pc = "first"
      /\ UNCHANGED <<answer, paidCalls>>
  BY DEF StreamUnsupported, In
<1>2. CallInv' BY <1>1 DEF CallInv, CallTypeOK, Calls, Talking, Candidate
<1>3. UNCHANGED Heard BY <1>1 DEF CallInv, CallTypeOK, Calls, Heard, Voice, Spoken, Closed, In
<1> QED BY <1>2, <1>3 DEF Step

LEMMA DispatchAnswers ==
  ASSUME CallInv, NEW way \in {"waiting", "first"}, Dispatch(way) PROVE Step
<1>1. /\ call' = [call EXCEPT !.pc = way, !.open = Candidate] /\ call.pc = "gate"
      /\ call.rest # <<>> /\ answer = <<>> /\ answer' = <<>> /\ paidCalls' \in BOOLEAN
  BY DEF Dispatch, In, CallInv, CallTypeOK
<1>2. Candidate \in Providers BY <1>1, HeadInChain DEF CallInv
<1>3. call' \in Calls /\ call'.pc = way /\ call'.open = Candidate /\ call'.rest = call.rest
  BY <1>1, <1>2 DEF CallInv, CallTypeOK, Calls, Talking
<1>4. CallInv' BY <1>1, <1>3 DEF CallInv, CallTypeOK, Talking, Candidate
<1>5. Contract!Ask(Candidate)
  BY <1>1, <1>3, AllByCandidate DEF Contract!Ask, Voice, Spoken, Closed, In
<1> QED BY <1>2, <1>4, <1>5 DEF Step, Contract!Next

LEMMA DeltaAnswers == ASSUME CallInv, Delta PROVE Step
<1>1. /\ call' = [call EXCEPT !.pc = "streaming"] /\ call.pc \in {"first", "streaming"}
      /\ call.rest # <<>> /\ call.open = Candidate /\ UNCHANGED paidCalls
      /\ answer' = Append(answer, <<Candidate, "text">>)
  BY DEF Delta, Say, CallInv, Talking
<1>2. Candidate \in Providers BY <1>1, HeadInChain DEF CallInv
<1>3. answer \in Seq(Words) /\ <<Candidate, "text">> \in Words
  BY <1>2 DEF CallInv, CallTypeOK, Words
<1>4. call' \in Calls /\ call'.pc = "streaming" /\ call'.open = Candidate /\ call'.rest = call.rest
  BY <1>1 DEF CallInv, CallTypeOK, Calls, Talking
<1>5. /\ answer' \in Seq(Words) /\ answer' # <<>>
      /\ \A i \in DOMAIN answer' : answer'[i] = <<Candidate, "text">>
  <2>1. \A i \in DOMAIN answer : answer[i] = <<Candidate, "text">> BY <1>1, AllByCandidate
  <2> QED BY <1>1, <1>3, <2>1, AppendProperties
<1>6. CallInv' BY <1>1, <1>4, <1>5 DEF CallInv, CallTypeOK, Talking, Candidate
<1>7. SaysText(answer') BY <1>5 DEF SaysText
<1>8. VoiceOf(answer') = Candidate BY <1>5, <1>7, OneSpeaker
<1>9. Voice' = Candidate /\ Closed' = FALSE
  BY <1>4, <1>5, <1>7, <1>8 DEF Voice, VoiceOf, SaysText, Spoken, Closed, In
<1>10. Contract!Speak(Candidate)
  BY <1>1, <1>4, <1>9, AllByCandidate DEF Contract!Speak
<1> QED BY <1>2, <1>6, <1>10 DEF Step, Contract!Next

LEMMA ExhaustedAnswers == ASSUME CallInv, Exhausted PROVE Step
<1> DEFINE more == <<<<call.last, "error">>>>
<1>1. call.pc # "done" /\ call' = Ended /\ UNCHANGED paidCalls /\ answer \in Seq(Words)
  BY DEF Exhausted, In, CallInv, CallTypeOK, Talking
<1>2. more \in Seq(Words)
  BY HeadInChain DEF Exhausted, In, Words, CallInv, CallTypeOK, Calls, Talking
<1>3. answer' = answer \o more
  <2>1. answer' = Append(answer, <<call.last, "error">>) BY DEF Exhausted, Say
  <2>2. <<call.last, "error">> \in Words
    BY HeadInChain DEF Exhausted, In, Words, CallInv, CallTypeOK, Calls, Talking
  <2> QED BY <1>1, <2>1, <2>2, AppendIsConcat
<1>4. SaysText(more) => call.pc \in Talking BY DEF Exhausted, In, Talking, SaysText
<1>5. \A i \in DOMAIN more : more[i][2] = "text" => more[i][1] = Candidate OBVIOUS
<1> HIDE DEF more
<1> QED BY <1>1, <1>2, <1>3, <1>4, <1>5, CallEnds

LEMMA BudgetSpentAnswers == ASSUME CallInv, BudgetSpent PROVE Step
<1> DEFINE more == <<<<Candidate, "error">>>>
<1>1. call.pc # "done" /\ call' = Ended /\ UNCHANGED paidCalls /\ answer \in Seq(Words)
  BY DEF BudgetSpent, In, CallInv, CallTypeOK, Talking
<1>2. more \in Seq(Words)
  BY HeadInChain DEF BudgetSpent, In, Words, CallInv, CallTypeOK, Calls, Talking
<1>3. answer' = answer \o more
  <2>1. answer' = Append(answer, <<Candidate, "error">>) BY DEF BudgetSpent, Say
  <2>2. <<Candidate, "error">> \in Words
    BY HeadInChain DEF BudgetSpent, In, Words, CallInv, CallTypeOK, Calls, Talking
  <2> QED BY <1>1, <2>1, <2>2, AppendIsConcat
<1>4. SaysText(more) => call.pc \in Talking BY DEF BudgetSpent, In, Talking, SaysText
<1>5. \A i \in DOMAIN more : more[i][2] = "text" => more[i][1] = Candidate OBVIOUS
<1> HIDE DEF more
<1> QED BY <1>1, <1>2, <1>3, <1>4, <1>5, CallEnds

LEMMA SyncSuccessAnswers == ASSUME CallInv, SyncSuccess PROVE Step
<1> DEFINE more == <<<<Candidate, "text">>, <<Candidate, "stop">>>>
<1>1. call.pc # "done" /\ call' = Ended /\ UNCHANGED paidCalls /\ answer \in Seq(Words)
  BY DEF SyncSuccess, In, CallInv, CallTypeOK, Talking
<1>2. more \in Seq(Words)
  BY HeadInChain DEF SyncSuccess, In, Words, CallInv, CallTypeOK, Calls, Talking
<1>3. answer' = answer \o more BY <1>1, <1>2 DEF SyncSuccess, Say
<1>4. SaysText(more) => call.pc \in Talking BY DEF SyncSuccess, In, Talking, SaysText
<1>5. \A i \in DOMAIN more : more[i][2] = "text" => more[i][1] = Candidate OBVIOUS
<1> HIDE DEF more
<1> QED BY <1>1, <1>2, <1>3, <1>4, <1>5, CallEnds

LEMMA LateAnswers == ASSUME CallInv, Late PROVE Step
<1> DEFINE more == <<<<Candidate, "error">>>>
<1>1. call.pc # "done" /\ call' = Ended /\ UNCHANGED paidCalls /\ answer \in Seq(Words)
  BY DEF Late, In, CallInv, CallTypeOK, Talking
<1>2. more \in Seq(Words)
  BY HeadInChain DEF Late, In, Words, CallInv, CallTypeOK, Calls, Talking
<1>3. answer' = answer \o more
  <2>1. answer' = Append(answer, <<Candidate, "error">>) BY DEF Late, Say
  <2>2. <<Candidate, "error">> \in Words
    BY HeadInChain DEF Late, In, Words, CallInv, CallTypeOK, Calls, Talking
  <2> QED BY <1>1, <2>1, <2>2, AppendIsConcat
<1>4. SaysText(more) => call.pc \in Talking BY DEF Late, In, Talking, SaysText
<1>5. \A i \in DOMAIN more : more[i][2] = "text" => more[i][1] = Candidate OBVIOUS
<1> HIDE DEF more
<1> QED BY <1>1, <1>2, <1>3, <1>4, <1>5, CallEnds

LEMMA DegradedSuccessAnswers == ASSUME CallInv, DegradedSuccess PROVE Step
<1> DEFINE more == <<<<Candidate, "text">>, <<Candidate, "stop">>>>
<1>1. call.pc # "done" /\ call' = Ended /\ UNCHANGED paidCalls /\ answer \in Seq(Words)
  BY DEF DegradedSuccess, In, CallInv, CallTypeOK, Talking
<1>2. more \in Seq(Words)
  BY HeadInChain DEF DegradedSuccess, In, Words, CallInv, CallTypeOK, Calls, Talking
<1>3. answer' = answer \o more BY <1>1, <1>2 DEF DegradedSuccess, Say
<1>4. SaysText(more) => call.pc \in Talking BY DEF DegradedSuccess, In, Talking, SaysText
<1>5. \A i \in DOMAIN more : more[i][2] = "text" => more[i][1] = Candidate OBVIOUS
<1> HIDE DEF more
<1> QED BY <1>1, <1>2, <1>3, <1>4, <1>5, CallEnds

LEMMA StreamStopsAnswers == ASSUME CallInv, StreamStops PROVE Step
<1> DEFINE more == <<<<Candidate, "stop">>>>
<1>1. call.pc # "done" /\ call' = Ended /\ UNCHANGED paidCalls /\ answer \in Seq(Words)
  BY DEF StreamStops, In, CallInv, CallTypeOK, Talking
<1>2. more \in Seq(Words)
  BY HeadInChain DEF StreamStops, In, Words, CallInv, CallTypeOK, Calls, Talking
<1>3. answer' = answer \o more
  <2>1. answer' = Append(answer, <<Candidate, "stop">>) BY DEF StreamStops, Say
  <2>2. <<Candidate, "stop">> \in Words
    BY HeadInChain DEF StreamStops, In, Words, CallInv, CallTypeOK, Calls, Talking
  <2> QED BY <1>1, <2>1, <2>2, AppendIsConcat
<1>4. SaysText(more) => call.pc \in Talking BY DEF StreamStops, In, Talking, SaysText
<1>5. \A i \in DOMAIN more : more[i][2] = "text" => more[i][1] = Candidate OBVIOUS
<1> HIDE DEF more
<1> QED BY <1>1, <1>2, <1>3, <1>4, <1>5, CallEnds

LEMMA StreamBreaksAnswers == ASSUME CallInv, StreamBreaks PROVE Step
<1> DEFINE more == <<<<Candidate, "error">>>>
<1>1. call.pc # "done" /\ call' = Ended /\ UNCHANGED paidCalls /\ answer \in Seq(Words)
  BY DEF StreamBreaks, In, CallInv, CallTypeOK, Talking
<1>2. more \in Seq(Words)
  BY HeadInChain DEF StreamBreaks, In, Words, CallInv, CallTypeOK, Calls, Talking
<1>3. answer' = answer \o more
  <2>1. answer' = Append(answer, <<Candidate, "error">>) BY DEF StreamBreaks, Say
  <2>2. <<Candidate, "error">> \in Words
    BY HeadInChain DEF StreamBreaks, In, Words, CallInv, CallTypeOK, Calls, Talking
  <2> QED BY <1>1, <2>1, <2>2, AppendIsConcat
<1>4. SaysText(more) => call.pc \in Talking BY DEF StreamBreaks, In, Talking, SaysText
<1>5. \A i \in DOMAIN more : more[i][2] = "text" => more[i][1] = Candidate OBVIOUS
<1> HIDE DEF more
<1> QED BY <1>1, <1>2, <1>3, <1>4, <1>5, CallEnds

LEMMA ConsumerLeavesAnswers == ASSUME CallInv, ConsumerLeaves PROVE Step
<1> DEFINE more == <<>>
<1>1. call.pc # "done" /\ call' = Ended /\ UNCHANGED paidCalls /\ answer \in Seq(Words)
  BY DEF ConsumerLeaves, In, CallInv, CallTypeOK, Talking
<1>2. more \in Seq(Words)
  BY HeadInChain DEF ConsumerLeaves, In, Words, CallInv, CallTypeOK, Calls, Talking
<1>3. answer' = answer \o more BY <1>1, <1>2 DEF ConsumerLeaves, Say
<1>4. SaysText(more) => call.pc \in Talking BY DEF ConsumerLeaves, In, Talking, SaysText
<1>5. \A i \in DOMAIN more : more[i][2] = "text" => more[i][1] = Candidate OBVIOUS
<1> HIDE DEF more
<1> QED BY <1>1, <1>2, <1>3, <1>4, <1>5, CallEnds

LEMMA CallStepAnswers == ASSUME CallInv, SettingsTypeOK, CallStep PROVE Step
<1>1. CASE NoAdapter \/ CostGate
  BY <1>1, CallMoves DEF NoAdapter, CostGate, Refused, In, CallInv
<1>2. CASE FailsSilently BY <1>2, CallMoves, AllByCandidate DEF FailsSilently, CallInv, Talking
<1>3. CASE CallForgotten BY <1>3, CallResets DEF CallForgotten
<1> QED
  BY <1>1, <1>2, <1>3, CallBeginAnswers, ExhaustedAnswers, BudgetSpentAnswers,
     BindAdapterAnswers, DispatchAnswers, SyncSuccessAnswers, LateAnswers,
     StreamUnsupportedAnswers, DegradedSuccessAnswers, DeltaAnswers, StreamStopsAnswers,
     StreamBreaksAnswers, ConsumerLeavesAnswers
     DEF CallStep

LEMMA SettingsBesideCallAnswers == ASSUME CallInv, SettingsBesideCall PROVE Step
<1>1. CASE call' = NoCallYet /\ answer' = <<>>
  BY <1>1, CallResets DEF SettingsBesideCall
<1>2. CASE UNCHANGED <<call, answer>>
  <2>1. UNCHANGED <<call, answer, paidCalls>> BY <1>2 DEF SettingsBesideCall
  <2>2. CallInv' BY <2>1 DEF CallInv, CallTypeOK, Candidate
  <2>3. UNCHANGED Heard BY <2>1 DEF Heard, Voice, Spoken, Closed, In
  <2> QED BY <2>2, <2>3 DEF Step
<1> QED BY <1>1, <1>2 DEF SettingsBesideCall

\* Free-only lets no call through to a paid provider before a settings file that allows
\* it was published.
LEMMA PaidKept == ASSUME ModelInv, SettingsBesideCall \/ CallStep PROVE PaidNeedsConsent'
<1>1. consented => consented'
  BY DEF SettingsBesideCall, SettingsStep, UpdateBegin, DeleteBegin, SetSecret, Publish,
         StageFails,
     RegisterProvider, Reconcile, InstallPolicy, InstallFreeOnly, ApplyFails, RestoreRegistry,
     RestorePolicy, Unpublish, Unstage, Commit, ReclaimCheck, ReclaimDelete, ReclaimEnd,
     Startup,
     PinProviders, PinPolicy, PinEnds, CallStep, CallBegin, Exhausted, BudgetSpent, BindAdapter,
     NoAdapter, CostGate, Refused, Dispatch, SyncSuccess, Late, FailsSilently,
     StreamUnsupported,
     DegradedSuccess, Delta, StreamStops, StreamBreaks, ConsumerLeaves, CallForgotten,
     settingsVars
<1>2. CASE \E way \in {"waiting", "first"} : Dispatch(way)
  <2>1. ~Blocked /\ paidCalls' = (paidCalls \/ Candidate \in Paid) BY <1>2 DEF Dispatch
  <2>2. Candidate \in Paid => consented
    BY <2>1 DEF Blocked, FreeOnly, Pinned, ModelInv, SettingsInv, ConsentInv, CallInv,
                CallTypeOK, Calls
  <2> QED BY <1>1, <2>1, <2>2 DEF ModelInv, PaidNeedsConsent
<1>3. CASE UNCHANGED paidCalls BY <1>1, <1>3 DEF ModelInv, PaidNeedsConsent
<1>4. UNCHANGED paidCalls \/ \E way \in {"waiting", "first"} : Dispatch(way)
  BY DEF SettingsBesideCall, CallStep, CallBegin, Exhausted, BudgetSpent, BindAdapter,
         NoAdapter,
         CostGate, Refused, SyncSuccess, Late, FailsSilently, StreamUnsupported,
         DegradedSuccess, Delta, StreamStops, StreamBreaks, ConsumerLeaves, CallForgotten
<1> QED BY <1>2, <1>3, <1>4

LEMMA ModelInitially == GatewayInit => ModelInv
<1> SUFFICES ASSUME GatewayInit PROVE ModelInv OBVIOUS
<1>1. SettingsInv BY SettingsInitially DEF GatewayInit
<1>2. call = NoCallYet /\ answer = <<>> /\ paidCalls = FALSE BY DEF GatewayInit
<1>3. answer \in Seq(Words) BY <1>2
<1>4. CallInv BY <1>2, <1>3, EndedType DEF CallInv, CallTypeOK, Talking
<1> QED BY <1>1, <1>2, <1>4 DEF ModelInv, PaidNeedsConsent

LEMMA ModelKeeps ==
  ModelInv /\ [SettingsBesideCall \/ CallStep]_gatewayVars => ModelInv' /\ [Contract!Next]_Heard
<1> SUFFICES ASSUME ModelInv, [SettingsBesideCall \/ CallStep]_gatewayVars
             PROVE  ModelInv' /\ [Contract!Next]_Heard
  OBVIOUS
<1>1. SettingsInv /\ CallInv BY DEF ModelInv
<1>2. CASE SettingsBesideCall
  <2>1. SettingsInv' BY <1>1, <1>2, SettingsKeep DEF SettingsBesideCall
  <2>2. Step BY <1>1, <1>2, SettingsBesideCallAnswers
  <2> QED BY <1>2, <2>1, <2>2, PaidKept DEF ModelInv, Step
<1>3. CASE CallStep
  <2>1. SettingsInv' BY <1>1, <1>3, CallBesideSettings
  <2>2. Step BY <1>1, <1>3, CallStepAnswers DEF SettingsInv
  <2> QED BY <1>3, <2>1, <2>2, PaidKept DEF ModelInv, Step
<1>4. CASE UNCHANGED gatewayVars
  <2>1. UNCHANGED settingsVars /\ UNCHANGED <<call, answer, paidCalls, consented>>
    BY <1>4 DEF gatewayVars, callVars, settingsVars
  <2>2. SettingsInv' BY <1>1, <2>1, SettingsKeep
  <2>3. CallInv' BY <1>1, <2>1 DEF CallInv, CallTypeOK, Candidate
  <2>4. UNCHANGED Heard BY <2>1 DEF Heard, Voice, Spoken, Closed, In
  <2> QED BY <2>1, <2>2, <2>3, <2>4 DEF ModelInv, PaidNeedsConsent
<1> QED BY <1>2, <1>3, <1>4

\* Settings, transaction, pins, calls and answers keep their types.
THEOREM ModelTypeCorrect == ModelSpec => [](SettingsTypeOK /\ CallTypeOK)
<1>1. ModelInv => SettingsTypeOK /\ CallTypeOK BY DEF ModelInv, SettingsInv, CallInv
<1> QED BY <1>1, ModelInitially, ModelKeeps, PTL DEF ModelSpec

\* Every credential a restart or a running run will ask for is in the vault, under any
\* number of updates, failing stages, rollbacks, reclamations and stops.
THEOREM CredentialsTheorem == ModelSpec => []CredentialsKept
<1>1. ModelInv => CredentialsKept BY SettingsImply DEF ModelInv
<1> QED BY <1>1, ModelInitially, ModelKeeps, PTL DEF ModelSpec

\* However a settings change ended, its pieces show one revision afterwards, calls that
\* build adapters meanwhile included.
THEOREM OneRevisionTheorem == ModelSpec => []OneRevisionWhenIdle
<1>1. ModelInv => OneRevisionWhenIdle BY SettingsImply DEF ModelInv
<1> QED BY <1>1, ModelInitially, ModelKeeps, PTL DEF ModelSpec

\* No intermediate state of a settings change, and no pin, lets a call through to a paid
\* provider that no published settings allow.
THEOREM PaidTheorem == ModelSpec => []PaidNeedsConsent
<1>1. ModelInv => PaidNeedsConsent BY DEF ModelInv
<1> QED BY <1>1, ModelInitially, ModelKeeps, PTL DEF ModelSpec

\* The gateway implements OneVoice: fallback ends with the first visible delta, and every
\* answer is closed once, whatever the settings do beside it.
THEOREM OneVoiceTheorem == ModelSpec => GatewayKeepsOneVoice
<1>1. GatewayInit => Contract!Init
  BY EndedType DEF GatewayInit, Contract!Init, Voice, Spoken, Closed, In
<1>2. [Contract!Next]_Heard => [Contract!Next]_<<call.open, Voice, Closed>> BY DEF Heard
<1> QED BY <1>1, <1>2, ModelInitially, ModelKeeps, PTL
        DEF ModelSpec, GatewayKeepsOneVoice, Contract!Spec

===============================================================================
