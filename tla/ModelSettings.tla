---- MODULE ModelSettings ----
(***************************************************************************)
(* Model settings and their credentials: the settings file, the encrypted  *)
(* vault of credential versions, the settings in memory and the live       *)
(* registry and policy that calls read without the settings lock.  A       *)
(* settings change is one transaction of several stages under the          *)
(* manager's lock; every stage may fail, and the process may stop between  *)
(* any two.  Runs pin the registry and the policy in two reads.            *)
(***************************************************************************)
EXTENDS Integers, FiniteSets

CONSTANTS
  Providers,      \* provider ids
  ModelRuns,      \* runs that pin a configuration
  Updates,        \* updates requested: provider p, a new key or not, target t, free-only f
  MaxVersions,    \* bound: credential versions ever written
  MaxRevisions,   \* bound: settings revisions
  MaxSetFaults,   \* bound: failing stages
  MaxSetCrashes   \* bound: stops of the process

ASSUME SettingsAssumption ==
  /\ Providers # {} /\ MaxVersions \in Nat \ {0}
  /\ Updates \subseteq [p : Providers, rotate : BOOLEAN, t : Providers, f : BOOLEAN]
  /\ MaxRevisions \in Nat /\ MaxSetFaults \in Nat /\ MaxSetCrashes \in Nat

NoRef == 0          \* configured, no stored credential (an ENV: reference)
Gone == -1          \* not configured
Refs == Providers \X (1 .. MaxVersions)

VARIABLES
  disk, mem,   \* settings: revision, free_only_mode, global target, credential per provider
  live,        \* registry configurations, gateway policy and free-only flag
  cache,       \* live adapters: the credential each was built with, Gone if none
  pinCache,    \* refs with a pinned adapter
  vault,       \* refs in the vault
  versions,    \* credential versions drawn so far
  tx,          \* the transaction in progress
  pins,        \* what each run pinned
  undone,      \* history: refs deleted by a rollback
  torn,        \* history: a rollback could not restore the file
  consented,   \* history: some published settings allowed paid models
  setFaults, setCrashes

settingsVars == <<disk, mem, live, cache, pinCache, vault, versions, tx, pins,
                  undone, torn, consented, setFaults, setCrashes>>

\* What settings say, what the registry and the gateway hold of them, the pinned adapters
\* (kept by reference) and the vault.
Credentials == [Providers -> {Gone, NoRef} \union 1 .. MaxVersions]
SettingsFiles == [rev : 1 .. MaxRevisions + 1, free : BOOLEAN, target : Providers,
                   cred : Credentials]
Registries == [cred : Credentials, target : Providers, polFree : BOOLEAN, gwFree : BOOLEAN]
PinnedAdapters == SUBSET (Providers \X ({NoRef} \union 1 .. MaxVersions))
Vaults == SUBSET Refs

\* One change of the settings: the stage it has reached, the settings it installs and
\* the registry it goes back to, and what is left to write, look at or delete.
Stages == {"idle", "stage", "publish", "register", "policy", "free", "commit", "restore",
           "restorePolicy", "unpublish", "unstage", "reclaim"}
Transactions == [pc : Stages, new : SettingsFiles, saved : Registries,
                  rotate : SUBSET Providers, todo : SUBSET (Providers \union Refs),
                  staged : Vaults, gc : SUBSET Providers, doomed : Vaults,
                  published : BOOLEAN, fresh : BOOLEAN]
\* What a run has pinned of the registry and of the policy.
PinnedConfigs == [phase : {"none", "pinning", "active", "ended"}, cred : Credentials,
                   target : Providers, free : BOOLEAN]

Compiled(s) == [cred |-> s.cred, target |-> s.target, polFree |-> s.free, gwFree |-> s.free]
Present(s) == {p \in Providers : s.cred[p] # Gone}
Committed(s) == {ref \in Refs : s.cred[ref[1]] = ref[2]}

IdleTx == [pc |-> "idle", new |-> mem, saved |-> live, rotate |-> {}, todo |-> {},
           staged |-> {}, gc |-> {}, doomed |-> {}, published |-> FALSE, fresh |-> FALSE]

Unpinned == [phase |-> "none", cred |-> [p \in Providers |-> Gone],
             target |-> CHOOSE p \in Providers : TRUE, free |-> TRUE]

\* A first start found a settings file in which every provider has a stored key.
SettingsInit ==
  \E f \in BOOLEAN :
    /\ disk = [rev |-> 1, free |-> f, target |-> Unpinned.target, cred |-> [p \in Providers |-> 1]]
    /\ mem = disk /\ live = Compiled(disk)
    /\ cache = [p \in Providers |-> Gone] /\ pinCache = {}
    /\ vault = Providers \X {1} /\ versions = 1
    /\ tx = IdleTx /\ pins = [r \in ModelRuns |-> Unpinned]
    /\ undone = {} /\ torn = FALSE /\ consented = ~f
    /\ setFaults = 0 /\ setCrashes = 0

At(pc) == tx.pc = pc
SetFault == setFaults < MaxSetFaults /\ setFaults' = setFaults + 1
RollBack == tx' = [tx EXCEPT !.pc = IF tx.published THEN "unpublish" ELSE "unstage"]

\* The run whose start holds the runtime's lock between its two reads.
Pinning == {r \in ModelRuns : pins[r].phase = "pinning"}
Active == {r \in ModelRuns : pins[r].phase = "active"}
PinnedBy(r) == {ref \in Refs : pins[r].cred[ref[1]] = ref[2]}

\* Stages 1 and 2 of update_settings: one provider is upserted, perhaps with a new
\* key, and the target and the free-only mode are set.
UpdateBegin(u) ==
  /\ At("idle") /\ mem.rev < MaxRevisions
  /\ LET cred == [mem.cred EXCEPT ![u.p] = IF @ = Gone THEN NoRef ELSE @]
     IN tx' = [IdleTx EXCEPT !.pc = IF u.rotate THEN "stage" ELSE "publish",
                 !.new = [rev |-> mem.rev + 1, free |-> u.f, target |-> u.t, cred |-> cred],
                 !.rotate = IF u.rotate THEN {u.p} ELSE {}]
  /\ UNCHANGED <<disk, mem, live, cache, pinCache, vault, versions, pins, undone, torn,
                 consented, setFaults, setCrashes>>

\* delete_provider refuses the provider that routing names.
DeleteBegin(p) ==
  /\ At("idle") /\ mem.rev < MaxRevisions
  /\ p \in Present(mem) /\ p # mem.target
  /\ tx' = [IdleTx EXCEPT !.pc = "publish", !.gc = {p},
              !.new = [mem EXCEPT !.rev = @ + 1, !.cred[p] = Gone]]
  /\ UNCHANGED <<disk, mem, live, cache, pinCache, vault, versions, pins, undone, torn,
                 consented, setFaults, setCrashes>>

\* Stage 3: every key is written under a version of its own.
SetSecret ==
  /\ At("stage") /\ versions < MaxVersions
  /\ versions' = versions + 1
  /\ vault' = vault \union (tx.rotate \X {versions'})
  /\ tx' = [tx EXCEPT !.pc = "publish", !.staged = tx.rotate \X {versions'},
              !.new.cred = [p \in Providers |-> IF p \in tx.rotate THEN versions' ELSE @[p]]]
  /\ UNCHANGED <<disk, mem, live, cache, pinCache, pins, undone, torn, consented,
                 setFaults, setCrashes>>

\* Stage 5: the file is written aside and replaced.
Publish ==
  /\ At("publish")
  /\ disk' = tx.new /\ consented' = (consented \/ ~tx.new.free)
  /\ tx' = [tx EXCEPT !.pc = "register", !.published = TRUE, !.saved = live,
              !.todo = Present(tx.new)]
  /\ UNCHANGED <<mem, live, cache, pinCache, vault, versions, pins, undone, torn,
                 setFaults, setCrashes>>

\* Stages 3 to 5 failing, a rejected candidate included.
StageFails ==
  /\ tx.pc \in {"stage", "publish"} /\ SetFault /\ RollBack
  /\ UNCHANGED <<disk, mem, live, cache, pinCache, vault, versions, pins, undone, torn,
                 consented, setCrashes>>

\* Stage 6, step by step: readers see every intermediate registry and policy.
RegisterProvider(p) ==
  /\ At("register") /\ p \in tx.todo
  /\ live' = [live EXCEPT !.cred[p] = tx.new.cred[p]]
  /\ cache' = [cache EXCEPT ![p] = Gone]
  /\ tx' = [tx EXCEPT !.todo = @ \ {p}]
  /\ UNCHANGED <<disk, mem, pinCache, vault, versions, pins, undone, torn, consented,
                 setFaults, setCrashes>>

\* A configuration that leaves the registry takes its adapters along.
Evicted(dropped) ==
  /\ cache' = [p \in Providers |-> IF p \in dropped THEN Gone ELSE cache[p]]
  /\ pinCache' = {ref \in pinCache : ref[1] \notin dropped}

Reconcile ==
  /\ At("register") /\ tx.todo = {}
  /\ live' = [live EXCEPT !.cred = tx.new.cred]
  /\ Evicted({p \in Providers : tx.new.cred[p] = Gone})
  /\ tx' = [tx EXCEPT !.pc = "policy"]
  /\ UNCHANGED <<disk, mem, vault, versions, pins, undone, torn, consented, setFaults,
                 setCrashes>>

\* The new policy is installed with the constructor's free_only_mode, True.
InstallPolicy ==
  /\ At("policy")
  /\ live' = [live EXCEPT !.target = tx.new.target, !.polFree = TRUE]
  /\ tx' = [tx EXCEPT !.pc = "free"]
  /\ UNCHANGED <<disk, mem, cache, pinCache, vault, versions, pins, undone, torn,
                 consented, setFaults, setCrashes>>

InstallFreeOnly ==
  /\ At("free")
  /\ live' = [live EXCEPT !.polFree = tx.new.free, !.gwFree = tx.new.free]
  /\ tx' = [tx EXCEPT !.pc = "commit"]
  /\ UNCHANGED <<disk, mem, cache, pinCache, vault, versions, pins, undone, torn,
                 consented, setFaults, setCrashes>>

ApplyFails ==
  /\ tx.pc \in {"register", "policy", "free"} /\ SetFault
  /\ tx' = [tx EXCEPT !.pc = "restore"]
  /\ UNCHANGED <<disk, mem, live, cache, pinCache, vault, versions, pins, undone, torn,
                 consented, setCrashes>>

RestoreRegistry ==
  /\ At("restore")
  /\ live' = [live EXCEPT !.cred = tx.saved.cred]
  /\ cache' = [p \in Providers |-> Gone]
  /\ pinCache' = {ref \in pinCache : tx.saved.cred[ref[1]] # Gone}
  /\ tx' = [tx EXCEPT !.pc = "restorePolicy"]
  /\ UNCHANGED <<disk, mem, vault, versions, pins, undone, torn, consented, setFaults,
                 setCrashes>>

\* (mutant) the rollback keeps the new routing target
RestorePolicyKeepsTarget ==
  /\ At("restorePolicy")
  /\ live' = [tx.saved EXCEPT !.target = live.target] /\ RollBack
  /\ UNCHANGED <<disk, mem, cache, pinCache, vault, versions, pins, undone, torn,
                 consented, setFaults, setCrashes>>

RestorePolicy ==
  /\ At("restorePolicy")
  /\ live' = tx.saved /\ RollBack
  /\ UNCHANGED <<disk, mem, cache, pinCache, vault, versions, pins, undone, torn,
                 consented, setFaults, setCrashes>>

\* The old payload is written back; a failure here is only logged.
Unpublish ==
  /\ At("unpublish")
  /\ \/ disk' = mem /\ UNCHANGED <<torn, setFaults>>
     \/ SetFault /\ torn' = TRUE /\ UNCHANGED disk
  /\ tx' = [tx EXCEPT !.pc = "unstage"]
  /\ UNCHANGED <<mem, live, cache, pinCache, vault, versions, pins, undone, consented,
                 setCrashes>>

\* The staged versions are deleted whether or not the file was restored.
Unstage ==
  /\ At("unstage")
  /\ \/ /\ vault' = vault \ tx.staged /\ undone' = undone \union tx.staged
        /\ UNCHANGED setFaults
     \/ tx.staged # {} /\ SetFault /\ UNCHANGED <<vault, undone>>
  /\ tx' = IdleTx
  /\ UNCHANGED <<disk, mem, live, cache, pinCache, versions, pins, torn, consented,
                 setCrashes>>

\* Stages 7 and 8: memory, the adapters of what rotated or left, and the versions to
\* look at: those of the rotated or deleted provider, else of every configured one.
Commit ==
  /\ At("commit")
  /\ mem' = tx.new
  /\ LET deleted == {p \in tx.gc : tx.new.cred[p] = Gone}
     IN /\ cache' = [p \in Providers |-> IF p \in tx.rotate \union deleted
                                         THEN Gone ELSE cache[p]]
        /\ pinCache' = {ref \in pinCache : ref[1] \notin deleted}
  /\ tx' = [IdleTx EXCEPT !.pc = "reclaim", !.new = tx.new, !.saved = live,
              !.gc = IF tx.gc # {} THEN tx.gc
                     ELSE IF tx.rotate # {} THEN tx.rotate ELSE Present(tx.new)]
  /\ UNCHANGED <<disk, live, vault, versions, pins, undone, torn, consented, setFaults,
                 setCrashes>>

Unlooked == {ref \in vault : ref[1] \in tx.gc /\ ref \notin tx.todo}
\* (mutant) the committed reference alone keeps a version
ReclaimableIfUncommitted(ref) == ref \notin Committed(mem)
Reclaimable(ref) == ref \notin Committed(mem) /\ \A r \in Active : ref \notin PinnedBy(r)

\* reclaim_obsolete_credential_versions: the question whether a run pins the version
\* waits for the runtime's lock, the deletion comes later.
ReclaimCheck(ref) ==
  /\ At("reclaim") /\ tx.doomed = {} /\ ref \in Unlooked /\ Pinning = {}
  /\ tx' = [tx EXCEPT !.todo = @ \union {ref},
              !.doomed = IF Reclaimable(ref) THEN {ref} ELSE {}]
  /\ UNCHANGED <<disk, mem, live, cache, pinCache, vault, versions, pins, undone, torn,
                 consented, setFaults, setCrashes>>

ReclaimDelete ==
  /\ At("reclaim") /\ tx.doomed # {}
  /\ \/ vault' = vault \ tx.doomed /\ pinCache' = pinCache \ tx.doomed /\ UNCHANGED setFaults
     \/ SetFault /\ UNCHANGED <<vault, pinCache>>
  /\ tx' = [tx EXCEPT !.doomed = {}]
  /\ UNCHANGED <<disk, mem, live, cache, versions, pins, undone, torn, consented, setCrashes>>

ReclaimEnd ==
  /\ At("reclaim") /\ tx.doomed = {} /\ Unlooked = {}
  /\ tx' = [IdleTx EXCEPT !.fresh = tx.fresh]
  /\ UNCHANGED <<disk, mem, live, cache, pinCache, vault, versions, pins, undone, torn,
                 consented, setFaults, setCrashes>>

\* A new process loads the file, compiles it and looks at every configured provider's
\* versions before it serves anything.
Startup ==
  /\ setCrashes < MaxSetCrashes /\ setCrashes' = setCrashes + 1
  /\ mem' = disk /\ live' = Compiled(disk)
  /\ cache' = [p \in Providers |-> Gone] /\ pinCache' = {}
  /\ pins' = [r \in ModelRuns |-> Unpinned]
  /\ tx' = [pc |-> "reclaim", new |-> disk, saved |-> live', rotate |-> {}, todo |-> {},
            staged |-> {}, gc |-> Present(disk), doomed |-> {}, published |-> FALSE,
            fresh |-> TRUE]
  /\ UNCHANGED <<disk, vault, versions, undone, torn, consented, setFaults>>

Booting == tx.fresh /\ tx.pc = "reclaim"

\* start_run: the registry's snapshot, then the policy, under the runtime's lock only.
PinProviders(r) ==
  /\ pins[r].phase = "none" /\ Pinning = {} /\ ~Booting
  /\ pins' = [pins EXCEPT ![r].phase = "pinning", ![r].cred = live.cred]
  /\ tx' = [tx EXCEPT !.fresh = FALSE]
  /\ UNCHANGED <<disk, mem, live, cache, pinCache, vault, versions, undone, torn,
                 consented, setFaults, setCrashes>>

PinPolicy(r) ==
  /\ r \in Pinning
  /\ pins' = [pins EXCEPT ![r].phase = "active", ![r].target = live.target,
                          ![r].free = live.polFree]
  /\ UNCHANGED <<disk, mem, live, cache, pinCache, vault, versions, tx, undone, torn,
                 consented, setFaults, setCrashes>>

PinEnds(r) ==
  /\ r \in Active
  /\ pins' = [pins EXCEPT ![r].phase = "ended"]
  /\ UNCHANGED <<disk, mem, live, cache, pinCache, vault, versions, tx, undone, torn,
                 consented, setFaults, setCrashes>>

SettingsStep ==
  \/ \E u \in Updates : UpdateBegin(u)
  \/ \E p \in Providers : DeleteBegin(p) \/ RegisterProvider(p)
  \/ SetSecret \/ Publish \/ StageFails \/ Reconcile \/ InstallPolicy
  \/ InstallFreeOnly \/ ApplyFails \/ RestoreRegistry \/ RestorePolicy
  \/ Unpublish \/ Unstage \/ Commit
  \/ (\E ref \in Refs : ReclaimCheck(ref)) \/ ReclaimDelete \/ ReclaimEnd
  \/ Startup
  \/ \E r \in ModelRuns : PinProviders(r) \/ PinPolicy(r) \/ PinEnds(r)

SettingsSpec == SettingsInit /\ [][SettingsStep]_settingsVars

----------------------------------------------------------------------------
SettingsTypeOK ==
  /\ {disk, mem} \subseteq SettingsFiles /\ live \in Registries
  /\ cache \in Credentials /\ pinCache \in PinnedAdapters
  /\ {vault, undone} \subseteq Vaults /\ versions \in 1 .. MaxVersions
  /\ tx \in Transactions /\ pins \in [ModelRuns -> PinnedConfigs]
  /\ {torn, consented} \subseteq BOOLEAN

\* Every credential a restart or a running run will ask for is in the vault: the
\* published file's, unless a rollback could not restore it, and those a run pinned,
\* unless its start read a registry that was rolled back.
CredentialsKept ==
  /\ ~torn => Committed(disk) \subseteq vault
  /\ \A r \in Active : PinnedBy(r) \subseteq vault \union undone

\* Outside a transaction the file, the memory, the registry, the policy and every live
\* adapter show one revision, however the last transaction ended.
OneRevisionWhenIdle ==
  At("idle") => /\ live = Compiled(mem)
                /\ ~torn => disk = mem
                /\ \A p \in Providers : cache[p] \in {Gone, live.cred[p]}

\* The start of a process leaves no version behind that the settings do not name
\* ("any version that is not the committed reference is safely reclaimable").  Refuted: README.md, section 5.
StartupReclaimsOrphans == At("idle") /\ tx.fresh => vault \subseteq Committed(disk)
====
