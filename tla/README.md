# A TLA+ model of the AI Marketing Department

The repository runs a "department" of five language-model agents. An operator
chats with it or queues a run; a worker executes six stages (CMO, Intelligence,
Content, Creative, Performance, final CMO); the stages look things up, ask
models and argue from evidence; the result may be published through external
providers, always through one governed gateway and never without a human's
approval. A desktop shell starts the backend and shows the conversation.

This directory models the parts whose correctness depends on the order of steps
of several actors, on failures, restarts or late messages, or on long sequences
of legal calls. TLC checks them on small instances; TLAPS proves every safety
property the runs check, invariant, action property or refinement, for all values
of the constants. Liveness is checked by TLC alone.

## 1. Inventory

| Component (under `src/`) | State | Operations | Module |
|---|---|---|---|
| `runtime/engine.py` run lifecycle | reserved ids, contexts, cancelled ids, cache of artifacts | reserve, start, pause, resume, cancel, execute, research, publish, complete | `DepartmentRuntime` |
| `runtime/queue.py` RunManager, `runtime/job_store.py` | items, bounded queue, workers; durable jobs | enqueue, work, cancel, sync, resolve, shutdown, restore | `RunManager` |
| `tools/tool_gateway.py`, `security.py`, `idempotency.py`, `receipts.py` | approvals and tokens in memory; durable key reservations, intents, receipts | execute, propose, approve, revoke, reserve, settle, reconcile | `ToolGateway` |
| `runtime/engine.py` stages, `context_compiler.py`, `handoff.py` | tool receipts, evidence packages, provenance index, hand-offs | six stages, claim audit, authorization | `StagePipeline` |
| `tools/gateway`, `tools/observation`, `tools/evidence` | observations, evidence bundle | search, read, thread, video; bundle, ground | `Observation` |
| `integrations/models` settings, secrets, registry | settings file, vault, live registry and policy, adapter caches, pins | update, delete, reclaim, pin, restart | `ModelSettings` |
| `integrations/models/gateway.py` | none between calls | generate, generate_stream | `ModelGateway` over `ModelSettings` |
| `connectors/marketing`, `connections`, LIVE part of `tools/dynamic_gateway` | connections, specs, executors, consents, operation records | wire, preflight, publish, poll | `MarketingLive` |
| `runtime/verifier_worker` | worker process, response queue, respawn budget, admission queue | verify, reset | `VerifierWorker` |
| `app_api/streaming.py`, shell's stream, `frontend` sessions | bridge, socket, channel, list of sessions | send, drain, forward, apply, poll | `ChatStream` |
| `chat/session.py`, `chat/repository.py` | sessions and messages in SQLite | add, reply, edit, rename, delete | `ChatStore` |
| `src-tauri/src/main.rs`, `run_app.ps1`, start of `app_api/server.py` | processes, port, record file, job object, token | launch, recycle, hand-shake, proxy, approve, exit | `DesktopShell` |
| `brain/` plans and checkpoints | plan snapshots, checkpoint | report, revise, replan, save, resume | `PlanLife` |
| `brain/` deliberation | evidence, reviews | find, review, authorise, judge, reflect, continue | `Deliberation` over `Evidence` |
| `brain/` learning | runs, trials, strategy | record, consolidate, remember, try, improve, adopt | `Lessons` over `Evidence` |
| `brain/` world model | chain of world states | observe, assess, ask | `WorldModel` over `Evidence` |
| `runtime/queue.py` ResourceLimiter, `memory/`, `knowledge/`, `plugins/`, `governance/`, MCP, Google and Meta executors, cost governance, configuration | see section 6 | | not modelled |

How they interact: the workers of the queue drive the runtime; the runtime's
stages call the model gateway, the observation gateway, the verifier and the
tool gateway; the tool gateway reaches the LIVE marketing executors; chat
requests start runs and stream their answers; the shell proxies all of this.

What makes each part correct is stated by the properties of section 3. The
hazards that make it hard, each at its line, are in `PROJECT.json`.

## 2. Modules

Composition. `RunManager` EXTENDS `DepartmentRuntime` and shares steps with it:
`WorkerStartRun` is the runtime's `StartRun`, `CancelSignal` its `CancelRun`.
`ModelGateway` EXTENDS `ModelSettings`: calls and settings transactions
interleave. `Deliberation`, `Lessons` and `WorldModel` EXTEND `Evidence`. The
other modules meet only in calls that one of them abstracts to an outcome: a
stage is an outcome in `DepartmentRuntime` and detailed in `StagePipeline`; a
tool receipt is an outcome in `StagePipeline` and detailed in `Observation`; an
adapter is an outcome in `ToolGateway` and detailed in `MarketingLive`.

Abstract specifications: `DispatchOnce` (queue: an admitted run is dispatched
once or closed), `GovernedEffects` (gateway: ask, grant, spend, fire),
`OneVoice` (model gateway: one provider speaks, one end).

`MCServices`, `MCWorkspace` and `MCServicesLive` check several modules in one
run, side by side: the variable `focus` picks one part in the initial state, the
other parts keep their first state, so the state space is the sum of the parts'
and not their product. Nothing is claimed there about how the parts interact. A
property of one part holds of the run exactly when it holds of that part, because
the others satisfy it where they began. In `MCBrain` a state that holds the
answer to a question has no successors: asking changes nothing but the answer,
and every other step forgets it, so such successors are reachable without it.

`PROJECT.json` maps each definition to the lines it models. Definitions whose
comment says *mutant* are plausible bugs of the definition that follows them; no
specification uses them. They show that each checked property depends on the code.

Core:

* `DepartmentRuntime`: one executor per run, `pc` its place, `stage` counts
  stages. `CheckCancellation` waits while the run is paused. `complete_run` takes
  six steps: its first status test and the assignment after it are made without the
  lock, and the locked block settles the status (`CompleteSettle`), seals and caches
  the artifact (`CompleteSeal`) and retires the context (`CompleteRetire`). Whatever
  takes the engine's lock waits while a run is inside that block (`LockFree`);
  `PublishEnd`, the end of the tool call of `request_publish_action` begun by
  `PublishBegin`, writes the status without the lock and falls anywhere in between.
  `early` is a history variable.
* `RunManager`: a step is one critical section, one call of the runtime or one
  store transaction; every save may fail, with what the code does then.
  `cancel_run` is `CancelBegin`, `CancelSignal`, then `CancelRollback` or
  `CancelConfirm`. `Crash` loses all but `db`; `RestoreMark` and `RestoreDone`
  are `_restore_durable_jobs`. An admission is one step: it runs under the
  enqueue lock and nobody else knows the new item. `dispatched` and
  `ackCancelled` are history variables.
* `ToolGateway`: each call of `execute` is a thread. The policy read is unlocked,
  the claim a step of its own; reserve, prepare, mark, ledger mark, adapter entry
  and exit, consume, finalize and settle follow in the code's order, each able to
  fail. An action stands for a request fingerprint, a key for a reservation id.
  Adapter and provider are external: entering counts as firing, because an
  entered adapter may have had its effect.

Services:

* `ModelSettings`: a change is one transaction of stages under the manager's lock
  (stage secrets, publish the file, apply to registry, policy, caches, commit),
  each stage may fail into the rollback, which may fail too; the process may stop
  anywhere. A credential is a version number. Runs pin the registry and the
  policy in two reads; collection of versions asks first and deletes later.
* `ModelGateway`: one call walks its candidates, pinned or live; `generate` in one
  piece, `generate_stream` delta by delta. `Voice` and `Closed` map it to
  `OneVoice`. The caller's own `allow_paid` (`gateway.py:679`) is left out.
* `MarketingLive`: connections, bindings, specs, executors and routes may change
  between the steps of a call. A consent is claimed, used for one post and
  consumed; the answer may be unreadable, each store write may fail, the backend
  may restart. A poll reads a record, asks the provider, and writes.
* `VerifierWorker`: callers pass the admission queue, then share one worker. A
  reader thread carries the worker's lines into the response queue; it names
  both through the client, so one that outlives its worker goes on with the next
  one's. Deadlines are steps that may happen whenever something waits. Writing a
  request has none: it fits the pipe's buffer, or the caller is `blocked`, holding the
  client's lock, until the worker reads (`WorkerReads`, which nothing obliges it to) or
  dies. Callers behind it wait for admission, which has a deadline.
* `ChatStream`: worker thread, bridge with its bound, request thread, socket,
  shell, channel, page, and polls of the session list that arrive late. The stored
  reply is the streamed words, these behind a title, or a notice (of a cancelled
  workflow, a failed route), under either status (`StoreReply`); one word, `Notice`,
  stands for any text that was not streamed. The page ends a turn on a terminal
  frame, or when the shell's call resolves or fails, whatever frames are still on their
  way (`DeliverTerminal`); `turn.end` remembers which.
* `ChatStore`: requests of several threads on one chat; `save_session` writes the
  row and then each message of a snapshot read earlier, one statement each. Rows of
  the same number are listed in one fixed order, where the query goes by the time of
  creation.
* `DesktopShell`: processes with ids, port, record file, job object and token; a
  launch in steps, the backend's own steps, the exit at any point. `Spawn` creates the
  process and puts it into the job object in one step (`main.rs:307-331`): that the
  shell dies between the two is left out.
* `PlanLife`, `Deliberation`, `Lessons`, `WorldModel`: the Brain validates and
  derives but keeps nothing, so its caller is free: it may propose any plan, any
  review, any run, any belief, and an action takes the proposal exactly when the
  constructors accept it. What a question is answered is in a variable of its own
  (`resumed`, `ruling`, `decided`, `question`).
* `StagePipeline`: six stages in order. A stage asks for tools, whose receipts the
  runtime keeps, compiles a numbered package for its agent into the run's one index,
  runs its agent (`Answer` of the stage), hands over facts, and may fail. A claim is
  what it cites; prompts and prose are left out.
* `Observation`: one lookup at a time. A search asks its backends in turn, each with
  its own reading of a reply; a page fetch follows redirects; a failing lookup leaves
  no record, and a search that found nothing may leave an empty one. A subject is known
  by both names, lacks its canonical name or its brand (the missing name then matches
  every text), or has no identity at all. `Conclude` makes the evidence bundle and the
  grounding context of the records so far.

## 3. Runs

| Run | Instance | Shows |
|---|---|---|
| `workspace` | 2 runs of 2 stages, cache of 1; 2 chat requests, 1 rename, 1 delete; 2 claims, 2 workers, 1 death, 1 reset; 3 processes; 3 pages, 2 redirects, 3 records | outcomes sealed honestly and for good, early cancellation wins; replies follow their questions; an answer is one's own; no stray backend; grounding is earned |
| `services` | 2 providers, 1 pinning run, 2 updates, 3 versions, 1 failure, 1 stop; 2 posts, 2 polls, 1 consent, 2 changes of wiring, 1 failing write, 1 restart; 3 plan steps, 2 plans; 3 sources, 3 agents, 3 runs, 2 strategies, 3 snapshots' worth of beliefs; 6 stages, 2 documents | credentials are kept and one revision shows; paid models need consent, one voice per answer; one post per consent, failure means no post, final states stay; ready steps rest on done work, resumes find nothing moved; actions are corroborated, durable lessons repeated, histories read back; plans are earned and facts solid |
| `services_live` | 1 run of 6 stages; 2 claims; 1 turn of 2 words, bridge of 1, 2 polls; 2 processes; fair | cancelled runs stop and unpaused runs end; claims are decided, or a hung worker's pipe stays blocked; turns end, a complete event comes behind the whole answer, shown answers stay; launches settle |
| `run_manager` | 1 run, 1 worker, 1 canceller, 2 failing saves, 1 crash | durable start, final cancellation, memory and table agree |
| `run_pair` | 2 runs, 2 workers, 1 failing save, 1 crash, fair | refinement of `DispatchOnce`; queued runs leave |
| `gateway_race` | 2 calls, 2 approvals, 2 actions with 1 key, 1 failure, 1 crash | refinement of `GovernedEffects`, which says one effect per key and per approval; ledger and intents agree |
| `gateway_faults` | 1 call of any of three kinds, 2 failures, 2 crashes, fair | evidence and replies are true; claimed approvals are spent, lost dispatches reported |
| `cancelled_preserved`, `orphan`, `verifier_respawn`, `three_runs`, `source_ids` | smallest that shows it | counterexamples, see section 5 |

Three of the properties have to be read with care, because the code does less than one
expects. `EveryClaimDecided` excepts a claim whose write stays blocked for ever on
a living worker, and excepts nothing behind it. `CompletedMeansWhole` speaks of
what was said, not of what was stored, and promises completeness only where the complete
event ended the turn: a call that resolves first ends the turn as completed with
what has arrived. `GroundingIsEarned` asks for records about the subject where the
subject has both its names; what the code makes of other subjects and of empty
discussion searches is in section 5.

Bounds. Races are between two parties over one thing (a key, token, id, consent,
row, revision), so two parties are taken; three sources, runs and steps because
the Brain's rules count to three and look one level down a chain of dependencies.
Two stages stand for six where the loop treats the middle ones alike;
`StagePipeline` has all six. A cache of one makes eviction happen with two runs;
a bridge of one fills with two words. `Max...` constants bound failures,
crashes, restarts, retries, polls and versions: one or two of each suffice for a
fault between any two steps and a fault while another is handled. `MaxFacts` ends the
handing over of facts, each of which rests on one source of its own: one fact shows
where any of them may come from. `OperatorRuns`
bounds which runs the operator's endpoints touch directly. Runs that allow
deadlock stop because the bounded work is done. Symmetry is used in
`run_manager` only, a safety run whose constants are treated alike.

Type invariants (`...TypeOK`) are not among the checked properties. They are theorems
of the modules that have one, on its own or as part of the inductive invariant.

Fairness. Executors, workers, gateway threads, calling threads of the verifier,
the threads of a stream, the page, the shell's launch and the backend it starts
are operating-system threads or event loops whose waits carry deadlines (a
paused run waits, and its action is disabled meanwhile): weak fairness of each. The one
wait without a deadline, a blocked write to the verifier's worker, ends by a step of the
worker, of which no fairness is assumed.
A dead backend is started again and finishes loading: weak fairness of recovery.
Operators, dying processes and failing stores owe nothing: properties that need
an operator to act say so as a premise. The launch relies on the child: reading
its hand-shake has no deadline and ends when it announces itself or dies.

## 4. Proofs

What a run checks on a small instance, a theorem states for all values of the
constants, liveness apart. Eight modules hold the proofs:

| Module | About |
|---|---|
| `DepartmentRuntimeProofs` | `DepartmentRuntime` |
| `RunManagerProofs` | `RunManager`, over the runtime's theorems; refinement of `DispatchOnce` |
| `ToolGatewayProofs` | `ToolGateway`; refinement of `GovernedEffects` |
| `MarketingLiveProofs` | `MarketingLive` |
| `ModelGatewayProofs` | `ModelSettings`, `ModelGateway`; refinement of `OneVoice` |
| `StagePipelineProofs` | `StagePipeline` |
| `BrainProofs` | `PlanLife`, `Deliberation`, `Lessons`, `WorldModel` |
| `WorkspaceProofs` | `DesktopShell`, `VerifierWorker`, `Observation`, `ChatStream`, `ChatStore` |

The assumptions are named in the modules (`...Assumption`) and TLC evaluates them on
every run. They type the constants and keep the "none" values apart. Beyond that:
gated actions and actions with a key are consequential, a quorum is at least one,
posts are no polls, sources that are found are among the signals, the fallback chain
and the pages a search has read name each once (the code removes duplicates and reads
at most three), message ids are distinct because they are the table's primary key.

Each proof has one shape: an inductive invariant, first checked by TLC, that holds
initially and is preserved, with a lemma for each action or group of like actions,
and one theorem per property. What each invariant adds to its property is the reason
why the property holds:

* `RuntimeInv`: the type invariant and, per run, where it is registered
  (`LiveInv`: an executing run is registered, and a sealed one that stays so was
  ready for deployment), which final outputs and statuses go together at each place of the
  executor (`FinalInv`), and that an early cancellation is still on record or has
  become the outcome (`EarlyInv`). The last is needed because the status alone
  can be overwritten by a failing stage; the recorded id is what survives.
* `ManagerInv`: `RuntimeInv` and how queue, workers, cancellers, items and table
  fit. Its core: a run is in at most one of the queue and the workers' hands; a
  run in either place before `start_run` is reserved and undispatched; past
  WORKER_STARTED the table says so; whoever is not in either place can never
  return to the queue, because its row exists.
* `GatewayInv`: per call what its position implies (`PositionInv`), what intent,
  receipt and reply may say (`EvidenceInv`), that past the claim the token is
  the call's (`ClaimInv`) and past the reservation the key is (`KeyInv`); per
  approval and key, that unissued tokens and unused rows are blank and settled
  rows agree with the owner's intent. `KeyInv` and `ClaimInv` carry ownership
  from the atomic step that decides the race to the adapter call, which is what
  the once-only properties need.
* `LiveInv` of `MarketingLiveProofs`: per post, what the call's position and answer
  say of the provider (`PostInv`); that a consent once claimed stays spent and one
  call holds it (`ConsentInv`), so neither an unreadable answer nor a restart frees
  it; per poll, that what it is about to write is a step allowed from the record it
  has seen, or the record has a newer version and the write is refused (`PollInv`).
* `ModelInv`: at each stage of a settings transaction, which of file, memory,
  registry and policy are old and which are new (`StageInv`); that every committed
  or pinned version is in the vault or among those a failed clean-up left behind, and
  that what a reclaim is about to delete is neither (`VaultInv`); that without consent
  to paid models the settings say so everywhere a call may look, pins included
  (`ConsentInv`). `CredentialsKept` is not inductive by itself: a version is missed
  only after several stages. With `CallInv`, what a call has said at each of its
  places, every step of a call is a step of `OneVoice` or a stutter.
* `PipelineInv`: what the stages so far have come to (`OutcomeInv`), that an index
  entry names text of the library or a receipt of a settled tool (`IndexInv`), and
  that a fact (`FactInv`) and a measured evaluation (`EvaluationInv`) rest on a
  verified text or a real receipt. They stay true because the receipt of a settled
  tool never changes, which is `ReceiptsTheorem`, an action property.
* `PlanInv`: the current plan satisfies what its constructor checks, and plan and
  world are never behind the saved checkpoint, strictly ahead once one of them has
  moved (`SavedInv`). Numbers alone do not show that: a step report makes a snapshot
  with the same revision, so being ahead includes more steps finished. Finished
  steps are closed under dependencies, which is why `ReadyRestsOnDone` needs no
  induction along the chain.
* `DeliberationInv`: the set of reviews is finite. Without duplicated reviews the
  supporting ones come from different peers and disjoint sources, so there are as
  many agents as reviews (a bijection), which is what the quorum counts.
* `LessonsInv`: the recorded runs are finite in number, and when a strategy is proposed
  the trials have a best one. A consolidation counts runs and the property counts sources:
  each supported run has a signal in favour that its source made, and sources of
  different runs differ, so there are as many sources as runs.
* `WorldInv`: revisions of a belief are dated in order and none after its snapshot;
  a later snapshot adds to a belief only revisions made since (`Extends`). That gives
  back by date what was believed at any earlier snapshot.
* `ShellInv`: whatever is in the job object is the shell's child and runs.
* `VerifierInv`: the semaphore's owner is the one thread past admission, a verdict is
  given once and at its time (`AdmissionInv`), and every thread between registration
  and leave is counted (`WaitersInv`), which bounds them.
* `ObservationInv`: a fetch goes along pages that its capability may read, none of
  them twice (`FetchInv`), so a record of a page's content names an allowed page.
  `RedirectsTheorem` states both.
* `StreamInv`: from the words on the screen the channel goes on, then the socket, then
  the bridge's queue, up to the last word said, and a completion stands only at the
  end (`FlowInv`); with it, what the store and a poll under way may hold
  (`StoredInv`), how worker, shell and page stand together (`PhaseInv`), and what each
  session of the list shows (`ListInv`). `ShownTheorem`, an action property, follows.
* `HistoryInv`: while nobody deletes the chat, the table has one row per id numbered
  below the number of rows, no stored number ever changes, and a request writes back
  only rows that are stored, but for the one message it adds, which is numbered by
  the length of the list it read. A question is stored before its answer is numbered,
  so the answer's number is higher. A listing is as long as the table because the
  places of the rows are a bijection.

`SealedTheorem`, `EvidenceTheorem`, `FinalTheorem`, `ResumeTheorem`, `ReceiptsTheorem`
and `ShownTheorem` are about what a step may never do. In the refinements
(`DispatchOnceTheorem`, `EffectsTheorem`, `OneVoiceTheorem`) initial states map to
initial states and every step maps to an abstract step or a stutter; what follows from
one of them (`AtMostOneDispatch`, `KeyFiresOnce`, `ApprovalFiresOnce`,
`GatedFiresApproved`) is proved as a theorem of its own.

Only model-checked: the eight liveness properties, since the prover handles neither
fairness nor ENABLED. The refinements are proved for the safety part of the abstract
specifications. That a listing of `ChatStore` is sorted, which takes an induction over
its length, is not proved and no theorem needs it.

## 5. What the checks found

Runs that end in a counterexample:

* `cancelled_preserved`: `complete_run` tests the status and assigns COMPLETED in
  two unlocked steps (`engine.py:2896-2902`). A cancellation accepted between
  them is overwritten, although the comment at `engine.py:2965` promises that
  CANCELLED is preserved.
* `orphan`: `RunManager.cancel_run` restores the status it read before signalling
  when the signal is refused or raises (`queue.py:612`, `622`). If the worker has
  finished by then, the item is RUNNING for good with no worker, against
  `PLATFORM_JOB_QUEUE_HARDENING_V1.md` section 5.
* `verifier_respawn`: a worker's death that is noticed by the end of its output
  uses up the one respawn (`client.py:436`, `604`), so the next call refuses and no
  worker is ever started again, against `client.py:31` and `test_27b`.
* `three_runs`: consolidation of three supported runs raises as soon as one of
  them carries a weak contradicting signal (`learning_consolidation.py:258`), since
  the memory policy compares with the supporting evidence alone.
* `source_ids`: packages number their items from 1 in every stage
  (`context_compiler.py:167`) and share one index, so a "unique" source id comes to
  name another source.

Eight more statements are in the modules, are refuted by TLC when put in place of
the properties of the run named, and have no run of their own:

* `ResearchCancelPreserved` (`cancelled_preserved`): `run_research_inquiry` assigns
  COMPLETED whatever the status (`engine.py:3339`).
* `CompletedIsRetired` (`cancelled_preserved`): the locked block of `complete_run` seals
  the artifact first and tests the status again before it retires the context
  (`engine.py:3017`). The unlocked write of `request_publish_action`
  (`engine.py:2882-2889`) falls between the two, and a run sealed COMPLETED stays
  registered for good, against `test_26` of
  `test_prod_runtime_01_single_run_authority.py`.
* `HungWorkersEnd` (`services_live`): the write of a request blocks under the client's
  lock and has no deadline (`client.py:579-580`). A worker that hangs without reading, and
  a frame larger than the pipe's buffer, block the caller, `reset` and `close`, against
  the deadline authority of `test_prod_verifier_02_sidecar_boundary.py:435`; the tests'
  silent worker reads. Admission is a semaphore of one with a deadline, so other
  callers time out.
* `ReceptionHasContent` (`workspace`): a discussion search that found nothing is a record
  of user content (`discussion_backend.py:253`, `relevance.py:356`), so two of them
  make the community's reception SUPPORTED, against the rule at `models.py:489`.
* `OffSubjectIsOut` (`workspace`): an empty canonical or brand name is searched as two
  word boundaries with nothing between and matches every text (`relevance.py:86-87`); pages
  that do not mention the subject then support its dimensions, against the rule at
  `models.py:499`.
* `EditKept` (`workspace`): an edited message is overwritten by a snapshot
  (`session.py:350`).
* `NoDuplicateSession` (`services_live`): a session stays in the list under its temporary
  and its real id (`streamState.ts:303`).
* `StartupReclaimsOrphans` (`services`): a version staged for a provider that was never
  committed is not reclaimed (`settings_manager.py:358`).

Also met while modelling, outside what the modules state: an outage of all search
engines is a successful empty observation (`search_backend.py:537`); a duplicate counts
as a second record of support; `atexit` of a backend that failed to bind removes
the running backend's record (`server.py:122`, `2010`).

## 6. Not modelled

* `ResourceLimiter` (`queue.py:172`): nothing under `src/` acquires or releases a slot.
* `memory/`, `knowledge/`, `plugins/`: stores and tables without concurrent
  protocols of their own; other modules take them as constants or outcomes.
* Google and Meta executors, MCP client, transport code: I/O.
* `governance/` and other text processing, prompt building, parsing of pages:
  a claim is what it cites and a page what it mentions.
* Chat attachments and package memory items in `StagePipeline`, scope ids, backend
  health, token budgets, progress events, lineage, record hashes and integrity
  checks (a corrupt database is out of scope), rendering.

## 7. Plan

Done: sixteen parts modelled and checked, their safety properties proved. Left, in
this order:

1. `PublishFlow`: the runtime's publish request, the operator's approve-and-publish
   path and the gateway's calls in one composition.
2. Knowledge versions and memory promotion over their stores.
3. Attachments in `ChatStore` and `StagePipeline`.
4. What the proofs of liveness would need, as safety lemmas: that a waiting thread's
   helper is never done before it.
