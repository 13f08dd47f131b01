# A TLA+ model of InferDeck

InferDeck is a C++ gateway that serves several language, speech and media models
from one machine whose GPU does not hold them all at once.  This directory models
its core: who may use which model when, how requests share one llama.cpp context,
how their output reaches the client, and how models, configuration, keys and
benchmarks are administered meanwhile.

- [The system](#the-system)
- [Modules](#modules)
- [How the models correspond to the code](#how-the-models-correspond-to-the-code)
- [Runs](#runs)
- [Where the code and its documents disagree](#where-the-code-and-its-documents-disagree)
- [Other observations](#other-observations)
- [Proofs](#proofs)
- [What is not modelled](#what-is-not-modelled)
- [Plan](#plan)

## The system

| Component | State | Operations | Talks to |
| --- | --- | --- | --- |
| `BackendCoordinator`, admission | `waiters_`, `active_leases_`, counters and reservations, continuation holds, `resource_generation_` | `acquire_slot`, `release_slot`, estimates, context growth | runtimes, prepare callbacks of the routes |
| `BackendCoordinator`, lifecycle and residency | `instances_`, `current_loaded_`, draining and resizing marks, VRAM budget; `swap_mutex_`, `sidecar_mutex_` | load, unload, swap, reclaim, shrink, evict, restore | runtimes, registry, telemetry |
| Voice sessions | `priority_sessions_`, token counter | reserve, refresh, hold, complete, release | speech and chat routes |
| `SwapTracker`, `ensure_model_loaded` | one swap worker, last outcome | start, end, wait until idle | coordinator, dashboard |
| llama.cpp runtime | context, pool and sequence capacity, slots, scheduler | load, unload, grow, reclaim, fit | coordinator, scheduler |
| `ContinuousBatchScheduler`, prompt cache | tasks, KV cells, what each slot remembers | submit, cancel, admit, draft, decode, retire, stop | callers of `predict`, llama.cpp |
| `GenerationSession`, chat and Responses routes | bounded queue of deltas, abort and cleanup flags, UTF-8 buffers | produce, write, abort, clean up | inference thread, HTTP server |
| Media routes | jobs, output files, `history.json`, decode permit | run, store, save, prune, cancel | coordinator, disk |
| `ModelStore` | jobs, reserved names, manifest, files, maintenance | install, cancel, resume, quantize, archive, remove | disk, network, registry |
| `ConfigRepository`, loader, validator | base and active file, registry, aliases | save, reset, alias, unregister, reload | disk, `run_gateway` |
| `ApiKeyStore`, background lease | keys, one lease row | create, revoke, acquire, renew, release | routes |
| Profile benchmark and scheduler | job, maintenance resource, recommendation | start, measure, restore, cancel | coordinator |
| vLLM wrapper, native media runtimes | loaded flag, slots, health | load, unload, acquire | coordinator |
| `EventBus`, observability, optimizer, tools, dashboard | — | — | — |

What is hard about it, with the properties that make it correct:

* A lease is granted under `mutex_`; lifecycle operations pick a victim under
  `mutex_`, unlock, and act under a lifecycle lock.  A granted slot must stay usable
  (`LeaseSafe`, `ServiceImplemented`), native calls must not overlap
  (`NativeSerialized`), marks must be taken back (`FlagsOwned`), and three copies of
  one count must agree (`CountsMatch`, `PoolWithinLimit`).
* Every lifecycle operation can fail or expire at many points (`VramWithinBudget`,
  `SelectedIsResident`).  A request that cannot be served parks; it must not be
  forgotten (`ParkedHasBlocker`, `Served`) or overtaken for ever (`BarrierHolds`), and
  voice goes first (`VoiceFirst`, `HoldsMatchHolders`, `TokensName`,
  `HeldSessionSurvives`).
* One thread decodes for everybody on one KV cache, with slots that remember what a
  sequence held (`SequenceExclusive`, `CacheFaithful`, `DraftInSync`), a bounded pool
  (`PoolFits`), tasks on their callers' stacks (`TasksAlive`), and failures that must
  answer all (`Answered`).
* A context is destroyed before its successor exists, on devices other programs use
  (`FitBest`, `PoolSettled`).
* A stream is produced by one thread, written by another and cleaned up by whoever
  comes first (`SlotExclusive`, `AccountedOnce`, `StreamFaithful`, `PendingBounded`,
  `Closes`); media outputs and their history must survive a crash (`HistoryKept`).
* Store jobs are cancelled, resumed and interrupted while others remove, quantize and
  load (`RegisteredVerified`, `CancelHonoured`, `StoreSettled`).
* Configuration is checked by one program text and loaded by another
  (`AcceptedStarts`), changed in memory and on disk in two steps
  (`RestartChangesNothing`), and edited with its secrets masked (`SecretsKept`).
* Programs and jobs compete for what only one may have, over lost answers and
  restarts (`LeaseExclusive`, `BenchmarkSettled`).

`PROJECT.json` lists the hazards at their lines.

## Modules

| Module | What it is |
| --- | --- |
| `PrioritySessions` | voice sessions |
| `SlotService`, `SlotService_proofs` | abstract specification of what the coordinator promises its routes, and theorems |
| `CoordinatorState` | state of the coordinator, and the questions asked under `mutex_` |
| `Admission` | `acquire_slot`, `release_slot`, estimates and context growth |
| `Lifecycle` | load, unload, swap, rollback, and the VRAM planner |
| `SwapTracker` | the swap worker, `ensure_model_loaded`, `handle_swap_to` |
| `BackendCoordinator` | all of them composed, the properties; it implements `PrioritySessions` and `SlotService` |
| `CoordinatorThreads_proofs` | locks, marks and types of every thread at every label |
| `CoordinatorLeases_proofs` | leases, counters, busy slots and residency agree |
| `BackendCoordinator_proofs` | voice sessions, what follows for the properties, and the two refinements |
| `SumLemmas` | sums over finite sets, for the counters |
| `PromptCache` | the slots of a llama.cpp model and the callers that use them |
| `BatchScheduler` | the decoding thread, on top of `PromptCache` |
| `BatchScheduler_proofs` | slots, tasks, what the cells of every sequence are, and that they fit the pool |
| `PoolFit` | `fit_context_pool`, probe by probe |
| `ContextPool` | load, growth, reclamation and slots, on top of `PoolFit` |
| `StreamText` | sizes, UTF-8 buffers, Chat and Responses events, as operators |
| `RouteSlots` | what the data-plane handlers share |
| `GenerationSession`, `MediaJobs` | text sessions; media requests and their history |
| `Routes`, `Routes_proofs` | both on the same slots, with fairness and properties, and theorems about slots, accounting, the media history and the queues |
| `ModelStore`, `StoreUpkeep` | installs; the rest of the store, crash and restart, properties |
| `ConfigRules` | schema, validator, loader and registration as operators on documents |
| `ControlState`, `ConfigControl`, `ApiKeys`, `ProfileBenchmark` | the parts of the control plane |
| `Control`, `Control_proofs` | their composition, with reload and crash, and the theorems about the lease, the secrets and benchmarks |
| `MCCoordinator`, `MCBatch`, `MCPool`, `MCRoutes`, `MCStores`, `MCControl` | instances for TLC |

The four families (coordinator, runtime, data plane, control plane with the store)
meet at interfaces that one side keeps and the other relies on: routes use slots as
`SlotService` promises them, `PromptCache` is used through slots the coordinator
grants, `ContextPool` is the inside of the growth and reclamation steps of
`Admission` and `Lifecycle`, and the maintenance resource of the benchmark is the one
`StoreUpkeep` claims.

## How the models correspond to the code

**Steps.**  A step is one critical section, one native call, one write to disk or to a
client, or the stretch between two points at which the thread reads something others
change.  `pc`, `at`, `th` and `worker` say where a thread is.  Consecutive stretches in
which no other thread can tell the difference are one step.

**Instances.**  Every family has one variable, chosen in `Init` and never changed
(`setup`, `rig`, `store`, `office`), that holds the configuration of the process and
what its environment will ask for and let fail.  One run thereby covers several
machines and workloads.

**Coordinator.**  A request calls `acquire_slot` once, with a prepare callback that
goes through `SwapTracker` (`"ensure"`), swaps by itself (`"direct"`) or is absent.  An
operator is a dashboard or benchmark thread with one load, unload or posted swap.
`resource_generation_` is only compared with a remembered value: a request's `stamp`
is `"before"` or `"parked"` while its remembered value is current, and every `++`
resets all stamps and voids the continuation holds.  Deadlines, cancellation
predicates and the swap cancellation flag are a nondeterministic give-up at the points
where the code looks at them.  Waits are bounded by 100 ms, so wake-ups need no
model.  The faults of a model say which native calls may fail.  The total of the VRAM
observation equals the budget; rollback restores in any order; chats hold sessions
independently of the request threads.

**Scheduler.**  `kv` and `draft` hold the token of every cell of a sequence; `slots`
what `SlotState` remembers; `task` the `SlotTask`.  A token is a number, sampling is a
choice, a stop string is a position at which the caller stops.  `dozing` is the point
between the loop's test and its sleep.  Target and draft model are taken to have
contexts of their own.

**Context pool.**  A device is a number of memory units; what a context takes is linear
in padded tokens and sequences, twice with a drafter.  `Pad` = 4 stands for the 256
tokens llama.cpp rounds to, `Least` = 8 for 512.  `Elsewhere` lets other programs take
and give back memory between any two probes.  `calm` is a history variable: since the
operation began nothing moved and no native call failed.

**Data plane.**  A byte of text is what UTF-8 makes of it: the length of the character
it begins, or a continuation.  A client may leave at any time; the server then calls
the provider's releaser, as httplib does.  The coordinator is a set of slots.  The
history on disk is what the last completed save wrote; a crash forgets all but disk.

**Store.**  A file is a size and whether its content is right; a transfer ends well,
corrupt, short, over-long or not at all.  A start of a job makes a new cancellation
flag, named by a token.  The Windows build is modelled (hashing of files).

**Control plane.**  A document is a function from sections and keys to values; absent
keys take the loader's defaults; `Mistyped` is a value of the wrong type.  Saving is:
fetch the masked text, edit, enter the transaction with the fetched revision.  Each
`ApiKeyStore` operation is one transaction; an answer may be lost after it.  A
measurement is a record chosen from a set.

## Runs

Deadlock is checked in the coordinator runs and in `Pool`; the others stop when all
that was asked for is done.

| Run | States | What is in it | Properties |
| --- | --- | --- | --- |
| `Residency` | 660,000 | `Swaps`: three models that do not fit together, one can shrink, one runs out of memory, one fails to load, an operator unloads. `Queued`: the same with ageing. `Legacies`: no budget, a queue of one, one lease id, refused and failed swap starts. `Continues`: a one-slot vLLM model that turns unhealthy. `Reserving`: two keys, guards and chats that share voice sessions | `TypeOK`, `SessionTypeOK`, `HoldsMatchHolders`, `TokensName`, `HeldSessionSurvives`, `LeaseSafe`, `ParkedHasBlocker`, `FlagsOwned`, `VramWithinBudget`, `SelectedIsResident`, `BarrierHolds` |
| `Capacity` | 720,000 | `Grows`: a context pool against an unload. `Reclaims`: idle context taken for a media model, with telemetry. `Resizes`: shrinks that fail once or twice. `Sidecars`: a CPU runtime under its own lock. `Talking`: speech, a voice session and two conversation models. `Sharing`: three models with different limits in one admission pool, of three clients. `Exhausted`: two requests when one lease id is left | `CountsMatch`, `NativeSerialized`, `PoolWithinLimit`, `VoiceFirst` |
| `Service` | 130,000 | `Waits`: two requests for models that must make room for each other. `Unstarted`: the same when the swap worker cannot be started or the runtime is refused. Both under `FairSpec` | `Served`, `ServiceImplemented` |
| `Scheduler` | 350,000 | shared prefixes, leaving clients, a bounded pool, requests too large for it, drafting alone and resynchronised, a recurrent model with checkpoints, streamed tokens without characters, failing decodes and contexts made anew | `BatchTypeOK`, `SequenceExclusive`, `CacheFaithful`, `DraftInSync`, `PoolFits`, `TasksAlive`, `Answered` |
| `Pool` | 970,000 | automatic, pooled, fixed, embedding and over-wide models; a drafter; devices others use; every native failure | `FitBest`, `PoolSettled` |
| `Streaming` | 200,000 | slow and leaving clients, split characters, log probabilities, four kinds of Responses items; image, music, video, speech and transcription with failing disks, files that cannot be removed, a full history and restarts | `SlotExclusive`, `AccountedOnce`, `StreamFaithful`, `PendingBounded`, `HistoryKept`, `Closes` |
| `Stores` | 210,000 | single files and bundles, cancelled, resumed, broken, interrupted; concurrent manifests; names that are aliases, with a crash before they are refused; one model removed twice at once; a bundle removed half-way; quantization against removal and loads, without a thread, and for a name given away | `RegisteredVerified`, `CancelHonoured`, `StoreSettled` |
| `Control` | 285,000 | concurrent edits of aliases, files and registry with failing writes; several hundred single documents, accepted or not, some with values only the loader converts, each followed by a restart; rival programs; benchmarks against quantization and against requests that swap models out | `AcceptedStarts`, `RestartChangesNothing`, `SecretsKept`, `LeaseExclusive`, `BenchmarkSettled` |
| `LateLoad`, `LostAbort`, `TwiceResumed`, `AliasLost` | | see below | `LeaseSafe`, `Closes`, `OneThread`, `AliasesKept` |

**Bounds.**  Memory is counted in units of a few GB, so that budgets of 6 to 8 hold one
large model, two small ones, or a shrunk and a small one.  Two actors of a kind are
enough for every pairwise race, and a third party (swap worker, scheduler thread,
saver, crash) can be in the middle of something; three requests appear where a third
one matters (pool admission, drafting windows, the decode permit).  Prompts have up to
three tokens over an alphabet of two: shorter, equal, extended and diverging prefixes
all occur.  Queues hold one or two entries, so they fill.  Each instance takes the
smallest bounds at which its failure paths are taken; the passing runs reach every
action and every disjunct.  Requests are interchangeable (`Symmetry`) in the
coordinator's safety runs.

**Fairness.**  `Served` assumes weak fairness of each thread's own steps and of the
deadline of `ensure_model_loaded`: threads are scheduled, native calls return, lease
holders release (the routes do so through guards), and a poll ends at the deadline
the code computed.  It does *not* assume that a queued request gives up.  `Answered`
assumes that the scheduler thread moves on wherever it does not wait, and that callers
drain their queues.  `Closes` assumes that handlers, threads and the start-up sweep
move on, and that runtimes return; clients and the dashboard owe nothing.

**Refinement.**  `ServiceImplemented` maps a client's grant to its entries in
`active_leases_` and a model's size to the slots of its loaded instance.  Every
admission must be an `Acquire` of a served free slot, every release a `GiveBack`, and
a load, unload or resize a `Change` of a model nobody uses.

**Where properties are restricted.**  `LeaseSafe` and `ServiceImplemented` are checked
without runtimes that use the default `IBackend::load(control)`, for which `LateLoad`
refutes the first; `ParkedHasBlocker`
with models that use VRAM and without swaps posted for a model somebody waits for;
`NativeSerialized` with sidecars whose requests carry no demand; `SelectedIsResident`
without a resize that fails twice.  The next two sections say why.
`VramWithinBudget` is about declared footprints, without telemetry.  `Closes` is
checked in `Streaming` with leaving clients whose queue does not fill; `LostAbort` is
the other case.  `PendingBounded` allows for what the chat provider took off too much.

What follows is in the runs, and excepted by name in the property, because the code
does otherwise:

* `CacheFaithful` says that cells and remembered text agree where no streamed answer has
  tokens without characters (`Voiced`), and only that the cells are as many as counted
  where one has.
* `RegisteredVerified` excepts a model removed twice at once and a bundle whose removal
  may have failed half-way (`Unsure`).
* `StoreSettled` excepts such names, and one given to a new model while its removal fails
  (`Contested`); what the manifest lists without an artifact after a restart; and the
  start at which `load_manifest` forgets what it had read (`Forgetful`).
* `AcceptedStarts` excepts a base file with a value that only `load_config` converts
  (`Converts`).
* `BenchmarkSettled` excepts restored models that the swap of a late request, or of the
  start-up loader, has unloaded again (`ousted`).
* `HistoryKept` counts a file whose removal failed among the orphans.

## Where the code and its documents disagree

Each of these is a run that TLC ends with a counterexample.

* `LateLoad` (`LeaseSafe`).  The default `IBackend::load(control)`
  (`ibackend.hpp:45`), which the fixed media runtimes use, looks at the cancellation
  once more after `load()` has returned and then unloads.  By then others see the
  instance loaded and may hold a lease on it.  `docs/architecture.md:247`: "Unload
  drains active requests before destroying a backend."
* `LostAbort` (`Closes`).  `GenerationSession::finish_once` sets `aborted` and notifies
  without `mtx`.  A producer between the predicate of its wait for room and its sleep
  misses it, and the join that follows never returns.
  `docs/openai-compatibility.md:42`: "A disconnect requests native cancellation,
  completes request accounting once, releases its slot once".
* `TwiceResumed` (`OneThread`).  Two resumptions of one failed download pass the checks
  of `resume` and `start`; the second `emplace` into `workers_` destroys a joinable
  thread, which terminates the process.  `model_store_downloads.ipp:114`: "download is
  already running".
* `AliasLost` (`AliasesKept`).  Between the save of a file and the reload, an alias is
  rendered from the old registry into the new document, whose own aliases are lost.
  `docs/configuration-schema.md:71`.

## Other observations

Found while modelling, by the models or beside them; no run is kept for these.

*Coordinator.*
- An estimate holds `swap_mutex_` while a CPU sidecar is unloaded under
  `sidecar_mutex_` (`backend_coordinator_execution.cpp:15`;
  `docs/model-resource-lifecycle.md:72`).
- `release_slot` moves the generation only for models with a positive VRAM estimate;
  a request parked for the context of a CPU model stays parked
  (`backend_coordinator_queue.cpp:302`).
- A prepared waiter does not notice that its context was reclaimed
  (`backend_coordinator_queue.cpp:234`; `docs/architecture.md:290`).
- A swap cancelled or expired after an eviction returns before the rollback
  (`backend_coordinator_lifecycle.cpp:312`; `docs/model-resource-lifecycle.md:56`).
- The last outcome of `SwapTracker` is matched by target name only: a request may park
  on a refusal whose reason is gone (`routes.cpp:609`).
- When a shrink fails for the new and for the old size and the operation then ends
  early, `current_loaded_` keeps naming the unloaded model.

*Runtime.*
- `stop()` of the scheduler notifies without the mutex of the waiting loop; a
  notification lost in `dozing` leaves the join waiting.
- An empty prompt makes the scheduler spin; the single-token path does not count
  the last token.
- `predict_stream` leaves tokens with an empty piece out of what the slot remembers
  (`llama_cpp_decoding.ipp:241`), although they are in the cells.  The next prompt on the
  slot takes cells over by what is remembered, and may be decoded behind cells of
  another text: `CacheFaithful` fails without `Voiced`.
- `automatic_sequence_capacity` is never asked for, although `docs/architecture.md:98`
  describes the search.  A failed load leaves the capacities of the previous one.  A
  growth whose recovery fails after the drafter leaves a loaded model with a context
  and no slots or scheduler.

*Data plane.*
- The chat provider takes log probabilities off `pending_bytes` that were never
  charged; the counter wraps.  They are dropped while the UTF-8 buffer holds bytes.
- An image or music job ends "completed" after a late cancellation was accepted; video
  looks again.
- `prompt_summary` is cut at a byte and may end within a character; saves of the
  history fail until that job is pruned.
- Files left by a crash between their creation and the save of their job are never
  deleted.  The decode permit may be held for five minutes while waiters give up after
  thirty seconds.  The provider's "aborted" branch is unreachable while streaming.
- The error of a removal is ignored (`media_routes.cpp:153`), and the history no longer
  names the file: it stays for ever.

*Store.*
- A cancellation between a job's reservation and its start's new flag is lost.
- A crash between rename and manifest leaves a file that makes later installs of the
  name fail.  A removal whose save fails restores memory only.
- Two removals of one model at once: both pass the checks, `unregister` tolerates that the
  other was faster, the loser finds the file gone, takes that for an I/O error, and its undo
  registers the model again and lists it as installed
  (`model_store_library.ipp:9`, `model_store_library.ipp:105`).  `remove_all` of a bundle
  that fails half-way ends the same way, with what is left of it.  Both against
  `docs/architecture.md:161`, "A partial or corrupt artifact is never registered."
  (`Unsure` in `RegisteredVerified`).
- A crash between the save of the manifest and the refusal of a name that is an alias
  leaves an entry at which `register_model` throws; `load_manifest`'s `catch (...)` then
  forgets every installed model (`model_store_library.ipp:325`), though those before it
  stay registered, and the next save loses them for good (`Forgetful`).
- A quantization whose thread cannot be created frees its output name, unlocks, and frees
  the name again (`model_store_quantization.ipp:166`): an install that has reserved it in
  between loses its reservation.

*Control plane.*
- Base keys without a check may be mistyped in an accepted document; the loader then
  throws at the next start (`Converts` in `AcceptedStarts`).  An implicit and an explicit
  admission pool of one name are never compared (`config_validation.hpp:363`): their models
  share the pool with different limits, which `Sharing` shows the coordinator to bear.  A
  placeholder sent for a secret that is not set is stored.
- After an alias change the status reports that a restart is required.  An alias named
  like an installed model empties the installed list at start.
- Two renewals of one lease at once may shorten it.  A benchmark cancelled after its
  last check ends "completed".  The restoration loads
  without evicting, but late requests and the start-up loader swap: `restored: true` may be
  out of date when it is published, because one of them has unloaded a model after its
  restoration.

## Proofs

TLAPS proves, for every value of the constants:

* `BackendCoordinator_proofs`, of `PrioritySessions`: `SessionTypeCorrect`,
  `TokensNameReservations`, `HoldsAreCounted`, `HeldSessionsSurvive`.  They rest on `SessionAssumption`: the
  chats are a finite set, and `NoModel` is not a model.  `HoldsMatchHolders` is not
  inductive alone: that a completed hold is not counted on a newer entry needs that a
  token names one reservation, which in turn needs that every token in use is below
  the counter.  The invariant is therefore the conjunction of the types, `TokensName`
  and `HoldsMatchHolders`.  The counting itself goes through the set `Holders(k)`:
  each action is shown to add one chat, to remove one, or to leave the set as it is,
  and the cardinality facts of `FiniteSetTheorems` do the rest.  `HeldSessionSurvives`
  is an action property that follows from the invariant: an entry with a holder has a
  positive count, so the purge of expired entries passes it by.
* `SlotService_proofs`: `ServiceTypeCorrect` and `ServiceExclusive`.  `Exclusive` is
  inductive with the types: a grant takes a pair outside `Taken`, and a size changes
  only when nothing of that model is taken.
* `CoordinatorThreads_proofs`: `ThreadsSafe`, `FlagsAlwaysOwned`,
  `NativeAlwaysSerialized`.
* `CoordinatorLeases_proofs`: `LeasesAgree`, `LeasesAlwaysSafe`.
* `BackendCoordinator_proofs`, of the coordinator: `SessionsImplemented` and `CoordinatorHolds` (the
  coordinator touches voice sessions by their own operations only), `CoordinatorTyped`,
  `VoiceComesFirst`, `CountsAlwaysMatch`, `PoolsStayWithinLimit`, and
  `ServiceAlwaysImplemented`, the refinement of `SlotService`.
* `BatchScheduler_proofs`: `SchedulerTyped`, `SequencesExclusive`, `TasksOutlived`,
  `CellsFaithful`, `DraftsFollow`, `PoolAlwaysFits`.
* `Control_proofs`: `LeaseAlwaysExclusive`, `SecretsAlwaysKept`, `BenchmarkAlwaysSettled`.
* `Routes_proofs`: `SlotAlwaysExclusive`, `AlwaysAccountedOnce`, `HistoryAlwaysKept`,
  `PendingAlwaysBounded`.

**The argument about the coordinator** has two layers.

*Threads.*  `ThreadInv` says, for each thread and each label of its program, which
lifecycle locks it holds and which models its locals name (`ThreadSafe`), for nested
calls as well: a load within a swap, or an unload within that load, remembers the label
it goes back to, and what that label relies on must hold all along (`FromLoad`,
`FromUnload`).
`Marks` says that `draining` and `resizing` are exactly the marks of the threads whose
label owns one.  A step of thread `t` is `Good(t)` when it re-establishes this for `t`
and leaves the others alone; there is one lemma per step, and they compose because
locks are exclusive.  `FlagsOwned` and `NativeSerialized` are read off it.

*Leases.*  `LeaseInv` adds that for every model the entries of `active_leases_`, the
counters and the busy slots of its instance agree (`Settled`), that the
instance a thread is about to load, unload or resize cannot have leases (`Calm`: it is
not loaded yet, was moved out of `instances_`, or is marked and idle), that a fresh id is not in
the table (`Unissued`) and that every lease is on a slot of a loaded instance that
exists (`Placed`).  None of these is inductive without the others, nor without
`ThreadInv`: a model stays idle while it is resized because admission looks at the mark,
and the mark is still there because no other thread owns it; an instance stays empty
until it is loaded because the thread holds its lifecycle lock.  `LeaseSafe` and
`TypeOK` follow; `CountsMatch` and `PoolWithinLimit` need in addition that
reservations and pool counts are sums over the table, which `SumLemmas` proves to
change by one summand when one entry changes.  The fold behind a sum is a recursive
function on subsets, and those facts are by induction over a set of numbers.  `VoiceFirst` is an action property: at a
grant, whatever path leads to it, the voice conditions were evaluated in the same
critical section.

*Refinement.*  A grant takes a pair that `Settled` shows to be free and `Placed` to
exist; a release gives back its own; any other step changes sizes only of models that
nothing is leased on, which `Calm` gives for the labels that do it.  The bound of the
service's sizes is `MostSlots`, the largest slot count of any configuration.

**The argument about the scheduler** has three layers.

*Kernel.*  `Seated`: a caller from its claim to its release holds a slot that nobody else
holds; the slot is busy, and bound once the caller is prepared; slots and sequences are one
to one, which `prepare_inference` keeps because it exchanges two of them.  `Alive`: the
thread's locals (`tasks`, `runnable`, who is done) name only tasks in `active_`, those have
a caller in `drain_task` and no last event yet, and a draining caller whose task has left
`active_` has exactly one, at the end of its queue.  `Metered`: a batch takes no more than
the rest of the prompt, and what was sampled stays below `max_tokens` while the task runs.
These three and the types are inductive together and give `BatchTypeOK`,
`SequenceExclusive` and `TasksAlive`.

*Memory.*  `CacheFaithful` is far from inductive: a task leaves its cells to a slot, a slot
its memory to the next task, and in between the text travels through the caller's queue.
`Truthful`: a slot on which nothing was started remembers its sequence's cells, as far as
both go; its checkpoint is a beginning of what it remembers, and the drafts are the cells
where it counts as synchronised.  All that speaks of text is under `Voiced`; how many
cells there are, and that the draft follows the target, does not depend on it.  `Fresh`: a task that was not started carries the memory
its slot still has.  `Faithful`: the cells of a started task are its prompt, then what its
caller has kept, then the tokens still in its queue; the last token sampled is not a cell
yet; the checkpoint it will leave is a beginning of the prompt; and its draft cells equal
the target's while it is eligible.  A release then records prompt and kept text, which
`Faithful` says the cells are.  All of it is given up for a cancelled task, whose slot is
released with nothing remembered, and after a failed decode (`terminal`), when no task
runs again until the contexts are made anew: until then a released slot may still
remember a prompt whose cells are gone, which is why the second half of `CacheFaithful`
has the condition `~terminal`.

*Pool.*  `PoolFits` bounds a sum over the sequences by what admission granted and evicted.
`Afforded`: the grants of the admitted tasks and the cells of the idle sequences together
fit the capacity, until the thread fails.  A round of admission keeps it because eviction
makes room or has emptied every idle sequence (`EvictFits`); a task that leaves trades its
grant for the cells of its sequence (`AffordMoved`, on `SumLemmas`), which is no loss as
long as it never holds more than it was granted.  That is `WithinGrant`, from two facts:
`Sized`, the cells of a started task number its prompt position while it is prefilled, then
its prompt and what it generated less one; and `Modest`, the drafts in a batch are no
longer than the margin of the grant, and nothing is generated before the prompt is done.
`Staged` says that whoever is decoded has been started.  The layer needs both others: that
a task's sequence is nobody else's, and what a rewind leaves of its cells.

**The argument about the background lease** is that a program decides by a time it read
before.  A program reads the clock when its call is authorized (`at`) and looks at the
row, or writes it, in a later transaction; meanwhile time passes, keys come and go, other
programs call, the database fails, and the process restarts.  `LeaseExclusive` alone is
not inductive: a row that had expired at the time read must not be one that somebody
still relies on, so `at` is bounded by the clock (`Timely`); a renewal must not make the
promise shorter, so the row promises its owner no more than the duration counted from
the time that was read (`Promised`); a grant must not become good again, or belong to a
key that is created later, so what a program believes is about a key that existed
(`Believed`) and identifiers to be created are free (`Unborn`).  A step disturbs the
caller that takes it, the types and the row; `Bystander` shows that the others keep
their part as long as their row is left alone unless it has expired.

**The argument about secrets** is that a client edits a masked copy and sends it back
later.  `SecretInv` ties the copy to the revision it was made from (`my[c].text` is the
masked `my[c].revision`) and says of both files that every secret in them was configured
for that field (`Kept`).  A save compares revisions, so the text whose secrets fill the
placeholders is the one the copy was made from; a placeholder therefore always finds its
secret (`RestoredKept`).  The routes that render a document themselves write no secret
(`RenderedKept`).

**The argument about benchmarks** follows the worker thread.  `BenchInv` has three parts.
`Owned`: the resource is free and nobody claims it, or the worker runs and nobody claims
it, or one caller claims it.  `Restored`: at each point after the measurements, what is
not left to do has been loaded again unless a load failed or somebody's swap has unloaded
it since, and the outcome is known before
the state is published.  `Judged`: every trial can be compared with the baseline, the
baseline was measured wherever the worker may still come to compare, nothing is
recommended before the end, and a recommendation has the property.  That it scores
highest is a property of `CHOOSE` over a finite set of numbers, and that scores are
numbers one of sums (`BestFits`, `ScoreInt`, on `SumLemmas`).  Requests and the
start-up loader may swap all along: whatever they unload goes into `ousted`, a restoration
takes its model out of it, and `Restored` speaks of the rest (`Ousts`).

**The argument about the data plane** is that three parties may clean up after a
request (the content provider, the resource releaser, the destructor) and one thread may
still compute.  `RouteInv` gives each request the part it plays at each point of its
handler (`SessionPart`, `MediaPart`): where it keeps a slot, where its thread may still
run, and that `records` is empty until the one step that writes it.  `cleaned`
(`cleanup_called_`) decides at the last points whether the request still owns anything: the step that
sets it is the step that goes on to join, record and give back, so whoever comes second
finds it set.  A media request that persists the history stands for the point it goes on
to (`Stage`).  `SlotsKept` says that the slots' owners and the requests that keep one
correspond one to one, and `PermitKept` the same of the decode permit; neither is
inductive without the parts, because a release looks only at the request that takes the
step.  A crash loses the threads and the slots together.

**The argument about the media history** is that a file is deleted in three steps that
other handlers, a failing disk and a crash may separate: the history in memory forgets
it, a history without it is saved, the file goes.  `HistoryInv` follows a file through
them.  `Existing`: what the jobs in memory, the saved history, a history being saved and
the handlers name is on disk.  `Discarded`: a file waiting for its deletion belongs to a
job that the history in memory, and the one being saved, do not have any more; together
with the order of the steps (`saved` is the snapshot once the sweep begins) this is why a
sweep deletes nothing listed.  A deletion may fail: the file is an orphan then
(`DeletedOrKept`).  It needs that a job is the only one to name its files
(`Sound`: a file carries its job's id, and ids are below the counter) and that a running
job is not pruned, has one handler (`Owned`, `Apart`, `Worked`) and lists nothing before
its outputs are attached.  `Accounted` says that nothing on disk is forgotten.  A restart
reads the saved history, so that everything is re-established from `saved` and `disk`
alone.  `Pruned`, the loop that drops the oldest job that is not running, is written in
closed form (the shortest prefix whose removal is enough), which `PrunedKeeps` reasons
about without induction.

**The argument about slow clients** is arithmetic in a type of finite width.
`pending_bytes` is not the size of the queue: the chat provider takes off more than was
charged, and the counter may wrap.  `Filled` says what it is: the charge of the queue,
less what was taken off too much (`over`), plus a number of full turns (`Balanced`),
where nothing wraps upwards because the wait looks at the remaining space before it adds.
From the counter being below the limit follows that the charge is below the limit plus
`over`, whatever the number of turns.  A delta that meets an empty queue is always let
in, so that one delta may exceed the limit alone.  That a sum grows by one summand with
the queue is `ChargedMore`, on `SumLemmas`.

**Assumptions.**  `SessionAssumption`: the chats are a finite set and `NoModel` is not a
model.  `CoordinatorAssumption`: the setups have their types, threads are of different
kinds.  `RegistryAssumption`: there are finitely many models.
`OfficeAssumption`: every program has a key of its own (two that share one may shorten
each other's lease), durations are whole hours, a key is created under an identifier that
was never in use, as the code draws it at random; the base document and every edit exist,
measurements have their types and try the same numbers of requests as the baseline, as
one run of the benchmark does.
`RigAssumption` of the data plane: a configuration has a number of slots, bounds that are
numbers, and asks for kinds of requests that the routes serve; that of the scheduler: slots
and cells are counted (`llama_n_ctx`), tokens are not negative, and a request may generate at least one token, as
`prepare_inference` refuses one whose prompt leaves no room (an empty prompt, or none of a
given length, is not assumed).  `StreamAssumption`: the limits of a stream
are numbers, and the limit of bytes and the size of every delta fit into the counter
(`std::size_t`).  Hypotheses of theorems:

* `SidecarsApart` (for native calls): a CPU runtime is not llama.cpp, and requests for
  it carry no context demand.  The code takes `swap_mutex_` for an estimate of any
  model but `sidecar_mutex_` to unload a sidecar; without the hypothesis the property
  fails, as [Other observations](#other-observations) records.
* `LoadsStay` (with the former, `LeaseHyp`): no runtime uses the default
  `load(control)`.  Without it `LeaseSafe` fails: `LateLoad` is the counterexample.
* `SlotsBounded` (for the refinement): the configured slot counts have a bound.  Any
  finite set of setups satisfies it; the service needs a largest size.

**Only model-checked.**  `Served`, `Answered` and `Closes`, because liveness under
fairness (and `ENABLED`) is outside the prover.  Of the coordinator: `ParkedHasBlocker`,
`VramWithinBudget`, `SelectedIsResident` and `BarrierHolds`, whose invariants are not
written.  Of the data plane: `StreamFaithful`, which is about what folds over deltas and
their pieces compute.  Of the runtime: the search of `PoolFit` and `ContextPool` (`FitBest`,
`PoolSettled`).  The properties of the store.  Of the control plane
`AcceptedStarts` and `RestartChangesNothing`, which say what a fold over a document's
entries makes of the registry.  What folds over sequences compute (`StreamText`,
`ConfigRules`, parts of `BatchScheduler`) needs induction over data, which is outside
it too.

## What is not modelled

Sampling, templates and media synthesis; parsing and wording of wire formats; HTTP,
origins, CSRF tokens, request sizes and rate limits; SQL and hashing; discovery and the
transport of downloads; the event bus, metrics and logs; the optimizer's numeric
search; the dashboard's user interface, the command-line tools and the third-party
runtimes.  Media prompts and progress counters in the scheduler; embeddings; a thread
that cannot be created in a speech stream; the calendar of the benchmark's scheduler,
which is a set of models tried today.  `PROJECT.json` gives the reason for every
component.

## Plan

1. Proofs: `CancelHonoured` and `StoreSettled`; the bounds of the search in `PoolFit`.
2. `VramWithinBudget` and `SelectedIsResident` of the coordinator, on top of
   `ThreadInv` and `LeaseInv`.
3. The swap cancellation flag as state, `unregister_model` and `drain_active` in the
   coordinator; the order of the teardown.
