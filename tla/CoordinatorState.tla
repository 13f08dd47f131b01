-------------------------- MODULE CoordinatorState --------------------------
(***************************************************************************)
(* State of BackendCoordinator and the questions it asks of that state     *)
(* while it holds mutex_.  Admission.tla adds the steps of acquire_slot    *)
(* and release_slot, Lifecycle.tla those of load, unload, swap and the     *)
(* VRAM planner; BackendCoordinator.tla composes them.                     *)
(*                                                                         *)
(* A step of the model is one critical section of mutex_, or one native    *)
(* call made between two of them.  The two lifecycle locks (swap_mutex_,   *)
(* sidecar_mutex_) stay held across steps, as in the code.                 *)
(*                                                                         *)
(* resource_generation_ only matters through comparisons with a remembered *)
(* value, so each request keeps one stamp instead of a counter: "before"   *)
(* (generation_before still equals it), "parked" (retry_after_generation   *)
(* still equals it) or "none"; a bump resets every stamp.  A continuation  *)
(* hold remembers a generation too, so a bump also voids every hold.       *)
(***************************************************************************)
EXTENDS PrioritySessions, Integers, Sequences, FiniteSetsExt

CONSTANTS
    Models,        \* registered models
    Requests,      \* threads calling acquire_slot, each once
    Operators,     \* dashboard and benchmark threads, each doing one job
    Worker,        \* the thread of SwapTracker
    Nobody,        \* owner of a free lock, holder of a free lease id
    Setups         \* configurations of the process, each with a workload

VARIABLES
    setup,      \* the configuration the process was started with, never changed
    pc,         \* per thread: where it is
    call,       \* per thread: locals of its lifecycle call
    owner,      \* per lifecycle lock: the thread that holds it
    tracker,    \* state_ of SwapTracker
    backend,    \* instances_ and the state of each instance
    current,    \* current_loaded_
    sample,     \* the live VRAM observation, -1 when stale
    leases,     \* active_leases_, per lease id
    nextLease,  \* next_lease_id_
    active,     \* active_requests_by_model_
    reserved,   \* active_context_reservation_by_model_
    draining,   \* draining_models_
    resizing,   \* resizing_models_
    queue,      \* waiters_, oldest first
    waiter,     \* per request: its SlotWaiter
    stamp,      \* per request: its view of resource_generation_
    hold,       \* continuation_holds_ that are still valid in time
    clock       \* seconds

threadVars == <<pc, call, owner>>
residencyVars == <<backend, current, sample>>
leaseVars == <<leases, nextLease, active, reserved>>
queueVars == <<queue, waiter, clock>>
genVars == <<stamp, hold>>
otherVars == <<setup, tracker, sessionVars>>
vars == <<threadVars, residencyVars, leaseVars, draining, resizing, queueVars,
          genVars, otherVars>>

Threads == Requests \cup Operators \cup {Worker}
Locks == {"swap", "sidecar"}

(* The fields of a setup. *)
Info == setup.info              \* ModelInfo and traits of its runtime, per model
Asks == setup.asks              \* what a request may ask for
Jobs == setup.jobs              \* what an operator may be told to do
InitiallyLoaded == setup.loaded \* models resident when the requests arrive
Budget == setup.budget          \* vram_budget_mb_
Margin == setup.margin          \* vram_safety_margin_mb_
Samples == setup.samples        \* values of observed_vram_used_mb_
MaxQueue == setup.maxQueue      \* max_queue_size_
MaxLeaseId == setup.maxLease    \* numeric_limits<int>::max() of issue_lease_locked
MaxClock == setup.maxClock      \* bound: seconds of queue age that are told apart
Clients == setup.clients        \* bound: request threads that arrive
Talks == setup.talks            \* whether voice sessions are used

LeaseIds == 1 .. MaxLeaseId
InfoType ==
    [role : {"conversation", "voice", "media", "helper"}, cpu : BOOLEAN,
     runtime : {"llama", "vllm", "fixed"},
     slots : Nat, minSlots : Nat, required : Nat, fixed : Nat, perSlot : Nat,
     always : BOOLEAN, evictable : BOOLEAN, pool : STRING, limit : Nat,
     auto : BOOLEAN, context : Nat, contextMax : Nat, contextVram : Nat,
     grace : BOOLEAN, faults : SUBSET {"oom", "error", "unload", "grow", "reclaim",
                                       "resize", "resizeTwice",
                                       "estimate", "sick", "refuse", "launch"}]
AskType == [model : Models, prio : Int, key : SessionKeys \cup {"cache", "none"},
            demand : Nat, load : {"none", "ensure", "direct"}, block : BOOLEAN]
JobType == [op : {"load", "unload", "post"}, model : Models]

\* validate_model_resources, and what it takes for granted.
ValidInfo(i) ==
    /\ i.minSlots <= i.slots
    /\ i.limit >= 1 /\ i.limit <= i.slots
    /\ i.always => ~i.evictable
    /\ i.role = "conversation" /\ i.always => ~i.cpu
    /\ i.role = "helper" => i.always /\ i.cpu

SetupType ==
    [info : {f \in [Models -> InfoType] : \A m \in Models : ValidInfo(f[m])},
     asks : SUBSET AskType, jobs : SUBSET JobType, loaded : SUBSET Models,
     budget : Nat, margin : Nat, samples : SUBSET Nat, maxQueue : Nat \ {0},
     maxLease : Nat, maxClock : Nat, clients : Nat, talks : BOOLEAN]

ASSUME CoordinatorAssumption ==
    /\ Setups \subseteq SetupType
    /\ NoModel \notin Models
    /\ SessionModels \subseteq Models
    /\ Nobody \notin Threads
    /\ Requests \cap Operators = {} /\ Worker \notin Requests \cup Operators

\* The registry of one process holds finitely many models.
ASSUME RegistryAssumption == IsFiniteSet(Models)

----------------------------------------------------------------------------
(* ModelInfo predicates. *)
Primary(m) == Info[m].role = "conversation"
VoiceMedia(m) == Info[m].role = "voice"
Sidecar(m) == ~Primary(m) /\ Info[m].cpu
LockOf(m) == IF Sidecar(m) THEN "sidecar" ELSE "swap"

(* One backend instance: "none" is no entry in instances_, "empty" an instance
   that is not loaded. *)
NoBackend == [st |-> "none", healthy |-> TRUE, slots |-> 0, busy |-> {},
              context |-> 0, trimmed |-> FALSE]
FreshBackend(m) == [st |-> "empty", healthy |-> TRUE, slots |-> Info[m].slots,
                    busy |-> {}, context |-> 0, trimmed |-> FALSE]
LoadedBackend(m, b) == [b EXCEPT !.st = "loaded", !.healthy = TRUE, !.busy = {},
                                 !.context = Info[m].context, !.trimmed = FALSE]
EmptyBackend(b) == [b EXCEPT !.st = "empty", !.busy = {}, !.context = 0,
                             !.trimmed = FALSE]

Loaded(m) == backend[m].st = "loaded"
Ready(m) == m \notin resizing /\ Loaded(m) /\ backend[m].healthy

Free(m) == IF Info[m].runtime = "vllm" /\ ~backend[m].healthy THEN {}
           ELSE (0 .. backend[m].slots - 1) \ backend[m].busy

(* estimate_vram_mb(n_slots()) of an instance b of m. *)
Estimate(m, b) ==
    LET i == Info[m]
        sized == i.fixed > 0 /\ i.perSlot > 0
        full == IF sized THEN i.fixed + i.perSlot * Max({i.minSlots, b.slots})
                ELSE i.required
        least == IF sized THEN Max({i.required, i.fixed + i.perSlot * i.minSlots})
                 ELSE i.required
    IN  IF i.runtime # "llama" THEN IF b.st = "loaded" THEN i.required ELSE 0
        ELSE Max({least, full - (IF b.trimmed THEN i.contextVram ELSE 0)})
Vram(m) == Estimate(m, backend[m])
Resident == {m \in Models : Loaded(m)}
OnGpu == {m \in Resident : Vram(m) > 0}

(* available_vram_locked, with the observation's total equal to the budget. *)
Complete(m) == Info[m].runtime = "llama"
Fresh == sample # -1
Available ==
    LET declared == Max({0, Budget - Margin - MapThenSumSet(Vram, Resident)})
        lazy == MapThenSumSet(Vram, {m \in OnGpu : ~Complete(m)})
        observed == Max({0, Budget - Margin - sample - lazy})
    IN  IF Budget = 0 THEN 0
        ELSE IF ~Fresh THEN declared
        ELSE IF \A m \in OnGpu : Complete(m) THEN observed
        ELSE Min({declared, observed})

\* Mutant: what is resident does not count.
FitsAlone(m) == Budget - Margin >= Info[m].required

Fits(m) == Available >= Info[m].required

(* select_primary_locked over instances b; equal estimates go to the first
   name, which is any of them here. *)
Selections(b) ==
    LET loaded == {m \in Models : b[m].st = "loaded" /\ Primary(m)}
    IN  IF loaded = {} THEN {NoModel}
        ELSE {m \in loaded : \A n \in loaded : Estimate(m, b[m]) >= Estimate(n, b[n])}

----------------------------------------------------------------------------
(* Admission predicates. *)
Arrived == {r \in Requests : pc[r] # "start"}
Waiting == {queue[i] : i \in DOMAIN queue}
Pos(r) == CHOOSE i \in DOMAIN queue : queue[i] = r

\* admission_pool_allows_locked
PoolLoad(m) == MapThenSumSet(LAMBDA n : active[n],
                   {n \in Models : active[n] > 0 /\ Info[n].pool = Info[m].pool})

\* Mutant: one too many.
PoolAllowsOneMore(m) == PoolLoad(m) <= Info[m].limit

PoolAllows(m) ==
    IF Info[m].auto THEN ~Loaded(m) \/ active[m] < backend[m].slots
    ELSE PoolLoad(m) < Info[m].limit

\* priority_media_active_locked
VoiceActive == \E m \in Models : active[m] > 0 /\ backend[m].st # "none" /\ VoiceMedia(m)

\* Mutant: queued voice requests do not count.
WaitsForRunningVoice(m, key) ==
    /\ Primary(m)
    /\ VoiceActive \/ \E k \in SessionKeys : Engaged(k) /\ key # k

\* request_waits_for_priority_media_locked
WaitsForVoice(m, key) ==
    /\ Primary(m)
    /\ \/ /\ \E k \in SessionKeys : Engaged(k)
          /\ ~(key \in SessionKeys /\ Engaged(key) /\ session[key].model = m)
       \/ VoiceActive
       \/ \E w \in Waiting : VoiceMedia(waiter[w].model)

\* require_priority_session_allows fails
SessionBlocks(m) == \E k \in SessionKeys : Engaged(k) /\ session[k].model # m

\* another_prepare and another_prepared_waiter: no other waiter is preparing, or
\* has prepared and not taken its slot yet, unless voice holds it up.
PreparesAlone(r) ==
    \A o \in Waiting \ {r} :
        /\ ~waiter[o].preparing
        /\ waiter[o].prepared => WaitsForVoice(waiter[o].model, waiter[o].key)

\* waiter_is_actionable_locked
Actionable(r) ==
    LET w == waiter[r]
        m == w.model
    IN  /\ m \notin draining \cup resizing
        /\ ~w.preparing
        /\ stamp[r] # "parked"
        /\ ~WaitsForVoice(m, w.key)
        /\ PoolAllows(m) \/ w.demandPrepared
        /\ IF Loaded(m) /\ backend[m].healthy
           THEN Free(m) # {} \/ w.demandPrepared
           ELSE Sidecar(m) \/ PreparesAlone(r)

\* score_for: the common clock cancels out of every comparison.
Score(r) == waiter[r].prio - waiter[r].enqueued
Ahead(a, b) == Score(a) > Score(b) \/ (Score(a) = Score(b) /\ Pos(a) < Pos(b))
Foremost(S) == {a \in S : \A b \in S \ {a} : Ahead(a, b)}

\* waiter_is_resource_barrier_locked
Barriers == {r \in Waiting : waiter[r].blocked /\ ~Sidecar(waiter[r].model)}

\* Mutant: a blocked waiter may be overtaken.
PassesFreely(r) == TRUE

\* Not behind the foremost barrier.
PassesBarrier(r) ==
    \A b \in Foremost(Barriers) :
        r = b \/ Sidecar(waiter[r].model) \/ Score(r) >= Score(b)

\* continuation_hold_valid_locked
NoHold == [key |-> "none", prio |-> 0]
HoldValid(m) ==
    /\ hold[m] # NoHold
    /\ m \notin draining \cup resizing
    /\ ~VoiceActive
    /\ Loaded(m) /\ backend[m].healthy /\ backend[m].slots = 1
    /\ Info[m].runtime = "vllm" /\ Info[m].grace

\* the waiters waiter_is_next_locked may select
Selected ==
    LET ready == {r \in Waiting : Actionable(r)}
        hasPrepared == \E r \in ready : waiter[r].prepared
    IN  Foremost({r \in ready :
            /\ hasPrepared => waiter[r].prepared \/ Sidecar(waiter[r].model)
            /\ PassesBarrier(r)})

\* waiter_is_next_locked
IsNext(r) ==
    \E s \in Selected :
        LET m == waiter[s].model
            kept == {w \in Waiting : /\ waiter[w].model = m
                                     /\ waiter[w].key = hold[m].key
                                     /\ Actionable(w)}
        IN  IF /\ \A b \in Foremost(Barriers) : waiter[b].model = m
               /\ ~Sidecar(m) /\ ~VoiceMedia(m)
               /\ HoldValid(m)
               /\ ~\E w \in Waiting : waiter[w].prio > hold[m].prio /\ Actionable(w)
            THEN r \in kept /\ \A w \in kept : Pos(r) <= Pos(w)
            ELSE r = s

----------------------------------------------------------------------------
(* Steps shared by every operation. *)

\* ++resource_generation_
Bump ==
    /\ stamp' = [r \in Requests |-> "none"]
    /\ hold' = [m \in Models |-> NoHold]

\* the operation bumps the generation exactly when c holds
BumpIf(c) == IF c THEN Bump ELSE UNCHANGED genVars


\* resizing_models_.erase(m)
StopResizing(m) == resizing' = resizing \ {m}

Goto(t, label) == pc' = [pc EXCEPT ![t] = label]

\* A call made with a deadline or a cancellation predicate may be given up at
\* any point where the code looks at them.  Operators pass neither.
Patient(t) == t \in Operators

NoPrior == [m \in Models |-> 0]
NoCall == [job |-> "none", target |-> NoModel, model |-> NoModel,
           ret |-> "none", lret |-> "none", res |-> "ok", error |-> "ok",
           lease |-> 0, slots |-> 0, moved |-> NoBackend, primary |-> FALSE,
           tried |-> {}, force |-> FALSE, observed |-> FALSE,
           prior |-> NoPrior, previous |-> NoModel]

\* What a finished lifecycle call releases: everything when it returns to its
\* caller, the sidecar lock when it returns to a swap that restores a sidecar.
Top(t) == IF t \in Requests THEN "prepared" ELSE "finish"
Return(t, label, res) ==
    /\ Goto(t, label)
    /\ call' = [call EXCEPT ![t] =
                  IF label = Top(t) THEN [NoCall EXCEPT !.res = res, !.lease = call[t].lease]
                  ELSE [@ EXCEPT !.res = res]]
    /\ owner' = [l \in Locks |->
                   IF /\ owner[l] = t
                      /\ label # "create"
                      /\ label = Top(t) \/ l = "sidecar"
                   THEN Nobody ELSE owner[l]]
=============================================================================
