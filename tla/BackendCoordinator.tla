------------------------- MODULE BackendCoordinator -------------------------
(***************************************************************************)
(* BackendCoordinator as a whole: request threads, operator threads, the   *)
(* swap worker, voice sessions, telemetry, the passing of time and native  *)
(* failures, over one state.                                               *)
(***************************************************************************)
EXTENDS Admission, SwapTracker

Init ==
    /\ setup \in Setups
    /\ pc = [t \in Threads |-> "start"]
    /\ call = [t \in Threads |-> NoCall]
    /\ owner = [l \in Locks |-> Nobody]
    /\ backend = [m \in Models |-> IF m \in InitiallyLoaded
                                   THEN LoadedBackend(m, FreshBackend(m)) ELSE NoBackend]
    /\ current \in Selections(backend)
    /\ sample = -1
    /\ leases = [n \in LeaseIds |-> NoLease]
    /\ nextLease = 1
    /\ active = [m \in Models |-> 0]
    /\ reserved = [m \in Models |-> 0]
    /\ draining = {} /\ resizing = {}
    /\ queue = <<>>
    /\ waiter = [r \in Requests |-> NoWaiter]
    /\ stamp = [r \in Requests |-> "none"]
    /\ hold = [m \in Models |-> NoHold]
    /\ clock = 0
    /\ tracker = [busy |-> FALSE, target |-> NoModel, last |-> "ok"]
    /\ SessionInit

\* A model that is executing fails; only a reload makes it healthy again.
Sicken(m) ==
    /\ Loaded(m) /\ backend[m].healthy /\ backend[m].busy # {}
    /\ "sick" \in Info[m].faults
    /\ backend' = [backend EXCEPT ![m].healthy = FALSE]
    /\ UNCHANGED <<threadVars, current, sample, leaseVars, draining, resizing, queueVars,
                   genVars, otherVars>>

\* update_vram_observation with a new value.
Observe(used) ==
    /\ sample # used
    /\ sample' = used
    /\ Bump
    /\ UNCHANGED <<threadVars, backend, current, leaseVars, draining, resizing, queueVars,
                   otherVars>>

\* The observation outlives live_vram_observation_ttl.
Lapse ==
    /\ Fresh
    /\ sample' = -1
    /\ UNCHANGED <<threadVars, backend, current, leaseVars, draining, resizing, queueVars,
                   genVars, otherVars>>

\* The deadline of a continuation hold passes.
HoldLapses(m) ==
    /\ hold[m] # NoHold
    /\ hold' = [hold EXCEPT ![m] = NoHold]
    /\ UNCHANGED <<threadVars, residencyVars, leaseVars, draining, resizing, queueVars,
                   stamp, otherVars>>

\* A second passes while somebody waits.
Tick ==
    /\ clock < MaxClock /\ queue # <<>>
    /\ clock' = clock + 1
    /\ UNCHANGED <<threadVars, residencyVars, leaseVars, draining, resizing, queue, waiter,
                   genVars, otherVars>>

Sessions ==
    /\ Talks
    /\ SessionNext
    /\ UNCHANGED <<threadVars, residencyVars, leaseVars, draining, resizing, queueVars, genVars,
                   setup, tracker>>

\* Every thread that was to arrive has returned.
Finished ==
    /\ Cardinality(Arrived) = Min({Clients, Cardinality(Requests)})
    /\ \A t \in Requests \cup Operators : pc[t] \in {"start", "done", "finish"}
    /\ Jobs # {} => \A o \in Operators : pc[o] # "start"
    /\ pc[Worker] = "start"
    /\ UNCHANGED vars

Next ==
    \/ AdmissionNext
    \/ LifecycleNext
    \/ TrackerNext
    \/ \E m \in Models : Sicken(m) \/ HoldLapses(m)
    \/ \E u \in Samples : Observe(u)
    \/ Lapse
    \/ Tick
    \/ Sessions
    \/ Finished

Spec == Init /\ [][Next]_vars

----------------------------------------------------------------------------
(* Types. *)
PrepareLabels == {"estimate", "estimating", "estimated", "capacity", "growing", "grown",
                  "prepared", "ensure", "await", "check", "post"}
LoadLabels == {"load", "create", "loading", "late", "loaded"}
UnloadLabels == {"unload", "draining", "unloading"}
PlanLabels == {"plan", "reclaim", "reclaimGuard", "reclaiming", "reclaimWait", "reclaimed",
               "shrink", "shrinkGuard", "shrinking", "evict", "evictGuard", "evicted", "verdict"}
SwapLabels == {"swap", "swapLoad", "swapLoaded", "force", "retry", "retryLoaded", "restore",
               "restoreLoad", "legacyLoad", "legacyLoaded", "legacyRestored"}
Labels == {"start", "queued", "leased", "released", "done", "finish"} \cup PrepareLabels
          \cup LoadLabels \cup UnloadLabels \cup PlanLabels \cup SwapLabels
Results == {"ok", "busy", "oom", "gone", "error", "notfound", "estimate"}
BackendType == [st : {"none", "empty", "loaded"}, healthy : BOOLEAN, slots : Nat,
                busy : SUBSET Nat, context : Nat, trimmed : BOOLEAN]

\* The coordinator's tables and every thread's locals hold values of their types.
TypeOK ==
    /\ setup \in Setups
    /\ pc \in [Threads -> Labels]
    /\ \A t \in Threads : /\ call[t].res \in Results /\ call[t].error \in Results
                          /\ call[t].moved \in BackendType
                          /\ call[t].lease \in 0 .. MaxLeaseId
    /\ tracker \in [busy : BOOLEAN, target : Models \cup {NoModel}, last : Results]
    /\ owner \in [Locks -> Threads \cup {Nobody}]
    /\ backend \in [Models -> BackendType]
    /\ current \in {m \in Models : Primary(m)} \cup {NoModel}
    /\ sample \in Samples \cup {-1}
    /\ nextLease \in 1 .. MaxLeaseId + 1
    /\ active \in [Models -> Nat] /\ reserved \in [Models -> Nat]
    /\ draining \subseteq Models /\ resizing \subseteq Models
    /\ stamp \in [Requests -> {"none", "before", "parked"}]
    /\ SessionTypeOK

----------------------------------------------------------------------------
(* Safety. *)
Held == {n \in LeaseIds : leases[n] # NoLease}
HeldOn(m) == {n \in Held : leases[n].model = m}

\* A request that was granted a slot keeps a live backend under it until it lets
\* go: nothing unloads, resizes or replaces the instance while the lease is out,
\* and no other lease has the same slot ("Unload drains active requests before
\* destroying a backend").
LeaseSafe ==
    \A n \in Held :
        /\ Loaded(leases[n].model)
        /\ leases[n].slot \in backend[leases[n].model].busy
        /\ \A o \in HeldOn(leases[n].model) \ {n} : leases[o].slot # leases[n].slot

\* The counters admission and draining rely on are exactly what the lease table
\* says: a slip would admit too much or make an unload wait for ever.
CountsMatch ==
    \A m \in Models :
        /\ active[m] = Cardinality(HeldOn(m))
        /\ reserved[m] = MapThenSumSet(LAMBDA n : leases[n].context, HeldOn(m))
        /\ Loaded(m) => Cardinality(backend[m].busy) = Cardinality(HeldOn(m))

\* A draining or resizing mark always belongs to exactly one thread that will
\* take it away; a mark left behind would block the model for good.
FlagsOwned ==
    LET marked(L) == {t \in Threads : pc[t] \in L}
        drains == marked({"draining", "unloading"})
        resizes == marked({"reclaimGuard", "reclaiming", "reclaimWait",
                           "shrinkGuard", "shrinking"})
        grows == marked({"growing"})
    IN  /\ draining = {call[t].model : t \in drains}
        /\ resizing = {call[t].model : t \in resizes} \cup {waiter[t].model : t \in grows}
        /\ Cardinality(draining) = Cardinality(drains)
        /\ Cardinality(resizing) = Cardinality(resizes \cup grows)

\* The threads inside a native call on an instance, and which instance.
Native == {t \in Threads : pc[t] \in {"loading", "late", "unloading", "reclaiming",
                                      "shrinking", "growing", "estimating"}}
NativeModel(t) == IF pc[t] \in {"growing", "estimating"} THEN waiter[t].model
                  ELSE call[t].model

\* "native load, resize, and eviction operations remain serialized": two threads
\* are never inside native calls on the same instance, nor on two GPU models.
NativeSerialized ==
    \A s, t \in Native : s # t =>
        /\ NativeModel(s) # NativeModel(t)
        /\ Sidecar(NativeModel(s)) \/ Sidecar(NativeModel(t))

\* A waiter that sleeps until the resource generation moves has a reason to
\* expect that it will: some lease on a GPU model is out, and its release moves
\* it.  Without one the waiter sleeps until its timeout, and as a barrier it
\* keeps others waiting with it.  Those who wait for SwapTracker have a worker
\* that will end the swap: a thread that could not be started leaves no swap
\* under way, which would refuse every later one.
ParkedHasBlocker ==
    /\ \A r \in Requests : stamp[r] = "parked" => \E n \in Held : Vram(leases[n].model) > 0
    /\ tracker.busy => pc[Worker] # "start"

\* Leases on fixed-capacity models never exceed the limit of their admission
\* pool (the largest of them, when its models disagree).
PoolWithinLimit ==
    \A m \in Models : ~Info[m].auto =>
        LET pool == {n \in Models : ~Info[n].auto /\ Info[n].pool = Info[m].pool}
        IN  Cardinality({n \in Held : leases[n].model \in pool})
              <= Max({Info[n].limit : n \in pool})

\* With declared footprints only, the resident models fit the budget.
VramWithinBudget ==
    Budget > 0 => MapThenSumSet(Vram, Resident) <= Budget - Margin

\* Once no lifecycle operation of a GPU model is under way, the selected
\* conversation model is resident, and one is selected if any is resident.
SelectedIsResident ==
    owner["swap"] = Nobody =>
        /\ current # NoModel => Loaded(current)
        /\ current = NoModel => \A m \in Resident : ~Primary(m)

Granted(r) == pc[r] # "leased" /\ pc'[r] = "leased"
GrantedModel(r) == leases'[call'[r].lease].model

\* A waiter that is blocked for resources is not starved by cheaper work: no
\* request with a lower score gets a slot past it, sidecars apart.
BarrierHolds ==
    [][\A r, b \in Requests :
         (Granted(r) /\ pc[r] = "queued" /\ b \in Barriers /\ r # b)
           => Sidecar(waiter[r].model) \/ Score(r) >= Score(b)]_vars

\* Voice comes first: no conversation request gets a slot while a speech or
\* transcription request waits or runs, or while another client's voice session
\* reserves the conversation; neither retained continuations nor a model that
\* was just prepared get around it.
VoiceFirst ==
    [][\A r \in Requests :
         (Granted(r) /\ Primary(GrantedModel(r)))
           => /\ \A w \in Waiting : ~VoiceMedia(waiter[w].model)
              /\ \A n \in Held : ~VoiceMedia(leases[n].model)
              /\ \A k \in SessionKeys : Engaged(k) =>
                   \E j \in SessionKeys : /\ Engaged(j)
                                          /\ leases'[call'[r].lease].key = j
                                          /\ session[j].model = GrantedModel(r)]_vars

----------------------------------------------------------------------------
(* What the routes are promised.  A client's slots are those of its entries in
   active_leases_, a model's size the slots of its loaded instance. *)
LeasedSlots(r) == {<<leases[n].model, leases[n].slot>> : n \in {k \in Held : leases[k].who = r}}
ServedSlots(m) == IF Loaded(m) THEN backend[m].slots ELSE 0

\* The most slots any model is configured with.
MostSlots == Max({0} \cup {s.info[m].slots : s \in Setups, m \in Models})

Service == INSTANCE SlotService WITH
    Clients <- Requests, Services <- Models,
    MaxSize <- MostSlots,
    grant <- [r \in Requests |-> LeasedSlots(r)],
    size <- [m \in Models |-> ServedSlots(m)]

\* The coordinator implements the slot service: no interleaving of admissions,
\* releases, loads, unloads, resizes and rollbacks takes a served slot away from
\* a client or hands out one that is not free.
ServiceImplemented == Service!ServiceSpec

----------------------------------------------------------------------------
(* Liveness. *)

\* What thread t does by itself.  Giving up is not among it: a queued request must
\* get on without the help of its timeout.
Progress(t) ==
    \/ /\ t \in Requests
       /\ \/ Estimating(t) \/ EstimateLock(t) \/ EstimateNative(t) \/ EstimateReturn(t)
          \/ PrepareCapacity(t) \/ CapacityLock(t) \/ CapacityNative(t) \/ CapacityReturn(t)
          \/ PrepareLoad(t) \/ LoadReturn(t) \/ NotReady(t)
          \/ EnsureReady(t) \/ EnsureSidecar(t) \/ EnsureStart(t) \/ EnsureAwait(t)
          \/ EnsureCheck(t)
          \/ CapacityStale(t) \/ Grant(t) \/ Release(t)
    \/ PostSwap(t)
    \/ t = Worker /\ SwapEnds
    \/ LoadStart(t) \/ LoadCreate(t) \/ LoadNative(t) \/ LoadLate(t) \/ LoadEnd(t)
    \/ UnloadStart(t) \/ Drained(t) \/ UnloadNative(t)
    \/ PlanNext(t)
    \/ SwapShort(t) \/ SwapStart(t) \/ Legacy(t) \/ SwapLoad(t) \/ SwapLoaded(t)
    \/ SwapForce(t) \/ SwapRetry(t) \/ Restore(t) \/ RestoreLoad(t)

\* Every thread is scheduled, native calls return, leases are given back, and the
\* deadline of ensure_model_loaded ends a poll that keeps missing the outcome.
FairSpec ==
    /\ Spec
    /\ \A t \in Threads : WF_vars(Progress(t))
    /\ \A r \in Requests : WF_vars(EnsureGiveUp(r))

\* A queued request is eventually granted a slot or told why not.
Served == \A r \in Requests : pc[r] = "queued" ~> pc[r] \in {"leased", "released", "done"}
=============================================================================
