------------------------------ MODULE Admission ------------------------------
(***************************************************************************)
(* acquire_slot and release_slot of BackendCoordinator.  A request thread  *)
(* queues a SlotWaiter, then repeats the loop of acquire_slot: one         *)
(* iteration is one step, taken when it changes something; an iteration    *)
(* that only sleeps on cv_ (at most 100 ms) is a stuttering step.          *)
(*                                                                         *)
(* The callbacks of the routes run between two iterations: demand is       *)
(* estimate_request_demand, prepare_capacity is prepare_request_capacity,  *)
(* prepare has the model swapped in (see SwapTracker.tla).                 *)
(***************************************************************************)
EXTENDS CoordinatorState

NoWaiter == [model |-> NoModel, prio |-> 0, key |-> "none", demand |-> 0,
             load |-> "none", enqueued |-> 0, preparing |-> FALSE,
             prepared |-> FALSE, demandPrepared |-> FALSE,
             capacityPrepared |-> FALSE, blocked |-> FALSE, aggregate |-> 0,
             sequences |-> 0]
NewWaiter(a) == [NoWaiter EXCEPT !.model = a.model, !.prio = a.prio,
                                 !.key = a.key, !.demand = a.demand,
                                 !.load = a.load, !.enqueued = clock]

\* erase_waiter_locked: also drops the continuation hold the waiter was kept for.
EraseWaiter(r) ==
    LET m == waiter[r].model
    IN  /\ queue' = SelectSeq(queue, LAMBDA q : q # r)
        /\ waiter' = [waiter EXCEPT ![r] = NoWaiter]
        /\ stamp' = [stamp EXCEPT ![r] = "none"]
        /\ hold' = IF hold[m].key = waiter[r].key
                   THEN [hold EXCEPT ![m] = NoHold] ELSE hold
        /\ UNCHANGED clock

Update(r, w) == waiter' = [waiter EXCEPT ![r] = w]

----------------------------------------------------------------------------
(* Leases. *)

\* issue_lease_locked: the id, the reservation and the counters; m's hold is used up.
IssueLease(r, w, slot) ==
    LET m == w.model
        n == nextLease
        continues == HoldValid(m) /\ hold[m].key = w.key
        context == IF w.demandPrepared THEN w.demand ELSE 0
    IN  /\ leases' = [leases EXCEPT ![n] =
                        [who |-> r, model |-> m, slot |-> slot, context |-> context,
                         key |-> w.key, prio |-> w.prio, continues |-> continues]]
        /\ nextLease' = n + 1
        /\ active' = [active EXCEPT ![m] = @ + 1]
        /\ reserved' = [reserved EXCEPT ![m] = @ + context]
        /\ backend' = [backend EXCEPT ![m].busy = @ \cup {slot}]
        /\ Goto(r, "leased")
        /\ call' = [call EXCEPT ![r].lease = n]

\* active_sequence_reservation_by_model_: one per lease with a demand.
Sequences(m) == Cardinality({n \in LeaseIds : leases[n].model = m /\ leases[n].context > 0})

NoLease == [who |-> Nobody, model |-> NoModel, slot |-> 0, context |-> 0,
            key |-> "none", prio |-> 0, continues |-> FALSE]

Arrives(r) == pc[r] = "start" /\ Cardinality(Arrived) < Clients

\* acquire_slot without blocking: takes a slot now or fails.
TryAcquire(r, a) ==
    LET m == a.model
        admitted ==
            /\ m \notin draining \cup resizing
            /\ Loaded(m) /\ backend[m].healthy
            /\ ~(HoldValid(m) /\ hold[m].key # a.key /\ a.prio <= hold[m].prio)
            /\ queue = <<>>
            /\ ~WaitsForVoice(m, a.key)
            /\ PoolAllows(m)
            /\ Free(m) # {}
            /\ nextLease <= MaxLeaseId
    IN  /\ Arrives(r) /\ ~a.block
        /\ IF admitted
           THEN /\ IssueLease(r, NewWaiter(a), Min(Free(m)))
                /\ hold' = [hold EXCEPT ![m] = NoHold]
                /\ UNCHANGED stamp
           ELSE Goto(r, "done") /\ UNCHANGED <<call, backend, leaseVars, genVars>>
        /\ UNCHANGED <<owner, current, sample, draining, resizing, queueVars, otherVars>>

\* acquire_slot, blocking: joins the queue, or fails when it is full.
Enqueue(r, a) ==
    /\ Arrives(r) /\ a.block
    /\ IF Len(queue) >= MaxQueue
       THEN Goto(r, "done") /\ UNCHANGED <<queue, waiter>>
       ELSE /\ Goto(r, "queued")
            /\ queue' = Append(queue, r)
            /\ Update(r, NewWaiter(a))
    /\ UNCHANGED <<call, owner, residencyVars, leaseVars, draining, resizing,
                   clock, genVars, otherVars>>

\* The loop found the request cancelled or past its deadline.
GiveUp(r) ==
    /\ pc[r] = "queued"
    /\ EraseWaiter(r)
    /\ Goto(r, "done")
    /\ UNCHANGED <<call, owner, residencyVars, leaseVars, draining, resizing, otherVars>>

\* Past the draining/resizing wait at the top of the loop.
Proceeds(r) == pc[r] = "queued" /\ waiter[r].model \notin draining \cup resizing

\* The branches of the loop, in the order the code tests them.
WantsEstimate(r) ==
    /\ Loaded(waiter[r].model) /\ waiter[r].demand > 0
    /\ ~waiter[r].demandPrepared
    /\ IsNext(r) \/ Head(queue) = r
WantsCapacity(r) ==
    /\ ~WantsEstimate(r)
    /\ Loaded(waiter[r].model) /\ waiter[r].demandPrepared
    /\ ~waiter[r].capacityPrepared
    /\ IsNext(r)
WantsLoad(r) ==
    /\ ~WantsEstimate(r) /\ ~WantsCapacity(r)
    /\ ~Loaded(waiter[r].model) \/ ~backend[waiter[r].model].healthy

CapacityIsStale(r) ==
    /\ waiter[r].capacityPrepared
    /\ \/ reserved[waiter[r].model] + waiter[r].demand > waiter[r].aggregate
       \/ Sequences(waiter[r].model) + 1 > waiter[r].sequences
WantsSlot(r) ==
    /\ ~WantsEstimate(r) /\ ~WantsCapacity(r) /\ ~WantsLoad(r)

----------------------------------------------------------------------------
(* demand: estimate_request_demand holds swap_mutex_ around the native call. *)
Estimating(r) ==
    /\ Proceeds(r) /\ WantsEstimate(r)
    /\ Update(r, [waiter[r] EXCEPT !.preparing = TRUE])
    /\ Goto(r, "estimate")
    /\ UNCHANGED <<call, owner, residencyVars, leaseVars, draining, resizing,
                   queue, clock, genVars, otherVars>>

EstimateLock(r) ==
    /\ pc[r] = "estimate" /\ owner["swap"] = Nobody
    /\ IF Loaded(waiter[r].model)
       THEN /\ owner' = [owner EXCEPT !["swap"] = r]
            /\ Goto(r, "estimating")
            /\ UNCHANGED call
       ELSE /\ Goto(r, "estimated")
            /\ call' = [call EXCEPT ![r].res = "notfound"]
            /\ UNCHANGED owner
    /\ UNCHANGED <<residencyVars, leaseVars, draining, resizing, queueVars,
                   genVars, otherVars>>

EstimateNative(r) ==
    /\ pc[r] = "estimating"
    /\ owner' = [owner EXCEPT !["swap"] = Nobody]
    /\ Goto(r, "estimated")
    /\ \E res \in {"ok"} \cup (Info[waiter[r].model].faults \cap {"estimate"}) :
          call' = [call EXCEPT ![r].res = res]
    /\ UNCHANGED <<residencyVars, leaseVars, draining, resizing, queueVars,
                   genVars, otherVars>>

EstimateReturn(r) ==
    /\ pc[r] = "estimated"
    /\ IF call[r].res = "ok"
       THEN /\ Update(r, [waiter[r] EXCEPT !.preparing = FALSE, !.demandPrepared = TRUE])
            /\ Goto(r, "queued")
            /\ UNCHANGED <<queue, clock, genVars>>
       ELSE EraseWaiter(r) /\ Goto(r, "done")
    /\ UNCHANGED <<call, owner, residencyVars, leaseVars, draining, resizing, otherVars>>

----------------------------------------------------------------------------
(* prepare_capacity: prepare_request_capacity, under swap_mutex_ as well. *)
PrepareCapacity(r) ==
    LET w == waiter[r]
        raised(old, new) == IF Info[w.model].auto THEN Max({old, new}) ELSE new
    IN  /\ Proceeds(r) /\ WantsCapacity(r) /\ stamp[r] # "parked"
        /\ Update(r, [w EXCEPT !.preparing = TRUE, !.blocked = TRUE,
                !.aggregate = raised(@, reserved[w.model] + w.demand),
                !.sequences = raised(@, Sequences(w.model) + 1)])
        /\ stamp' = [stamp EXCEPT ![r] = "before"]
        /\ Goto(r, "capacity")
        /\ UNCHANGED <<call, owner, residencyVars, leaseVars, draining, resizing,
                       queue, clock, hold, otherVars>>

CapacityLock(r) ==
    LET m == waiter[r].model
    IN  /\ pc[r] = "capacity" /\ owner["swap"] = Nobody
        /\ IF Loaded(m) /\ m \notin resizing
           THEN /\ owner' = [owner EXCEPT !["swap"] = r]
                /\ resizing' = resizing \cup {m}
                /\ Goto(r, "growing")
                /\ UNCHANGED call
           ELSE /\ Goto(r, "grown")
                /\ call' = [call EXCEPT ![r].res = IF Loaded(m) THEN "busy" ELSE "notfound"]
                /\ UNCHANGED <<owner, resizing>>
        /\ UNCHANGED <<residencyVars, leaseVars, draining, queueVars, genVars, otherVars>>

\* ensure_request_capacity of an instance b of model m for the waiter w: the
\* results it may give, each with the instance it leaves.
Growths(m, b, w) ==
    LET i == Info[m]
        same(res) == {[res |-> res, b |-> b]}
        grown == [b EXCEPT !.trimmed = FALSE, !.slots = Max({@, w.sequences}),
                           !.context = IF w.aggregate <= @ THEN @
                                       ELSE Min({i.contextMax, Max({w.aggregate, 2 * @})})]
    IN  IF i.runtime # "llama" \/ (w.aggregate <= b.context /\ w.sequences <= b.slots)
        THEN same("ok")
        ELSE IF ~i.auto THEN same(IF w.demand > b.context THEN "error" ELSE "busy")
        ELSE IF w.sequences > i.slots THEN same("oom")
        ELSE IF b.busy # {} THEN same("busy")
        ELSE IF ~b.healthy THEN same("error")
        ELSE IF w.aggregate > i.contextMax THEN same("oom")
        ELSE {[res |-> "ok", b |-> grown]}
             \cup (IF "grow" \in i.faults
                   THEN same("error") \cup {[res |-> "error", b |-> [b EXCEPT !.healthy = FALSE]]}
                   ELSE {})

\* The native call, then the section that ends the resize.  A growth bumps the
\* generation but keeps the continuation hold of a one-slot vLLM model.
CapacityNative(r) ==
    LET m == waiter[r].model
    IN  /\ pc[r] = "growing"
        /\ \E g \in Growths(m, backend[m], waiter[r])
                    \cup {[res |-> "gone", b |-> backend[m]]} :
              /\ backend' = [backend EXCEPT ![m] = g.b]
              /\ call' = [call EXCEPT ![r].res = g.res]
              /\ IF g.res = "ok"
                 THEN /\ stamp' = [s \in Requests |-> "none"]
                      /\ hold' = [n \in Models |->
                           IF n = m /\ Info[m].runtime = "vllm" /\ backend[m].slots = 1
                           THEN hold[n] ELSE NoHold]
                 ELSE UNCHANGED genVars
        /\ StopResizing(m)
        /\ owner' = [owner EXCEPT !["swap"] = Nobody]
        /\ Goto(r, "grown")
        /\ UNCHANGED <<current, sample, leaseVars, draining, queueVars, otherVars>>

\* How acquire_slot takes the result of a prepare callback: on success the
\* waiter becomes w; on ResourceBusy it stays a barrier, and parks unless the
\* generation moved during the callback; any other error ends the request.
TakeResult(r, w) ==
    /\ CASE call[r].res = "ok" ->
              /\ Update(r, [w EXCEPT !.preparing = FALSE, !.blocked = FALSE])
              /\ stamp' = [stamp EXCEPT ![r] = "none"]
              /\ Goto(r, "queued")
              /\ UNCHANGED <<queue, clock, hold>>
         [] call[r].res = "busy" ->
              /\ Update(r, [waiter[r] EXCEPT !.preparing = FALSE, !.blocked = TRUE])
              /\ stamp' = [stamp EXCEPT ![r] = IF @ = "before" THEN "parked" ELSE "none"]
              /\ Goto(r, "queued")
              /\ UNCHANGED <<queue, clock, hold>>
         [] OTHER -> EraseWaiter(r) /\ Goto(r, "done")
    /\ UNCHANGED <<call, owner, residencyVars, leaseVars, draining, resizing, otherVars>>

CapacityReturn(r) ==
    /\ pc[r] = "grown"
    /\ TakeResult(r, [waiter[r] EXCEPT !.capacityPrepared = TRUE])

----------------------------------------------------------------------------
(* prepare: make the model ready.  The routes call ensure_model_loaded, the loader
   of the default models swap_to_cancellable. *)
PrepareLoad(r) ==
    /\ Proceeds(r) /\ WantsLoad(r) /\ waiter[r].load # "none"
    /\ IsNext(r) /\ stamp[r] # "parked"
    /\ Update(r, [waiter[r] EXCEPT !.preparing = TRUE, !.blocked = TRUE, !.prepared = FALSE])
    /\ stamp' = [stamp EXCEPT ![r] = "before"]
    /\ LET job == IF waiter[r].load = "direct" THEN "swap" ELSE "ensure"
       IN  /\ Goto(r, job)
           /\ call' = [call EXCEPT ![r] = [NoCall EXCEPT !.job = job, !.target = waiter[r].model]]
    /\ UNCHANGED <<owner, residencyVars, leaseVars, draining, resizing, queue,
                   clock, hold, otherVars>>

LoadReturn(r) ==
    /\ pc[r] = "prepared"
    /\ TakeResult(r, [waiter[r] EXCEPT !.prepared = TRUE])

\* Not resident or not healthy, and the caller gave no way to load it.
NotReady(r) ==
    /\ Proceeds(r) /\ WantsLoad(r) /\ waiter[r].load = "none"
    /\ EraseWaiter(r)
    /\ Goto(r, "done")
    /\ UNCHANGED <<call, owner, residencyVars, leaseVars, draining, resizing, otherVars>>

----------------------------------------------------------------------------
\* Other requests got leases since the capacity was prepared.
CapacityStale(r) ==
    /\ Proceeds(r) /\ WantsSlot(r) /\ CapacityIsStale(r)
    /\ Update(r, [waiter[r] EXCEPT !.capacityPrepared = FALSE])
    /\ UNCHANGED <<threadVars, residencyVars, leaseVars, draining, resizing,
                   queue, clock, genVars, otherVars>>

\* The grant, or the end of the lease id space.
Grant(r) ==
    LET w == waiter[r]
        m == w.model
    IN  /\ Proceeds(r) /\ WantsSlot(r) /\ ~CapacityIsStale(r)
        /\ PoolAllows(m) /\ IsNext(r) /\ Free(m) # {}
        /\ IF nextLease <= MaxLeaseId
           THEN /\ IssueLease(r, w, Min(Free(m)))
                /\ queue' = SelectSeq(queue, LAMBDA q : q # r)
                /\ waiter' = [waiter EXCEPT ![r] = NoWaiter]
                /\ stamp' = [stamp EXCEPT ![r] = "none"]
                /\ hold' = [hold EXCEPT ![m] = NoHold]
                /\ UNCHANGED clock
           ELSE EraseWaiter(r) /\ Goto(r, "done") /\ UNCHANGED <<call, backend, leaseVars>>
        /\ UNCHANGED <<owner, current, sample, draining, resizing, otherVars>>

\* Mutant: nothing is given back.
Unreduced(total, part) == total

\* The counters never go below zero.
Reduced(total, part) == Max({0, total - part})

\* Mutant: a release does not move the generation.
ReleaseIsSilent(m) == FALSE

ReleaseBumps(m) == Vram(m) > 0

\* IBackend::release_slot accepts the slot.
Releases(m, slot) ==
    /\ backend[m].st # "none" /\ slot < backend[m].slots
    /\ Info[m].runtime = "vllm" => slot \in backend[m].busy

\* release_slot.  A second release of the same lease (route and stream state
\* both let go) finds no entry and changes nothing in the coordinator.
Release(r) ==
    LET n == call[r].lease
        l == leases[n]
        m == l.model
    IN  /\ pc[r] \in {"leased", "released"}
        /\ Goto(r, IF pc[r] = "leased" THEN "released" ELSE "done")
        /\ IF l = NoLease \/ ~Releases(m, l.slot)
           THEN UNCHANGED <<leaseVars, backend, genVars>>
           ELSE /\ leases' = [leases EXCEPT ![n] = NoLease]
                /\ active' = [active EXCEPT ![m] = Reduced(@, 1)]
                /\ reserved' = [reserved EXCEPT ![m] = Reduced(@, l.context)]
                /\ backend' = [backend EXCEPT ![m].busy = @ \ {l.slot}]
                /\ UNCHANGED nextLease
                /\ LET bumped == ReleaseBumps(m)
                       keeps == /\ ~l.continues /\ l.key = "cache"
                                /\ Info[m].runtime = "vllm" /\ Info[m].grace
                                /\ backend[m].slots = 1
                                /\ m \notin draining \cup resizing
                   IN  /\ stamp' = IF bumped THEN [s \in Requests |-> "none"] ELSE stamp
                       /\ hold' = [o \in Models |->
                            IF o = m /\ keeps THEN [key |-> l.key, prio |-> l.prio]
                            ELSE IF bumped THEN NoHold ELSE hold[o]]
        /\ UNCHANGED <<call, owner, current, sample, draining, resizing, queueVars, otherVars>>

AdmissionNext ==
    \/ \E r \in Requests : \E a \in Asks : TryAcquire(r, a) \/ Enqueue(r, a)
    \/ \E r \in Requests : GiveUp(r)
    \/ \E r \in Requests : Estimating(r) \/ EstimateLock(r) \/ EstimateNative(r)
                           \/ EstimateReturn(r)
    \/ \E r \in Requests : PrepareCapacity(r) \/ CapacityLock(r) \/ CapacityNative(r)
                           \/ CapacityReturn(r)
    \/ \E r \in Requests : PrepareLoad(r) \/ LoadReturn(r) \/ NotReady(r)
    \/ \E r \in Requests : CapacityStale(r) \/ Grant(r) \/ Release(r)
=============================================================================
