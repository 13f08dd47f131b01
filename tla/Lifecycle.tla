------------------------------ MODULE Lifecycle ------------------------------
(***************************************************************************)
(* Lifecycle operations of BackendCoordinator: load_with_lock_deadline,    *)
(* unload_with_control, swap_to_with_control and prepare_capacity_for.     *)
(*                                                                         *)
(* A thread's pc names the section it runs next; call[t].ret is where      *)
(* unload returns, call[t].lret where load returns, call[t].res the result *)
(* of the last call: "ok", "busy" (ResourceBusy), "oom" (OutOfMemory),     *)
(* "gone" (Cancelled or Timeout), "error" (any other code).                *)
(***************************************************************************)
EXTENDS CoordinatorState

\* Calls made with the recovery control (30 s, never cancelled).
Recovering(t) == call[t].ret \in {"restore", "restoreLoad"}
                 \/ call[t].lret \in {"restore", "legacyRestored"}
MayCancel(t) == ~Patient(t) /\ ~Recovering(t)
MayExpire(t) == ~Patient(t) \/ Recovering(t)


\* Mutant: nobody waits for the lock.
AnyTime(t, l) == TRUE

Obtainable(t, l) == owner[l] \in {t, Nobody}
Obtain(t, l) == owner' = [owner EXCEPT ![l] = t]
With(t, c) == call' = [call EXCEPT ![t] = c]
GoWith(t, label, c) == Goto(t, label) /\ With(t, c)

\* Calls to load(m) and unload(m), and their return labels.
CallLoad(t, m, lret) ==
    GoWith(t, "load", [call[t] EXCEPT !.model = m, !.lret = lret, !.ret = "none", !.slots = 0])
CallUnload(t, m, ret) ==
    GoWith(t, "unload", [call[t] EXCEPT !.model = m, !.ret = ret])

untouched == <<leaseVars, queueVars, otherVars>>

\* Mutant: every load selects its model.
SelectAlways(m) == m

\* current_loaded_ after m was found or made ready.
SelectPrimary(m) == IF Primary(m) THEN m ELSE current

----------------------------------------------------------------------------
(* load_with_lock_deadline *)

\* Takes the model's lifecycle lock.  Already loaded and healthy: selects it;
\* loaded but unhealthy: unloads it first and keeps its slot count.
LoadStart(t) ==
    LET m == call[t].model
    IN  /\ pc[t] = "load" /\ Obtainable(t, LockOf(m))
        /\ IF Loaded(m) /\ backend[m].healthy
           THEN /\ current' = SelectPrimary(m)
                /\ Return(t, call[t].lret, "ok")
           ELSE /\ UNCHANGED current
                /\ Obtain(t, LockOf(m))
                /\ IF Loaded(m)
                   THEN GoWith(t, "unload", [call[t] EXCEPT !.ret = "create",
                                                            !.slots = backend[m].slots])
                   ELSE GoWith(t, "create", [call[t] EXCEPT !.res = "ok"])
        /\ UNCHANGED <<backend, sample, draining, resizing, genVars, untouched>>

\* Cancelled or out of time before the lock was obtained.
LoadGiveUp(t) ==
    /\ pc[t] = "load" /\ MayExpire(t)
    /\ Return(t, call[t].lret, "gone")
    /\ UNCHANGED <<residencyVars, draining, resizing, genVars, untouched>>

\* Creates the instance (or returns the failure of the recovery unload).
LoadCreate(t) ==
    LET m == call[t].model
        b == IF backend[m].st = "none" THEN FreshBackend(m) ELSE backend[m]
    IN  /\ pc[t] = "create"
        /\ IF call[t].res # "ok"
           THEN Return(t, call[t].lret, call[t].res) /\ UNCHANGED backend
           ELSE /\ backend' = [backend EXCEPT ![m] =
                     IF call[t].slots = 0 \/ Info[m].auto THEN b
                     ELSE [b EXCEPT !.slots = call[t].slots]]
                /\ Goto(t, "loading")
                /\ UNCHANGED <<call, owner>>
        /\ UNCHANGED <<current, sample, draining, resizing, genVars, untouched>>

\* The section that reports a failed native load; b is the instance it leaves.
LoadFails(t, b, res) ==
    LET m == call[t].model
        held == Estimate(m, b) > 0
    IN  /\ backend' = [backend EXCEPT ![m] = b]
        /\ sample' = IF held THEN -1 ELSE sample
        /\ BumpIf(held)
        /\ Return(t, call[t].lret, res)
        /\ UNCHANGED <<current, draining, resizing, untouched>>

\* The native load ends.  On success the instance is visible as loaded at once,
\* before the coordinator has noted anything; the default load of IBackend
\* looks at the control once more.
LoadNative(t) ==
    LET m == call[t].model
    IN  /\ pc[t] = "loading"
        /\ \/ /\ backend' = [backend EXCEPT ![m] = LoadedBackend(m, backend[m])]
              /\ Goto(t, IF Info[m].runtime = "fixed" THEN "late" ELSE "loaded")
              /\ UNCHANGED <<call, owner, current, sample, draining, resizing,
                             genVars, untouched>>
           \/ \E f \in Info[m].faults \cap {"oom", "error"} : LoadFails(t, backend[m], f)
           \/ MayExpire(t) /\ LoadFails(t, backend[m], "gone")

\* IBackend::load(control) after load(): unloads again when it came too late.
LoadLate(t) ==
    /\ pc[t] = "late"
    /\ \/ MayExpire(t) /\ LoadFails(t, EmptyBackend(backend[call[t].model]), "gone")
       \/ Goto(t, "loaded")
          /\ UNCHANGED <<call, owner, residencyVars, draining, resizing, genVars, untouched>>

\* The section that notes a successful load.
LoadEnd(t) ==
    LET m == call[t].model
    IN  /\ pc[t] = "loaded"
        /\ current' = SelectPrimary(m)
        /\ sample' = IF Vram(m) > 0 THEN -1 ELSE sample
        /\ BumpIf(Vram(m) > 0)
        /\ Return(t, call[t].lret, "ok")
        /\ UNCHANGED <<backend, draining, resizing, untouched>>

----------------------------------------------------------------------------
(* unload_with_control *)

UnloadStart(t) ==
    LET m == call[t].model
    IN  /\ pc[t] = "unload" /\ Obtainable(t, LockOf(m))
        /\ Obtain(t, LockOf(m))
        /\ draining' = draining \cup {m}
        /\ Goto(t, "draining")
        /\ UNCHANGED <<call, residencyVars, resizing, genVars, untouched>>

UnloadGiveUp(t) ==
    /\ pc[t] = "unload" /\ ~Obtainable(t, LockOf(call[t].model)) /\ MayExpire(t)
    /\ Return(t, call[t].ret, "gone")
    /\ UNCHANGED <<residencyVars, draining, resizing, genVars, untouched>>

\* Mutant: requests in flight do not count.
AlwaysIdle(m) == TRUE

\* ! has_active_requests
Idle(m) == active[m] = 0

\* Mutant: the mark stays.
KeepDraining(m) == UNCHANGED draining

\* draining_models_.erase(m)
StopDraining(m) == draining' = draining \ {m}

\* Mutant: the selection is left alone.
SelectionKept(m, b) == {current}

\* current_loaded_ without m, over the other instances b.
SelectionAfter(m, b) == IF current = m THEN Selections(b) ELSE {current}

\* No active request: the instance leaves instances_ before it is unloaded.
Drained(t) ==
    LET m == call[t].model
        b == [backend EXCEPT ![m] = NoBackend]
    IN  /\ pc[t] = "draining" /\ Idle(m)
        /\ backend' = b
        /\ current' \in SelectionAfter(m, b)
        /\ GoWith(t, "unloading", [call[t] EXCEPT !.moved = backend[m],
                                                  !.primary = (current = m)])
        /\ UNCHANGED <<owner, sample, draining, resizing, genVars, untouched>>

\* Cancelled, or requests were still active when the 30 s of draining ended.
DrainGiveUp(t) ==
    LET m == call[t].model
    IN  /\ pc[t] = "draining" /\ (MayCancel(t) \/ ~Idle(m))
        /\ StopDraining(m)
        /\ Return(t, call[t].ret, "gone")
        /\ UNCHANGED <<residencyVars, resizing, genVars, untouched>>

\* The native unload ends: the instance is destroyed, or put back as it is.
UnloadNative(t) ==
    LET m == call[t].model
        old == call[t].moved
        putBack(b, res) ==
            /\ backend' = [backend EXCEPT ![m] = b]
            /\ current' = IF call[t].primary THEN m ELSE current
            /\ Return(t, call[t].ret, res)
            /\ UNCHANGED <<active, sample, genVars>>
    IN  /\ pc[t] = "unloading"
        /\ \/ /\ active' = [active EXCEPT ![m] = 0]
              /\ sample' = IF old.st # "none" /\ Estimate(m, old) > 0 THEN -1 ELSE sample
              /\ BumpIf(old.st # "none" /\ Estimate(m, old) > 0)
              /\ Return(t, call[t].ret, "ok")
              /\ UNCHANGED <<backend, current>>
           \/ old.st # "none" /\ MayExpire(t) /\ putBack(old, "gone")
           \/ /\ old.st = "loaded" /\ "unload" \in Info[m].faults
              /\ putBack([old EXCEPT !.healthy = FALSE], "error")
        /\ StopDraining(m)
        /\ UNCHANGED <<resizing, leases, nextLease, reserved, queueVars, otherVars>>

----------------------------------------------------------------------------
(* prepare_capacity_for.  PlanReturn hands its result to the swap. *)
PlanReturn(t, res) ==
    /\ GoWith(t, IF call[t].force THEN "retry" ELSE "swapLoad", [call[t] EXCEPT !.res = res])
    /\ UNCHANGED owner

\* ReturnBusy: require_priority_session_allows refused; c is what is no longer resized.
PlanRefused(t, c) ==
    /\ SessionBlocks(call[t].target)
    /\ Bump
    /\ resizing' = resizing \ c
    /\ PlanReturn(t, "busy")
    /\ UNCHANGED <<residencyVars, draining, untouched>>

PlanGiveUp(t) ==
    /\ pc[t] \in {"plan", "reclaim", "shrink", "evict"} /\ ~Patient(t)
    /\ PlanReturn(t, IF pc[t] = "reclaim" /\ call[t].force THEN "oom" ELSE "gone")
    /\ UNCHANGED <<residencyVars, draining, resizing, genVars, untouched>>

\* The planner finds enough room; every loop looks before it goes on.
PlanFits(t) ==
    /\ \/ pc[t] = "reclaim" /\ ~call[t].force
       \/ pc[t] \in {"reclaimed", "shrink", "evict"}
    /\ Fits(call[t].target)
    /\ PlanReturn(t, "ok")
    /\ UNCHANGED <<residencyVars, draining, resizing, genVars, untouched>>

Plan(t) ==
    LET m == call[t].target
    IN  /\ pc[t] = "plan"
        /\ IF SessionBlocks(m) THEN PlanRefused(t, {})
           ELSE /\ IF Loaded(m) \/ (~call[t].force /\ (Budget = 0 \/ Fits(m)))
                   THEN PlanReturn(t, "ok")
                   ELSE GoWith(t, "reclaim", [call[t] EXCEPT !.tried = {}]) /\ UNCHANGED owner
                /\ UNCHANGED <<residencyVars, draining, resizing, genVars, untouched>>

\* First loop: idle context of a resident model, each model once.
\* can_reclaim_idle_context, for llama.cpp pools above their minimum.
CanReclaim(m) == /\ Info[m].runtime = "llama" /\ Info[m].auto
                 /\ backend[m].context > Info[m].context \/ backend[m].slots > 1
                 /\ backend[m].busy = {}
Reclaimable(t) ==
    {m \in OnGpu \ ({call[t].target} \cup resizing \cup call[t].tried) :
        backend[m].healthy /\ active[m] = 0 /\ CanReclaim(m)}

ReclaimPick(t) ==
    /\ pc[t] = "reclaim" /\ (call[t].force \/ ~Fits(call[t].target))
    /\ \/ \E c \in Reclaimable(t) :
             /\ resizing' = resizing \cup {c}
             /\ GoWith(t, "reclaimGuard", [call[t] EXCEPT
                    !.model = c, !.tried = @ \cup {c}, !.observed = Fresh])
             /\ UNCHANGED owner
       \/ /\ Reclaimable(t) = {}
          /\ IF call[t].force THEN PlanReturn(t, "oom")
             ELSE Goto(t, "shrink") /\ UNCHANGED <<call, owner>>
          /\ UNCHANGED resizing
    /\ UNCHANGED <<residencyVars, draining, genVars, untouched>>

ReclaimGuard(t) ==
    /\ pc[t] = "reclaimGuard"
    /\ IF SessionBlocks(call[t].target) THEN PlanRefused(t, {call[t].model})
       ELSE /\ Goto(t, "reclaiming")
            /\ UNCHANGED <<call, owner, residencyVars, draining, resizing, genVars, untouched>>

ReclaimNative(t) ==
    LET c == call[t].model
    IN  /\ pc[t] = "reclaiming"
        /\ \/ /\ backend' = [backend EXCEPT ![c] = [@ EXCEPT !.context = Info[c].context,
                                                             !.slots = 1, !.trimmed = TRUE]]
              /\ sample' = -1
              /\ Bump
              /\ IF call[t].observed THEN Goto(t, "reclaimWait") /\ UNCHANGED resizing
                 ELSE Goto(t, "reclaimed") /\ StopResizing(c)
              /\ UNCHANGED <<call, owner>>
           \/ /\ Goto(t, "reclaim")       \* nothing to reclaim
              /\ StopResizing(c)
              /\ UNCHANGED <<call, owner, backend, sample, genVars>>
           \/ /\ "reclaim" \in Info[c].faults
              /\ StopResizing(c)
              /\ PlanReturn(t, "error")
              /\ UNCHANGED <<backend, sample, genVars>>
           \/ /\ ~Patient(t)
              /\ StopResizing(c)
              /\ PlanReturn(t, "gone")
              /\ UNCHANGED <<backend, sample, genVars>>
        /\ UNCHANGED <<current, draining, untouched>>

\* Waits for telemetry to show the freed memory, for at most its lifetime.
ReclaimWait(t) ==
    /\ pc[t] = "reclaimWait"
    /\ StopResizing(call[t].model)
    /\ Goto(t, "reclaimed")
    /\ UNCHANGED <<call, owner, residencyVars, draining, genVars, untouched>>

ReclaimAgain(t) ==
    /\ pc[t] = "reclaimed" /\ ~Fits(call[t].target)
    /\ Goto(t, "reclaim")
    /\ UNCHANGED <<call, owner, residencyVars, draining, resizing, genVars, untouched>>

\* Second loop: one slot less of an idle resizable model.
CanResize(m) == Info[m].runtime = "llama" /\ ~Info[m].auto /\ Info[m].fixed > 0
                /\ Info[m].perSlot > 0 /\ backend[m].slots > Info[m].minSlots

\* Mutant: a model in use may be shrunk.
ShrinkableInUse(t) == {m \in OnGpu \ {call[t].target} : ~Info[m].always /\ CanResize(m)}

Shrinkable(t) == {m \in OnGpu \ {call[t].target} :
                     active[m] = 0 /\ ~Info[m].always /\ CanResize(m)}

ShrinkPick(t) ==
    /\ pc[t] = "shrink" /\ ~Fits(call[t].target)
    /\ \/ \E c \in Shrinkable(t) :
             /\ resizing' = resizing \cup {c}
             /\ GoWith(t, "shrinkGuard", [call[t] EXCEPT !.model = c])
       \/ Shrinkable(t) = {} /\ Goto(t, "evict") /\ UNCHANGED <<call, resizing>>
    /\ UNCHANGED <<owner, residencyVars, draining, genVars, untouched>>

\* resize_slots unloads the model and loads it again with the new slot count.
ShrinkGuard(t) ==
    LET c == call[t].model
    IN  /\ pc[t] = "shrinkGuard"
        /\ IF SessionBlocks(call[t].target) THEN PlanRefused(t, {c})
           ELSE /\ GoWith(t, "shrinking", [call[t] EXCEPT !.moved = backend[c]])
                /\ backend' = [backend EXCEPT ![c] = EmptyBackend(backend[c])]
                /\ UNCHANGED <<owner, current, sample, draining, resizing, genVars, untouched>>

\* The resize succeeds, or fails with the old size restored, or fails twice and
\* leaves the instance unloaded; either failure ends the second loop.
ShrinkNative(t) ==
    LET c == call[t].model
        back == LoadedBackend(c, call[t].moved)
    IN  /\ pc[t] = "shrinking"
        /\ StopResizing(c)
        /\ \/ /\ backend' = [backend EXCEPT ![c] = [back EXCEPT !.slots = @ - 1]]
              /\ sample' = -1
              /\ Bump
              /\ Goto(t, "shrink")
           \/ /\ "resize" \in Info[c].faults \/ ~Patient(t)
              /\ backend' = [backend EXCEPT ![c] = back]
              /\ Goto(t, "evict")
              /\ UNCHANGED <<sample, genVars>>
           \/ /\ "resizeTwice" \in Info[c].faults
              /\ Goto(t, "evict")
              /\ UNCHANGED <<backend, sample, genVars>>
        /\ UNCHANGED <<call, owner, current, draining, untouched>>

\* Third loop: the largest idle evictable model.
Evictable(t) == {m \in OnGpu \ {call[t].target} :
                    active[m] = 0 /\ ~Info[m].always /\ Info[m].evictable}
EvictPick(t) ==
    /\ pc[t] = "evict" /\ ~Fits(call[t].target)
    /\ \/ \E c \in Evictable(t) :
             /\ \A o \in Evictable(t) : Vram(c) >= Vram(o)
             /\ GoWith(t, "evictGuard", [call[t] EXCEPT !.model = c])
       \/ Evictable(t) = {} /\ Goto(t, "verdict") /\ UNCHANGED call
    /\ UNCHANGED <<owner, residencyVars, draining, resizing, genVars, untouched>>

EvictGuard(t) ==
    /\ pc[t] = "evictGuard"
    /\ IF SessionBlocks(call[t].target) THEN PlanRefused(t, {})
       ELSE /\ CallUnload(t, call[t].model, "evicted")
            /\ UNCHANGED <<owner, residencyVars, draining, resizing, genVars, untouched>>

Evicted(t) ==
    /\ pc[t] = "evicted"
    /\ IF call[t].res = "ok" THEN Goto(t, "evict") /\ UNCHANGED <<call, owner>>
       ELSE PlanReturn(t, call[t].res)
    /\ UNCHANGED <<residencyVars, draining, resizing, genVars, untouched>>

\* Nothing left to free: wait if active models hold the memory, else give up.
Verdict(t) ==
    /\ pc[t] = "verdict"
    /\ PlanReturn(t, IF /\ \E m \in OnGpu : active[m] > 0
                        /\ Info[call[t].target].required <= Max({0, Budget - Margin})
                     THEN "busy" ELSE "oom")
    /\ UNCHANGED <<residencyVars, draining, resizing, genVars, untouched>>

PlanNext(t) ==
    \/ Plan(t) \/ PlanFits(t)
    \/ ReclaimPick(t) \/ ReclaimGuard(t) \/ ReclaimNative(t) \/ ReclaimWait(t) \/ ReclaimAgain(t)
    \/ ShrinkPick(t) \/ ShrinkGuard(t) \/ ShrinkNative(t)
    \/ EvictPick(t) \/ EvictGuard(t) \/ Evicted(t) \/ Verdict(t)

----------------------------------------------------------------------------
(* swap_to_with_control *)

\* Swap of a sidecar, or of a model that is ready.
SwapShort(t) ==
    LET m == call[t].target
    IN  /\ pc[t] = "swap"
        /\ IF Ready(m) THEN Return(t, Top(t), "ok")
           ELSE Sidecar(m) /\ CallLoad(t, m, Top(t)) /\ UNCHANGED owner
        /\ UNCHANGED <<residencyVars, draining, resizing, genVars, untouched>>

SwapGiveUp(t) ==
    /\ pc[t] = "swap" /\ ~Patient(t)
    /\ ~Sidecar(call[t].target) /\ ~Obtainable(t, "swap")
    /\ Return(t, Top(t), "gone")
    /\ UNCHANGED <<residencyVars, draining, resizing, genVars, untouched>>

\* With the lock: refused by a voice session; recovery of an unhealthy model; a
\* plain replacement when there is no VRAM budget; else the planner, with the
\* residency remembered for a rollback.
SwapStart(t) ==
    LET m == call[t].target
        quiet == UNCHANGED <<residencyVars, draining, resizing>>
    IN  /\ pc[t] = "swap" /\ ~Ready(m) /\ ~Sidecar(m) /\ Obtainable(t, "swap")
        /\ \/ /\ SessionBlocks(m)
              /\ Bump
              /\ Return(t, Top(t), "busy")
           \/ /\ ~SessionBlocks(m)
              /\ UNCHANGED genVars
              /\ Obtain(t, "swap")
              /\ IF Loaded(m) THEN CallLoad(t, m, Top(t))
                 ELSE IF Budget > 0
                 THEN GoWith(t, "plan", [call[t] EXCEPT
                        !.previous = current, !.force = FALSE,
                        !.prior = [n \in Models |-> IF Loaded(n) THEN backend[n].slots ELSE 0]])
                 ELSE IF current = NoModel THEN CallLoad(t, m, Top(t))
                 ELSE GoWith(t, "unload", [call[t] EXCEPT
                        !.model = current, !.previous = current, !.ret = "legacyLoad"])
        /\ quiet /\ UNCHANGED untouched

\* vram_budget_mb_ = 0: load after the unload, and put the old model back if
\* that fails.
Legacy(t) ==
    LET c == call[t]
    IN  /\ \/ /\ pc[t] = "legacyLoad"
              /\ IF c.res = "ok" THEN CallLoad(t, c.target, "legacyLoaded") /\ UNCHANGED owner
                 ELSE Return(t, Top(t), c.res)
              /\ UNCHANGED current
           \/ /\ pc[t] = "legacyLoaded"
              /\ IF c.res = "ok" THEN Return(t, Top(t), "ok")
                 ELSE GoWith(t, "load", [c EXCEPT !.model = c.previous, !.slots = 0,
                                                  !.lret = "legacyRestored", !.error = c.res])
                      /\ UNCHANGED owner
              /\ UNCHANGED current
           \/ /\ pc[t] = "legacyRestored"
              /\ current' = IF c.res = "ok" THEN c.previous ELSE current
              /\ Return(t, Top(t), c.error)
        /\ UNCHANGED <<backend, sample, draining, resizing, genVars, untouched>>

\* The planner made room, or did not; voice sessions are asked once more.
SwapLoad(t) ==
    LET m == call[t].target
    IN  /\ pc[t] = "swapLoad"
        /\ IF call[t].res # "ok"
           THEN Return(t, Top(t), call[t].res) /\ UNCHANGED genVars
           ELSE IF SessionBlocks(m) THEN Return(t, Top(t), "busy") /\ Bump
           ELSE CallLoad(t, m, "swapLoaded") /\ UNCHANGED <<owner, genVars>>
        /\ UNCHANGED <<residencyVars, draining, resizing, untouched>>

\* A load that ran out of memory gets one more try after idle context was
\* reclaimed; any other failure rolls the residency back.
SwapLoaded(t) ==
    LET c == call[t]
        rollBack == GoWith(t, "unload", [c EXCEPT !.model = c.target, !.ret = "restore",
                                                  !.lret = "none", !.error = c.res])
    IN  /\ pc[t] = "swapLoaded"
        /\ \/ c.res = "ok" /\ Return(t, Top(t), "ok")
           \/ /\ c.res = "oom"
              /\ GoWith(t, "unload", [c EXCEPT !.model = c.target, !.ret = "force",
                                               !.lret = "none", !.error = c.res])
              /\ UNCHANGED owner
           \/ c.res # "ok" /\ (c.res # "oom" \/ ~Patient(t)) /\ rollBack /\ UNCHANGED owner
        /\ UNCHANGED <<residencyVars, draining, resizing, genVars, untouched>>

SwapForce(t) ==
    /\ pc[t] = "force"
    /\ GoWith(t, "plan", [call[t] EXCEPT !.force = TRUE])
    /\ UNCHANGED <<owner, residencyVars, draining, resizing, genVars, untouched>>

SwapRetry(t) ==
    LET c == call[t]
    IN  /\ \/ /\ pc[t] = "retry" /\ c.res = "ok"
              /\ CallLoad(t, c.target, "retryLoaded") /\ UNCHANGED owner
           \/ /\ pc[t] = "retry" /\ c.res = "gone"
              /\ Return(t, Top(t), "gone")
           \/ /\ pc[t] = "retry" /\ c.res \notin {"ok", "gone"}
              /\ GoWith(t, "unload", [c EXCEPT !.model = c.target, !.ret = "restore",
                                               !.lret = "none"])
              /\ UNCHANGED owner
           \/ /\ pc[t] = "retryLoaded" /\ c.res = "ok"
              /\ Return(t, Top(t), "ok")
           \/ /\ pc[t] = "retryLoaded" /\ c.res # "ok"
              /\ GoWith(t, "unload", [c EXCEPT !.model = c.target, !.ret = "restore",
                                               !.lret = "none", !.error = c.res])
              /\ UNCHANGED owner
        /\ UNCHANGED <<residencyVars, draining, resizing, genVars, untouched>>

\* The rollback: reload what was resident before and is not, or not with the
\* same slots; then select the old primary again.
Restore(t) ==
    LET c == call[t]
        todo == {m \in Models : c.prior[m] > 0}
    IN  /\ pc[t] = "restore"
        /\ \/ \E m \in todo :
                LET rest == [c EXCEPT !.prior[m] = 0]
                IN  /\ IF Loaded(m) /\ backend[m].slots = c.prior[m]
                       THEN With(t, rest) /\ UNCHANGED pc
                       ELSE IF Loaded(m)
                       THEN GoWith(t, "unload", [rest EXCEPT !.model = m, !.ret = "restoreLoad"])
                       ELSE GoWith(t, "load", [rest EXCEPT !.model = m, !.lret = "restore",
                                                           !.ret = "none", !.slots = 0])
                    /\ UNCHANGED <<owner, current>>
           \/ /\ todo = {}
              /\ current' = IF c.previous # NoModel /\ Loaded(c.previous)
                            THEN c.previous ELSE current
              /\ Return(t, Top(t), c.error)
        /\ UNCHANGED <<backend, sample, draining, resizing, genVars, untouched>>

RestoreLoad(t) ==
    /\ pc[t] = "restoreLoad"
    /\ CallLoad(t, call[t].model, "restore")
    /\ UNCHANGED <<owner, residencyVars, draining, resizing, genVars, untouched>>

----------------------------------------------------------------------------
(* Operators: the dashboard's unload and tracked swap, the profile benchmark's load. *)
Begin(t, j) ==
    /\ t \in Operators /\ pc[t] = "start"
    /\ GoWith(t, j.op, [call[t] EXCEPT !.job = j.op, !.target = j.model, !.model = j.model,
                                       !.ret = "finish", !.lret = "finish"])
    /\ UNCHANGED <<owner, residencyVars, draining, resizing, genVars, untouched>>

LifecycleNext ==
    \/ \E t \in Operators : \E j \in Jobs : Begin(t, j)
    \/ \E t \in Threads : LoadStart(t) \/ LoadGiveUp(t) \/ LoadCreate(t) \/ LoadNative(t)
                          \/ LoadLate(t) \/ LoadEnd(t)
    \/ \E t \in Threads : UnloadStart(t) \/ UnloadGiveUp(t) \/ Drained(t) \/ DrainGiveUp(t)
                          \/ UnloadNative(t)
    \/ \E t \in Threads : PlanNext(t) \/ PlanGiveUp(t)
    \/ \E t \in Threads : SwapShort(t) \/ SwapGiveUp(t) \/ SwapStart(t) \/ Legacy(t)
                          \/ SwapLoad(t) \/ SwapLoaded(t) \/ SwapForce(t) \/ SwapRetry(t)
                          \/ Restore(t) \/ RestoreLoad(t)
=============================================================================
