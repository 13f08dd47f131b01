----------------------------- MODULE SwapTracker -----------------------------
(***************************************************************************)
(* How requests and the dashboard have a model swapped in: SwapTracker     *)
(* runs one swap at a time in a thread of its own, and keeps the target    *)
(* and the outcome of the last one.  ensure_model_loaded starts a swap, or *)
(* finds one running, and waits until the tracker is idle; it cannot tell  *)
(* its own swap from another one with the same target.  A request that     *)
(* gives up leaves the swap running.                                       *)
(***************************************************************************)
EXTENDS Lifecycle

quiet == <<owner, residencyVars, draining, resizing, genVars, leaseVars,
           queueVars, setup, sessionVars>>

\* prepare returns res to acquire_slot.
Ensured(r, res) ==
    /\ GoWith(r, "prepared", [NoCall EXCEPT !.res = res])
    /\ UNCHANGED <<tracker, quiet>>

\* SwapTracker::start: t goes on at label while the worker swaps to m.
StartWorker(t, m, label) ==
    /\ ~tracker.busy
    /\ tracker' = [busy |-> TRUE, target |-> m, last |-> "ok"]
    /\ pc' = [pc EXCEPT ![t] = label, ![Worker] = "swap"]
    /\ call' = [call EXCEPT ![Worker] = [NoCall EXCEPT !.job = "swap", !.target = m]]
    /\ UNCHANGED quiet

\* The thread could not be created.
LaunchFails(m) ==
    /\ "launch" \in Info[m].faults /\ ~tracker.busy
    /\ tracker' = [busy |-> FALSE, target |-> m, last |-> "error"]

\* perform_swap returns: SwapTracker::end.
SwapEnds ==
    /\ pc[Worker] = "finish"
    /\ tracker' = [tracker EXCEPT !.busy = FALSE, !.last = call[Worker].res]
    /\ GoWith(Worker, "start", NoCall)
    /\ UNCHANGED quiet

----------------------------------------------------------------------------
(* ensure_model_loaded *)
EnsureReady(r) ==
    /\ pc[r] \in {"ensure", "await", "check"} /\ Ready(call[r].target)
    /\ Ensured(r, "ok")

\* The request is cancelled or its deadline passes.
EnsureGiveUp(r) ==
    /\ pc[r] \in {"ensure", "await"}
    /\ Ensured(r, "gone")

\* Maintenance uses the resource, or the runtime cannot run the model here.
EnsureRefused(r) ==
    /\ pc[r] = "ensure"
    /\ "refuse" \in Info[call[r].target].faults
    /\ Ensured(r, "error")

\* A CPU sidecar is loaded by the request itself.
EnsureSidecar(r) ==
    LET m == call[r].target
    IN  /\ pc[r] = "ensure" /\ ~Ready(m) /\ Sidecar(m)
        /\ CallLoad(r, m, "prepared")
        /\ UNCHANGED <<tracker, quiet>>

\* start_swap_async: started, or another swap is in progress, or it fails.
EnsureStart(r) ==
    LET m == call[r].target
    IN  /\ pc[r] = "ensure" /\ ~Ready(m) /\ ~Sidecar(m)
        /\ \/ StartWorker(r, m, "await")
           \/ /\ tracker.busy
              /\ Goto(r, "await")
              /\ UNCHANGED <<call, tracker, quiet>>
           \/ /\ LaunchFails(m)
              /\ GoWith(r, "prepared", [NoCall EXCEPT !.res = "error"])
              /\ UNCHANGED quiet

\* wait_until_idle, for at most 100 ms
EnsureAwait(r) ==
    /\ pc[r] = "await"
    /\ Goto(r, IF tracker.busy THEN "ensure" ELSE "check")
    /\ UNCHANGED <<call, tracker, quiet>>

\* The snapshot: an outcome for this model ends the wait, anything else repeats.
EnsureCheck(r) ==
    /\ pc[r] = "check" /\ ~Ready(call[r].target)
    /\ IF tracker.target = call[r].target /\ tracker.last # "ok"
       THEN Ensured(r, tracker.last)
       ELSE Goto(r, "ensure") /\ UNCHANGED <<call, tracker, quiet>>

----------------------------------------------------------------------------
\* handle_swap_to: starts a swap and does not wait for it.
PostSwap(t) ==
    /\ t \in Operators /\ pc[t] = "post"
    /\ \/ StartWorker(t, call[t].target, "finish")
       \/ /\ tracker.busy \/ Ready(call[t].target)
          /\ Goto(t, "finish")
          /\ UNCHANGED <<call, tracker, quiet>>
       \/ /\ LaunchFails(call[t].target)
          /\ Goto(t, "finish")
          /\ UNCHANGED <<call, quiet>>

TrackerNext ==
    \/ SwapEnds
    \/ \E r \in Requests : EnsureReady(r) \/ EnsureGiveUp(r) \/ EnsureRefused(r)
                           \/ EnsureSidecar(r) \/ EnsureStart(r) \/ EnsureAwait(r)
                           \/ EnsureCheck(r)
    \/ \E t \in Operators : PostSwap(t)
=============================================================================
