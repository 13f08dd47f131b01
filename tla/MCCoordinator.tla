--------------------------- MODULE MCCoordinator ---------------------------
(* Instances of BackendCoordinator for TLC.  Each configuration picks one set *)
(* of models, asks and jobs; memory is counted in small units of a few GB.    *)
EXTENDS BackendCoordinator, TLC

Symmetry == Permutations(Requests)

\* A conversation model on the GPU that nothing can go wrong with, in an
\* admission pool of its own, which is the default.
Plain(m) == [role |-> "conversation", cpu |-> FALSE, runtime |-> "llama", slots |-> 1,
             minSlots |-> 1, required |-> 4, fixed |-> 0, perSlot |-> 0, always |-> FALSE,
             evictable |-> TRUE, pool |-> m, limit |-> 1, auto |-> FALSE, context |-> 1,
             contextMax |-> 1, contextVram |-> 0, grace |-> FALSE, faults |-> {}]
Ask(m) == [model |-> m, prio |-> 0, key |-> "none", demand |-> 0, load |-> "ensure", block |-> TRUE]


\* What a setup is unless it says otherwise: chat is resident, two requests
\* arrive, and seconds are not told apart.
Base == [info |-> [m \in Models |-> Plain(m)], asks |-> {}, jobs |-> {}, loaded |-> {"chat"},
         budget |-> 7, margin |-> 1, samples |-> {}, maxQueue |-> 2, maxLease |-> 2,
         maxClock |-> 0, clients |-> 2, talks |-> FALSE]
Catalogue(f) == f @@ Base.info
Job(op, m) == [op |-> op, model |-> m]

\* Residency: chat can shrink by a slot; side fits beside the shrunk chat, big
\* only alone.  Loading side runs out of memory, loading big fails.
SwapInfo == Catalogue([chat |-> [Plain("chat") EXCEPT !.slots = 2, !.limit = 2, !.fixed = 2,
                                            !.perSlot = 1, !.faults = {"resize"}],
             side |-> [Plain("side") EXCEPT !.required = 3, !.role = "media", !.faults = {"oom"}],
             big  |-> [Plain("big") EXCEPT !.required = 5, !.faults = {"error"}]])
SwapAsks == {Ask("chat"), Ask("side"), [Ask("big") EXCEPT !.prio = 1]}
Swaps == [Base EXCEPT !.info = SwapInfo, !.asks = SwapAsks, !.jobs = {Job("unload", "chat")}]
Queued == [Swaps EXCEPT !.jobs = {}, !.maxClock = 1]

\* A failed resize may leave the model unloaded.  The start-up loader swaps by
\* itself.
Resizes == [Base EXCEPT
    !.info = [SwapInfo EXCEPT !["chat"].faults = {"resizeTwice"}],
    !.asks = {Ask("chat"), Ask("side"), [Ask("side") EXCEPT !.load = "direct", !.prio = -1]}]
Waits == [Resizes EXCEPT !.asks = {Ask("chat"), [Ask("side") EXCEPT !.prio = 1]}]
\* The same where the worker of a swap cannot be started, or the runtime is refused.
Unstarted == [Waits EXCEPT !.info = [Waits.info EXCEPT !["side"].faults = {"launch", "refuse"}]]

\* No VRAM budget: one conversation model replaces the other.
Legacies == [Base EXCEPT
    !.info = Catalogue([big |-> [Plain("big") EXCEPT !.faults = {"error", "refuse", "launch"}]]),
    !.asks = {Ask("chat"), Ask("big")}, !.jobs = {Job("post", "big")},
    !.budget = 0, !.margin = 0, !.maxQueue = 1, !.maxLease = 1, !.maxClock = 1]

\* Continuations of a one-slot vLLM model, which may fail and be recovered.
Continues == [Base EXCEPT
    !.info = Catalogue([chat |-> [Plain("chat") EXCEPT !.runtime = "vllm", !.grace = TRUE,
                                                       !.faults = {"sick", "unload"}]]),
    !.asks = {[Ask("chat") EXCEPT !.key = "cache"], Ask("chat"),
              [Ask("chat") EXCEPT !.block = FALSE], [Ask("chat") EXCEPT !.load = "none"]},
    !.jobs = {Job("load", "chat"), Job("unload", "chat")}, !.maxClock = 1]

\* Voice sessions among themselves: two clients, two guards and two chats, with
\* enough reservations for one to be replaced while it is held.
Reserving == [Base EXCEPT !.clients = 0, !.talks = TRUE]

ResidencySetups == {Swaps, Queued, Legacies, Continues, Reserving}

\* Voice: speech beside a conversation model, and a second conversation model.
Talking == [Base EXCEPT
    !.info = Catalogue([big |-> [Plain("big") EXCEPT !.required = 3],
                        side |-> [Plain("side") EXCEPT !.role = "voice", !.required = 1]]),
    !.asks = {[Ask("chat") EXCEPT !.key = "k1", !.prio = 1], Ask("big"),
              [Ask("side") EXCEPT !.prio = 1]},
    !.budget = 6, !.talks = TRUE]

\* Shared context: an automatic pool that grows for its requests.
PoolInfo == [Plain("chat") EXCEPT !.slots = 2, !.limit = 2, !.auto = TRUE, !.contextMax = 3,
                                  !.contextVram = 1, !.fixed = 3, !.perSlot = 1,
                                  !.faults = {"grow", "estimate"}]
Grows == [Base EXCEPT
    !.info = Catalogue([chat |-> PoolInfo]),
    !.asks = {[Ask("chat") EXCEPT !.demand = 1], [Ask("chat") EXCEPT !.demand = 2, !.prio = 1]},
    !.jobs = {Job("unload", "chat")}, !.maxClock = 1]

\* The same pool, whose idle context another model's load may reclaim.
Reclaims == [Base EXCEPT
    !.info = Catalogue([chat |-> [PoolInfo EXCEPT !.faults = {"reclaim"}, !.evictable = FALSE,
                                                  !.fixed = 4],
                        side |-> [Plain("side") EXCEPT !.role = "media", !.required = 2,
                                                       !.faults = {"oom"}]]),
    !.asks = {[Ask("chat") EXCEPT !.demand = 2]}, !.jobs = {Job("post", "side")},
    !.budget = 8, !.margin = 0, !.samples = {5, 7}, !.clients = 1, !.maxClock = 1]

\* A CPU media runtime beside a GPU model: two lifecycle locks.  Its catalogue
\* entry declares VRAM all the same, so the planner may evict it.
Sidecars == [Base EXCEPT
    !.info = Catalogue([side |-> [Plain("side") EXCEPT !.role = "media", !.cpu = TRUE,
                                                       !.runtime = "fixed", !.required = 3,
                                                       !.slots = 2, !.faults = {"error"}]]),
    !.asks = {Ask("chat"), Ask("side")}, !.jobs = {Job("unload", "side")},
    !.loaded = {"side"}]

\* Three requests in one admission pool: chat names it and lets one in, side is
\* in it because it has the name of the pool, with two slots and no limit of its
\* own, big is a third member.  Any of them may fill it for the others.
Sharing == [Base EXCEPT
    !.info = Catalogue([chat |-> [Plain("chat") EXCEPT !.pool = "side", !.evictable = FALSE],
                        side |-> [Plain("side") EXCEPT !.role = "media", !.required = 1, !.slots = 2,
                                                       !.limit = 2],
                        big  |-> [Plain("big") EXCEPT !.pool = "side", !.required = 1]]),
    !.asks = {Ask("chat"), [Ask("chat") EXCEPT !.block = FALSE], Ask("side"), [Ask("big") EXCEPT !.prio = 1]},
    !.loaded = Models, !.clients = 3, !.maxQueue = 3, !.maxLease = 3]

\* One lease id for two requests on two slots, with an unload that waits for
\* whatever slot is taken.
Exhausted == [Base EXCEPT
    !.info = Catalogue([chat |-> [Plain("chat") EXCEPT !.slots = 2, !.limit = 2]]),
    !.asks = {Ask("chat")}, !.jobs = {Job("unload", "chat")}, !.maxLease = 1]

CapacitySetups == {Grows, Reclaims, Resizes, Sidecars, Talking, Sharing, Exhausted}

ServiceSetups == {Waits, Unstarted}

\* The same sidecar, whose load may be cancelled at its very end.
LateSetups == {Sidecars}
=============================================================================
