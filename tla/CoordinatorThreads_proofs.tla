---------------------- MODULE CoordinatorThreads_proofs ----------------------
(***************************************************************************)
(* Locks, marks and types of BackendCoordinator, for any models, threads   *)
(* and setups.                                                             *)
(*                                                                         *)
(* A lifecycle call runs over many steps and calls others: a swap plans,   *)
(* evicts, loads, rolls back.  What each of its steps relies on is not in  *)
(* one place of the code but in who holds swap_mutex_ and sidecar_mutex_   *)
(* while it runs.  Safe below says so for every label, and for the labels  *)
(* a running call will return to.  It is inductive; that the draining and  *)
(* resizing marks have exactly one owner each, and that native calls do    *)
(* not overlap, follow from it.                                            *)
(***************************************************************************)
EXTENDS BackendCoordinator, SumLemmas

(* Types of the locals of a lifecycle call and of a SlotWaiter.  The slots of an
   instance are integers here: that they never fall below zero is a fact about
   leases, see CoordinatorLeases_proofs. *)
Names == Models \cup {NoModel}
Instance == [st : {"none", "empty", "loaded"}, healthy : BOOLEAN, slots : Int,
             busy : SUBSET Nat, context : Nat, trimmed : BOOLEAN]
JobNames == {"none", "swap", "ensure", "load", "unload", "post"}
Backs == {"none", "finish", "prepared", "create", "evicted", "force", "restore", "restoreLoad",
          "legacyLoad", "swapLoaded", "retryLoaded", "legacyLoaded", "legacyRestored"}
CallType == [job : JobNames, target : Names, model : Names, ret : Backs, lret : Backs,
             res : Results, error : Results, lease : Nat, slots : Int, moved : Instance,
             primary : BOOLEAN, tried : SUBSET Models, force : BOOLEAN, observed : BOOLEAN,
             prior : [Models -> Int], previous : Names]
KeyNames == SessionKeys \cup {"cache", "none"}
WaiterType == [model : Names, prio : Int, key : KeyNames, demand : Nat,
               load : {"none", "ensure", "direct"}, enqueued : Nat, preparing : BOOLEAN,
               prepared : BOOLEAN, demandPrepared : BOOLEAN, capacityPrepared : BOOLEAN,
               blocked : BOOLEAN, aggregate : Nat, sequences : Nat]
LeaseType == [who : Requests \cup {Nobody}, model : Names, slot : Nat, context : Nat,
              key : KeyNames, prio : Int, continues : BOOLEAN]
Primaries == {m \in Models : Primary(m)} \cup {NoModel}

ThreadTypes ==
    /\ setup \in Setups
    /\ pc \in [Threads -> Labels]
    /\ call \in [Threads -> CallType]
    /\ owner \in [Locks -> Threads \cup {Nobody}]
    /\ tracker \in [busy : BOOLEAN, target : Names, last : Results]
    /\ ~tracker.busy => pc[Worker] = "start"
DataTypes ==
    /\ backend \in [Models -> Instance]
    /\ current \in Primaries
    /\ sample \in Samples \cup {-1}
    /\ leases \in [LeaseIds -> LeaseType]
    /\ nextLease \in 1 .. MaxLeaseId + 1
    /\ active \in [Models -> Nat] /\ reserved \in [Models -> Nat]
    /\ waiter \in [Requests -> WaiterType]
    /\ stamp \in [Requests -> {"none", "before", "parked"}]
    /\ clock \in Nat
Types == ThreadTypes /\ DataTypes

----------------------------------------------------------------------------
(* What a thread at label p with locals c and lifecycle locks h relies on. *)
Resizers == {"reclaimGuard", "reclaiming", "reclaimWait", "shrinkGuard", "shrinking"}
SwapHeld == PlanLabels \cup (SwapLabels \ {"swap"}) \cup {"estimating", "growing"}
Inside == {"create", "loading", "late", "loaded", "draining", "unloading"}
OnModel == LoadLabels \cup UnloadLabels \cup Resizers \cup {"restoreLoad", "evictGuard"}
OnTarget == PlanLabels \cup SwapLabels \cup {"ensure", "await", "check", "post"}

\* Where a nested load or unload goes back to: a swap, which holds swap_mutex_.
LoadBacks == {"swapLoaded", "retryLoaded", "restore", "legacyLoaded", "legacyRestored"}
UnloadBacks == {"evicted", "force", "restore", "restoreLoad", "legacyLoad"}
InSwap(c, h, label) ==
    /\ "swap" \in h
    /\ c.target \in Models
    /\ label \in {"legacyLoad", "legacyLoaded"} => c.previous \in Models
FromLoad(t, c, h) ==
    c.lret = Top(t) \/ (c.lret \in LoadBacks /\ InSwap(c, h, c.lret))
FromUnload(t, c, h) ==
    \/ c.ret = Top(t)
    \/ c.ret \in UnloadBacks /\ InSwap(c, h, c.ret)
    \/ c.ret = "create" /\ LockOf(c.model) \in h /\ FromLoad(t, c, h)

\* What holds at every label.
Sound(c) ==
    /\ c.previous \in Models => Primary(c.previous)
    /\ c.lease <= MaxLeaseId

Safe(t, p, c, h) ==
    /\ p \in SwapHeld => "swap" \in h
    /\ p \in Inside => LockOf(c.model) \in h
    /\ p \in LoadLabels => FromLoad(t, c, h)
    /\ p \in UnloadLabels => FromUnload(t, c, h)
    /\ p \in OnModel => c.model \in Models
    /\ p \in OnTarget => c.target \in Models
    /\ p \in {"legacyLoad", "legacyLoaded"} => c.previous \in Models
    /\ p \in Resizers => Info[c.model].runtime = "llama"
    /\ p = "late" => Info[c.model].runtime = "fixed"
    /\ p = "unloading" /\ c.primary => Primary(c.model)
    /\ p \in {"leased", "released"} => c.lease \in LeaseIds
    /\ p \in {"estimating", "growing"} => t \in Requests
    /\ Sound(c)

Holds(t) == {l \in Locks : owner[l] = t}
ThreadSafe(t) == Safe(t, pc[t], call[t], Holds(t))

\* What a request in the queue asked for.
Asked(w) == \E a \in Asks : w.model = a.model /\ w.demand = a.demand
Outside == {"start", "leased", "released", "done"}
Measured == {"estimate", "estimating", "estimated", "capacity", "growing", "grown"}
WaiterSafe(r) ==
    /\ pc[r] \notin Outside => Asked(waiter[r])
    /\ waiter[r].demandPrepared => waiter[r].demand > 0
    /\ pc[r] \in Measured => waiter[r].demand > 0

----------------------------------------------------------------------------
(* A step is taken by one thread; what it may not disturb of the others. *)
Others(T) ==
    /\ setup' = setup
    /\ \A s \in Threads \ T : /\ pc'[s] = pc[s] /\ call'[s] = call[s]
                              /\ \A l \in Locks : owner[l] = s => owner'[l] = s
    /\ \A s \in Requests \ T : waiter'[s] = waiter[s]

\* The marks of a thread, and what its step does to the two sets.
DrainMark(t) == IF pc[t] \in {"draining", "unloading"} THEN {call[t].model} ELSE {}
ResizeMark(t) == IF pc[t] \in Resizers THEN {call[t].model}
                 ELSE IF pc[t] = "growing" THEN {waiter[t].model} ELSE {}
MarkStep(t) ==
    /\ draining' = (draining \ DrainMark(t)) \cup DrainMark(t)'
    /\ resizing' = (resizing \ ResizeMark(t)) \cup ResizeMark(t)'

Marks ==
    /\ draining = UNION {DrainMark(t) : t \in Threads}
    /\ resizing = UNION {ResizeMark(t) : t \in Threads}

ThreadInv ==
    /\ Types
    /\ \A t \in Threads : ThreadSafe(t)
    /\ \A r \in Requests : WaiterSafe(r)
    /\ Marks

\* A step of thread t that keeps what every thread relies on.
Good(t) ==
    /\ Types'
    /\ Others({t})
    /\ ThreadSafe(t)'
    /\ t \in Requests => WaiterSafe(t)'
    /\ MarkStep(t)

----------------------------------------------------------------------------
(* Facts about types. *)

\* NoCall and NoWaiter have their types.
LEMMA NoCallType == NoCall \in CallType
  <1>1. NoBackend \in Instance
    BY DEF NoBackend, Instance
  <1>2. NoPrior \in [Models -> Int]
    BY DEF NoPrior
  <1>3. NoModel \in Names /\ "ok" \in Results
    BY DEF Names, Results
  <1>4. "none" \in JobNames /\ "none" \in Backs
    BY DEF JobNames, Backs
  <1> QED BY <1>1, <1>2, <1>3, <1>4 DEF NoCall, CallType

\* A waiter that asks for nothing has its type.
LEMMA NoWaiterType == NoWaiter \in WaiterType
  <1>1. NoModel \in Names /\ "none" \in KeyNames
    BY DEF Names, KeyNames
  <1> QED BY <1>1 DEF NoWaiter, WaiterType

\* The fields of a well-typed call.
LEMMA CallFields ==
  ASSUME NEW c \in CallType
  PROVE  /\ c.target \in Names /\ c.model \in Names /\ c.previous \in Names
         /\ c.ret \in Backs /\ c.lret \in Backs
         /\ c.res \in Results /\ c.error \in Results
         /\ c.lease \in Nat /\ c.slots \in Int /\ c.moved \in Instance
         /\ c.prior \in [Models -> Int]
  BY DEF CallType

\* The configuration of the process has its type.
LEMMA SetupFields ==
  ASSUME ThreadTypes
  PROVE  /\ Info \in [Models -> InfoType]
         /\ Asks \subseteq AskType /\ Jobs \subseteq JobType
         /\ MaxLeaseId \in Nat /\ Samples \subseteq Nat
  BY CoordinatorAssumption DEF ThreadTypes, SetupType, Info, Asks, Jobs, MaxLeaseId, Samples

\* Labels a call may return to are labels.
LEMMA BackLabels ==
  ASSUME NEW t
  PROVE  /\ Top(t) \in {"prepared", "finish"}
         /\ {"prepared", "finish", "create"} \cup LoadBacks \cup UnloadBacks \subseteq Labels
  <1>1. {"prepared", "finish", "create"} \subseteq Labels
    BY DEF Labels, PrepareLabels, LoadLabels
  <1>2. LoadBacks \subseteq Labels
    BY DEF Labels, LoadBacks, SwapLabels
  <1>3. UnloadBacks \subseteq Labels
    BY DEF Labels, UnloadBacks, SwapLabels, PlanLabels
  <1> QED BY <1>1, <1>2, <1>3 DEF Top

----------------------------------------------------------------------------
(* Steps of one thread. *)

\* A thread that gets to a label with what the label relies on.
LEMMA Enter ==
  ASSUME NEW t, NEW p, NEW c, NEW h,
         setup' = setup, pc'[t] = p, call'[t] = c, h \subseteq Holds(t)', Safe(t, p, c, h)
  PROVE  ThreadSafe(t)'
  <1>1. \A l : l \in h => l \in Holds(t)'
    OBVIOUS
  <1>2. Safe(t, p, c, h)'
    BY DEF Safe, FromLoad, FromUnload, InSwap, Sound, LockOf, Sidecar, Primary, Info, MaxLeaseId,
           LeaseIds, Top
  <1> QED BY <1>1, <1>2 DEF ThreadSafe, Safe, FromLoad, FromUnload, InSwap

\* The part of Good that concerns threads.
ThreadGood(t) ==
    /\ ThreadTypes'
    /\ ThreadSafe(t)'
    /\ setup' = setup
    /\ \A s \in Threads \ {t} : /\ pc'[s] = pc[s] /\ call'[s] = call[s]
                                /\ \A l \in Locks : owner[l] = s => owner'[l] = s

\* A step that takes t to label p with locals c, and only obtains or gives back
\* locks that no other thread holds.
TrackerTypes == /\ tracker \in [busy : BOOLEAN, target : Names, last : Results]
                /\ ~tracker.busy => pc[Worker] = "start"
\* Such a step leaves the thread with what the label relies on, and the others alone.
LEMMA MovesTracked ==
  ASSUME ThreadTypes, setup' = setup, TrackerTypes',
         NEW t \in Threads, NEW p \in Labels, NEW c \in CallType, NEW h,
         pc' = [pc EXCEPT ![t] = p], call' = [call EXCEPT ![t] = c],
         owner' \in [Locks -> Threads \cup {Nobody}],
         \A l \in Locks : owner[l] \in {t, Nobody} \/ owner'[l] = owner[l],
         h \subseteq Holds(t)', Safe(t, p, c, h)
  PROVE  ThreadGood(t)
  <1>1. pc'[t] = p /\ call'[t] = c
    BY DEF ThreadTypes
  <1>2. ThreadSafe(t)'
    BY <1>1, Enter
  <1>3. ThreadTypes'
    <2>1. pc' \in [Threads -> Labels] /\ call' \in [Threads -> CallType]
      BY DEF ThreadTypes
    <2> QED BY <2>1 DEF ThreadTypes, TrackerTypes
  <1>4. ASSUME NEW s \in Threads \ {t}
        PROVE  /\ pc'[s] = pc[s] /\ call'[s] = call[s]
               /\ \A l \in Locks : owner[l] = s => owner'[l] = s
    <2>1. s # Nobody
      BY CoordinatorAssumption
    <2> QED BY <2>1 DEF ThreadTypes
  <1> QED BY <1>2, <1>3, <1>4 DEF ThreadGood

\* The same for a step that leaves SwapTracker alone.
LEMMA Moves ==
  ASSUME ThreadTypes, setup' = setup, tracker' = tracker,
         NEW t \in Threads, NEW p \in Labels, NEW c \in CallType, NEW h,
         t = Worker => pc[t] # "start",
         pc' = [pc EXCEPT ![t] = p], call' = [call EXCEPT ![t] = c],
         owner' \in [Locks -> Threads \cup {Nobody}],
         \A l \in Locks : owner[l] \in {t, Nobody} \/ owner'[l] = owner[l],
         h \subseteq Holds(t)', Safe(t, p, c, h)
  PROVE  ThreadGood(t)
  <1>1. tracker.busy = FALSE => t # Worker
    BY DEF ThreadTypes
  <1>2. ~tracker'.busy => pc'[Worker] = "start"
    BY <1>1 DEF ThreadTypes, Threads
  <1>3. TrackerTypes'
    BY <1>2 DEF ThreadTypes, TrackerTypes
  <1> QED BY <1>3, MovesTracked

\* The same with the locks as they are.
LEMMA Stays ==
  ASSUME ThreadTypes, setup' = setup, tracker' = tracker, owner' = owner,
         NEW t \in Threads, NEW p \in Labels, NEW c \in CallType,
         t = Worker => pc[t] # "start",
         pc' = [pc EXCEPT ![t] = p], call' = [call EXCEPT ![t] = c],
         Safe(t, p, c, Holds(t))
  PROVE  ThreadGood(t)
  <1>1. Holds(t)' = Holds(t)
    BY DEF Holds
  <1>2. owner' \in [Locks -> Threads \cup {Nobody}]
    BY DEF ThreadTypes
  <1> QED BY <1>1, <1>2, Moves

\* A lifecycle call that returns, to its caller or to the swap it is part of.
LEMMA Returns ==
  ASSUME ThreadTypes, setup' = setup, tracker' = tracker,
         NEW t \in Threads, NEW label, NEW res \in Results,
         t = Worker => pc[t] # "start",
         ThreadSafe(t), Return(t, label, res),
         \/ label = Top(t)
         \/ /\ label \in LoadBacks \cup UnloadBacks
            /\ InSwap(call[t], Holds(t), label)
            /\ label = "restoreLoad" => call[t].model \in Models
         \/ /\ label = "create" /\ call[t].model \in Models
            /\ LockOf(call[t].model) \in Holds(t)
            /\ FromLoad(t, call[t], Holds(t))
  PROVE  ThreadGood(t)
  <1> DEFINE top == [NoCall EXCEPT !.res = res, !.lease = call[t].lease]
             nested == [call[t] EXCEPT !.res = res]
             c == IF label = Top(t) THEN top ELSE nested
             h == IF label = Top(t) THEN {} ELSE IF label = "create" THEN Holds(t)
                  ELSE Holds(t) \ {"sidecar"}
  <1>1. call[t] \in CallType
    BY DEF ThreadTypes
  <1>2. label \in Labels
    BY BackLabels
  <1>3. /\ nested \in CallType
        /\ nested.target = call[t].target /\ nested.model = call[t].model
        /\ nested.previous = call[t].previous /\ nested.lret = call[t].lret
        /\ nested.lease = call[t].lease
    BY <1>1 DEF CallType
  <1>4. top \in CallType /\ top.previous = NoModel /\ top.lease = call[t].lease
    BY <1>1, NoCallType DEF CallType, NoCall
  <1>5. pc' = [pc EXCEPT ![t] = label] /\ call' = [call EXCEPT ![t] = c]
    BY DEF Return, Goto
  <1>6. /\ owner' \in [Locks -> Threads \cup {Nobody}]
        /\ \A l \in Locks : owner[l] \in {t, Nobody} \/ owner'[l] = owner[l]
    BY DEF Return, ThreadTypes
  <1>7. h \subseteq Holds(t)'
    BY DEF Return, Holds, Locks
  <1>8. Sound(c)
    BY <1>3, <1>4, CoordinatorAssumption DEF ThreadSafe, Safe, Sound
  <1>9. Safe(t, label, c, h)
    <2>1. CASE label = Top(t)
      BY <1>8, <2>1 DEF Safe, Top, SwapHeld, Inside, LoadLabels, UnloadLabels, OnModel, OnTarget, Resizers,
         PlanLabels, SwapLabels
    <2>2. CASE label \in LoadBacks \cup UnloadBacks /\ label # Top(t)
      BY <1>3, <1>8, <2>2 DEF Safe, SwapHeld, Inside, LoadLabels, UnloadLabels, OnModel, OnTarget, Resizers,
         PlanLabels, SwapLabels, LoadBacks, UnloadBacks, InSwap, Top
    <2>3. CASE label = "create" /\ label # Top(t)
      BY <1>3, <1>8, <2>3 DEF Safe, SwapHeld, Inside, LoadLabels, UnloadLabels, OnModel, OnTarget, Resizers,
         PlanLabels, SwapLabels, FromLoad, InSwap, LoadBacks, UnloadBacks, Top
    <2> QED BY <2>1, <2>2, <2>3
  <1> HIDE DEF c, h, top, nested
  <1>10. c \in CallType
    BY <1>3, <1>4 DEF c
  <1> QED BY <1>2, <1>5, <1>6, <1>7, <1>9, <1>10, Moves

\* A load or an unload that returns to where it was called from.
LEMMA LoadReturns ==
  ASSUME ThreadTypes, setup' = setup, tracker' = tracker,
         NEW t \in Threads, NEW res \in Results,
         ThreadSafe(t), pc[t] \in LoadLabels, Return(t, call[t].lret, res)
  PROVE  ThreadGood(t)
  <1>1. FromLoad(t, call[t], Holds(t)) /\ pc[t] # "start"
    BY DEF ThreadSafe, Safe, LoadLabels
  <1>2. call[t].lret # "restoreLoad" \/ call[t].lret = Top(t)
    BY <1>1 DEF FromLoad, LoadBacks
  <1> QED BY <1>1, <1>2, Returns DEF FromLoad

\* An unload goes back to its caller with what the caller relies on.
LEMMA UnloadReturns ==
  ASSUME ThreadTypes, setup' = setup, tracker' = tracker,
         NEW t \in Threads, NEW res \in Results,
         ThreadSafe(t), pc[t] \in UnloadLabels, Return(t, call[t].ret, res)
  PROVE  ThreadGood(t)
  <1>1. /\ FromUnload(t, call[t], Holds(t)) /\ pc[t] # "start"
        /\ call[t].model \in Models
    BY DEF ThreadSafe, Safe, UnloadLabels, OnModel
  <1> QED BY <1>1, Returns DEF FromUnload

\* A step that only moves t, or only edits its locals.
LEMMA Steps ==
  ASSUME ThreadTypes, setup' = setup, tracker' = tracker, owner' = owner,
         NEW t \in Threads, NEW p \in Labels, t = Worker => pc[t] # "start",
         Goto(t, p), call' = call, Safe(t, p, call[t], Holds(t))
  PROVE  ThreadGood(t)
  <1>1. call' = [call EXCEPT ![t] = call[t]] /\ call[t] \in CallType
    BY DEF ThreadTypes
  <1> QED BY <1>1, Stays DEF Goto

\* What each kind of label relies on.
Quiet == {"start", "queued", "done", "finish", "estimate", "estimated", "capacity", "grown",
          "prepared"}
Planning == {"plan", "reclaim", "reclaimed", "shrink", "evict", "evicted", "verdict",
             "swapLoad", "swapLoaded", "force", "retry", "retryLoaded", "restore", "legacyRestored"}
\* Which facts are enough for which label.
LEMMA Relies ==
  ASSUME NEW t, NEW p, NEW c, NEW h, Sound(c)
  PROVE  /\ p \in Quiet => Safe(t, p, c, h) /\ p \in Labels
         /\ p \in {"swap", "ensure", "await", "check", "post"} /\ c.target \in Models
              => Safe(t, p, c, h) /\ p \in Labels
         /\ p \in Planning /\ "swap" \in h /\ c.target \in Models
              => Safe(t, p, c, h) /\ p \in Labels
         /\ p \in Resizers /\ "swap" \in h /\ c.target \in Models /\ c.model \in Models
              /\ Info[c.model].runtime = "llama"
              => Safe(t, p, c, h) /\ p \in Labels
         /\ p = "evictGuard" /\ "swap" \in h /\ c.target \in Models /\ c.model \in Models
              => Safe(t, p, c, h) /\ p \in Labels
         /\ p = "load" /\ c.model \in Models /\ FromLoad(t, c, h)
              => Safe(t, p, c, h) /\ p \in Labels
         /\ p \in {"create", "loading", "loaded"} /\ c.model \in Models /\ FromLoad(t, c, h)
              /\ LockOf(c.model) \in h
              => Safe(t, p, c, h) /\ p \in Labels
         /\ p = "unload" /\ c.model \in Models /\ FromUnload(t, c, h)
              => Safe(t, p, c, h) /\ p \in Labels
         /\ p = "draining" /\ c.model \in Models /\ FromUnload(t, c, h)
              /\ LockOf(c.model) \in h
              => Safe(t, p, c, h) /\ p \in Labels
  <1> USE DEF Safe, SwapHeld, Inside, LoadLabels, UnloadLabels, OnModel, OnTarget, Resizers,
              PlanLabels, SwapLabels, PrepareLabels, Labels
  <1>1. p \in Quiet => Safe(t, p, c, h) /\ p \in Labels
    BY DEF Quiet
  <1>2. p \in {"swap", "ensure", "await", "check", "post"} /\ c.target \in Models
          => Safe(t, p, c, h) /\ p \in Labels
    OBVIOUS
  <1>3. p \in Planning /\ "swap" \in h /\ c.target \in Models => Safe(t, p, c, h) /\ p \in Labels
    BY DEF Planning
  <1>4. p \in Resizers /\ "swap" \in h /\ c.target \in Models /\ c.model \in Models
          /\ Info[c.model].runtime = "llama"
          => Safe(t, p, c, h) /\ p \in Labels
    OBVIOUS
  <1>5. p = "evictGuard" /\ "swap" \in h /\ c.target \in Models /\ c.model \in Models
          => Safe(t, p, c, h) /\ p \in Labels
    OBVIOUS
  <1>6. p = "load" /\ c.model \in Models /\ FromLoad(t, c, h) => Safe(t, p, c, h) /\ p \in Labels
    OBVIOUS
  <1>7. p \in {"create", "loading", "loaded"} /\ c.model \in Models /\ FromLoad(t, c, h)
          /\ LockOf(c.model) \in h
          => Safe(t, p, c, h) /\ p \in Labels
    OBVIOUS
  <1>8. p = "unload" /\ c.model \in Models /\ FromUnload(t, c, h)
          => Safe(t, p, c, h) /\ p \in Labels
    OBVIOUS
  <1>9. p = "draining" /\ c.model \in Models /\ FromUnload(t, c, h) /\ LockOf(c.model) \in h
          => Safe(t, p, c, h) /\ p \in Labels
    OBVIOUS
  <1> QED BY <1>1, <1>2, <1>3, <1>4, <1>5, <1>6, <1>7, <1>8, <1>9

----------------------------------------------------------------------------
(* load_with_lock_deadline *)
LEMMA LoadThreads ==
  ASSUME Types, NEW t \in Threads, ThreadSafe(t),
         LoadStart(t) \/ LoadGiveUp(t) \/ LoadCreate(t) \/ LoadNative(t) \/ LoadLate(t) \/ LoadEnd(t)
  PROVE  ThreadGood(t)
  <1> DEFINE m == call[t].model
  <1>0. /\ ThreadTypes /\ call[t] \in CallType /\ owner \in [Locks -> Threads \cup {Nobody}]
        /\ "ok" \in Results /\ "gone" \in Results /\ "oom" \in Results /\ "error" \in Results
    BY DEF Types, ThreadTypes, Results
  <1>1. setup' = setup /\ tracker' = tracker
    BY DEF LoadStart, LoadGiveUp, LoadCreate, LoadNative, LoadLate, LoadEnd, LoadFails,
           untouched, otherVars
  <1>2. pc[t] \in LoadLabels /\ pc[t] # "start"
    BY DEF LoadStart, LoadGiveUp, LoadCreate, LoadNative, LoadLate, LoadEnd, LoadLabels
  <1>3. FromLoad(t, call[t], Holds(t)) /\ m \in Models /\ Sound(call[t])
    BY <1>2 DEF ThreadSafe, Safe, OnModel
  <1>4. LockOf(m) \in Locks
    BY DEF LockOf, Locks
  <1>5. ASSUME NEW res \in Results, Return(t, call[t].lret, res) PROVE ThreadGood(t)
    BY <1>0, <1>1, <1>2, <1>5, LoadReturns
  <1>6. CASE LoadStart(t)
    <2>1. CASE Loaded(m) /\ backend[m].healthy
      BY <1>0, <1>5, <1>6, <2>1 DEF LoadStart
    <2>2. CASE ~(Loaded(m) /\ backend[m].healthy)
      <3> DEFINE cu == [call[t] EXCEPT !.ret = "create", !.slots = backend[m].slots]
                 cc == [call[t] EXCEPT !.res = "ok"]
                 h == Holds(t) \cup {LockOf(m)}
      <3>1. Obtain(t, LockOf(m)) /\ owner[LockOf(m)] \in {t, Nobody}
        BY <1>6, <2>2 DEF LoadStart, Obtainable
      <3>2. h \subseteq Holds(t)'
        BY <1>0, <1>4, <3>1 DEF Obtain, Holds
      <3>3. /\ owner' \in [Locks -> Threads \cup {Nobody}]
            /\ \A l \in Locks : owner[l] \in {t, Nobody} \/ owner'[l] = owner[l]
        BY <1>0, <1>4, <3>1 DEF Obtain
      <3>4. FromLoad(t, call[t], h) /\ LockOf(m) \in h
        BY <1>3 DEF FromLoad, InSwap
      <3>5. CASE Loaded(m)
        <4>1. GoWith(t, "unload", cu)
          BY <1>6, <2>2, <3>5 DEF LoadStart
        <4>2. backend[m].slots \in Int
          BY <1>3 DEF Types, DataTypes, Instance
        <4>3. cu \in CallType /\ cu.ret = "create" /\ cu.model = m /\ cu.lret = call[t].lret
              /\ cu.target = call[t].target /\ cu.previous = call[t].previous
              /\ cu.lease = call[t].lease
          BY <1>0, <4>2 DEF CallType, Backs
        <4>4. FromUnload(t, cu, h) /\ Sound(cu)
          BY <1>3, <3>4, <4>3 DEF FromUnload, FromLoad, InSwap, Sound
        <4>5. Safe(t, "unload", cu, h) /\ "unload" \in Labels
          BY <1>3, <4>3, <4>4, Relies
        <4> HIDE DEF cu, h
        <4> QED BY <1>0, <1>1, <1>2, <3>2, <3>3, <4>1, <4>3, <4>5, Moves DEF GoWith, With, Goto
      <3>6. CASE ~Loaded(m)
        <4>1. GoWith(t, "create", cc)
          BY <1>6, <2>2, <3>6 DEF LoadStart
        <4>3. cc \in CallType /\ cc.model = m /\ cc.lret = call[t].lret
              /\ cc.target = call[t].target /\ cc.previous = call[t].previous
              /\ cc.lease = call[t].lease
          BY <1>0 DEF CallType
        <4>4. FromLoad(t, cc, h) /\ Sound(cc)
          BY <1>3, <3>4, <4>3 DEF FromLoad, InSwap, Sound
        <4>5. Safe(t, "create", cc, h) /\ "create" \in Labels
          BY <1>3, <3>4, <4>3, <4>4, Relies
        <4> HIDE DEF cc, h
        <4> QED BY <1>0, <1>1, <1>2, <3>2, <3>3, <4>1, <4>3, <4>5, Moves DEF GoWith, With, Goto
      <3> QED BY <3>5, <3>6
    <2> QED BY <2>1, <2>2
  <1>7. CASE LoadGiveUp(t)
    BY <1>0, <1>5, <1>7 DEF LoadGiveUp
  <1>8. CASE LoadCreate(t)
    <2>1. CASE call[t].res # "ok"
      BY <1>0, <1>5, <1>8, <2>1, CallFields DEF LoadCreate
    <2>2. CASE call[t].res = "ok"
      <3>1. Goto(t, "loading") /\ call' = call /\ owner' = owner /\ pc[t] = "create"
        BY <1>8, <2>2 DEF LoadCreate
      <3>2. LockOf(m) \in Holds(t)
        BY <3>1 DEF ThreadSafe, Safe, Inside
      <3>3. Safe(t, "loading", call[t], Holds(t)) /\ "loading" \in Labels
        BY <1>3, <3>2, Relies
      <3> QED BY <1>0, <1>1, <1>2, <3>1, <3>3, Steps
    <2> QED BY <2>1, <2>2
  <1>9. CASE LoadNative(t)
    <2>1. pc[t] = "loading" /\ LockOf(m) \in Holds(t)
      BY <1>9 DEF LoadNative, ThreadSafe, Safe, Inside
    <2>2. CASE \E b, res : LoadFails(t, b, res) /\ res \in Results
      BY <1>5, <2>2 DEF LoadFails
    <2>3. CASE call' = call /\ owner' = owner
               /\ Goto(t, IF Info[m].runtime = "fixed" THEN "late" ELSE "loaded")
      <3>1. CASE Info[m].runtime = "fixed"
        <4>1. Safe(t, "late", call[t], Holds(t)) /\ "late" \in Labels
          BY <1>3, <2>1, <3>1 DEF Safe, SwapHeld, Inside, LoadLabels, UnloadLabels, OnModel,
             OnTarget, Resizers, PlanLabels, SwapLabels, Labels
        <4> QED BY <1>0, <1>1, <1>2, <2>3, <3>1, <4>1, Steps
      <3>2. CASE Info[m].runtime # "fixed"
        <4>1. Safe(t, "loaded", call[t], Holds(t)) /\ "loaded" \in Labels
          BY <1>3, <2>1, Relies
        <4> QED BY <1>0, <1>1, <1>2, <2>3, <3>2, <4>1, Steps
      <3> QED BY <3>1, <3>2
    <2> QED BY <1>0, <1>9, <2>2, <2>3 DEF LoadNative
  <1>10. CASE LoadLate(t)
    <2>1. pc[t] = "late" /\ LockOf(m) \in Holds(t)
      BY <1>10 DEF LoadLate, ThreadSafe, Safe, Inside
    <2>2. CASE \E b, res : LoadFails(t, b, res) /\ res \in Results
      BY <1>5, <2>2 DEF LoadFails
    <2>3. CASE call' = call /\ owner' = owner /\ Goto(t, "loaded")
      <3>1. Safe(t, "loaded", call[t], Holds(t)) /\ "loaded" \in Labels
        BY <1>3, <2>1, Relies
      <3> QED BY <1>0, <1>1, <1>2, <2>3, <3>1, Steps
    <2> QED BY <1>0, <1>10, <2>2, <2>3 DEF LoadLate
  <1>11. CASE LoadEnd(t)
    BY <1>0, <1>5, <1>11 DEF LoadEnd
  <1> QED BY <1>6, <1>7, <1>8, <1>9, <1>10, <1>11


(* unload_with_control *)
LEMMA UnloadThreads ==
  ASSUME Types, NEW t \in Threads, ThreadSafe(t),
         UnloadStart(t) \/ UnloadGiveUp(t) \/ Drained(t) \/ DrainGiveUp(t) \/ UnloadNative(t)
  PROVE  ThreadGood(t)
  <1> DEFINE m == call[t].model
  <1>0. /\ ThreadTypes /\ call[t] \in CallType /\ owner \in [Locks -> Threads \cup {Nobody}]
        /\ "ok" \in Results /\ "gone" \in Results /\ "error" \in Results
    BY DEF Types, ThreadTypes, Results
  <1>1. setup' = setup /\ tracker' = tracker
    BY DEF UnloadStart, UnloadGiveUp, Drained, DrainGiveUp, UnloadNative, untouched, otherVars
  <1>2. pc[t] \in UnloadLabels /\ pc[t] # "start"
    BY DEF UnloadStart, UnloadGiveUp, Drained, DrainGiveUp, UnloadNative, UnloadLabels
  <1>3. FromUnload(t, call[t], Holds(t)) /\ m \in Models /\ Sound(call[t])
    BY <1>2 DEF ThreadSafe, Safe, OnModel
  <1>4. LockOf(m) \in Locks
    BY DEF LockOf, Locks
  <1>5. ASSUME NEW res \in Results, Return(t, call[t].ret, res) PROVE ThreadGood(t)
    BY <1>0, <1>1, <1>2, <1>5, UnloadReturns
  <1>6. CASE UnloadStart(t)
    <2> DEFINE h == Holds(t) \cup {LockOf(m)}
    <2>1. /\ Obtain(t, LockOf(m)) /\ owner[LockOf(m)] \in {t, Nobody}
          /\ Goto(t, "draining") /\ call' = call
      BY <1>6 DEF UnloadStart, Obtainable
    <2>2. h \subseteq Holds(t)'
      BY <1>0, <1>4, <2>1 DEF Obtain, Holds
    <2>3. /\ owner' \in [Locks -> Threads \cup {Nobody}]
          /\ \A l \in Locks : owner[l] \in {t, Nobody} \/ owner'[l] = owner[l]
      BY <1>0, <1>4, <2>1 DEF Obtain
    <2>4. FromUnload(t, call[t], h) /\ LockOf(m) \in h
      BY <1>3 DEF FromUnload, FromLoad, InSwap
    <2>5. Safe(t, "draining", call[t], h) /\ "draining" \in Labels
      BY <1>3, <2>4, Relies
    <2>6. call' = [call EXCEPT ![t] = call[t]]
      BY <1>0, <2>1 DEF ThreadTypes
    <2> HIDE DEF h
    <2> QED BY <1>0, <1>1, <1>2, <2>1, <2>2, <2>3, <2>5, <2>6, Moves DEF Goto
  <1>7. CASE UnloadGiveUp(t)
    BY <1>0, <1>5, <1>7 DEF UnloadGiveUp
  <1>8. CASE Drained(t)
    <2> DEFINE c == [call[t] EXCEPT !.moved = backend[m], !.primary = (current = m)]
    <2>1. GoWith(t, "unloading", c) /\ owner' = owner /\ pc[t] = "draining"
      BY <1>8 DEF Drained
    <2>2. backend[m] \in Instance /\ (current = m) \in BOOLEAN /\ (current = m => Primary(m))
      BY <1>3, CoordinatorAssumption DEF Types, DataTypes, Primaries
    <2>3. /\ c \in CallType /\ c.model = m /\ c.lret = call[t].lret /\ c.ret = call[t].ret
          /\ c.target = call[t].target /\ c.previous = call[t].previous
          /\ c.lease = call[t].lease /\ c.primary = (current = m)
      BY <1>0, <2>2 DEF CallType
    <2>4. LockOf(m) \in Holds(t)
      BY <2>1 DEF ThreadSafe, Safe, Inside
    <2>5. FromUnload(t, c, Holds(t)) /\ Sound(c)
      BY <1>3, <2>3 DEF FromUnload, FromLoad, InSwap, Sound
    <2> HIDE DEF c
    <2>6. Safe(t, "unloading", c, Holds(t)) /\ "unloading" \in Labels
      BY <1>3, <2>2, <2>3, <2>4, <2>5 DEF Safe, SwapHeld, Inside, LoadLabels, UnloadLabels, OnModel,
         OnTarget, Resizers, PlanLabels, SwapLabels, Labels
    <2> QED BY <1>0, <1>1, <1>2, <2>1, <2>3, <2>6, Stays DEF GoWith, With, Goto
  <1>9. CASE DrainGiveUp(t)
    BY <1>0, <1>5, <1>9 DEF DrainGiveUp
  <1>10. CASE UnloadNative(t)
    BY <1>0, <1>5, <1>10 DEF UnloadNative
  <1> QED BY <1>6, <1>7, <1>8, <1>9, <1>10

(* prepare_capacity_for.  Every step of it runs under swap_mutex_ and knows the
   model it makes room for. *)
LEMMA PlanKnows ==
  ASSUME ThreadTypes, NEW t \in Threads, ThreadSafe(t),
         pc[t] \in SwapHeld \cap (PlanLabels \cup SwapLabels)
  PROVE  /\ "swap" \in Holds(t) /\ call[t].target \in Models /\ Sound(call[t])
         /\ call[t] \in CallType /\ pc[t] # "start"
         /\ pc[t] \in OnModel => call[t].model \in Models
  BY DEF ThreadSafe, Safe, OnTarget, SwapHeld, PlanLabels, SwapLabels, ThreadTypes

\* The planner goes back to the swap that called it.
LEMMA PlanReturns ==
  ASSUME ThreadTypes, setup' = setup, tracker' = tracker,
         NEW t \in Threads, NEW res \in Results, ThreadSafe(t),
         pc[t] \in PlanLabels, PlanReturn(t, res)
  PROVE  ThreadGood(t)
  <1> DEFINE c == [call[t] EXCEPT !.res = res]
             p == IF call[t].force THEN "retry" ELSE "swapLoad"
  <1>1. /\ "swap" \in Holds(t) /\ call[t].target \in Models /\ Sound(call[t])
        /\ call[t] \in CallType /\ pc[t] # "start"
    BY PlanKnows DEF SwapHeld
  <1>2. c \in CallType /\ Sound(c) /\ c.target = call[t].target
    BY <1>1 DEF CallType, Sound
  <1>3. pc' = [pc EXCEPT ![t] = p] /\ call' = [call EXCEPT ![t] = c] /\ owner' = owner
    BY DEF PlanReturn, GoWith, With, Goto
  <1>4. p \in Planning
    BY DEF Planning
  <1> HIDE DEF c, p
  <1>5. Safe(t, p, c, Holds(t)) /\ p \in Labels
    BY <1>1, <1>2, <1>4, Relies
  <1> QED BY <1>1, <1>2, <1>3, <1>5, Stays

\* A step of prepare_capacity_for keeps what its thread relies on.
LEMMA PlanThreads ==
  ASSUME Types, NEW t \in Threads, ThreadSafe(t), PlanNext(t) \/ PlanGiveUp(t)
  PROVE  ThreadGood(t)
  <1>0. /\ ThreadTypes
        /\ "ok" \in Results /\ "gone" \in Results /\ "oom" \in Results /\ "busy" \in Results
        /\ "error" \in Results
    BY DEF Types, Results
  <1>1. setup' = setup /\ tracker' = tracker
    <2>1. CASE Plan(t) \/ PlanFits(t) \/ PlanGiveUp(t)
      BY <2>1 DEF Plan, PlanFits, PlanGiveUp, PlanRefused, untouched, otherVars
    <2>2. CASE ReclaimPick(t) \/ ReclaimGuard(t) \/ ReclaimNative(t) \/ ReclaimWait(t) \/ ReclaimAgain(t)
      BY <2>2 DEF ReclaimPick, ReclaimGuard, ReclaimNative, ReclaimWait, ReclaimAgain, PlanRefused,
                  untouched, otherVars
    <2>3. CASE ShrinkPick(t) \/ ShrinkGuard(t) \/ ShrinkNative(t)
      BY <2>3 DEF ShrinkPick, ShrinkGuard, ShrinkNative, PlanRefused, untouched, otherVars
    <2>4. CASE EvictPick(t) \/ EvictGuard(t) \/ Evicted(t) \/ Verdict(t)
      BY <2>4 DEF EvictPick, EvictGuard, Evicted, Verdict, PlanRefused, untouched, otherVars
    <2> QED BY <2>1, <2>2, <2>3, <2>4 DEF PlanNext
  <1>2. pc[t] \in PlanLabels
    BY DEF PlanNext, PlanGiveUp, Plan, PlanFits, ReclaimPick, ReclaimGuard, ReclaimNative, ReclaimWait,
       ReclaimAgain, ShrinkPick, ShrinkGuard, ShrinkNative, EvictPick, EvictGuard, Evicted, Verdict,
       PlanLabels
  <1>3. /\ "swap" \in Holds(t) /\ call[t].target \in Models /\ Sound(call[t])
        /\ call[t] \in CallType /\ pc[t] # "start"
        /\ pc[t] \in OnModel => call[t].model \in Models
    BY <1>0, <1>2, PlanKnows DEF SwapHeld
  <1>4. ASSUME NEW res \in Results, PlanReturn(t, res) PROVE ThreadGood(t)
    BY <1>0, <1>1, <1>2, <1>4, PlanReturns
  <1>5. ASSUME NEW C, PlanRefused(t, C) PROVE ThreadGood(t)
    BY <1>0, <1>4, <1>5 DEF PlanRefused
  <1>6. ASSUME NEW p \in Planning, Goto(t, p), call' = call, owner' = owner PROVE ThreadGood(t)
    <2>1. Safe(t, p, call[t], Holds(t)) /\ p \in Labels
      BY <1>3, Relies
    <2> QED BY <1>0, <1>1, <1>3, <1>6, <2>1, Steps
  <1>7. ASSUME NEW p \in Labels, NEW c \in CallType, GoWith(t, p, c), owner' = owner,
               Safe(t, p, c, Holds(t))
        PROVE  ThreadGood(t)
    BY <1>0, <1>1, <1>3, <1>7, Stays DEF GoWith, With, Goto
  <1>8. CASE Plan(t) \/ PlanFits(t) \/ PlanGiveUp(t) \/ Verdict(t)
    <2>1. CASE PlanFits(t) \/ PlanGiveUp(t) \/ Verdict(t)
      BY <1>0, <1>4, <2>1 DEF PlanFits, PlanGiveUp, Verdict
    <2>2. CASE Plan(t)
      <3> DEFINE c == [call[t] EXCEPT !.tried = {}]
      <3>1. c \in CallType /\ Sound(c) /\ c.target = call[t].target
        BY <1>3 DEF CallType, Sound
      <3>2. \/ PlanRefused(t, {}) \/ PlanReturn(t, "ok")
            \/ GoWith(t, "reclaim", c) /\ owner' = owner
        BY <2>2 DEF Plan
      <3> HIDE DEF c
      <3>3. Safe(t, "reclaim", c, Holds(t)) /\ "reclaim" \in Labels
        BY <1>3, <3>1, Relies DEF Planning
      <3> QED BY <1>0, <1>4, <1>5, <1>7, <3>1, <3>2, <3>3
    <2> QED BY <1>8, <2>1, <2>2
  <1>9. CASE ReclaimPick(t)
    <2>1. ASSUME NEW n \in Reclaimable(t),
                 GoWith(t, "reclaimGuard", [call[t] EXCEPT
                    !.model = n, !.tried = @ \cup {n}, !.observed = Fresh]), owner' = owner
          PROVE  ThreadGood(t)
      <3> DEFINE c == [call[t] EXCEPT !.model = n, !.tried = @ \cup {n}, !.observed = Fresh]
      <3>1. n \in Models /\ Info[n].runtime = "llama"
        BY DEF Reclaimable, OnGpu, Resident, CanReclaim
      <3>2. Fresh \in BOOLEAN
        BY DEF Fresh
      <3>3. c \in CallType /\ Sound(c) /\ c.target = call[t].target /\ c.model = n
        BY <1>3, <3>1, <3>2 DEF CallType, Sound, Names
      <3> HIDE DEF c
      <3>4. Safe(t, "reclaimGuard", c, Holds(t)) /\ "reclaimGuard" \in Labels
        BY <1>3, <3>1, <3>3, Relies DEF Resizers
      <3> QED BY <1>7, <2>1, <3>3, <3>4 DEF c
    <2>2. \/ \E n \in Reclaimable(t) :
                GoWith(t, "reclaimGuard", [call[t] EXCEPT
                    !.model = n, !.tried = @ \cup {n}, !.observed = Fresh]) /\ owner' = owner
          \/ PlanReturn(t, "oom")
          \/ Goto(t, "shrink") /\ call' = call /\ owner' = owner
      BY <1>9 DEF ReclaimPick
    <2> QED BY <1>0, <1>4, <1>6, <2>1, <2>2 DEF Planning
  <1>10. CASE ReclaimGuard(t)
    <2>1. /\ pc[t] = "reclaimGuard"
          /\ \/ PlanRefused(t, {call[t].model})
             \/ Goto(t, "reclaiming") /\ call' = call /\ owner' = owner
      BY <1>10 DEF ReclaimGuard
    <2>2. call[t].model \in Models /\ Info[call[t].model].runtime = "llama"
      BY <2>1 DEF ThreadSafe, Safe, OnModel, Resizers
    <2>3. Safe(t, "reclaiming", call[t], Holds(t)) /\ "reclaiming" \in Labels
      BY <1>3, <2>2, Relies DEF Resizers
    <2> QED BY <1>0, <1>1, <1>3, <1>5, <2>1, <2>3, Steps
  <1>11. CASE ReclaimNative(t)
    <2>1. /\ pc[t] = "reclaiming"
          /\ \/ \E p \in {"reclaimWait", "reclaimed", "reclaim"} :
                    Goto(t, p) /\ call' = call /\ owner' = owner
             \/ PlanReturn(t, "error") \/ PlanReturn(t, "gone")
      BY <1>11 DEF ReclaimNative
    <2>2. call[t].model \in Models /\ Info[call[t].model].runtime = "llama"
      BY <2>1 DEF ThreadSafe, Safe, OnModel, Resizers
    <2>3. Safe(t, "reclaimWait", call[t], Holds(t)) /\ "reclaimWait" \in Labels
      BY <1>3, <2>2, Relies DEF Resizers
    <2>4. CASE Goto(t, "reclaimWait") /\ call' = call /\ owner' = owner
      BY <1>0, <1>1, <1>3, <2>3, <2>4, Steps
    <2> QED BY <1>0, <1>4, <1>6, <2>1, <2>4 DEF Planning
  <1>12. CASE ReclaimWait(t) \/ ReclaimAgain(t) \/ Evicted(t)
    <2>1. \/ \E p \in {"reclaimed", "reclaim", "evict"} :
                 Goto(t, p) /\ call' = call /\ owner' = owner
          \/ PlanReturn(t, call[t].res)
      BY <1>12 DEF ReclaimWait, ReclaimAgain, Evicted
    <2>2. call[t].res \in Results
      BY <1>3, CallFields
    <2> QED BY <1>4, <1>6, <2>1, <2>2 DEF Planning
  <1>13. CASE ShrinkPick(t)
    <2>1. ASSUME NEW n \in Shrinkable(t),
                 GoWith(t, "shrinkGuard", [call[t] EXCEPT !.model = n]), owner' = owner
          PROVE  ThreadGood(t)
      <3> DEFINE c == [call[t] EXCEPT !.model = n]
      <3>1. n \in Models /\ Info[n].runtime = "llama"
        BY DEF Shrinkable, OnGpu, Resident, CanResize
      <3>2. c \in CallType /\ Sound(c) /\ c.target = call[t].target /\ c.model = n
        BY <1>3, <3>1 DEF CallType, Sound, Names
      <3> HIDE DEF c
      <3>3. Safe(t, "shrinkGuard", c, Holds(t)) /\ "shrinkGuard" \in Labels
        BY <1>3, <3>1, <3>2, Relies DEF Resizers
      <3> QED BY <1>7, <2>1, <3>2, <3>3 DEF c
    <2>2. /\ owner' = owner
          /\ \/ \E n \in Shrinkable(t) : GoWith(t, "shrinkGuard", [call[t] EXCEPT !.model = n])
             \/ Goto(t, "evict") /\ call' = call
      BY <1>13 DEF ShrinkPick
    <2> QED BY <1>6, <2>1, <2>2 DEF Planning
  <1>14. CASE ShrinkGuard(t)
    <2> DEFINE c == [call[t] EXCEPT !.moved = backend[call[t].model]]
    <2>1. /\ pc[t] = "shrinkGuard"
          /\ \/ PlanRefused(t, {call[t].model})
             \/ GoWith(t, "shrinking", c) /\ owner' = owner
      BY <1>14 DEF ShrinkGuard
    <2>2. call[t].model \in Models /\ Info[call[t].model].runtime = "llama"
      BY <2>1 DEF ThreadSafe, Safe, OnModel, Resizers
    <2>3. backend[call[t].model] \in Instance
      BY <2>2 DEF Types, DataTypes
    <2>4. c \in CallType /\ Sound(c) /\ c.target = call[t].target /\ c.model = call[t].model
      BY <1>3, <2>3 DEF CallType, Sound
    <2> HIDE DEF c
    <2>5. Safe(t, "shrinking", c, Holds(t)) /\ "shrinking" \in Labels
      BY <1>3, <2>2, <2>4, Relies DEF Resizers
    <2> QED BY <1>5, <1>7, <2>1, <2>4, <2>5
  <1>15. CASE ShrinkNative(t)
    <2>1. /\ call' = call /\ owner' = owner
          /\ Goto(t, "shrink") \/ Goto(t, "evict")
      BY <1>15 DEF ShrinkNative
    <2> QED BY <1>6, <2>1 DEF Planning
  <1>16. CASE EvictPick(t)
    <2>1. ASSUME NEW n \in Evictable(t),
                 GoWith(t, "evictGuard", [call[t] EXCEPT !.model = n]), owner' = owner
          PROVE  ThreadGood(t)
      <3> DEFINE c == [call[t] EXCEPT !.model = n]
      <3>1. n \in Models
        BY DEF Evictable, OnGpu, Resident
      <3>2. c \in CallType /\ Sound(c) /\ c.target = call[t].target /\ c.model = n
        BY <1>3, <3>1 DEF CallType, Sound, Names
      <3> HIDE DEF c
      <3>3. Safe(t, "evictGuard", c, Holds(t)) /\ "evictGuard" \in Labels
        BY <1>3, <3>1, <3>2, Relies
      <3> QED BY <1>7, <2>1, <3>2, <3>3 DEF c
    <2>2. /\ owner' = owner
          /\ \/ \E n \in Evictable(t) : GoWith(t, "evictGuard", [call[t] EXCEPT !.model = n])
             \/ Goto(t, "verdict") /\ call' = call
      BY <1>16 DEF EvictPick
    <2> QED BY <1>6, <2>1, <2>2 DEF Planning
  <1>17. CASE EvictGuard(t)
    <2> DEFINE c == [call[t] EXCEPT !.model = call[t].model, !.ret = "evicted"]
    <2>1. /\ pc[t] = "evictGuard"
          /\ \/ PlanRefused(t, {})
             \/ GoWith(t, "unload", c) /\ owner' = owner
      BY <1>17 DEF EvictGuard, CallUnload
    <2>2. call[t].model \in Models
      BY <1>3, <2>1 DEF OnModel
    <2>3. /\ c \in CallType /\ Sound(c) /\ c.target = call[t].target /\ c.model = call[t].model
          /\ c.ret = "evicted"
      BY <1>3 DEF CallType, Sound, Backs
    <2>4. FromUnload(t, c, Holds(t))
      BY <1>3, <2>3 DEF FromUnload, UnloadBacks, InSwap
    <2> HIDE DEF c
    <2>5. Safe(t, "unload", c, Holds(t)) /\ "unload" \in Labels
      BY <2>2, <2>3, <2>4, Relies
    <2> QED BY <1>5, <1>7, <2>1, <2>3, <2>5
  <1> QED BY <1>8, <1>9, <1>10, <1>11, <1>12, <1>13, <1>14, <1>15, <1>16, <1>17 DEF PlanNext

(* swap_to_with_control *)

\* The locals of a call to load m are well typed.
LEMMA LoadLocals ==
  ASSUME NEW b \in CallType, NEW m \in Names, NEW lret \in Backs, NEW ret \in Backs,
         NEW e \in Results
  PROVE  /\ [b EXCEPT !.model = m, !.lret = lret, !.ret = ret, !.slots = 0] \in CallType
         /\ [b EXCEPT !.model = m, !.slots = 0, !.lret = lret, !.error = e] \in CallType
  <1>1. ASSUME NEW n \in Int
        PROVE  [b EXCEPT !.model = m, !.lret = lret, !.ret = ret, !.slots = n] \in CallType
    BY DEF CallType
  <1>2. ASSUME NEW n \in Int
        PROVE  [b EXCEPT !.model = m, !.slots = n, !.lret = lret, !.error = e] \in CallType
    BY DEF CallType
  <1>3. 0 \in Int
    OBVIOUS
  <1> QED BY <1>1, <1>2, <1>3, Zenon

\* The locals of a call to load or unload m, and what they let it rely on.
LEMMA LoadCalls ==
  ASSUME ThreadTypes, NEW t \in Threads, NEW m \in Models, NEW lret, NEW h, NEW e \in Results,
         Sound(call[t]),
         lret = Top(t) \/ (lret \in LoadBacks /\ InSwap(call[t], h, lret))
  PROVE  LET c == [call[t] EXCEPT !.model = m, !.lret = lret, !.ret = "none", !.slots = 0]
             d == [call[t] EXCEPT !.model = m, !.slots = 0, !.lret = lret, !.error = e]
         IN  /\ c \in CallType /\ Safe(t, "load", c, h) /\ "load" \in Labels
             /\ d \in CallType /\ Safe(t, "load", d, h)
  <1> DEFINE c == [call[t] EXCEPT !.model = m, !.lret = lret, !.ret = "none", !.slots = 0]
             d == [call[t] EXCEPT !.model = m, !.slots = 0, !.lret = lret, !.error = e]
  <1>1. lret \in Backs
    BY BackLabels DEF Backs, LoadBacks
  <1>2. call[t] \in CallType /\ m \in Names /\ "none" \in Backs
    BY DEF ThreadTypes, Names, Backs
  <1>3. /\ c \in CallType /\ c.model = m /\ c.lret = lret /\ c.target = call[t].target
        /\ c.previous = call[t].previous /\ c.lease = call[t].lease
    <2>1. c.model = m /\ c.lret = lret /\ c.target = call[t].target
          /\ c.previous = call[t].previous /\ c.lease = call[t].lease
      BY <1>2 DEF CallType
    <2> QED BY <1>1, <1>2, <2>1, LoadLocals
  <1>4. /\ d \in CallType /\ d.model = m /\ d.lret = lret /\ d.target = call[t].target
        /\ d.previous = call[t].previous /\ d.lease = call[t].lease
    <2>1. d.model = m /\ d.lret = lret /\ d.target = call[t].target
          /\ d.previous = call[t].previous /\ d.lease = call[t].lease
      BY <1>2 DEF CallType
    <2> QED BY <1>1, <1>2, <2>1, LoadLocals
  <1> HIDE DEF c, d
  <1>5. FromLoad(t, c, h) /\ Sound(c) /\ FromLoad(t, d, h) /\ Sound(d)
    BY <1>3, <1>4 DEF FromLoad, InSwap, Sound
  <1>6. Safe(t, "load", c, h) /\ Safe(t, "load", d, h) /\ "load" \in Labels
    BY <1>3, <1>4, <1>5, Relies
  <1> QED BY <1>3, <1>4, <1>6 DEF c, d

\* A swap that calls unload has what unload relies on.
LEMMA UnloadCalls ==
  ASSUME ThreadTypes, NEW t \in Threads, NEW m \in Models, NEW ret \in UnloadBacks,
         NEW c \in CallType, NEW h, Sound(c),
         c.model = m, c.ret = ret, InSwap(c, h, ret)
  PROVE  Safe(t, "unload", c, h) /\ "unload" \in Labels
  <1>1. FromUnload(t, c, h)
    BY DEF FromUnload
  <1> QED BY <1>1, Relies

\* Up to the point where the swap holds swap_mutex_.
LEMMA SwapBeginThreads ==
  ASSUME Types, NEW t \in Threads, ThreadSafe(t), SwapShort(t) \/ SwapGiveUp(t) \/ SwapStart(t)
  PROVE  ThreadGood(t)
  <1> DEFINE m == call[t].target
  <1>0. /\ ThreadTypes /\ call[t] \in CallType /\ owner \in [Locks -> Threads \cup {Nobody}]
        /\ "ok" \in Results /\ "gone" \in Results /\ "busy" \in Results
    BY DEF Types, ThreadTypes, Results
  <1>1. setup' = setup /\ tracker' = tracker
    BY DEF SwapShort, SwapGiveUp, SwapStart, untouched, otherVars
  <1>2. pc[t] = "swap"
    BY DEF SwapShort, SwapGiveUp, SwapStart
  <1>3. m \in Models /\ Sound(call[t])
    BY <1>2 DEF ThreadSafe, Safe, OnTarget, SwapLabels
  <1>4. ASSUME NEW res \in Results, Return(t, Top(t), res) PROVE ThreadGood(t)
    BY <1>0, <1>1, <1>2, <1>4, Returns
  <1>5. CASE SwapShort(t)
    <2>1. Return(t, Top(t), "ok") \/ (CallLoad(t, m, Top(t)) /\ owner' = owner)
      BY <1>5 DEF SwapShort
    <2>2. CASE CallLoad(t, m, Top(t)) /\ owner' = owner
      <3> DEFINE c == [call[t] EXCEPT !.model = m, !.lret = Top(t), !.ret = "none", !.slots = 0]
      <3>1. c \in CallType /\ Safe(t, "load", c, Holds(t)) /\ "load" \in Labels
        BY <1>0, <1>3, LoadCalls
      <3>2. pc' = [pc EXCEPT ![t] = "load"] /\ call' = [call EXCEPT ![t] = c]
        BY <2>2 DEF CallLoad, GoWith, With, Goto
      <3> HIDE DEF c
      <3> QED BY <1>0, <1>1, <1>2, <2>2, <3>1, <3>2, Stays
    <2> QED BY <1>0, <1>4, <2>1, <2>2
  <1>6. CASE SwapGiveUp(t)
    BY <1>0, <1>4, <1>6 DEF SwapGiveUp
  <1>7. CASE SwapStart(t)
    <2>1. CASE Return(t, Top(t), "busy")
      BY <1>0, <1>4, <2>1
    <2>2. CASE Obtain(t, "swap") /\ owner["swap"] \in {t, Nobody}
      <3> DEFINE h == Holds(t) \cup {"swap"}
      <3>1. h \subseteq Holds(t)' /\ "swap" \in h
        BY <1>0, <2>2 DEF Obtain, Holds, Locks
      <3>2. /\ owner' \in [Locks -> Threads \cup {Nobody}]
            /\ \A l \in Locks : owner[l] \in {t, Nobody} \/ owner'[l] = owner[l]
        BY <1>0, <2>2 DEF Obtain, Locks
      <3> HIDE DEF h
      <3>3. ASSUME NEW p \in Labels, NEW c \in CallType, GoWith(t, p, c), Safe(t, p, c, h)
            PROVE  ThreadGood(t)
        BY <1>0, <1>1, <1>2, <3>1, <3>2, <3>3, Moves DEF GoWith, With, Goto
      <3>4. CASE CallLoad(t, m, Top(t))
        <4> DEFINE c == [call[t] EXCEPT !.model = m, !.lret = Top(t), !.ret = "none", !.slots = 0]
        <4>1. c \in CallType /\ Safe(t, "load", c, h) /\ "load" \in Labels
          BY <1>0, <1>3, LoadCalls
        <4>2. GoWith(t, "load", c)
          BY <3>4 DEF CallLoad
        <4> HIDE DEF c
        <4> QED BY <3>3, <4>1, <4>2
      <3> DEFINE cp == [call[t] EXCEPT
                        !.previous = current, !.force = FALSE,
                        !.prior = [n \in Models |-> IF Loaded(n) THEN backend[n].slots ELSE 0]]
                 cu == [call[t] EXCEPT
                        !.model = current, !.previous = current, !.ret = "legacyLoad"]
      <3>5. current \in Names /\ (current \in Models => Primary(current))
        BY CoordinatorAssumption DEF Types, DataTypes, Primaries, Names
      <3>6. CASE GoWith(t, "plan", cp)
        <4>1. [n \in Models |-> IF Loaded(n) THEN backend[n].slots ELSE 0] \in [Models -> Int]
          BY DEF Types, DataTypes, Instance
        <4>2. /\ cp \in CallType /\ cp.target = m /\ cp.previous = current
              /\ cp.lease = call[t].lease
          BY <1>0, <3>5, <4>1 DEF CallType
        <4> HIDE DEF cp
        <4>3. Sound(cp)
          BY <1>3, <3>5, <4>2 DEF Sound
        <4>4. Safe(t, "plan", cp, h) /\ "plan" \in Labels
          BY <1>3, <3>1, <4>2, <4>3, Relies DEF Planning
        <4> QED BY <3>3, <3>6, <4>2, <4>4
      <3>7. CASE GoWith(t, "unload", cu) /\ current # NoModel
        <4>1. "legacyLoad" \in UnloadBacks /\ "legacyLoad" \in Backs /\ current \in Models
          BY <3>5, <3>7 DEF UnloadBacks, Backs, Names
        <4>2. /\ cu \in CallType /\ cu.target = m /\ cu.previous = current /\ cu.model = current
              /\ cu.lease = call[t].lease /\ cu.ret = "legacyLoad"
          BY <1>0, <3>5, <4>1 DEF CallType
        <4> HIDE DEF cu
        <4>3. Sound(cu) /\ InSwap(cu, h, "legacyLoad")
          BY <1>3, <3>1, <3>5, <4>1, <4>2 DEF Sound, InSwap
        <4>4. Safe(t, "unload", cu, h) /\ "unload" \in Labels
          BY <1>0, <4>1, <4>2, <4>3, UnloadCalls
        <4> QED BY <3>3, <3>7, <4>2, <4>4
      <3>8. \/ CallLoad(t, m, Top(t)) \/ GoWith(t, "plan", cp)
            \/ GoWith(t, "unload", cu) /\ current # NoModel
            \/ Return(t, Top(t), "busy")
        BY <1>7 DEF SwapStart
      <3> HIDE DEF cp, cu
      <3> QED BY <2>1, <3>4, <3>6, <3>7, <3>8
    <2>3. Return(t, Top(t), "busy") \/ (Obtain(t, "swap") /\ owner["swap"] \in {t, Nobody})
      BY <1>7 DEF SwapStart, Obtainable
    <2> QED BY <2>1, <2>2, <2>3
  <1> QED BY <1>5, <1>6, <1>7

\* Under swap_mutex_: load, retry, rollback, and the plain replacement.
LEMMA SwapThreads ==
  ASSUME Types, NEW t \in Threads, ThreadSafe(t),
         Legacy(t) \/ SwapLoad(t) \/ SwapLoaded(t) \/ SwapForce(t) \/ SwapRetry(t)
           \/ Restore(t) \/ RestoreLoad(t)
  PROVE  ThreadGood(t)
  <1> DEFINE c == call[t]
             h == Holds(t)
  <1>0. /\ ThreadTypes
        /\ "ok" \in Results /\ "gone" \in Results /\ "busy" \in Results
        /\ "force" \in UnloadBacks /\ "restore" \in UnloadBacks /\ "restoreLoad" \in UnloadBacks
        /\ "none" \in Backs /\ UnloadBacks \subseteq Backs
    BY DEF Types, Results, UnloadBacks, Backs
  <1>1. setup' = setup /\ tracker' = tracker
    BY DEF Legacy, SwapLoad, SwapLoaded, SwapForce, SwapRetry, Restore, RestoreLoad, untouched, otherVars
  <1>2. pc[t] \in SwapLabels \ {"swap"}
    BY DEF Legacy, SwapLoad, SwapLoaded, SwapForce, SwapRetry, Restore, RestoreLoad, SwapLabels
  <1>3. /\ "swap" \in h /\ c.target \in Models /\ Sound(c) /\ c \in CallType /\ pc[t] # "start"
    BY <1>0, <1>2, PlanKnows DEF SwapHeld
  <1>4. c.res \in Results /\ c.error \in Results
    BY <1>3, CallFields
  <1>5. ASSUME NEW res \in Results, Return(t, Top(t), res) PROVE ThreadGood(t)
    BY <1>0, <1>1, <1>3, <1>5, Returns
  <1>6. ASSUME NEW p \in Labels, NEW d \in CallType, GoWith(t, p, d), owner' = owner,
               Safe(t, p, d, h)
        PROVE  ThreadGood(t)
    BY <1>0, <1>1, <1>3, <1>6, Stays DEF GoWith, With, Goto
  <1>7. ASSUME NEW m \in Models, NEW lret \in LoadBacks, CallLoad(t, m, lret), owner' = owner,
               InSwap(c, h, lret)
        PROVE  ThreadGood(t)
    <2> DEFINE d == [call[t] EXCEPT !.model = m, !.lret = lret, !.ret = "none", !.slots = 0]
    <2>1. d \in CallType /\ Safe(t, "load", d, h) /\ "load" \in Labels
      BY <1>0, <1>3, <1>7, LoadCalls
    <2>2. GoWith(t, "load", d)
      BY <1>7 DEF CallLoad
    <2> HIDE DEF d
    <2> QED BY <1>6, <1>7, <2>1, <2>2
  <1>8. ASSUME NEW ret \in {"force", "restore"}, NEW e \in Results,
               GoWith(t, "unload", [c EXCEPT !.model = c.target, !.ret = ret,
                                             !.lret = "none", !.error = e]), owner' = owner
        PROVE  ThreadGood(t)
    <2> DEFINE d == [c EXCEPT !.model = c.target, !.ret = ret, !.lret = "none", !.error = e]
    <2>1. ret \in UnloadBacks /\ ret \in Backs
      BY <1>0
    <2>2. /\ d \in CallType /\ d.model = c.target /\ d.ret = ret /\ d.target = c.target
          /\ d.previous = c.previous /\ d.lease = c.lease
      BY <1>0, <1>3, <2>1 DEF CallType
    <2> HIDE DEF d
    <2>3. Sound(d) /\ InSwap(d, h, ret)
      BY <1>3, <1>8, <2>2 DEF Sound, InSwap
    <2>4. Safe(t, "unload", d, h) /\ "unload" \in Labels
      BY <1>0, <1>3, <2>1, <2>2, <2>3, UnloadCalls
    <2> QED BY <1>6, <1>8, <2>2, <2>4 DEF d
  <1>9. CASE Legacy(t)
    <2>1. CASE pc[t] = "legacyLoad"
      <3>1. c.previous \in Models /\ "legacyLoaded" \in LoadBacks
        BY <2>1 DEF ThreadSafe, Safe, LoadBacks
      <3>2. InSwap(c, h, "legacyLoaded")
        BY <1>3, <3>1 DEF InSwap
      <3>3. \/ CallLoad(t, c.target, "legacyLoaded") /\ owner' = owner
            \/ Return(t, Top(t), c.res)
        BY <1>9, <2>1 DEF Legacy
      <3> QED BY <1>3, <1>4, <1>5, <1>7, <3>1, <3>2, <3>3
    <2>2. CASE pc[t] = "legacyLoaded"
      <3> DEFINE d == [call[t] EXCEPT !.model = c.previous, !.slots = 0,
                                      !.lret = "legacyRestored", !.error = c.res]
      <3>1. c.previous \in Models /\ "legacyRestored" \in LoadBacks
        BY <2>2 DEF ThreadSafe, Safe, LoadBacks
      <3>2. InSwap(c, h, "legacyRestored")
        BY <1>3, <3>1 DEF InSwap
      <3>3. (GoWith(t, "load", d) /\ owner' = owner) \/ Return(t, Top(t), "ok")
        BY <1>9, <2>2 DEF Legacy
      <3>4. d \in CallType /\ Safe(t, "load", d, h) /\ "load" \in Labels
        BY <1>0, <1>3, <1>4, <3>1, <3>2, LoadCalls
      <3> HIDE DEF d
      <3> QED BY <1>0, <1>5, <1>6, <3>3, <3>4
    <2>3. CASE pc[t] = "legacyRestored"
      BY <1>4, <1>5, <1>9, <2>3 DEF Legacy
    <2> QED BY <1>9, <2>1, <2>2, <2>3 DEF Legacy
  <1>10. CASE SwapLoad(t)
    <2>1. \/ \E res \in Results : Return(t, Top(t), res)
          \/ CallLoad(t, c.target, "swapLoaded") /\ owner' = owner
      BY <1>0, <1>4, <1>10 DEF SwapLoad
    <2>2. "swapLoaded" \in LoadBacks /\ InSwap(c, h, "swapLoaded")
      BY <1>3 DEF LoadBacks, InSwap
    <2> QED BY <1>3, <1>5, <1>7, <2>1, <2>2
  <1>11. CASE SwapLoaded(t)
    <2>1. \/ Return(t, Top(t), "ok")
          \/ /\ owner' = owner
             /\ \E ret \in {"force", "restore"} :
                   GoWith(t, "unload", [c EXCEPT !.model = c.target, !.ret = ret,
                                                 !.lret = "none", !.error = c.res])
      BY <1>11 DEF SwapLoaded
    <2> QED BY <1>0, <1>4, <1>5, <1>8, <2>1
  <1>12. CASE SwapForce(t)
    <2> DEFINE d == [call[t] EXCEPT !.force = TRUE]
    <2>1. GoWith(t, "plan", d) /\ owner' = owner
      BY <1>12 DEF SwapForce
    <2>2. d \in CallType /\ Sound(d) /\ d.target = c.target
      BY <1>3 DEF CallType, Sound
    <2> HIDE DEF d
    <2>3. Safe(t, "plan", d, h) /\ "plan" \in Labels
      BY <1>3, <2>2, Relies DEF Planning
    <2> QED BY <1>6, <2>1, <2>2, <2>3
  <1>13. CASE SwapRetry(t)
    <2> DEFINE d == [c EXCEPT !.model = c.target, !.ret = "restore", !.lret = "none"]
    <2>1. \/ CallLoad(t, c.target, "retryLoaded") /\ owner' = owner
          \/ Return(t, Top(t), "gone") \/ Return(t, Top(t), "ok")
          \/ GoWith(t, "unload", d) /\ owner' = owner
          \/ /\ owner' = owner
             /\ GoWith(t, "unload", [c EXCEPT !.model = c.target, !.ret = "restore",
                                              !.lret = "none", !.error = c.res])
      BY <1>13 DEF SwapRetry
    <2>2. "retryLoaded" \in LoadBacks /\ InSwap(c, h, "retryLoaded")
      BY <1>3 DEF LoadBacks, InSwap
    <2>3. /\ d \in CallType /\ d.model = c.target /\ d.ret = "restore" /\ d.target = c.target
          /\ d.previous = c.previous /\ d.lease = c.lease
      BY <1>0, <1>3 DEF CallType
    <2> HIDE DEF d
    <2>4. Sound(d) /\ InSwap(d, h, "restore")
      BY <1>3, <2>3 DEF Sound, InSwap
    <2>5. Safe(t, "unload", d, h) /\ "unload" \in Labels
      BY <1>0, <1>3, <2>3, <2>4, UnloadCalls
    <2> QED BY <1>0, <1>3, <1>4, <1>5, <1>6, <1>7, <1>8, <2>1, <2>2, <2>3, <2>5
  <1>14. CASE Restore(t)
    <2>1. CASE Return(t, Top(t), c.error)
      BY <1>4, <1>5, <2>1
    <2>2. ASSUME NEW m \in Models,
                 LET rest == [c EXCEPT !.prior[m] = 0]
                 IN  /\ \/ With(t, rest) /\ UNCHANGED pc
                        \/ GoWith(t, "unload", [rest EXCEPT !.model = m, !.ret = "restoreLoad"])
                        \/ GoWith(t, "load", [rest EXCEPT !.model = m, !.lret = "restore",
                                                          !.ret = "none", !.slots = 0])
                     /\ owner' = owner
          PROVE  ThreadGood(t)
      <3> DEFINE rest == [c EXCEPT !.prior[m] = 0]
                 du == [rest EXCEPT !.model = m, !.ret = "restoreLoad"]
                 dl == [rest EXCEPT !.model = m, !.lret = "restore", !.ret = "none", !.slots = 0]
      <3>1. /\ rest \in CallType /\ rest.target = c.target /\ rest.previous = c.previous
            /\ rest.lease = c.lease
        BY <1>3 DEF CallType
      <3>2. /\ pc[t] = "restore" /\ owner' = owner
            /\ \/ With(t, rest) /\ UNCHANGED pc
               \/ GoWith(t, "unload", du)
               \/ GoWith(t, "load", dl)
        BY <1>14, <2>2 DEF Restore
      <3> HIDE DEF rest
      <3>3. Sound(rest) /\ m \in Names /\ "restore" \in Backs /\ "restoreLoad" \in Backs
        BY <1>0, <1>3, <3>1 DEF Sound, Names
      <3>4. CASE With(t, rest) /\ UNCHANGED pc
        <4>1. pc' = [pc EXCEPT ![t] = "restore"]
          BY <1>0, <3>2, <3>4 DEF ThreadTypes
        <4>2. Safe(t, "restore", rest, h) /\ "restore" \in Labels
          BY <1>3, <3>1, <3>3, Relies DEF Planning
        <4> QED BY <1>6, <3>1, <3>2, <3>4, <4>1, <4>2 DEF GoWith, Goto
      <3>5. CASE GoWith(t, "unload", du)
        <4>1. /\ du \in CallType /\ du.model = m /\ du.ret = "restoreLoad"
              /\ du.target = c.target /\ du.previous = c.previous /\ du.lease = c.lease
          BY <3>1, <3>3 DEF CallType
        <4> HIDE DEF du
        <4>2. Sound(du) /\ InSwap(du, h, "restoreLoad")
          BY <1>3, <3>1, <3>3, <4>1 DEF Sound, InSwap
        <4>3. Safe(t, "unload", du, h) /\ "unload" \in Labels
          BY <1>0, <4>1, <4>2, UnloadCalls
        <4> QED BY <1>6, <3>2, <3>5, <4>1, <4>3
      <3>6. CASE GoWith(t, "load", dl)
        <4>1. dl \in CallType
          BY <1>0, <3>1, <3>3, LoadLocals
        <4>2. /\ dl.model = m /\ dl.lret = "restore"
              /\ dl.target = c.target /\ dl.previous = c.previous /\ dl.lease = c.lease
          BY <3>1, <3>3 DEF CallType
        <4> HIDE DEF dl
        <4>3. Sound(dl) /\ FromLoad(t, dl, h)
          BY <1>3, <3>1, <3>3, <4>2 DEF Sound, InSwap, FromLoad, LoadBacks
        <4>4. Safe(t, "load", dl, h) /\ "load" \in Labels
          BY <4>2, <4>3, Relies
        <4> QED BY <1>6, <3>2, <3>6, <4>1, <4>4
      <3> QED BY <3>2, <3>4, <3>5, <3>6
    <2>3. \/ Return(t, Top(t), c.error)
          \/ \E m \in Models :
                LET rest == [c EXCEPT !.prior[m] = 0]
                IN  /\ \/ With(t, rest) /\ UNCHANGED pc
                       \/ GoWith(t, "unload", [rest EXCEPT !.model = m, !.ret = "restoreLoad"])
                       \/ GoWith(t, "load", [rest EXCEPT !.model = m, !.lret = "restore",
                                                         !.ret = "none", !.slots = 0])
                    /\ owner' = owner
      BY <1>14 DEF Restore
    <2> QED BY <2>1, <2>2, <2>3
  <1>15. CASE RestoreLoad(t)
    <2>1. CallLoad(t, c.model, "restore") /\ owner' = owner /\ pc[t] = "restoreLoad"
      BY <1>15 DEF RestoreLoad
    <2>2. c.model \in Models /\ "restore" \in LoadBacks /\ InSwap(c, h, "restore")
      BY <1>3, <2>1 DEF ThreadSafe, Safe, OnModel, LoadBacks, InSwap
    <2> QED BY <1>7, <2>1, <2>2
  <1> QED BY <1>9, <1>10, <1>11, <1>12, <1>13, <1>14, <1>15

----------------------------------------------------------------------------
(* Operators, and the swap worker. *)
LEMMA BeginThreads ==
  ASSUME Types, NEW t \in Operators, NEW j \in Jobs, ThreadSafe(t), Begin(t, j)
  PROVE  ThreadGood(t)
  <1> DEFINE c == [call[t] EXCEPT !.job = j.op, !.target = j.model, !.model = j.model,
                                  !.ret = "finish", !.lret = "finish"]
  <1>0. ThreadTypes /\ t \in Threads /\ call[t] \in CallType /\ Sound(call[t]) /\ t # Worker
    BY CoordinatorAssumption DEF Types, ThreadTypes, Threads, ThreadSafe, Safe
  <1>1. setup' = setup /\ tracker' = tracker /\ owner' = owner /\ GoWith(t, j.op, c)
    BY DEF Begin, untouched, otherVars
  <1>2. j.op \in {"load", "unload", "post"} /\ j.model \in Models
    BY <1>0, SetupFields DEF JobType
  <1>3. "finish" \in Backs /\ j.op \in JobNames /\ j.model \in Names
    BY <1>2 DEF Backs, JobNames, Names
  <1>4. /\ c \in CallType /\ c.target = j.model /\ c.model = j.model
        /\ c.ret = "finish" /\ c.lret = "finish"
        /\ c.previous = call[t].previous /\ c.lease = call[t].lease
    BY <1>0, <1>3 DEF CallType
  <1>5. Top(t) = "finish"
    BY CoordinatorAssumption DEF Top
  <1> HIDE DEF c
  <1>6. Sound(c) /\ FromLoad(t, c, Holds(t)) /\ FromUnload(t, c, Holds(t))
    BY <1>0, <1>4, <1>5 DEF Sound, FromLoad, FromUnload
  <1>7. Safe(t, j.op, c, Holds(t)) /\ j.op \in Labels
    BY <1>2, <1>4, <1>6, Relies
  <1> QED BY <1>0, <1>1, <1>4, <1>7, Stays DEF GoWith, With, Goto

MarkLabels == Resizers \cup {"draining", "unloading", "growing"}

\* A step of the tracker: at most the calling thread and the worker move, and
\* neither comes from nor gets to a label that owns a mark.
TrackerGood ==
    /\ ThreadTypes'
    /\ setup' = setup /\ owner' = owner
    /\ \A s \in Threads :
          /\ ThreadSafe(s)'
          /\ (pc'[s] = pc[s] /\ call'[s] = call[s]) \/ {pc[s], pc'[s]} \cap MarkLabels = {}

\* A step of one thread that moves no lock and owns no mark is a step of the tracker.
LEMMA OneMoves ==
  ASSUME Types, \A s \in Threads : ThreadSafe(s),
         NEW t \in Threads, ThreadGood(t), owner' = owner, {pc[t], pc'[t]} \cap MarkLabels = {}
  PROVE  TrackerGood
  <1>1. ASSUME NEW s \in Threads \ {t} PROVE ThreadSafe(s)'
    <2>1. /\ pc'[s] = pc[s] /\ call'[s] = call[s] /\ setup' = setup
          /\ Holds(s)' = Holds(s)
      BY DEF ThreadGood, Holds
    <2> QED BY <2>1, Enter DEF ThreadSafe
  <1> QED BY <1>1 DEF TrackerGood, ThreadGood

\* SwapTracker::start
LEMMA WorkerStarts ==
  ASSUME Types, \A s \in Threads : ThreadSafe(s),
         NEW t \in Threads \ {Worker}, NEW m \in Models, NEW label \in {"await", "finish"},
         pc[t] \notin MarkLabels, label = "await" => call[t].target \in Models,
         StartWorker(t, m, label)
  PROVE  TrackerGood
  <1> DEFINE c == [NoCall EXCEPT !.job = "swap", !.target = m]
  <1>0. ThreadTypes /\ Worker \in Threads
    BY DEF Types, Threads
  <1>1. /\ setup' = setup /\ owner' = owner /\ pc[Worker] = "start"
        /\ tracker' = [busy |-> TRUE, target |-> m, last |-> "ok"]
        /\ pc' = [pc EXCEPT ![t] = label, ![Worker] = "swap"]
        /\ call' = [call EXCEPT ![Worker] = c]
    BY <1>0 DEF StartWorker, quiet, ThreadTypes
  <1>2. "swap" \in JobNames /\ m \in Names /\ NoModel \notin Models
    BY CoordinatorAssumption DEF JobNames, Names
  <1>3. /\ c \in CallType /\ c.target = m /\ c.previous = NoModel /\ c.lease = 0
    BY <1>2, NoCallType DEF CallType, NoCall
  <1> HIDE DEF c
  <1>4. MaxLeaseId \in Nat
    BY <1>0, SetupFields
  <1>5. Sound(c)
    BY <1>2, <1>3, <1>4 DEF Sound
  <1>6. Safe(Worker, "swap", c, Holds(Worker)) /\ "swap" \in Labels
    BY <1>3, <1>5, Relies
  <1>7. Safe(t, label, call[t], Holds(t)) /\ label \in Labels
    <2>1. Sound(call[t])
      BY DEF ThreadSafe, Safe
    <2>2. label = "await" \/ label \in Quiet
      BY DEF Quiet
    <2>3. label = "await" => label \in {"swap", "ensure", "await", "check", "post"} /\ call[t].target \in Models
      OBVIOUS
    <2> QED BY <2>1, <2>2, <2>3, Relies
  <1>8. \A s : Holds(s)' = Holds(s)
    BY <1>1 DEF Holds
  <1>9. ThreadTypes'
    <2>1. "ok" \in Results /\ m \in Names
      BY <1>2 DEF Results
    <2>2. tracker' \in [busy : BOOLEAN, target : Names, last : Results] /\ tracker'.busy
      BY <1>1, <2>1
    <2> QED BY <1>0, <1>1, <1>3, <1>6, <1>7, <2>2 DEF ThreadTypes
  <1>10. /\ pc'[Worker] = "swap" /\ call'[Worker] = c
         /\ pc'[t] = label /\ call'[t] = call[t]
         /\ \A s \in Threads \ {t, Worker} : pc'[s] = pc[s] /\ call'[s] = call[s]
    BY <1>0, <1>1 DEF ThreadTypes
  <1>11. ASSUME NEW s \in Threads PROVE ThreadSafe(s)'
    <2>1. CASE s = Worker
      BY <1>1, <1>6, <1>8, <1>10, <2>1, Enter
    <2>2. CASE s = t
      BY <1>1, <1>7, <1>8, <1>10, <2>2, Enter
    <2>3. CASE s \notin {t, Worker}
      <3>1. Safe(s, pc[s], call[s], Holds(s))
        BY DEF ThreadSafe
      <3> QED BY <1>1, <1>8, <1>10, <2>3, <3>1, Enter
    <2> QED BY <2>1, <2>2, <2>3
  <1>12. {label, "swap", "start"} \cap MarkLabels = {}
    BY DEF MarkLabels, Resizers
  <1>13. ASSUME NEW s \in Threads
         PROVE  (pc'[s] = pc[s] /\ call'[s] = call[s]) \/ {pc[s], pc'[s]} \cap MarkLabels = {}
    <2>1. CASE s = Worker
      BY <1>1, <1>10, <1>12, <2>1
    <2>2. CASE s = t
      BY <1>10, <1>12, <2>2
    <2>3. CASE s \notin {t, Worker}
      BY <1>10, <2>3
    <2> QED BY <2>1, <2>2, <2>3
  <1> QED BY <1>1, <1>9, <1>11, <1>13 DEF TrackerGood

(* SwapTracker and ensure_model_loaded *)
LEMMA TrackerThreads ==
  ASSUME Types, \A s \in Threads : ThreadSafe(s), TrackerNext
  PROVE  TrackerGood
  <1> USE DEF quiet
  <1>0. /\ ThreadTypes /\ Worker \in Threads /\ MaxLeaseId \in Nat /\ NoModel \notin Models
        /\ \A s \in Requests \cup Operators : s \in Threads \ {Worker}
    BY SetupFields, CoordinatorAssumption DEF Types, Threads
  <1>1. tracker \in [busy : BOOLEAN, target : Names, last : Results] /\ tracker.last \in Results
    BY <1>0 DEF ThreadTypes
  <1>2. /\ "ok" \in Results /\ "gone" \in Results /\ "error" \in Results
        /\ \A p \in {"start", "finish", "prepared", "ensure", "await", "check", "post", "load"} :
              p \notin MarkLabels
    BY DEF Results, MarkLabels, Resizers
  <1>3. ASSUME NEW t \in Threads, NEW p \in {"start", "prepared"}, NEW c \in CallType, Sound(c),
               setup' = setup, owner' = owner, TrackerTypes', GoWith(t, p, c),
               pc[t] \notin MarkLabels
        PROVE  TrackerGood
    <2>1. Safe(t, p, c, Holds(t)) /\ p \in Labels
      BY <1>3, Relies DEF Quiet
    <2>2. owner' \in [Locks -> Threads \cup {Nobody}] /\ Holds(t)' = Holds(t)
      BY <1>0, <1>3 DEF ThreadTypes, Holds
    <2>3. ThreadGood(t)
      BY <1>0, <1>3, <2>1, <2>2, MovesTracked DEF GoWith, With, Goto
    <2>4. pc'[t] = p
      BY <1>0, <1>3 DEF GoWith, Goto, ThreadTypes
    <2> QED BY <1>2, <1>3, <2>3, <2>4, OneMoves
  <1>4. ASSUME NEW res \in Results
        PROVE  LET c == [NoCall EXCEPT !.res = res] IN c \in CallType /\ Sound(c)
    <2> DEFINE c == [NoCall EXCEPT !.res = res]
    <2>1. c \in CallType /\ c.previous = NoModel /\ c.lease = 0
      BY NoCallType DEF CallType, NoCall
    <2> QED BY <1>0, <2>1 DEF Sound
  <1>5. ASSUME NEW r \in Requests, NEW res \in Results, Ensured(r, res),
               pc[r] \in {"ensure", "await", "check"}
        PROVE  TrackerGood
    <2> DEFINE c == [NoCall EXCEPT !.res = res]
    <2>1. c \in CallType /\ Sound(c)
      BY <1>4
    <2>2. GoWith(r, "prepared", c) /\ setup' = setup /\ owner' = owner /\ tracker' = tracker
      BY <1>5 DEF Ensured
    <2> HIDE DEF c
    <2>3. TrackerTypes'
      BY <1>0, <2>2 DEF ThreadTypes, TrackerTypes, GoWith, Goto
    <2> QED BY <1>0, <1>2, <1>3, <1>5, <2>1, <2>2, <2>3
  <1>6. ASSUME NEW t \in Threads \ {Worker}, NEW p \in {"ensure", "await", "check", "finish"},
               Goto(t, p), call' = call, tracker' = tracker, setup' = setup, owner' = owner,
               pc[t] \in {"ensure", "await", "check", "post"}
        PROVE  TrackerGood
    <2>1. Sound(call[t]) /\ call[t].target \in Models
      BY <1>6 DEF ThreadSafe, Safe, OnTarget
    <2>2. Safe(t, p, call[t], Holds(t)) /\ p \in Labels
      BY <2>1, Relies DEF Quiet
    <2>3. ThreadGood(t)
      BY <1>0, <1>6, <2>2, Steps
    <2>4. pc'[t] = p
      BY <1>0, <1>6 DEF Goto, ThreadTypes
    <2> QED BY <1>2, <1>6, <2>3, <2>4, OneMoves
  <1>7. CASE SwapEnds
    <2>1. call[Worker].res \in Results
      BY <1>0, CallFields DEF ThreadTypes
    <2>2. /\ GoWith(Worker, "start", NoCall) /\ setup' = setup /\ owner' = owner
          /\ pc[Worker] = "finish"
          /\ tracker' = [tracker EXCEPT !.busy = FALSE, !.last = call[Worker].res]
      BY <1>7 DEF SwapEnds
    <2>3. pc'[Worker] = "start"
      BY <1>0, <2>2 DEF ThreadTypes, GoWith, Goto
    <2>4. TrackerTypes'
      BY <1>1, <2>1, <2>2, <2>3 DEF TrackerTypes
    <2>5. Sound(NoCall)
      BY <1>0 DEF Sound, NoCall
    <2> QED BY <1>0, <1>2, <1>3, <2>2, <2>4, <2>5, NoCallType
  <1>8. ASSUME NEW r \in Requests,
               EnsureReady(r) \/ EnsureGiveUp(r) \/ EnsureRefused(r) \/ EnsureSidecar(r)
                 \/ EnsureStart(r) \/ EnsureAwait(r) \/ EnsureCheck(r)
        PROVE  TrackerGood
    <2> DEFINE m == call[r].target
    <2>0. r \in Threads \ {Worker} /\ pc[r] \in {"ensure", "await", "check"}
      BY <1>0, <1>8 DEF EnsureReady, EnsureGiveUp, EnsureRefused, EnsureSidecar, EnsureStart,
                        EnsureAwait, EnsureCheck
    <2>1. m \in Models /\ Sound(call[r]) /\ pc[r] \notin MarkLabels
      BY <1>2, <2>0 DEF ThreadSafe, Safe, OnTarget
    <2>2. CASE EnsureReady(r) \/ EnsureGiveUp(r) \/ EnsureRefused(r)
      BY <1>2, <1>5, <2>0, <2>2 DEF EnsureReady, EnsureGiveUp, EnsureRefused
    <2>3. CASE EnsureSidecar(r)
      <3> DEFINE c == [call[r] EXCEPT !.model = m, !.lret = "prepared", !.ret = "none", !.slots = 0]
      <3>1. /\ CallLoad(r, m, "prepared") /\ setup' = setup /\ owner' = owner /\ tracker' = tracker
        BY <2>3 DEF EnsureSidecar
      <3>2. Top(r) = "prepared"
        BY DEF Top
      <3>3. c \in CallType /\ Safe(r, "load", c, Holds(r)) /\ "load" \in Labels
        BY <1>0, <1>2, <2>0, <2>1, <3>2, LoadCalls
      <3>4. pc' = [pc EXCEPT ![r] = "load"] /\ call' = [call EXCEPT ![r] = c]
        BY <3>1 DEF CallLoad, GoWith, With, Goto
      <3> HIDE DEF c
      <3>5. ThreadGood(r)
        BY <1>0, <2>0, <3>1, <3>3, <3>4, Stays
      <3>6. pc'[r] = "load"
        BY <1>0, <2>0, <3>4 DEF ThreadTypes
      <3> QED BY <1>2, <2>0, <2>1, <3>1, <3>5, <3>6, OneMoves
    <2>4. CASE EnsureStart(r)
      <3>1. CASE StartWorker(r, m, "await")
        BY <2>0, <2>1, <3>1, WorkerStarts
      <3>2. CASE Goto(r, "await") /\ UNCHANGED <<call, tracker, quiet>>
        BY <1>6, <2>0, <3>2
      <3>3. CASE /\ LaunchFails(m) /\ GoWith(r, "prepared", [NoCall EXCEPT !.res = "error"])
                 /\ UNCHANGED quiet
        <4> DEFINE c == [NoCall EXCEPT !.res = "error"]
        <4>1. c \in CallType /\ Sound(c)
          BY <1>2, <1>4
        <4>2. /\ GoWith(r, "prepared", c) /\ setup' = setup /\ owner' = owner
              /\ ~tracker.busy /\ tracker' = [busy |-> FALSE, target |-> m, last |-> "error"]
          BY <3>3 DEF LaunchFails
        <4> HIDE DEF c
        <4>3. m \in Names /\ pc[Worker] = "start"
          BY <1>0, <2>1, <4>2 DEF Names, ThreadTypes
        <4>4. pc'[Worker] = "start"
          BY <1>0, <2>0, <4>2, <4>3 DEF ThreadTypes, GoWith, Goto
        <4>5. TrackerTypes'
          BY <1>2, <4>2, <4>3, <4>4 DEF TrackerTypes
        <4> QED BY <1>3, <2>0, <2>1, <4>1, <4>2, <4>5
      <3> QED BY <2>4, <3>1, <3>2, <3>3 DEF EnsureStart
    <2>5. CASE EnsureAwait(r)
      BY <1>6, <2>0, <2>5 DEF EnsureAwait
    <2>6. CASE EnsureCheck(r)
      BY <1>1, <1>5, <1>6, <2>0, <2>6 DEF EnsureCheck
    <2> QED BY <1>8, <2>2, <2>3, <2>4, <2>5, <2>6
  <1>9. ASSUME NEW t \in Operators, PostSwap(t) PROVE TrackerGood
    <2> DEFINE m == call[t].target
    <2>0. t \in Threads \ {Worker} /\ pc[t] = "post"
      BY <1>0, <1>9 DEF PostSwap
    <2>1. m \in Models /\ Sound(call[t]) /\ pc[t] \notin MarkLabels
      BY <1>2, <2>0 DEF ThreadSafe, Safe, OnTarget
    <2>2. CASE StartWorker(t, m, "finish")
      BY <2>0, <2>1, <2>2, WorkerStarts
    <2>3. CASE Goto(t, "finish") /\ UNCHANGED <<call, tracker, quiet>>
      BY <1>6, <2>0, <2>3
    <2>4. CASE LaunchFails(m) /\ Goto(t, "finish") /\ UNCHANGED <<call, quiet>>
      <3>1. /\ setup' = setup /\ owner' = owner /\ call' = [call EXCEPT ![t] = call[t]]
            /\ call[t] \in CallType /\ pc' = [pc EXCEPT ![t] = "finish"]
            /\ ~tracker.busy /\ tracker' = [busy |-> FALSE, target |-> m, last |-> "error"]
        BY <1>0, <2>0, <2>4 DEF LaunchFails, Goto, ThreadTypes
      <3>2. m \in Names /\ pc[Worker] = "start"
        BY <1>0, <2>1, <3>1 DEF Names, ThreadTypes
      <3>3. pc'[Worker] = "start" /\ pc'[t] = "finish"
        BY <1>0, <2>0, <3>1, <3>2 DEF ThreadTypes
      <3>4. TrackerTypes'
        BY <1>2, <3>1, <3>2, <3>3 DEF TrackerTypes
      <3>5. Safe(t, "finish", call[t], Holds(t)) /\ "finish" \in Labels
        BY <2>1, Relies DEF Quiet
      <3>6. owner' \in [Locks -> Threads \cup {Nobody}] /\ Holds(t)' = Holds(t)
        BY <1>0, <3>1 DEF ThreadTypes, Holds
      <3>7. ThreadGood(t)
        BY <1>0, <2>0, <3>1, <3>4, <3>5, <3>6, MovesTracked
      <3> QED BY <1>2, <2>0, <2>1, <3>1, <3>3, <3>7, OneMoves
    <2> QED BY <1>9, <2>2, <2>3, <2>4 DEF PostSwap
  <1> QED BY <1>7, <1>8, <1>9 DEF TrackerNext

----------------------------------------------------------------------------
(* acquire_slot and release_slot. *)
RequestNext(r) ==
    \/ \E a \in Asks : TryAcquire(r, a) \/ Enqueue(r, a)
    \/ GiveUp(r)
    \/ Estimating(r) \/ EstimateLock(r) \/ EstimateNative(r) \/ EstimateReturn(r)
    \/ PrepareCapacity(r) \/ CapacityLock(r) \/ CapacityNative(r) \/ CapacityReturn(r)
    \/ PrepareLoad(r) \/ LoadReturn(r) \/ NotReady(r)
    \/ CapacityStale(r) \/ Grant(r) \/ Release(r)

\* What a queued request waits for is a model.
LEMMA AskedModel ==
  ASSUME ThreadTypes, NEW w, Asked(w)
  PROVE  w.model \in Models /\ w.demand \in Nat
  <1>1. PICK a \in Asks : w.model = a.model /\ w.demand = a.demand
    BY DEF Asked
  <1>2. a \in AskType
    BY SetupFields
  <1> QED BY <1>1, <1>2 DEF AskType

\* The results of ensure_request_capacity.
LEMMA GrowthResults ==
  ASSUME NEW m, NEW b, NEW w, NEW g \in Growths(m, b, w)
  PROVE  g.res \in {"ok", "error", "busy", "oom"}
  BY DEF Growths

\* A step of acquire_slot or release_slot keeps what its thread relies on.
LEMMA AdmissionThreads ==
  ASSUME Types, NEW r \in Requests, ThreadSafe(r), WaiterSafe(r), RequestNext(r)
  PROVE  ThreadGood(r)
  <1> DEFINE c == call[r]
             h == Holds(r)
  <1>0. /\ ThreadTypes /\ r \in Threads /\ r # Worker /\ r # Nobody /\ "swap" \in Locks
        /\ owner \in [Locks -> Threads \cup {Nobody}]
        /\ {"ok", "busy", "notfound", "estimate", "gone", "error", "oom"} \subseteq Results
    BY CoordinatorAssumption DEF Types, Threads, ThreadTypes, Locks, Results
  <1>1. c \in CallType /\ Sound(c)
    BY <1>0 DEF ThreadTypes, ThreadSafe, Safe
  <1>2. ASSUME NEW p \in Quiet, Goto(r, p), call' = call, owner' = owner,
               setup' = setup, tracker' = tracker
        PROVE  ThreadGood(r)
    <2>1. Safe(r, p, c, h) /\ p \in Labels
      BY <1>1, Relies
    <2> QED BY <1>0, <1>2, <2>1, Steps
  <1>3. ASSUME NEW res \in Results
        PROVE  LET d == [c EXCEPT !.res = res] IN d \in CallType /\ Sound(d)
    <2> DEFINE d == [c EXCEPT !.res = res]
    <2>1. d \in CallType /\ d.previous = c.previous /\ d.lease = c.lease
      BY <1>1 DEF CallType
    <2> QED BY <1>1, <2>1 DEF Sound
  <1>4. ASSUME NEW p \in Quiet, NEW res \in Results, Goto(r, p), call' = [call EXCEPT ![r].res = res],
               owner' \in [Locks -> Threads \cup {Nobody}],
               \A l \in Locks : owner[l] \in {r, Nobody} \/ owner'[l] = owner[l],
               setup' = setup, tracker' = tracker
        PROVE  ThreadGood(r)
    <2> DEFINE d == [c EXCEPT !.res = res]
    <2>1. d \in CallType /\ Sound(d)
      BY <1>3
    <2>2. call' = [call EXCEPT ![r] = d] /\ pc' = [pc EXCEPT ![r] = p]
      BY <1>0, <1>4 DEF ThreadTypes, Goto
    <2> DEFINE none == {}
    <2>3. none \subseteq Holds(r)'
      OBVIOUS
    <2> HIDE DEF d, none
    <2>4. Safe(r, p, d, none) /\ p \in Labels
      BY <2>1, Relies
    <2> QED BY <1>0, <1>4, <2>1, <2>2, <2>3, <2>4, Moves
  <1>5. ASSUME NEW p \in {"estimating", "growing"}, Goto(r, p), call' = call,
               owner["swap"] = Nobody, owner' = [owner EXCEPT !["swap"] = r],
               setup' = setup, tracker' = tracker
        PROVE  ThreadGood(r)
    <2> DEFINE one == {"swap"}
    <2>1. Safe(r, p, c, one) /\ p \in Labels
      BY <1>1, <1>5 DEF Safe, SwapHeld, Inside, LoadLabels, UnloadLabels, OnModel, OnTarget, Resizers,
         PlanLabels, SwapLabels, PrepareLabels, Labels
    <2>2. call' = [call EXCEPT ![r] = c]
      BY <1>0, <1>5 DEF ThreadTypes
    <2>3. one \subseteq Holds(r)'
      BY <1>0, <1>5 DEF Holds
    <2>4. /\ owner' \in [Locks -> Threads \cup {Nobody}]
          /\ \A l \in Locks : owner[l] \in {r, Nobody} \/ owner'[l] = owner[l]
      BY <1>0, <1>5
    <2> HIDE DEF one
    <2> QED BY <1>0, <1>1, <1>5, <2>1, <2>2, <2>3, <2>4, Moves DEF Goto
  <1>6. ASSUME NEW w, NEW slot, IssueLease(r, w, slot), nextLease <= MaxLeaseId, owner' = owner,
               setup' = setup, tracker' = tracker
        PROVE  ThreadGood(r)
    <2> DEFINE d == [c EXCEPT !.lease = nextLease]
    <2>1. nextLease \in Nat /\ nextLease \in LeaseIds /\ MaxLeaseId \in Nat
      BY <1>0, <1>6, SetupFields DEF Types, DataTypes, LeaseIds
    <2>2. d \in CallType /\ d.previous = c.previous /\ d.lease = nextLease
      BY <1>1, <2>1 DEF CallType
    <2>3. call' = [call EXCEPT ![r] = d] /\ pc' = [pc EXCEPT ![r] = "leased"]
      BY <1>0, <1>6 DEF ThreadTypes, Goto, IssueLease
    <2> HIDE DEF d
    <2>4. Sound(d)
      BY <1>1, <1>6, <2>2 DEF Sound
    <2>5. Safe(r, "leased", d, Holds(r)) /\ "leased" \in Labels
      BY <2>1, <2>2, <2>4 DEF Safe, SwapHeld, Inside, LoadLabels, UnloadLabels, OnModel, OnTarget, Resizers,
         PlanLabels, SwapLabels, Labels
    <2> QED BY <1>0, <1>6, <2>2, <2>3, <2>5, Stays
  <1>7. /\ "done" \in Quiet /\ "queued" \in Quiet /\ "estimate" \in Quiet /\ "estimated" \in Quiet
        /\ "capacity" \in Quiet /\ "grown" \in Quiet
    BY DEF Quiet
  <1>8. setup' = setup /\ tracker' = tracker
    BY DEF RequestNext, TryAcquire, Enqueue, GiveUp, Estimating, EstimateLock, EstimateNative,
       EstimateReturn, PrepareCapacity, CapacityLock, CapacityNative, CapacityReturn, PrepareLoad,
       LoadReturn, NotReady, CapacityStale, Grant, Release, TakeResult, otherVars
  <1>9. ASSUME NEW w, TakeResult(r, w) PROVE ThreadGood(r)
    <2>1. Goto(r, "queued") \/ Goto(r, "done")
      BY <1>9 DEF TakeResult
    <2> QED BY <1>2, <1>7, <1>8, <1>9, <2>1 DEF TakeResult
  <1>10. CASE \E a \in Asks : TryAcquire(r, a) \/ Enqueue(r, a)
    <2>1. PICK a \in Asks : TryAcquire(r, a) \/ Enqueue(r, a)
      BY <1>10
    <2>2. CASE TryAcquire(r, a)
      <3>1. /\ owner' = owner
            /\ \/ /\ IssueLease(r, NewWaiter(a), Min(Free(a.model)))
                  /\ nextLease <= MaxLeaseId
               \/ Goto(r, "done") /\ call' = call
        BY <2>2 DEF TryAcquire
      <3> QED BY <1>2, <1>6, <1>7, <1>8, <3>1
    <2>3. CASE Enqueue(r, a)
      <3>1. owner' = owner /\ call' = call /\ (Goto(r, "done") \/ Goto(r, "queued"))
        BY <2>3 DEF Enqueue
      <3> QED BY <1>2, <1>7, <1>8, <3>1
    <2> QED BY <2>1, <2>2, <2>3
  <1>11. CASE GiveUp(r) \/ Estimating(r) \/ EstimateReturn(r) \/ PrepareCapacity(r) \/ NotReady(r)
    <2>1. /\ owner' = owner /\ call' = call
          /\ Goto(r, "done") \/ Goto(r, "queued") \/ Goto(r, "estimate") \/ Goto(r, "capacity")
      BY <1>11 DEF GiveUp, Estimating, EstimateReturn, PrepareCapacity, NotReady
    <2> QED BY <1>2, <1>7, <1>8, <2>1
  <1>12. CASE EstimateLock(r)
    <2>1. \/ /\ owner["swap"] = Nobody /\ owner' = [owner EXCEPT !["swap"] = r]
             /\ Goto(r, "estimating") /\ call' = call
          \/ /\ Goto(r, "estimated") /\ call' = [call EXCEPT ![r].res = "notfound"]
             /\ owner' = owner
      BY <1>12 DEF EstimateLock
    <2> QED BY <1>0, <1>4, <1>5, <1>7, <1>8, <2>1
  <1>13. CASE EstimateNative(r)
    <2>1. /\ owner' = [owner EXCEPT !["swap"] = Nobody] /\ Goto(r, "estimated")
          /\ pc[r] = "estimating"
          /\ \E res \in {"ok", "estimate"} : call' = [call EXCEPT ![r].res = res]
      BY <1>13 DEF EstimateNative
    <2>2. owner["swap"] = r
      BY <2>1 DEF ThreadSafe, Safe, SwapHeld, Holds
    <2>3. /\ owner' \in [Locks -> Threads \cup {Nobody}]
          /\ \A l \in Locks : owner[l] \in {r, Nobody} \/ owner'[l] = owner[l]
      BY <1>0, <2>1, <2>2
    <2> QED BY <1>0, <1>4, <1>7, <1>8, <2>1, <2>3
  <1>14. CASE CapacityLock(r)
    <2>1. \/ /\ owner["swap"] = Nobody /\ owner' = [owner EXCEPT !["swap"] = r]
             /\ Goto(r, "growing") /\ call' = call
          \/ /\ Goto(r, "grown") /\ owner' = owner
             /\ \E res \in {"busy", "notfound"} : call' = [call EXCEPT ![r].res = res]
      BY <1>14 DEF CapacityLock
    <2> QED BY <1>0, <1>4, <1>5, <1>7, <1>8, <2>1
  <1>15. CASE CapacityNative(r)
    <2>1. /\ owner' = [owner EXCEPT !["swap"] = Nobody] /\ Goto(r, "grown")
          /\ pc[r] = "growing"
          /\ \E g \in Growths(waiter[r].model, backend[waiter[r].model], waiter[r])
                    \cup {[res |-> "gone", b |-> backend[waiter[r].model]]} :
                call' = [call EXCEPT ![r].res = g.res]
      BY <1>15 DEF CapacityNative
    <2>2. \E res \in {"ok", "error", "busy", "oom", "gone"} : call' = [call EXCEPT ![r].res = res]
      <3> DEFINE m == waiter[r].model
                 G == Growths(m, backend[m], waiter[r])
      <3>1. PICK g \in G \cup {[res |-> "gone", b |-> backend[m]]} :
                    call' = [call EXCEPT ![r].res = g.res]
        BY <2>1
      <3>2. g \in G => g.res \in {"ok", "error", "busy", "oom"}
        BY GrowthResults
      <3> HIDE DEF G, m
      <3>3. g.res \in {"ok", "error", "busy", "oom", "gone"}
        BY <3>1, <3>2
      <3> QED BY <3>1, <3>3
    <2>3. owner["swap"] = r
      BY <2>1 DEF ThreadSafe, Safe, SwapHeld, Holds
    <2>4. /\ owner' \in [Locks -> Threads \cup {Nobody}]
          /\ \A l \in Locks : owner[l] \in {r, Nobody} \/ owner'[l] = owner[l]
      BY <1>0, <2>1, <2>3
    <2> QED BY <1>0, <1>4, <1>7, <1>8, <2>1, <2>2, <2>4
  <1>16. CASE CapacityReturn(r) \/ LoadReturn(r)
    BY <1>9, <1>16 DEF CapacityReturn, LoadReturn
  <1>17. CASE PrepareLoad(r)
    <2> DEFINE w == waiter[r]
               job == IF w.load = "direct" THEN "swap" ELSE "ensure"
               d == [NoCall EXCEPT !.job = job, !.target = w.model]
    <2>1. /\ pc[r] = "queued" /\ owner' = owner
          /\ pc' = [pc EXCEPT ![r] = job] /\ call' = [call EXCEPT ![r] = d]
      BY <1>17 DEF PrepareLoad, Proceeds, Goto
    <2>2. w.model \in Models /\ w.model \in Names /\ job \in JobNames /\ MaxLeaseId \in Nat
      BY <1>0, <2>1, AskedModel, SetupFields DEF WaiterSafe, Outside, JobNames, Names
    <2>3. d \in CallType /\ d.target = w.model /\ d.previous = NoModel /\ d.lease = 0
      BY <2>2, NoCallType DEF CallType, NoCall
    <2> HIDE DEF d
    <2>4. Sound(d)
      BY <2>2, <2>3, CoordinatorAssumption DEF Sound
    <2>5. Safe(r, job, d, Holds(r)) /\ job \in Labels
      BY <2>2, <2>3, <2>4, Relies
    <2> QED BY <1>0, <1>8, <2>1, <2>3, <2>5, Stays
  <1>18. CASE CapacityStale(r)
    <2>1. /\ pc' = pc /\ call' = call /\ owner' = owner
          /\ pc[r] = "queued"
      BY <1>18 DEF CapacityStale, threadVars, Proceeds
    <2>2. Goto(r, "queued")
      BY <1>0, <2>1 DEF Goto, ThreadTypes
    <2> QED BY <1>2, <1>7, <1>8, <2>1, <2>2
  <1>19. CASE Grant(r)
    <2>1. /\ owner' = owner
          /\ \/ /\ IssueLease(r, waiter[r], Min(Free(waiter[r].model)))
                /\ nextLease <= MaxLeaseId
             \/ Goto(r, "done") /\ call' = call
      BY <1>19 DEF Grant
    <2> QED BY <1>2, <1>6, <1>7, <1>8, <2>1
  <1>20. CASE Release(r)
    <2>1. /\ owner' = owner /\ call' = call /\ pc[r] \in {"leased", "released"}
          /\ Goto(r, "released") \/ Goto(r, "done")
      BY <1>20 DEF Release
    <2>2. c.lease \in LeaseIds
      BY <2>1 DEF ThreadSafe, Safe
    <2>3. Safe(r, "released", c, h) /\ "released" \in Labels
      BY <1>1, <2>2 DEF Safe, SwapHeld, Inside, LoadLabels, UnloadLabels, OnModel, OnTarget, Resizers,
         PlanLabels, SwapLabels, Labels
    <2> QED BY <1>0, <1>2, <1>7, <1>8, <2>1, <2>3, Steps
  <1> QED BY <1>10, <1>11, <1>12, <1>13, <1>14, <1>15, <1>16, <1>17, <1>18, <1>19, <1>20
      DEF RequestNext

\* The slot waiter of a request, and nobody else's.
WaiterGood(r) ==
    /\ waiter' \in [Requests -> WaiterType]
    /\ \A s \in Requests \ {r} : waiter'[s] = waiter[s]
    /\ WaiterSafe(r)'

\* active_sequence_reservation_by_model_ is a count.
LEMMA SequencesCount ==
  ASSUME ThreadTypes, NEW m
  PROVE  Sequences(m) \in Nat
  <1> DEFINE S == {n \in LeaseIds : leases[n].model = m /\ leases[n].context > 0}
  <1>1. MaxLeaseId \in Nat
    BY SetupFields
  <1>2. IsFiniteSet(LeaseIds)
    BY <1>1, FS_Interval DEF LeaseIds
  <1>3. S \in SUBSET LeaseIds
    OBVIOUS
  <1> HIDE DEF S
  <1>4. IsFiniteSet(S)
    BY <1>2, <1>3, FS_Subset
  <1>5. Cardinality(S) \in Nat
    BY <1>4, FS_CardinalityType
  <1> QED BY <1>5 DEF Sequences, S

\* The larger of two integers.
LEMMA MaxOf ==
  ASSUME NEW a \in Int, NEW b \in Int
  PROVE  Max({a, b}) = IF a >= b THEN a ELSE b
  BY DEF Max

\* The smaller of two integers.
LEMMA MinOf ==
  ASSUME NEW a \in Int, NEW b \in Int
  PROVE  Min({a, b}) = IF a <= b THEN a ELSE b
  BY DEF Min

\* A new waiter has its type and waits for what was asked.
LEMMA NewWaiterType ==
  ASSUME Types, NEW a \in Asks
  PROVE  /\ NewWaiter(a) \in WaiterType /\ Asked(NewWaiter(a))
         /\ ~NewWaiter(a).demandPrepared
         /\ NewWaiter(a).model = a.model /\ NewWaiter(a).key = a.key /\ NewWaiter(a).prio = a.prio
  <1>1. a \in AskType
    BY SetupFields DEF Types
  <1>2. /\ a.model \in Names /\ a.prio \in Int /\ a.key \in KeyNames /\ a.demand \in Nat
        /\ a.load \in {"none", "ensure", "direct"}
    BY <1>1 DEF AskType, Names, KeyNames
  <1>3. clock \in Nat
    BY DEF Types, DataTypes
  <1>4. /\ NewWaiter(a).model = a.model /\ NewWaiter(a).demand = a.demand
        /\ NewWaiter(a).key = a.key /\ NewWaiter(a).prio = a.prio
        /\ ~NewWaiter(a).demandPrepared
    BY DEF NewWaiter, NoWaiter
  <1>5. NewWaiter(a) \in WaiterType
    BY <1>2, <1>3, NoWaiterType DEF NewWaiter, WaiterType
  <1> QED BY <1>4, <1>5 DEF Asked

\* A step of acquire_slot keeps what the waiter of the request says of its demand.
LEMMA AdmissionWaiters ==
  ASSUME Types, NEW r \in Requests, ThreadSafe(r), WaiterSafe(r), RequestNext(r)
  PROVE  WaiterGood(r)
  <1> DEFINE w == waiter[r]
  <1>0. ThreadTypes /\ r \in Threads /\ w \in WaiterType /\ waiter \in [Requests -> WaiterType]
    BY DEF Types, Threads, DataTypes
  <1>1. setup' = setup
    BY AdmissionThreads DEF ThreadGood
  <1>2. ASSUME NEW p, Goto(r, p) PROVE pc'[r] = p
    BY <1>0, <1>2 DEF Goto, ThreadTypes
  <1>3. ASSUME NEW v \in WaiterType, waiter' = [waiter EXCEPT ![r] = v],
               v.demandPrepared => v.demand > 0,
               pc'[r] \in Outside \/ (Asked(v) /\ (pc'[r] \in Measured => v.demand > 0))
        PROVE  WaiterGood(r)
    <2>1. waiter'[r] = v /\ waiter' \in [Requests -> WaiterType]
      BY <1>0, <1>3
    <2>2. Asked(v) => Asked(v)'
      BY <1>1 DEF Asked, Asks
    <2>3. pc'[r] \in Outside => pc'[r] \notin Measured
      BY DEF Outside, Measured
    <2> QED BY <1>0, <1>3, <2>1, <2>2, <2>3 DEF WaiterGood, WaiterSafe, Asked
  <1>4. /\ \A p \in {"leased", "released", "done"} : p \in Outside
        /\ \A p \in {"queued", "estimate", "estimating", "estimated", "capacity", "growing",
                     "grown", "prepared", "ensure", "swap"} : p \notin Outside
        /\ \A p \in {"queued", "ensure", "swap"} : p \notin Measured
        /\ \A p \in {"estimate", "estimating", "estimated", "capacity", "growing", "grown"} :
              p \in Measured
    BY DEF Outside, Measured
  <1>5. ASSUME waiter' = waiter,
               \/ pc'[r] \in Outside
               \/ pc[r] \notin Outside /\ (pc'[r] \in Measured => pc[r] \in Measured)
        PROVE  WaiterGood(r)
    <2>1. waiter' = [waiter EXCEPT ![r] = w]
      BY <1>0, <1>5
    <2> QED BY <1>0, <1>3, <1>5, <2>1 DEF WaiterSafe
  <1>6. ASSUME waiter' = [waiter EXCEPT ![r] = NoWaiter], pc'[r] \in Outside
        PROVE  WaiterGood(r)
    <2>1. ~NoWaiter.demandPrepared
      BY DEF NoWaiter
    <2> QED BY <1>3, <1>6, <2>1, NoWaiterType
  <1>7. ASSUME EraseWaiter(r), Goto(r, "done") PROVE WaiterGood(r)
    BY <1>2, <1>4, <1>6, <1>7 DEF EraseWaiter
  <1>8. ASSUME pc[r] \notin Outside
        PROVE  /\ Asked(w) /\ (w.demandPrepared => w.demand > 0)
               /\ (pc[r] \in Measured => w.demand > 0)
               /\ w.model \in Models /\ w.demand \in Nat
    BY <1>0, <1>8, AskedModel DEF WaiterSafe
  \* What an edit of other fields keeps.
  <1>9. ASSUME NEW v \in WaiterType, waiter' = [waiter EXCEPT ![r] = v], v.model = w.model,
               v.demand = w.demand, pc[r] \notin Outside,
               v.demandPrepared => w.demandPrepared \/ w.demand > 0,
               pc'[r] \in Measured => w.demand > 0
        PROVE  WaiterGood(r)
    <2>1. Asked(v)
      BY <1>8, <1>9 DEF Asked
    <2> QED BY <1>3, <1>8, <1>9, <2>1
  <1>10. CASE \E a \in Asks : TryAcquire(r, a) \/ Enqueue(r, a)
    <2>1. PICK a \in Asks : TryAcquire(r, a) \/ Enqueue(r, a)
      BY <1>10
    <2>2. CASE TryAcquire(r, a)
      <3>1. waiter' = waiter /\ (Goto(r, "leased") \/ Goto(r, "done"))
        BY <2>2 DEF TryAcquire, IssueLease, queueVars
      <3> QED BY <1>2, <1>4, <1>5, <3>1
    <2>3. CASE Enqueue(r, a)
      <3>1. \/ waiter' = waiter /\ Goto(r, "done")
            \/ Goto(r, "queued") /\ waiter' = [waiter EXCEPT ![r] = NewWaiter(a)]
        BY <2>3 DEF Enqueue, Update
      <3> QED BY <1>2, <1>3, <1>4, <1>5, <3>1, NewWaiterType
    <2> QED BY <2>1, <2>2, <2>3
  <1>11. CASE GiveUp(r) \/ NotReady(r)
    BY <1>7, <1>11 DEF GiveUp, NotReady
  <1>12. CASE Estimating(r)
    <2> DEFINE v == [w EXCEPT !.preparing = TRUE]
    <2>1. waiter' = [waiter EXCEPT ![r] = v] /\ Goto(r, "estimate") /\ pc[r] = "queued" /\ w.demand > 0
      BY <1>12 DEF Estimating, Update, Proceeds, WantsEstimate
    <2>2. v \in WaiterType /\ v.model = w.model /\ v.demand = w.demand
          /\ v.demandPrepared = w.demandPrepared
      BY <1>0 DEF WaiterType
    <2> HIDE DEF v
    <2> QED BY <1>2, <1>4, <1>9, <2>1, <2>2
  <1>13. CASE EstimateLock(r) \/ EstimateNative(r) \/ CapacityLock(r) \/ CapacityNative(r)
    <2>1. /\ waiter' = waiter
          /\ pc[r] \in {"estimate", "estimating", "capacity", "growing"}
      BY <1>13 DEF EstimateLock, EstimateNative, CapacityLock, CapacityNative, queueVars
    <2> QED BY <1>4, <1>5, <2>1
  <1>14. CASE EstimateReturn(r)
    <2> DEFINE v == [w EXCEPT !.preparing = FALSE, !.demandPrepared = TRUE]
    <2>1. \/ EraseWaiter(r) /\ Goto(r, "done")
          \/ waiter' = [waiter EXCEPT ![r] = v] /\ Goto(r, "queued")
      BY <1>14 DEF EstimateReturn, Update
    <2>2. v \in WaiterType /\ v.model = w.model /\ v.demand = w.demand
      BY <1>0 DEF WaiterType
    <2>3. pc[r] = "estimated"
      BY <1>14 DEF EstimateReturn
    <2> HIDE DEF v
    <2> QED BY <1>2, <1>4, <1>7, <1>8, <1>9, <2>1, <2>2, <2>3
  <1>15. CASE PrepareCapacity(r)
    <2> DEFINE raised(old, new) == IF Info[w.model].auto THEN Max({old, new}) ELSE new
               x == raised(w.aggregate, reserved[w.model] + w.demand)
               y == raised(w.sequences, Sequences(w.model) + 1)
               v == [w EXCEPT !.preparing = TRUE, !.blocked = TRUE, !.aggregate = x, !.sequences = y]
    <2>1. /\ waiter' = [waiter EXCEPT ![r] = v] /\ Goto(r, "capacity") /\ pc[r] = "queued"
          /\ w.demandPrepared
      BY <1>15 DEF PrepareCapacity, Update, Proceeds, WantsCapacity
    <2>2. /\ w.aggregate \in Nat /\ w.sequences \in Nat /\ w.demand \in Nat /\ w.model \in Models
          /\ w.demand > 0
      BY <1>0, <1>4, <1>8, <2>1 DEF WaiterType
    <2>3. reserved[w.model] \in Nat /\ Sequences(w.model) \in Nat
      BY <1>0, <2>2, SequencesCount DEF Types, DataTypes
    <2>4. x \in Nat /\ y \in Nat
      <3>1. reserved[w.model] + w.demand \in Nat /\ Sequences(w.model) + 1 \in Nat
        BY <2>2, <2>3
      <3>2. /\ Max({w.aggregate, reserved[w.model] + w.demand}) \in Nat
            /\ Max({w.sequences, Sequences(w.model) + 1}) \in Nat
        BY <2>2, <3>1, MaxOf
      <3> QED BY <3>1, <3>2
    <2> HIDE DEF x, y
    <2>5. v \in WaiterType /\ v.model = w.model /\ v.demand = w.demand
          /\ v.demandPrepared = w.demandPrepared
      BY <1>0, <2>4 DEF WaiterType
    <2> HIDE DEF v
    <2> QED BY <1>2, <1>4, <1>9, <2>1, <2>2, <2>5
  <1>16. ASSUME NEW v \in WaiterType, v.model = w.model, v.demand = w.demand,
                v.demandPrepared = w.demandPrepared, pc[r] \notin Outside, TakeResult(r, v)
         PROVE  WaiterGood(r)
    <2> DEFINE v1 == [v EXCEPT !.preparing = FALSE, !.blocked = FALSE]
               v2 == [w EXCEPT !.preparing = FALSE, !.blocked = TRUE]
    <2>1. \/ waiter' = [waiter EXCEPT ![r] = v1] /\ Goto(r, "queued")
          \/ waiter' = [waiter EXCEPT ![r] = v2] /\ Goto(r, "queued")
          \/ EraseWaiter(r) /\ Goto(r, "done")
      BY <1>16 DEF TakeResult, Update
    <2>2. v1 \in WaiterType /\ v1.model = w.model /\ v1.demand = w.demand
          /\ v1.demandPrepared = w.demandPrepared
      BY <1>16 DEF WaiterType
    <2>3. v2 \in WaiterType /\ v2.model = w.model /\ v2.demand = w.demand
          /\ v2.demandPrepared = w.demandPrepared
      BY <1>0 DEF WaiterType
    <2> HIDE DEF v1, v2
    <2> QED BY <1>2, <1>4, <1>7, <1>9, <1>16, <2>1, <2>2, <2>3
  <1>17. CASE CapacityReturn(r)
    <2> DEFINE v == [w EXCEPT !.capacityPrepared = TRUE]
    <2>1. TakeResult(r, v) /\ pc[r] = "grown"
      BY <1>17 DEF CapacityReturn
    <2>2. v \in WaiterType /\ v.model = w.model /\ v.demand = w.demand
          /\ v.demandPrepared = w.demandPrepared
      BY <1>0 DEF WaiterType
    <2> HIDE DEF v
    <2> QED BY <1>4, <1>16, <2>1, <2>2
  <1>18. CASE LoadReturn(r)
    <2> DEFINE v == [w EXCEPT !.prepared = TRUE]
    <2>1. TakeResult(r, v) /\ pc[r] = "prepared"
      BY <1>18 DEF LoadReturn
    <2>2. v \in WaiterType /\ v.model = w.model /\ v.demand = w.demand
          /\ v.demandPrepared = w.demandPrepared
      BY <1>0 DEF WaiterType
    <2> HIDE DEF v
    <2> QED BY <1>4, <1>16, <2>1, <2>2
  <1>19. CASE PrepareLoad(r)
    <2> DEFINE v == [w EXCEPT !.preparing = TRUE, !.blocked = TRUE, !.prepared = FALSE]
    <2>1. /\ waiter' = [waiter EXCEPT ![r] = v] /\ (Goto(r, "swap") \/ Goto(r, "ensure"))
          /\ pc[r] = "queued"
      BY <1>19 DEF PrepareLoad, Update, Proceeds
    <2>2. v \in WaiterType /\ v.model = w.model /\ v.demand = w.demand
          /\ v.demandPrepared = w.demandPrepared
      BY <1>0 DEF WaiterType
    <2> HIDE DEF v
    <2> QED BY <1>2, <1>4, <1>9, <2>1, <2>2
  <1>20. CASE CapacityStale(r)
    <2> DEFINE v == [w EXCEPT !.capacityPrepared = FALSE]
    <2>1. waiter' = [waiter EXCEPT ![r] = v] /\ pc' = pc /\ pc[r] = "queued"
      BY <1>20 DEF CapacityStale, Update, Proceeds, threadVars
    <2>2. v \in WaiterType /\ v.model = w.model /\ v.demand = w.demand
          /\ v.demandPrepared = w.demandPrepared
      BY <1>0 DEF WaiterType
    <2> HIDE DEF v
    <2> QED BY <1>4, <1>9, <2>1, <2>2
  <1>21. CASE Grant(r)
    <2>1. \/ Goto(r, "leased") /\ waiter' = [waiter EXCEPT ![r] = NoWaiter]
          \/ Goto(r, "done") /\ EraseWaiter(r)
      BY <1>21 DEF Grant, IssueLease
    <2> QED BY <1>2, <1>4, <1>6, <1>7, <2>1
  <1>22. CASE Release(r)
    <2>1. waiter' = waiter /\ (Goto(r, "released") \/ Goto(r, "done"))
      BY <1>22 DEF Release, queueVars
    <2> QED BY <1>2, <1>4, <1>5, <2>1
  <1> QED BY <1>10, <1>11, <1>12, <1>13, <1>14, <1>15, <1>17, <1>18, <1>19, <1>20, <1>21, <1>22
      DEF RequestNext

----------------------------------------------------------------------------
(* The tables of the coordinator keep their types. *)

\* Instances as they are created, loaded and emptied.
LEMMA InstanceTypes ==
  ASSUME ThreadTypes, NEW m \in Models, NEW b \in Instance
  PROVE  /\ NoBackend \in Instance /\ FreshBackend(m) \in Instance
         /\ LoadedBackend(m, b) \in Instance /\ EmptyBackend(b) \in Instance
  <1>1. Info[m] \in InfoType
    BY SetupFields
  <1>2. Info[m].slots \in Nat /\ Info[m].context \in Nat
    BY <1>1 DEF InfoType
  <1>3. NoBackend \in Instance /\ FreshBackend(m) \in Instance
    BY <1>2 DEF NoBackend, FreshBackend, Instance
  <1>4. LoadedBackend(m, b) \in Instance
    BY <1>2 DEF LoadedBackend, Instance
  <1>5. EmptyBackend(b) \in Instance
    BY DEF EmptyBackend, Instance
  <1> QED BY <1>3, <1>4, <1>5

\* What a lifecycle step may do to the tables.
ResidencyTypes ==
    /\ backend' \in [Models -> Instance]
    /\ current' \in Primaries
    /\ sample' \in {sample, -1}
StampSteps == stamp' = stamp \/ stamp' = [r \in Requests |-> "none"]
TableSteps ==
    /\ setup' = setup
    /\ leases' = leases /\ nextLease' = nextLease /\ reserved' = reserved
    /\ \/ active' = active
       \/ \E m : active' = [active EXCEPT ![m] = 0]
    /\ waiter' = waiter /\ clock' = clock
    /\ StampSteps

\* A step that types the residency and moves the tables in these ways keeps the types.
LEMMA TablesTyped ==
  ASSUME Types, ResidencyTypes, TableSteps
  PROVE  DataTypes'
  <1>1. /\ Primaries' = Primaries /\ Samples' = Samples /\ LeaseIds' = LeaseIds
        /\ MaxLeaseId' = MaxLeaseId
    BY DEF TableSteps, Primaries, Primary, Info, Samples, LeaseIds, MaxLeaseId
  <1>2. active' \in [Models -> Nat]
    BY DEF TableSteps, Types, DataTypes
  <1>3. stamp' \in [Requests -> {"none", "before", "parked"}]
    BY DEF TableSteps, StampSteps, Types, DataTypes
  <1>4. sample' \in Samples' \cup {-1}
    BY <1>1 DEF ResidencyTypes, Types, DataTypes
  <1>5. backend' \in [Models -> Instance] /\ current' \in Primaries'
    BY <1>1 DEF ResidencyTypes
  <1> QED BY <1>1, <1>2, <1>3, <1>4, <1>5 DEF TableSteps, Types, DataTypes

\* A step that leaves the residency alone keeps its types.
LEMMA SameResidency ==
  ASSUME Types, UNCHANGED residencyVars
  PROVE  ResidencyTypes
  BY DEF ResidencyTypes, residencyVars, Types, DataTypes

\* A lifecycle step leaves the tables of admission alone, the generation apart.
LEMMA SameTables ==
  ASSUME UNCHANGED untouched, UNCHANGED genVars \/ Bump
  PROVE  TableSteps
  BY DEF TableSteps, StampSteps, untouched, leaseVars, queueVars, otherVars, genVars, Bump

\* A step of load_with_lock_deadline keeps the types of the tables.
LEMMA LoadData ==
  ASSUME Types, NEW t \in Threads, ThreadSafe(t),
         LoadStart(t) \/ LoadGiveUp(t) \/ LoadCreate(t) \/ LoadNative(t) \/ LoadLate(t) \/ LoadEnd(t)
  PROVE  DataTypes'
  <1> DEFINE m == call[t].model
  <1>0. /\ ThreadTypes /\ call[t] \in CallType
        /\ backend \in [Models -> Instance] /\ current \in Primaries
    BY DEF Types, ThreadTypes, DataTypes
  <1>1. m \in Models /\ call[t].slots \in Int
    <2>1. pc[t] \in LoadLabels
      BY DEF LoadStart, LoadGiveUp, LoadCreate, LoadNative, LoadLate, LoadEnd, LoadLabels
    <2> QED BY <1>0, <2>1, CallFields DEF ThreadSafe, Safe, OnModel
  <1>2. backend[m] \in Instance
    BY <1>0, <1>1
  <1>3. SelectPrimary(m) \in Primaries
    BY <1>0, <1>1 DEF SelectPrimary, Primaries
  <1>4. UNCHANGED untouched /\ (UNCHANGED genVars \/ Bump)
    BY DEF LoadStart, LoadGiveUp, LoadCreate, LoadNative, LoadLate, LoadEnd, LoadFails, BumpIf
  <1> SUFFICES ResidencyTypes
    BY <1>4, SameTables, TablesTyped
  <1>5. ASSUME NEW b \in Instance, NEW res, LoadFails(t, b, res) PROVE ResidencyTypes
    BY <1>0, <1>1, <1>5 DEF LoadFails, ResidencyTypes
  <1>6. CASE LoadStart(t)
    BY <1>0, <1>3, <1>6 DEF LoadStart, ResidencyTypes
  <1>7. CASE LoadGiveUp(t)
    BY <1>7, SameResidency DEF LoadGiveUp
  <1>8. CASE LoadCreate(t)
    <2> DEFINE b == IF backend[m].st = "none" THEN FreshBackend(m) ELSE backend[m]
               d == IF call[t].slots = 0 \/ Info[m].auto THEN b ELSE [b EXCEPT !.slots = call[t].slots]
    <2>1. b \in Instance
      BY <1>0, <1>1, <1>2, InstanceTypes
    <2> HIDE DEF b
    <2>2. d \in Instance
      BY <1>1, <2>1 DEF Instance
    <2> HIDE DEF d
    <2>3. current' = current /\ sample' = sample
          /\ (backend' = backend \/ backend' = [backend EXCEPT ![m] = d])
      BY <1>8 DEF LoadCreate, d, b
    <2> QED BY <1>0, <2>2, <2>3 DEF ResidencyTypes
  <1>9. CASE LoadNative(t)
    <2>1. CASE backend' = [backend EXCEPT ![m] = LoadedBackend(m, backend[m])]
               /\ current' = current /\ sample' = sample
      BY <1>0, <1>1, <1>2, <2>1, InstanceTypes DEF ResidencyTypes
    <2>2. CASE \E res : LoadFails(t, backend[m], res)
      BY <1>2, <1>5, <2>2
    <2> QED BY <1>9, <2>1, <2>2 DEF LoadNative
  <1>10. CASE LoadLate(t)
    <2>1. CASE UNCHANGED residencyVars
      BY <2>1, SameResidency
    <2>2. CASE LoadFails(t, EmptyBackend(backend[m]), "gone")
      BY <1>0, <1>1, <1>2, <1>5, <2>2, InstanceTypes
    <2> QED BY <1>10, <2>1, <2>2 DEF LoadLate
  <1>11. CASE LoadEnd(t)
    BY <1>0, <1>3, <1>11 DEF LoadEnd, ResidencyTypes
  <1> QED BY <1>6, <1>7, <1>8, <1>9, <1>10, <1>11

\* A step of unload_with_control keeps the types of the tables.
LEMMA UnloadData ==
  ASSUME Types, NEW t \in Threads, ThreadSafe(t),
         UnloadStart(t) \/ UnloadGiveUp(t) \/ Drained(t) \/ DrainGiveUp(t) \/ UnloadNative(t)
  PROVE  DataTypes'
  <1> DEFINE m == call[t].model
  <1>0. /\ ThreadTypes /\ call[t] \in CallType
        /\ backend \in [Models -> Instance] /\ current \in Primaries
    BY DEF Types, ThreadTypes, DataTypes
  <1>1. m \in Models /\ call[t].moved \in Instance
    <2>1. pc[t] \in UnloadLabels
      BY DEF UnloadStart, UnloadGiveUp, Drained, DrainGiveUp, UnloadNative, UnloadLabels
    <2> QED BY <1>0, <2>1, CallFields DEF ThreadSafe, Safe, OnModel
  <1>2. CASE UnloadStart(t) \/ UnloadGiveUp(t) \/ DrainGiveUp(t)
    <2>1. UNCHANGED residencyVars /\ UNCHANGED untouched /\ UNCHANGED genVars
      BY <1>2 DEF UnloadStart, UnloadGiveUp, DrainGiveUp
    <2> QED BY <2>1, SameResidency, SameTables, TablesTyped
  <1>3. CASE Drained(t)
    <2> DEFINE b == [backend EXCEPT ![m] = NoBackend]
    <2>1. /\ backend' = b /\ current' \in SelectionAfter(m, b) /\ sample' = sample
          /\ UNCHANGED untouched /\ UNCHANGED genVars
      BY <1>3 DEF Drained
    <2>2. b \in [Models -> Instance]
      <3>1. NoBackend \in Instance
        BY <1>0, <1>1, InstanceTypes
      <3> QED BY <1>0, <3>1
    <2> HIDE DEF b
    <2>3. SelectionAfter(m, b) \subseteq Primaries
      BY <1>0 DEF SelectionAfter, Selections, Primaries
    <2>4. ResidencyTypes
      BY <2>1, <2>2, <2>3 DEF ResidencyTypes
    <2> QED BY <2>1, <2>4, SameTables, TablesTyped
  <1>4. CASE UnloadNative(t)
    <2> DEFINE old == call[t].moved
               sick == [old EXCEPT !.healthy = FALSE]
    <2>1. sick \in Instance /\ old \in Instance
      BY <1>1 DEF Instance
    <2>2. call[t].primary => m \in Primaries
      BY <1>1, <1>4 DEF UnloadNative, ThreadSafe, Safe, Primaries
    <2> HIDE DEF sick
    <2>3. /\ \/ backend' = backend
             \/ backend' = [backend EXCEPT ![m] = old]
             \/ backend' = [backend EXCEPT ![m] = sick]
          /\ \/ current' = current
             \/ current' = m /\ call[t].primary
      BY <1>4 DEF UnloadNative, sick
    <2>4. sample' \in {sample, -1}
      BY <1>4 DEF UnloadNative
    <2>5. ResidencyTypes
      BY <1>0, <2>1, <2>2, <2>3, <2>4 DEF ResidencyTypes
    <2>6. active' = active \/ active' = [active EXCEPT ![m] = 0]
      BY <1>4 DEF UnloadNative
    <2>7. StampSteps
      BY <1>4 DEF UnloadNative, StampSteps, BumpIf, Bump, genVars
    <2>8. UNCHANGED <<leases, nextLease, reserved, queueVars, otherVars>>
      BY <1>4 DEF UnloadNative
    <2>9. TableSteps
      BY <2>6, <2>7, <2>8 DEF TableSteps, queueVars, otherVars
    <2> QED BY <2>5, <2>9, TablesTyped
  <1> QED BY <1>2, <1>3, <1>4

\* A step of prepare_capacity_for keeps the types of the tables.
LEMMA PlanData ==
  ASSUME Types, NEW t \in Threads, ThreadSafe(t), PlanNext(t) \/ PlanGiveUp(t)
  PROVE  DataTypes'
  <1> DEFINE c == call[t].model
  <1>0. /\ ThreadTypes /\ call[t] \in CallType
        /\ backend \in [Models -> Instance] /\ current \in Primaries
    BY DEF Types, ThreadTypes, DataTypes
  <1>1. call[t].moved \in Instance
    BY <1>0, CallFields
  <1>2. pc[t] \in Resizers => c \in Models /\ backend[c] \in Instance /\ Info[c] \in InfoType
    BY <1>0, SetupFields DEF ThreadSafe, Safe, OnModel
  <1>3. ASSUME UNCHANGED residencyVars, UNCHANGED untouched, UNCHANGED genVars \/ Bump
        PROVE  DataTypes'
    BY <1>3, SameResidency, SameTables, TablesTyped
  <1>4. CASE PlanGiveUp(t) \/ Plan(t) \/ PlanFits(t) \/ ReclaimPick(t) \/ ReclaimGuard(t)
             \/ ReclaimWait(t) \/ ReclaimAgain(t)
    <2>1. UNCHANGED residencyVars /\ UNCHANGED untouched /\ (UNCHANGED genVars \/ Bump)
      BY <1>4 DEF PlanGiveUp, Plan, PlanFits, ReclaimPick, ReclaimGuard, ReclaimWait, ReclaimAgain,
         PlanRefused
    <2> QED BY <1>3, <2>1
  <1>5. CASE ShrinkPick(t) \/ EvictPick(t) \/ EvictGuard(t) \/ Evicted(t) \/ Verdict(t)
    <2>1. UNCHANGED residencyVars /\ UNCHANGED untouched /\ (UNCHANGED genVars \/ Bump)
      BY <1>5 DEF ShrinkPick, EvictPick, EvictGuard, Evicted, Verdict, PlanRefused
    <2> QED BY <1>3, <2>1
  <1>6. CASE ReclaimNative(t)
    <2> DEFINE d == [backend[c] EXCEPT !.context = Info[c].context, !.slots = 1, !.trimmed = TRUE]
    <2>1. /\ UNCHANGED untouched /\ (UNCHANGED genVars \/ Bump) /\ current' = current
          /\ sample' \in {sample, -1} /\ pc[t] \in Resizers
      BY <1>6 DEF ReclaimNative, Resizers
    <2>2. d \in Instance
      <3>1. backend[c] \in Instance /\ Info[c].context \in Nat
        BY <1>2, <2>1 DEF InfoType
      <3>2. ASSUME NEW n \in Int
            PROVE  [backend[c] EXCEPT !.context = Info[c].context, !.slots = n, !.trimmed = TRUE]
                     \in Instance
        BY <3>1 DEF Instance
      <3>3. 1 \in Int
        OBVIOUS
      <3> QED BY <3>2, <3>3, Zenon
    <2>3. backend' = backend \/ backend' = [backend EXCEPT ![c] = d]
      BY <1>0, <1>2, <1>6, <2>1 DEF ReclaimNative
    <2> HIDE DEF d
    <2>4. ResidencyTypes
      BY <1>0, <2>1, <2>2, <2>3 DEF ResidencyTypes
    <2> QED BY <2>1, <2>4, SameTables, TablesTyped
  <1>7. CASE ShrinkGuard(t)
    <2>1. CASE PlanRefused(t, {c})
      BY <1>3, <2>1 DEF PlanRefused
    <2>2. CASE backend' = [backend EXCEPT ![c] = EmptyBackend(backend[c])]
               /\ UNCHANGED <<current, sample, genVars, untouched>>
      <3>1. EmptyBackend(backend[c]) \in Instance
        BY <1>0, <1>2, <1>7, InstanceTypes DEF ShrinkGuard, Resizers
      <3>2. ResidencyTypes
        BY <1>0, <2>2, <3>1 DEF ResidencyTypes
      <3> QED BY <2>2, <3>2, SameTables, TablesTyped
    <2> QED BY <1>7, <2>1, <2>2 DEF ShrinkGuard
  <1>8. CASE ShrinkNative(t)
    <2> DEFINE back == LoadedBackend(c, call[t].moved)
               less == [back EXCEPT !.slots = @ - 1]
    <2>1. back \in Instance
      BY <1>0, <1>1, <1>2, <1>8, InstanceTypes DEF ShrinkNative, Resizers
    <2> HIDE DEF back
    <2>2. less \in Instance
      BY <2>1 DEF Instance
    <2> HIDE DEF less
    <2>3. /\ UNCHANGED untouched /\ (UNCHANGED genVars \/ Bump) /\ current' = current
          /\ sample' \in {sample, -1}
      BY <1>8 DEF ShrinkNative
    <2>4. \/ backend' = backend \/ backend' = [backend EXCEPT ![c] = back]
          \/ backend' = [backend EXCEPT ![c] = less]
      BY <1>8 DEF ShrinkNative, back, less
    <2>5. ResidencyTypes
      BY <1>0, <2>1, <2>2, <2>3, <2>4 DEF ResidencyTypes
    <2> QED BY <2>3, <2>5, SameTables, TablesTyped
  <1> QED BY <1>4, <1>5, <1>6, <1>7, <1>8 DEF PlanNext

\* A step of swap_to_with_control keeps the types of the tables.
LEMMA SwapData ==
  ASSUME Types, NEW t \in Threads, ThreadSafe(t),
         \/ SwapShort(t) \/ SwapGiveUp(t) \/ SwapStart(t) \/ Legacy(t)
         \/ SwapLoad(t) \/ SwapLoaded(t) \/ SwapForce(t) \/ SwapRetry(t)
         \/ Restore(t) \/ RestoreLoad(t)
         \/ \E j \in Jobs : Begin(t, j)
  PROVE  DataTypes'
  <1>0. /\ ThreadTypes /\ call[t] \in CallType
        /\ backend \in [Models -> Instance] /\ current \in Primaries
    BY DEF Types, ThreadTypes, DataTypes
  <1>1. call[t].previous \in Primaries
    BY <1>0, CallFields DEF ThreadSafe, Safe, Sound, Primaries, Names
  <1>2. CASE SwapShort(t) \/ SwapGiveUp(t) \/ SwapStart(t) \/ SwapLoad(t) \/ SwapLoaded(t)
             \/ SwapForce(t) \/ SwapRetry(t) \/ RestoreLoad(t) \/ \E j \in Jobs : Begin(t, j)
    <2>1. UNCHANGED residencyVars /\ UNCHANGED untouched /\ (UNCHANGED genVars \/ Bump)
      BY <1>2 DEF SwapShort, SwapGiveUp, SwapStart, SwapLoad, SwapLoaded, SwapForce, SwapRetry,
         RestoreLoad, Begin
    <2> QED BY <2>1, SameResidency, SameTables, TablesTyped
  <1>3. CASE Legacy(t) \/ Restore(t)
    <2>1. /\ backend' = backend /\ sample' = sample /\ UNCHANGED untouched /\ UNCHANGED genVars
          /\ current' \in {current, call[t].previous}
      BY <1>3 DEF Legacy, Restore
    <2>2. ResidencyTypes
      BY <1>0, <1>1, <2>1 DEF ResidencyTypes
    <2> QED BY <2>1, <2>2, SameTables, TablesTyped
  <1> QED BY <1>2, <1>3

\* The slot a grant takes is free.
LEMMA FreeSlot ==
  ASSUME Types, NEW m \in Models, Free(m) # {}
  PROVE  /\ Min(Free(m)) \in Nat /\ Min(Free(m)) \notin backend[m].busy
         /\ Min(Free(m)) < backend[m].slots
  <1>1. backend[m].slots \in Int
    BY DEF Types, DataTypes, Instance
  <1>2. Free(m) \subseteq (0 .. backend[m].slots - 1) \ backend[m].busy
    BY DEF Free
  <1>3. Free(m) \in SUBSET Nat
    BY <1>1, <1>2
  <1>4. Min(Free(m)) \in Free(m)
    BY <1>3, Least
  <1> QED BY <1>1, <1>2, <1>4

\* ensure_request_capacity leaves an instance.
LEMMA GrowthInstances ==
  ASSUME ThreadTypes, NEW m \in Models, NEW b \in Instance, NEW w \in WaiterType,
         NEW g \in Growths(m, b, w)
  PROVE  g.b \in Instance
  <1> DEFINE i == Info[m]
             s == Max({b.slots, w.sequences})
             x == IF w.aggregate <= b.context THEN b.context
                  ELSE Min({i.contextMax, Max({w.aggregate, 2 * b.context})})
             grown == [b EXCEPT !.trimmed = FALSE, !.slots = s, !.context = x]
             sick == [b EXCEPT !.healthy = FALSE]
  <1>1. i \in InfoType
    BY SetupFields
  <1>2. /\ i.contextMax \in Nat /\ b.slots \in Int /\ b.context \in Nat
        /\ w.sequences \in Nat /\ w.aggregate \in Nat
    BY <1>1 DEF InfoType, Instance, WaiterType
  <1>3. s \in Int
    BY <1>2, MaxOf
  <1>4. Max({w.aggregate, 2 * b.context}) \in Nat
    BY <1>2, MaxOf
  <1>5. x \in Nat
    <2> DEFINE y == Max({w.aggregate, 2 * b.context})
    <2>1. y \in Nat
      BY <1>4
    <2> HIDE DEF y
    <2>2. Min({i.contextMax, y}) \in Nat
      BY <1>2, <2>1, MinOf
    <2> QED BY <1>2, <2>2 DEF y
  <1>6. g.b \in {b, grown, sick}
    BY DEF Growths
  <1> HIDE DEF s, x
  <1>7. grown \in Instance
    BY <1>3, <1>5 DEF Instance
  <1>8. sick \in Instance
    BY DEF Instance
  <1> HIDE DEF grown, sick
  <1> QED BY <1>6, <1>7, <1>8

\* A free entry of active_leases_ has its type.
LEMMA NoLeaseType == NoLease \in LeaseType
  <1>1. NoModel \in Names /\ "none" \in KeyNames
    BY DEF Names, KeyNames
  <1> QED BY <1>1 DEF NoLease, LeaseType

\* The part of DataTypes a request's step changes.
LeaseTypes ==
    /\ leases \in [LeaseIds -> LeaseType]
    /\ nextLease \in 1 .. MaxLeaseId + 1
    /\ active \in [Models -> Nat] /\ reserved \in [Models -> Nat]

\* issue_lease_locked
LEMMA LeaseIssued ==
  ASSUME Types, setup' = setup, NEW r \in Requests, NEW w \in WaiterType, NEW slot \in Nat,
         nextLease <= MaxLeaseId, w.model \in Models, IssueLease(r, w, slot)
  PROVE  LeaseTypes' /\ backend' \in [Models -> Instance]
  <1> DEFINE m == w.model
             continues == HoldValid(m) /\ hold[m].key = w.key
             context == IF w.demandPrepared THEN w.demand ELSE 0
             l == [who |-> r, model |-> m, slot |-> slot, context |-> context,
                   key |-> w.key, prio |-> w.prio, continues |-> continues]
  <1>0. /\ backend \in [Models -> Instance] /\ leases \in [LeaseIds -> LeaseType]
        /\ nextLease \in 1 .. MaxLeaseId + 1 /\ MaxLeaseId \in Nat
        /\ active \in [Models -> Nat] /\ reserved \in [Models -> Nat]
    BY SetupFields DEF Types, DataTypes
  <1>1. context \in Nat /\ w.key \in KeyNames /\ w.prio \in Int /\ m \in Names
    BY DEF WaiterType
  <1>2. continues \in BOOLEAN
    OBVIOUS
  <1>3. /\ leases' = [leases EXCEPT ![nextLease] = l] /\ nextLease' = nextLease + 1
        /\ active' = [active EXCEPT ![m] = @ + 1]
        /\ reserved' = [reserved EXCEPT ![m] = @ + context]
        /\ backend' = [backend EXCEPT ![m].busy = @ \cup {slot}]
    BY DEF IssueLease
  <1> HIDE DEF continues, context
  <1>4. l \in LeaseType
    BY <1>1, <1>2 DEF LeaseType
  <1> HIDE DEF l
  <1>5. leases' \in [LeaseIds -> LeaseType] /\ nextLease' \in 1 .. MaxLeaseId + 1
    <2>1. nextLease' \in 1 .. MaxLeaseId + 1
      BY <1>0, <1>3
    <2>2. leases' \in [LeaseIds -> LeaseType]
      BY <1>0, <1>3, <1>4
    <2> QED BY <2>1, <2>2
  <1>6. active' \in [Models -> Nat] /\ reserved' \in [Models -> Nat]
    BY <1>0, <1>1, <1>3
  <1>7. [backend[m] EXCEPT !.busy = @ \cup {slot}] \in Instance
    BY <1>0 DEF Instance
  <1>8. backend' \in [Models -> Instance]
    BY <1>0, <1>3, <1>7
  <1> QED BY <1>5, <1>6, <1>8 DEF LeaseTypes, LeaseIds, MaxLeaseId

\* A step of acquire_slot or release_slot keeps the types of the tables.
LEMMA AdmissionData ==
  ASSUME Types, NEW r \in Requests, ThreadSafe(r), WaiterSafe(r), RequestNext(r)
  PROVE  DataTypes'
  <1> DEFINE w == waiter[r]
  <1>0. /\ ThreadTypes /\ setup' = setup /\ w \in WaiterType /\ waiter' \in [Requests -> WaiterType]
        /\ backend \in [Models -> Instance]
        /\ stamp \in [Requests -> {"none", "before", "parked"}]
    BY AdmissionThreads, AdmissionWaiters DEF Types, ThreadGood, DataTypes, WaiterGood
  <1>1. pc[r] \notin Outside => w.model \in Models
    BY <1>0, AskedModel DEF WaiterSafe
  <1>2. ASSUME LeaseTypes', backend' \in [Models -> Instance],
               stamp' \in [Requests -> {"none", "before", "parked"}],
               current' = current, sample' = sample, clock' = clock
        PROVE  DataTypes'
    <2>1. Primaries' = Primaries /\ Samples' = Samples
      BY <1>0 DEF Primaries, Primary, Info, Samples
    <2> QED BY <1>0, <1>2, <2>1 DEF Types, DataTypes, LeaseTypes
  <1>3. /\ current' = current /\ sample' = sample /\ clock' = clock
    <2>1. CASE \E a \in Asks : TryAcquire(r, a) \/ Enqueue(r, a)
      BY <2>1 DEF TryAcquire, Enqueue, residencyVars, queueVars
    <2>2. CASE GiveUp(r) \/ Estimating(r) \/ EstimateLock(r) \/ EstimateNative(r) \/ EstimateReturn(r)
               \/ NotReady(r) \/ PrepareLoad(r) \/ CapacityStale(r)
      BY <2>2 DEF GiveUp, Estimating, EstimateLock, EstimateNative, EstimateReturn, NotReady,
         PrepareLoad, CapacityStale, EraseWaiter, residencyVars, queueVars
    <2>3. CASE PrepareCapacity(r) \/ CapacityLock(r) \/ CapacityNative(r) \/ CapacityReturn(r)
               \/ LoadReturn(r)
      BY <2>3 DEF PrepareCapacity, CapacityLock, CapacityNative, CapacityReturn, LoadReturn,
         TakeResult, EraseWaiter, residencyVars, queueVars
    <2>4. CASE Grant(r) \/ Release(r)
      BY <2>4 DEF Grant, Release, EraseWaiter, queueVars
    <2> QED BY <2>1, <2>2, <2>3, <2>4 DEF RequestNext
  <1>4. stamp' \in [Requests -> {"none", "before", "parked"}]
    <2>1. \/ stamp' = stamp \/ stamp' = [s \in Requests |-> "none"]
          \/ \E x \in {"none", "before", "parked"} : stamp' = [stamp EXCEPT ![r] = x]
      <3>1. CASE \E a \in Asks : TryAcquire(r, a) \/ Enqueue(r, a)
        BY <3>1 DEF TryAcquire, Enqueue, genVars
      <3>2. CASE GiveUp(r) \/ Estimating(r) \/ EstimateLock(r) \/ EstimateNative(r)
                 \/ EstimateReturn(r) \/ NotReady(r) \/ PrepareLoad(r) \/ CapacityStale(r)
        BY <3>2 DEF GiveUp, Estimating, EstimateLock, EstimateNative, EstimateReturn, NotReady,
           PrepareLoad, CapacityStale, EraseWaiter, genVars
      <3>3. CASE PrepareCapacity(r) \/ CapacityLock(r) \/ CapacityNative(r)
        BY <3>3 DEF PrepareCapacity, CapacityLock, CapacityNative, genVars
      <3>4. CASE CapacityReturn(r) \/ LoadReturn(r)
        <4>1. PICK v : TakeResult(r, v)
          BY <3>4 DEF CapacityReturn, LoadReturn
        <4>2. \/ stamp' = [stamp EXCEPT ![r] = "none"]
              \/ stamp' = [stamp EXCEPT ![r] = IF @ = "before" THEN "parked" ELSE "none"]
          BY <4>1 DEF TakeResult, EraseWaiter
        <4> QED BY <4>2
      <3>5. CASE Grant(r) \/ Release(r)
        BY <3>5 DEF Grant, Release, EraseWaiter, genVars
      <3> QED BY <3>1, <3>2, <3>3, <3>4, <3>5 DEF RequestNext
    <2> QED BY <1>0, <2>1
  <1>5. ASSUME UNCHANGED leaseVars PROVE LeaseTypes'
    BY <1>0, <1>5 DEF leaseVars, Types, DataTypes, LeaseTypes, LeaseIds, MaxLeaseId
  <1>6. ASSUME UNCHANGED leaseVars, backend' = backend PROVE DataTypes'
    BY <1>0, <1>2, <1>3, <1>4, <1>5, <1>6
  <1>7. CASE \E a \in Asks : TryAcquire(r, a) \/ Enqueue(r, a)
    <2>1. PICK a \in Asks : TryAcquire(r, a) \/ Enqueue(r, a)
      BY <1>7
    <2>2. CASE Enqueue(r, a)
      BY <1>6, <2>2 DEF Enqueue, residencyVars
    <2>3. CASE TryAcquire(r, a)
      <3>1. CASE UNCHANGED leaseVars /\ backend' = backend
        BY <1>6, <3>1
      <3>2. CASE /\ IssueLease(r, NewWaiter(a), Min(Free(a.model)))
                 /\ Free(a.model) # {} /\ nextLease <= MaxLeaseId
        <4>1. NewWaiter(a) \in WaiterType /\ NewWaiter(a).model = a.model /\ a.model \in Models
          BY <1>0, NewWaiterType, AskedModel
        <4>2. Min(Free(a.model)) \in Nat
          BY <3>2, <4>1, FreeSlot
        <4>3. LeaseTypes' /\ backend' \in [Models -> Instance]
          BY <1>0, <3>2, <4>1, <4>2, LeaseIssued
        <4> QED BY <1>2, <1>3, <1>4, <4>3
      <3> QED BY <2>3, <3>1, <3>2 DEF TryAcquire
    <2> QED BY <2>1, <2>2, <2>3
  <1>8. CASE GiveUp(r) \/ Estimating(r) \/ EstimateLock(r) \/ EstimateNative(r) \/ EstimateReturn(r)
             \/ NotReady(r) \/ PrepareLoad(r) \/ CapacityStale(r) \/ PrepareCapacity(r)
             \/ CapacityLock(r) \/ CapacityReturn(r) \/ LoadReturn(r)
    <2>1. UNCHANGED leaseVars /\ backend' = backend
      BY <1>8 DEF GiveUp, Estimating, EstimateLock, EstimateNative, EstimateReturn, NotReady,
         PrepareLoad, CapacityStale, PrepareCapacity, CapacityLock, CapacityReturn, LoadReturn,
         TakeResult, residencyVars
    <2> QED BY <1>6, <2>1
  <1>9. CASE CapacityNative(r)
    <2> DEFINE m == w.model
    <2>1. PICK g \in Growths(m, backend[m], w) \cup {[res |-> "gone", b |-> backend[m]]} :
                 backend' = [backend EXCEPT ![m] = g.b]
      BY <1>9 DEF CapacityNative
    <2>2. UNCHANGED leaseVars /\ pc[r] = "growing"
      BY <1>9 DEF CapacityNative
    <2>3. m \in Models /\ backend[m] \in Instance
      BY <1>0, <1>1, <2>2 DEF Outside
    <2>4. g \in Growths(m, backend[m], w) => g.b \in Instance
      BY <1>0, <2>3, GrowthInstances
    <2>5. g.b \in Instance
      BY <2>1, <2>3, <2>4
    <2>6. backend' \in [Models -> Instance]
      BY <1>0, <2>1, <2>5
    <2> QED BY <1>2, <1>3, <1>4, <1>5, <2>2, <2>6
  <1>10. CASE Grant(r)
    <2>1. pc[r] = "queued" /\ Free(w.model) # {}
      BY <1>10 DEF Grant, Proceeds
    <2>2. CASE UNCHANGED leaseVars /\ backend' = backend
      BY <1>6, <2>2
    <2>3. CASE IssueLease(r, w, Min(Free(w.model))) /\ nextLease <= MaxLeaseId
      <3>1. w.model \in Models
        BY <1>1, <2>1 DEF Outside
      <3>2. Min(Free(w.model)) \in Nat
        BY <2>1, <3>1, FreeSlot
      <3>3. LeaseTypes' /\ backend' \in [Models -> Instance]
        BY <1>0, <2>3, <3>1, <3>2, LeaseIssued
      <3> QED BY <1>2, <1>3, <1>4, <3>3
    <2> QED BY <1>10, <2>2, <2>3 DEF Grant
  <1>11. CASE Release(r)
    <2> DEFINE n == call[r].lease
               l == leases[n]
               m == l.model
    <2>1. n \in LeaseIds
      BY <1>11 DEF Release, ThreadSafe, Safe
    <2>2. l \in LeaseType /\ l.context \in Nat
      BY <2>1 DEF Types, DataTypes, LeaseType
    <2>3. CASE UNCHANGED leaseVars /\ backend' = backend
      BY <1>6, <2>3
    <2>4. CASE /\ leases' = [leases EXCEPT ![n] = NoLease]
               /\ active' = [active EXCEPT ![m] = Reduced(@, 1)]
               /\ reserved' = [reserved EXCEPT ![m] = Reduced(@, l.context)]
               /\ backend' = [backend EXCEPT ![m].busy = @ \ {l.slot}]
               /\ nextLease' = nextLease
      <3>1. ASSUME NEW a \in Nat, NEW b \in Nat PROVE Reduced(a, b) \in Nat
        BY MaxOf DEF Reduced
      <3>2. active \in [Models -> Nat] /\ reserved \in [Models -> Nat]
            /\ leases \in [LeaseIds -> LeaseType]
        BY DEF Types, DataTypes
      <3>3. active' \in [Models -> Nat]
        BY <2>4, <3>1, <3>2
      <3>4. reserved' \in [Models -> Nat]
        BY <2>2, <2>4, <3>1, <3>2
      <3>5. leases' \in [LeaseIds -> LeaseType]
        BY <2>4, <3>2, NoLeaseType
      <3>6. m \in Models => [backend[m] EXCEPT !.busy = @ \ {l.slot}] \in Instance
        <4>1. ASSUME NEW b \in Instance, NEW x PROVE [b EXCEPT !.busy = @ \ {x}] \in Instance
          BY DEF Instance
        <4> QED BY <1>0, <4>1
      <3>7. backend' \in [Models -> Instance]
        BY <1>0, <2>4, <3>6
      <3>8. LeaseTypes'
        BY <1>0, <2>4, <3>3, <3>4, <3>5 DEF Types, DataTypes, LeaseTypes, LeaseIds, MaxLeaseId
      <3> QED BY <1>2, <1>3, <1>4, <3>7, <3>8
    <2> QED BY <1>11, <2>3, <2>4 DEF Release
  <1> QED BY <1>7, <1>8, <1>9, <1>10, <1>11 DEF RequestNext

----------------------------------------------------------------------------
(* draining_models_ and resizing_models_ *)

\* A step between labels that own no mark.
LEMMA Unmarked ==
  ASSUME NEW t, pc[t] \notin MarkLabels, pc'[t] \notin MarkLabels,
         draining' = draining, resizing' = resizing
  PROVE  MarkStep(t)
  BY DEF MarkStep, DrainMark, ResizeMark, MarkLabels

\* Where a step goes.
LEMMA Lands ==
  ASSUME ThreadTypes, NEW t \in Threads, NEW p
  PROVE  /\ Goto(t, p) => pc'[t] = p
         /\ \A c : GoWith(t, p, c) => pc'[t] = p /\ call'[t] = c
         /\ \A res : Return(t, p, res) => pc'[t] = p
         /\ call' = call => call'[t] = call[t]
  BY DEF ThreadTypes, Goto, GoWith, With, Return

\* Labels calls return to own no mark.
LEMMA BacksUnmarked ==
  ASSUME NEW t
  PROVE  ({Top(t), "create"} \cup LoadBacks \cup UnloadBacks) \cap MarkLabels = {}
  BY DEF Top, LoadBacks, UnloadBacks, MarkLabels, Resizers

\* A load marks nothing.
LEMMA LoadMarks ==
  ASSUME Types, NEW t \in Threads, ThreadSafe(t),
         LoadStart(t) \/ LoadGiveUp(t) \/ LoadCreate(t) \/ LoadNative(t) \/ LoadLate(t) \/ LoadEnd(t)
  PROVE  MarkStep(t)
  <1>0. ThreadTypes
    BY DEF Types
  <1>1. draining' = draining /\ resizing' = resizing
    BY DEF LoadStart, LoadGiveUp, LoadCreate, LoadNative, LoadLate, LoadEnd, LoadFails
  <1>2. pc[t] \in LoadLabels
    BY DEF LoadStart, LoadGiveUp, LoadCreate, LoadNative, LoadLate, LoadEnd, LoadLabels
  <1>3. call[t].lret \in {Top(t)} \cup LoadBacks
    BY <1>2 DEF ThreadSafe, Safe, FromLoad
  <1>4. \/ \E res : Return(t, call[t].lret, res)
        \/ \E p \in {"unload", "create"} : \E c : GoWith(t, p, c)
        \/ \E p \in {"loading", "late", "loaded"} : Goto(t, p)
    BY DEF LoadStart, LoadGiveUp, LoadCreate, LoadNative, LoadLate, LoadEnd, LoadFails
  <1>5. pc'[t] \in {call[t].lret, "unload", "create", "loading", "late", "loaded"}
    BY <1>0, <1>4, Lands
  <1>6. ({"unload"} \cup LoadLabels) \cap MarkLabels = {}
    BY DEF LoadLabels, MarkLabels, Resizers
  <1> QED BY <1>1, <1>2, <1>3, <1>5, <1>6, BacksUnmarked, Unmarked DEF LoadLabels

\* An unload marks its model while it drains, and takes the mark away on every way out.
LEMMA UnloadMarks ==
  ASSUME Types, Marks, NEW t \in Threads, ThreadSafe(t),
         UnloadStart(t) \/ UnloadGiveUp(t) \/ Drained(t) \/ DrainGiveUp(t) \/ UnloadNative(t)
  PROVE  MarkStep(t)
  <1> DEFINE m == call[t].model
  <1>0. ThreadTypes /\ call[t] \in CallType
    BY DEF Types, ThreadTypes
  <1>1. pc[t] \in UnloadLabels
    BY DEF UnloadStart, UnloadGiveUp, Drained, DrainGiveUp, UnloadNative, UnloadLabels
  <1>2. call[t].ret \notin MarkLabels
    <2>1. call[t].ret \in {Top(t), "create"} \cup UnloadBacks
      BY <1>1 DEF ThreadSafe, Safe, FromUnload
    <2> QED BY <2>1, BacksUnmarked
  <1>3. resizing' = resizing /\ ResizeMark(t) = {}
    BY <1>1 DEF UnloadStart, UnloadGiveUp, Drained, DrainGiveUp, UnloadNative, ResizeMark, Resizers,
       UnloadLabels
  <1>4. CASE UnloadStart(t)
    <2>1. pc[t] = "unload" /\ pc'[t] = "draining" /\ call'[t] = call[t]
          /\ draining' = draining \cup {m}
      BY <1>0, <1>4, Lands DEF UnloadStart
    <2> QED BY <1>3, <2>1 DEF MarkStep, DrainMark, ResizeMark, Resizers
  <1>5. CASE UnloadGiveUp(t)
    <2>1. pc[t] = "unload" /\ pc'[t] = call[t].ret /\ draining' = draining
      BY <1>0, <1>5, Lands DEF UnloadGiveUp
    <2> QED BY <1>2, <1>3, <2>1, Unmarked DEF MarkLabels, Resizers
  <1>6. CASE Drained(t)
    <2> DEFINE c == [call[t] EXCEPT !.moved = backend[m], !.primary = (current = m)]
    <2>1. pc[t] = "draining" /\ GoWith(t, "unloading", c) /\ draining' = draining
      BY <1>6 DEF Drained
    <2>2. c.model = m
      BY <1>0 DEF CallType
    <2> HIDE DEF c
    <2>3. pc'[t] = "unloading" /\ call'[t].model = m
      BY <1>0, <2>1, <2>2, Lands
    <2>4. m \in draining
      BY <2>1 DEF Marks, DrainMark
    <2> QED BY <1>3, <2>1, <2>3, <2>4 DEF MarkStep, DrainMark, ResizeMark, Resizers
  <1>7. CASE DrainGiveUp(t) \/ UnloadNative(t)
    <2>1. /\ pc[t] \in {"draining", "unloading"} /\ draining' = draining \ {m}
          /\ \E res : Return(t, call[t].ret, res)
      BY <1>7 DEF DrainGiveUp, UnloadNative, StopDraining
    <2>2. pc'[t] = call[t].ret
      BY <1>0, <2>1, Lands
    <2> QED BY <1>2, <1>3, <2>1, <2>2 DEF MarkStep, DrainMark, ResizeMark, MarkLabels
  <1> QED BY <1>4, <1>5, <1>6, <1>7

\* The planner marks the model it resizes, and takes the mark away on every way out.
LEMMA PlanMarks ==
  ASSUME Types, Marks, NEW t \in Threads, ThreadSafe(t), PlanNext(t) \/ PlanGiveUp(t)
  PROVE  MarkStep(t)
  <1> DEFINE c == call[t].model
  <1>0. ThreadTypes /\ call[t] \in CallType
    BY DEF Types, ThreadTypes
  <1>1. ASSUME NEW res, PlanReturn(t, res) PROVE pc'[t] \in {"retry", "swapLoad"}
    BY <1>0, <1>1, Lands DEF PlanReturn
  <1>2. /\ MarkLabels = Resizers \cup {"draining", "unloading", "growing"}
        /\ \A p \in {"plan", "reclaim", "reclaimed", "shrink", "evict", "evictGuard", "evicted",
                     "verdict", "unload", "retry", "swapLoad"} : p \notin MarkLabels
    BY DEF MarkLabels, Resizers
  <1>3. pc[t] \in Resizers => c \in resizing
    BY DEF Marks, ResizeMark
  <1>4. CASE PlanGiveUp(t) \/ PlanFits(t) \/ Verdict(t)
    <2>1. /\ draining' = draining /\ resizing' = resizing
          /\ pc[t] \in {"plan", "reclaim", "reclaimed", "shrink", "evict", "verdict"}
          /\ \E res : PlanReturn(t, res)
      BY <1>4 DEF PlanGiveUp, PlanFits, Verdict
    <2> QED BY <1>1, <1>2, <2>1, Unmarked
  <1>5. CASE Plan(t)
    <2>1. /\ draining' = draining /\ resizing' = resizing /\ pc[t] = "plan"
          /\ \/ \E res : PlanReturn(t, res)
             \/ \E d : GoWith(t, "reclaim", d)
      BY <1>5 DEF Plan, PlanRefused
    <2>2. pc'[t] \in {"retry", "swapLoad", "reclaim"}
      BY <1>0, <1>1, <2>1, Lands
    <2> QED BY <1>2, <2>1, <2>2, Unmarked
  <1>6. CASE ReclaimAgain(t) \/ Evicted(t)
    <2>1. /\ draining' = draining /\ resizing' = resizing /\ pc[t] \in {"reclaimed", "evicted"}
          /\ Goto(t, "reclaim") \/ Goto(t, "evict") \/ \E res : PlanReturn(t, res)
      BY <1>6 DEF ReclaimAgain, Evicted
    <2>2. pc'[t] \in {"retry", "swapLoad", "reclaim", "evict"}
      BY <1>0, <1>1, <2>1, Lands
    <2> QED BY <1>2, <2>1, <2>2, Unmarked
  <1>7. CASE EvictPick(t) \/ EvictGuard(t)
    <2>1. /\ draining' = draining /\ resizing' = resizing /\ pc[t] \in {"evict", "evictGuard"}
          /\ \/ Goto(t, "verdict") \/ \E d : GoWith(t, "evictGuard", d) \/ GoWith(t, "unload", d)
             \/ \E res : PlanReturn(t, res)
      BY <1>7 DEF EvictPick, EvictGuard, PlanRefused, CallUnload
    <2>2. pc'[t] \in {"retry", "swapLoad", "verdict", "evictGuard", "unload"}
      BY <1>0, <1>1, <2>1, Lands
    <2> QED BY <1>2, <2>1, <2>2, Unmarked
  \* A mark is set.
  <1>8. ASSUME NEW k, NEW p \in Resizers, NEW d, pc[t] \in {"reclaim", "shrink"},
               GoWith(t, p, d), d.model = k, draining' = draining, resizing' = resizing \cup {k}
        PROVE  MarkStep(t)
    <2>1. pc'[t] = p /\ call'[t].model = k
      BY <1>0, <1>8, Lands
    <2> QED BY <1>8, <2>1 DEF MarkStep, DrainMark, ResizeMark, Resizers
  \* It stays.
  <1>9. ASSUME NEW p \in Resizers, pc[t] \in Resizers, pc'[t] = p, call'[t].model = c,
               draining' = draining, resizing' = resizing
        PROVE  MarkStep(t)
    BY <1>3, <1>9 DEF MarkStep, DrainMark, ResizeMark, Resizers
  \* It is taken away.
  <1>10. ASSUME pc[t] \in Resizers, pc'[t] \notin MarkLabels, draining' = draining,
                resizing' = resizing \ {c}
         PROVE  MarkStep(t)
    <2>1. DrainMark(t) = {} /\ ResizeMark(t) = {c}
      BY <1>10 DEF DrainMark, ResizeMark, Resizers
    <2>2. DrainMark(t)' = {} /\ ResizeMark(t)' = {}
      BY <1>2, <1>10 DEF DrainMark, ResizeMark
    <2> QED BY <1>10, <2>1, <2>2 DEF MarkStep
  <1>11. CASE ReclaimPick(t)
    <2>1. CASE \E k \in Models : /\ resizing' = resizing \cup {k}
                                 /\ GoWith(t, "reclaimGuard", [call[t] EXCEPT
                                      !.model = k, !.tried = @ \cup {k}, !.observed = Fresh])
      <3>1. PICK k \in Models : /\ resizing' = resizing \cup {k}
                                /\ GoWith(t, "reclaimGuard", [call[t] EXCEPT
                                      !.model = k, !.tried = @ \cup {k}, !.observed = Fresh])
        BY <2>1
      <3> DEFINE d == [call[t] EXCEPT !.model = k, !.tried = @ \cup {k}, !.observed = Fresh]
      <3>2. d.model = k
        BY <1>0 DEF CallType
      <3>3. GoWith(t, "reclaimGuard", d) /\ draining' = draining /\ pc[t] = "reclaim"
        BY <1>11, <3>1 DEF ReclaimPick
      <3> HIDE DEF d
      <3>4. "reclaimGuard" \in Resizers
        BY DEF Resizers
      <3> QED BY <1>8, <3>1, <3>2, <3>3, <3>4
    <2>2. CASE /\ (\E res : PlanReturn(t, res)) \/ Goto(t, "shrink")
               /\ resizing' = resizing
      <3>1. pc'[t] \in {"retry", "swapLoad", "shrink"}
        BY <1>0, <1>1, <2>2, Lands
      <3>2. pc[t] = "reclaim" /\ draining' = draining
        BY <1>11 DEF ReclaimPick
      <3> QED BY <1>2, <2>2, <3>1, <3>2, Unmarked
    <2> QED BY <1>11, <2>1, <2>2 DEF ReclaimPick, Reclaimable, OnGpu, Resident
  <1>12. CASE ReclaimGuard(t)
    <2>1. pc[t] = "reclaimGuard" /\ pc[t] \in Resizers /\ "reclaiming" \in Resizers
      BY <1>12 DEF ReclaimGuard, Resizers
    <2>2. CASE PlanRefused(t, {c})
      <3>1. resizing' = resizing \ {c} /\ draining' = draining /\ PlanReturn(t, "busy")
        BY <2>2 DEF PlanRefused
      <3> QED BY <1>1, <1>2, <1>10, <2>1, <3>1
    <2>3. CASE Goto(t, "reclaiming") /\ call' = call /\ draining' = draining /\ resizing' = resizing
      BY <1>0, <1>9, <2>1, <2>3, Lands
    <2> QED BY <1>12, <2>2, <2>3 DEF ReclaimGuard
  <1>13. CASE ReclaimNative(t)
    <2>1. /\ pc[t] = "reclaiming" /\ pc[t] \in Resizers /\ "reclaimWait" \in Resizers
          /\ draining' = draining
      BY <1>13 DEF ReclaimNative, Resizers
    <2>2. \/ Goto(t, "reclaimWait") /\ call' = call /\ resizing' = resizing
          \/ /\ resizing' = resizing \ {c}
             /\ Goto(t, "reclaimed") \/ Goto(t, "reclaim") \/ \E res : PlanReturn(t, res)
      BY <1>13 DEF ReclaimNative, StopResizing
    <2> QED BY <1>0, <1>1, <1>2, <1>9, <1>10, <2>1, <2>2, Lands
  <1>14. CASE ReclaimWait(t)
    <2>1. /\ pc[t] = "reclaimWait" /\ pc[t] \in Resizers
          /\ draining' = draining /\ resizing' = resizing \ {c} /\ Goto(t, "reclaimed")
      BY <1>14 DEF ReclaimWait, Resizers, StopResizing
    <2> QED BY <1>0, <1>2, <1>10, <2>1, Lands
  <1>15. CASE ShrinkPick(t)
    <2>1. CASE \E k \in Models : /\ resizing' = resizing \cup {k}
                                 /\ GoWith(t, "shrinkGuard", [call[t] EXCEPT !.model = k])
      <3>1. PICK k \in Models : /\ resizing' = resizing \cup {k}
                                /\ GoWith(t, "shrinkGuard", [call[t] EXCEPT !.model = k])
        BY <2>1
      <3> DEFINE d == [call[t] EXCEPT !.model = k]
      <3>2. d.model = k
        BY <1>0 DEF CallType
      <3>3. GoWith(t, "shrinkGuard", d) /\ draining' = draining /\ pc[t] = "shrink"
        BY <1>15, <3>1 DEF ShrinkPick
      <3> HIDE DEF d
      <3>4. "shrinkGuard" \in Resizers
        BY DEF Resizers
      <3> QED BY <1>8, <3>1, <3>2, <3>3, <3>4
    <2>2. CASE Goto(t, "evict") /\ resizing' = resizing
      <3>1. pc[t] = "shrink" /\ draining' = draining
        BY <1>15 DEF ShrinkPick
      <3> QED BY <1>0, <1>2, <2>2, <3>1, Lands, Unmarked
    <2> QED BY <1>15, <2>1, <2>2 DEF ShrinkPick, Shrinkable, OnGpu, Resident
  <1>16. CASE ShrinkGuard(t)
    <2>1. pc[t] = "shrinkGuard" /\ pc[t] \in Resizers /\ "shrinking" \in Resizers
      BY <1>16 DEF ShrinkGuard, Resizers
    <2>2. CASE PlanRefused(t, {c})
      <3>1. resizing' = resizing \ {c} /\ draining' = draining /\ PlanReturn(t, "busy")
        BY <2>2 DEF PlanRefused
      <3> QED BY <1>1, <1>2, <1>10, <2>1, <3>1
    <2>3. CASE /\ GoWith(t, "shrinking", [call[t] EXCEPT !.moved = backend[c]])
               /\ draining' = draining /\ resizing' = resizing
      <3> DEFINE d == [call[t] EXCEPT !.moved = backend[c]]
      <3>1. d.model = c
        BY <1>0 DEF CallType
      <3>2. GoWith(t, "shrinking", d)
        BY <2>3
      <3> HIDE DEF d
      <3> QED BY <1>0, <1>9, <2>1, <2>3, <3>1, <3>2, Lands
    <2> QED BY <1>16, <2>2, <2>3 DEF ShrinkGuard
  <1>17. CASE ShrinkNative(t)
    <2>1. /\ pc[t] = "shrinking" /\ pc[t] \in Resizers
          /\ draining' = draining /\ resizing' = resizing \ {c}
          /\ Goto(t, "shrink") \/ Goto(t, "evict")
      BY <1>17 DEF ShrinkNative, Resizers, StopResizing
    <2> QED BY <1>0, <1>2, <1>10, <2>1, Lands
  <1> QED BY <1>4, <1>5, <1>6, <1>7, <1>11, <1>12, <1>13, <1>14, <1>15, <1>16, <1>17 DEF PlanNext

\* A swap itself marks nothing.
LEMMA SwapMarks ==
  ASSUME Types, NEW t \in Threads, ThreadSafe(t),
         \/ SwapShort(t) \/ SwapGiveUp(t) \/ SwapStart(t) \/ Legacy(t)
         \/ SwapLoad(t) \/ SwapLoaded(t) \/ SwapForce(t) \/ SwapRetry(t)
         \/ Restore(t) \/ RestoreLoad(t)
         \/ \E j \in Jobs : Begin(t, j)
  PROVE  MarkStep(t)
  <1>0. ThreadTypes
    BY DEF Types
  <1>1. draining' = draining /\ resizing' = resizing
    BY DEF SwapShort, SwapGiveUp, SwapStart, Legacy, SwapLoad, SwapLoaded, SwapForce, SwapRetry,
       Restore, RestoreLoad, Begin
  <1>2. pc[t] \in SwapLabels \cup {"start"}
    BY DEF SwapShort, SwapGiveUp, SwapStart, Legacy, SwapLoad, SwapLoaded, SwapForce, SwapRetry,
       Restore, RestoreLoad, Begin, SwapLabels
  <1>3. \/ \E res : Return(t, Top(t), res)
        \/ \E p \in {"load", "unload", "plan", "post"} : \E c : GoWith(t, p, c)
        \/ pc' = pc
    <2>1. CASE SwapShort(t) \/ SwapGiveUp(t) \/ SwapStart(t) \/ Legacy(t)
      BY <2>1 DEF SwapShort, SwapGiveUp, SwapStart, Legacy, CallLoad
    <2>2. CASE SwapLoad(t) \/ SwapLoaded(t) \/ SwapForce(t) \/ SwapRetry(t)
      BY <2>2 DEF SwapLoad, SwapLoaded, SwapForce, SwapRetry, CallLoad
    <2>3. CASE Restore(t) \/ RestoreLoad(t)
      BY <2>3 DEF Restore, RestoreLoad, CallLoad
    <2>4. CASE \E j \in Jobs : Begin(t, j)
      <3>1. PICK j \in Jobs : Begin(t, j)
        BY <2>4
      <3>2. j.op \in {"load", "unload", "post"}
        BY <1>0, SetupFields DEF JobType
      <3> QED BY <3>1, <3>2 DEF Begin
    <2> QED BY <2>1, <2>2, <2>3, <2>4
  <1>4. pc'[t] \in {Top(t), "load", "unload", "plan", "post"} \cup SwapLabels \cup {"start"}
    BY <1>0, <1>2, <1>3, Lands
  <1>5. ({Top(t), "load", "unload", "plan", "post"} \cup SwapLabels \cup {"start"}) \cap MarkLabels = {}
    BY BacksUnmarked DEF SwapLabels, MarkLabels, Resizers
  <1> QED BY <1>1, <1>2, <1>4, <1>5, Unmarked

\* A request marks the model it grows, and takes the mark away when it has grown.
LEMMA AdmissionMarks ==
  ASSUME Types, Marks, NEW r \in Requests, ThreadSafe(r), WaiterSafe(r), RequestNext(r)
  PROVE  MarkStep(r)
  <1> DEFINE m == waiter[r].model
  <1>0. ThreadTypes /\ r \in Threads
    BY DEF Types, Threads
  <1>1. ASSUME NEW p, Goto(r, p) PROVE pc'[r] = p
    BY <1>0, <1>1 DEF Goto, ThreadTypes
  <1>2. \A p \in {"start", "queued", "leased", "released", "done", "estimate", "estimating",
                  "estimated", "capacity", "grown", "prepared", "ensure", "swap"} : p \notin MarkLabels
    BY DEF MarkLabels, Resizers
  <1>3. CASE \E a \in Asks : TryAcquire(r, a) \/ Enqueue(r, a)
    <2>1. /\ draining' = draining /\ resizing' = resizing /\ pc[r] = "start"
          /\ \E p \in {"leased", "done", "queued"} : Goto(r, p)
      BY <1>3 DEF TryAcquire, Enqueue, IssueLease, Arrives
    <2> QED BY <1>1, <1>2, <2>1, Unmarked
  <1>4. CASE GiveUp(r) \/ Estimating(r) \/ EstimateLock(r) \/ EstimateNative(r) \/ EstimateReturn(r)
             \/ NotReady(r) \/ PrepareLoad(r) \/ PrepareCapacity(r)
    <2>1. /\ draining' = draining /\ resizing' = resizing
          /\ pc[r] \in {"queued", "estimate", "estimating", "estimated"}
          /\ \E p \in {"done", "queued", "estimate", "estimating", "estimated", "swap", "ensure",
                       "capacity"} : Goto(r, p)
      BY <1>4 DEF GiveUp, Estimating, EstimateLock, EstimateNative, EstimateReturn, NotReady,
         PrepareLoad, PrepareCapacity, Proceeds
    <2> QED BY <1>1, <1>2, <2>1, Unmarked
  <1>5. CASE CapacityReturn(r) \/ LoadReturn(r)
    <2>1. /\ draining' = draining /\ resizing' = resizing
          /\ pc[r] \in {"grown", "prepared"}
          /\ \E p \in {"done", "queued"} : Goto(r, p)
      BY <1>5 DEF CapacityReturn, LoadReturn, TakeResult
    <2> QED BY <1>1, <1>2, <2>1, Unmarked
  <1>6. CASE Grant(r) \/ Release(r)
    <2>1. /\ draining' = draining /\ resizing' = resizing
          /\ pc[r] \in {"queued", "leased", "released"}
          /\ \E p \in {"done", "leased", "released"} : Goto(r, p)
      BY <1>6 DEF Grant, Release, Proceeds, IssueLease
    <2> QED BY <1>1, <1>2, <2>1, Unmarked
  <1>7. CASE CapacityStale(r)
    <2>1. draining' = draining /\ resizing' = resizing /\ pc' = pc /\ pc[r] = "queued"
      BY <1>7 DEF CapacityStale, threadVars, Proceeds
    <2> QED BY <1>2, <2>1, Unmarked
  <1>8. CASE CapacityLock(r)
    <2>1. waiter' = waiter /\ pc[r] = "capacity" /\ draining' = draining
      BY <1>8 DEF CapacityLock, queueVars
    <2>2. CASE Goto(r, "growing") /\ resizing' = resizing \cup {m}
      BY <1>1, <2>1, <2>2 DEF MarkStep, DrainMark, ResizeMark, Resizers
    <2>3. CASE Goto(r, "grown") /\ resizing' = resizing
      BY <1>1, <1>2, <2>1, <2>3, Unmarked
    <2> QED BY <1>8, <2>2, <2>3 DEF CapacityLock
  <1>9. CASE CapacityNative(r)
    <2>1. /\ waiter' = waiter /\ pc[r] = "growing" /\ draining' = draining
          /\ resizing' = resizing \ {m} /\ Goto(r, "grown")
      BY <1>9 DEF CapacityNative, queueVars, StopResizing
    <2> QED BY <1>1, <2>1 DEF MarkStep, DrainMark, ResizeMark, Resizers
  <1> QED BY <1>3, <1>4, <1>5, <1>6, <1>7, <1>8, <1>9 DEF RequestNext

----------------------------------------------------------------------------
(* The inductive invariant. *)

LifeNext(t) ==
    \/ LoadStart(t) \/ LoadGiveUp(t) \/ LoadCreate(t) \/ LoadNative(t) \/ LoadLate(t) \/ LoadEnd(t)
    \/ UnloadStart(t) \/ UnloadGiveUp(t) \/ Drained(t) \/ DrainGiveUp(t) \/ UnloadNative(t)
    \/ PlanNext(t) \/ PlanGiveUp(t)
    \/ SwapShort(t) \/ SwapGiveUp(t) \/ SwapStart(t) \/ Legacy(t)
    \/ SwapLoad(t) \/ SwapLoaded(t) \/ SwapForce(t) \/ SwapRetry(t)
    \/ Restore(t) \/ RestoreLoad(t)

\* A lifecycle call is neither outside acquire_slot nor in its capacity callbacks.
LifeLabels == LoadLabels \cup UnloadLabels \cup PlanLabels \cup SwapLabels
\* A lifecycle step stays within lifecycle labels or returns to the caller.
LEMMA LifeLands ==
  ASSUME Types, NEW t \in Threads, ThreadSafe(t), LifeNext(t)
  PROVE  pc[t] \in LifeLabels /\ pc'[t] \in LifeLabels \cup {Top(t)}
  <1>0. ThreadTypes
    BY DEF Types
  <1>1. CASE LoadStart(t) \/ LoadGiveUp(t) \/ LoadCreate(t) \/ LoadNative(t) \/ LoadLate(t)
             \/ LoadEnd(t)
    <2>1. pc[t] \in LoadLabels
      BY <1>1 DEF LoadStart, LoadGiveUp, LoadCreate, LoadNative, LoadLate, LoadEnd, LoadLabels
    <2>2. call[t].lret \in {Top(t)} \cup LoadBacks
      BY <2>1 DEF ThreadSafe, Safe, FromLoad
    <2>3. \/ \E res : Return(t, call[t].lret, res)
          \/ \E p \in {"unload", "create"} : \E c : GoWith(t, p, c)
          \/ \E p \in {"loading", "late", "loaded"} : Goto(t, p)
      BY <1>1 DEF LoadStart, LoadGiveUp, LoadCreate, LoadNative, LoadLate, LoadEnd, LoadFails
    <2>4. pc'[t] \in {call[t].lret, "unload", "create", "loading", "late", "loaded"}
      BY <1>0, <2>3, Lands
    <2> QED BY <2>1, <2>2, <2>4 DEF LifeLabels, LoadLabels, UnloadLabels, SwapLabels, LoadBacks
  <1>2. CASE UnloadStart(t) \/ UnloadGiveUp(t) \/ Drained(t) \/ DrainGiveUp(t) \/ UnloadNative(t)
    <2>1. pc[t] \in UnloadLabels
      BY <1>2 DEF UnloadStart, UnloadGiveUp, Drained, DrainGiveUp, UnloadNative, UnloadLabels
    <2>2. call[t].ret \in {Top(t), "create"} \cup UnloadBacks
      BY <2>1 DEF ThreadSafe, Safe, FromUnload
    <2>3. \/ \E res : Return(t, call[t].ret, res)
          \/ \E c : GoWith(t, "unloading", c)
          \/ Goto(t, "draining")
      BY <1>2 DEF UnloadStart, UnloadGiveUp, Drained, DrainGiveUp, UnloadNative
    <2>4. pc'[t] \in {call[t].ret, "draining", "unloading"}
      BY <1>0, <2>3, Lands
    <2> QED BY <2>1, <2>2, <2>4
        DEF LifeLabels, LoadLabels, UnloadLabels, SwapLabels, PlanLabels, UnloadBacks
  <1>3. CASE PlanNext(t) \/ PlanGiveUp(t)
    <2>1. ASSUME NEW res, PlanReturn(t, res) PROVE pc'[t] \in {"retry", "swapLoad"}
      BY <1>0, <2>1, Lands DEF PlanReturn
    <2>2. CASE PlanGiveUp(t) \/ Plan(t) \/ PlanFits(t) \/ ReclaimPick(t) \/ ReclaimGuard(t)
               \/ ReclaimNative(t) \/ ReclaimWait(t) \/ ReclaimAgain(t)
      <3>1. /\ pc[t] \in PlanLabels
            /\ \/ \E res : PlanReturn(t, res)
               \/ \E p \in PlanLabels : Goto(t, p)
        BY <2>2 DEF PlanGiveUp, Plan, PlanFits, ReclaimPick, ReclaimGuard, ReclaimNative,
           ReclaimWait, ReclaimAgain, PlanRefused, GoWith, PlanLabels
      <3> QED BY <1>0, <2>1, <3>1, Lands DEF LifeLabels, SwapLabels
    <2>3. CASE ShrinkPick(t) \/ ShrinkGuard(t) \/ ShrinkNative(t) \/ EvictPick(t) \/ EvictGuard(t)
               \/ Evicted(t) \/ Verdict(t)
      <3>1. /\ pc[t] \in PlanLabels
            /\ \/ \E res : PlanReturn(t, res)
               \/ \E p \in PlanLabels \cup {"unload"} : Goto(t, p)
        BY <2>3 DEF ShrinkPick, ShrinkGuard, ShrinkNative, EvictPick, EvictGuard, Evicted, Verdict,
           PlanRefused, CallUnload, GoWith, PlanLabels
      <3> QED BY <1>0, <2>1, <3>1, Lands DEF LifeLabels, SwapLabels, UnloadLabels
    <2> QED BY <1>3, <2>2, <2>3 DEF PlanNext
  <1>4. CASE \/ SwapShort(t) \/ SwapGiveUp(t) \/ SwapStart(t) \/ Legacy(t)
             \/ SwapLoad(t) \/ SwapLoaded(t) \/ SwapForce(t) \/ SwapRetry(t)
             \/ Restore(t) \/ RestoreLoad(t)
    <2>1. pc[t] \in SwapLabels
      BY <1>4 DEF SwapShort, SwapGiveUp, SwapStart, Legacy, SwapLoad, SwapLoaded, SwapForce, SwapRetry,
         Restore, RestoreLoad, SwapLabels
    <2>2. \/ \E res : Return(t, Top(t), res)
          \/ \E p \in {"load", "unload", "plan"} : \E c : GoWith(t, p, c)
          \/ pc' = pc
      <3>1. CASE SwapShort(t) \/ SwapGiveUp(t) \/ SwapStart(t) \/ Legacy(t)
        BY <3>1 DEF SwapShort, SwapGiveUp, SwapStart, Legacy, CallLoad
      <3>2. CASE SwapLoad(t) \/ SwapLoaded(t) \/ SwapForce(t) \/ SwapRetry(t)
        BY <3>2 DEF SwapLoad, SwapLoaded, SwapForce, SwapRetry, CallLoad
      <3>3. CASE Restore(t) \/ RestoreLoad(t)
        BY <3>3 DEF Restore, RestoreLoad, CallLoad
      <3> QED BY <1>4, <3>1, <3>2, <3>3
    <2>3. pc'[t] \in {Top(t), "load", "unload", "plan"} \cup SwapLabels
      BY <1>0, <2>1, <2>2, Lands
    <2> QED BY <2>1, <2>3 DEF LifeLabels, LoadLabels, UnloadLabels, PlanLabels
  <1> QED BY <1>1, <1>2, <1>3, <1>4 DEF LifeNext

\* Every step of a lifecycle call keeps what the threads rely on.
LEMMA LifeGood ==
  ASSUME ThreadInv, NEW t \in Threads, LifeNext(t) \/ \E j \in Jobs : Begin(t, j)
  PROVE  Good(t)
  <1>0. Types /\ ThreadTypes /\ Marks /\ ThreadSafe(t) /\ (t \in Requests => WaiterSafe(t))
    BY DEF ThreadInv, Types
  <1>1. ThreadGood(t)
    <2>1. CASE \E j \in Jobs : Begin(t, j)
      BY <1>0, <2>1, BeginThreads DEF Begin
    <2>2. CASE LifeNext(t)
      BY <1>0, <2>2, LoadThreads, UnloadThreads, PlanThreads, SwapBeginThreads, SwapThreads DEF LifeNext
    <2> QED BY <2>1, <2>2
  <1>2. DataTypes'
    BY <1>0, LoadData, UnloadData, PlanData, SwapData DEF LifeNext
  <1>3. MarkStep(t)
    BY <1>0, LoadMarks, UnloadMarks, PlanMarks, SwapMarks DEF LifeNext
  <1>4. waiter' = waiter
    <2>1. CASE LoadStart(t) \/ LoadGiveUp(t) \/ LoadCreate(t) \/ LoadNative(t) \/ LoadLate(t)
               \/ LoadEnd(t) \/ UnloadStart(t) \/ UnloadGiveUp(t) \/ Drained(t) \/ DrainGiveUp(t)
               \/ UnloadNative(t)
      BY <2>1 DEF LoadStart, LoadGiveUp, LoadCreate, LoadNative, LoadLate, LoadEnd, LoadFails,
         UnloadStart, UnloadGiveUp, Drained, DrainGiveUp, UnloadNative, untouched, queueVars
    <2>2. CASE PlanNext(t) \/ PlanGiveUp(t)
      BY <2>2 DEF PlanNext, PlanGiveUp, Plan, PlanFits, ReclaimPick, ReclaimGuard, ReclaimNative,
         ReclaimWait, ReclaimAgain, ShrinkPick, ShrinkGuard, ShrinkNative, EvictPick, EvictGuard,
         Evicted, Verdict, PlanRefused, untouched, queueVars
    <2>3. CASE \/ SwapShort(t) \/ SwapGiveUp(t) \/ SwapStart(t) \/ Legacy(t)
               \/ SwapLoad(t) \/ SwapLoaded(t) \/ SwapForce(t) \/ SwapRetry(t)
               \/ Restore(t) \/ RestoreLoad(t) \/ \E j \in Jobs : Begin(t, j)
      BY <2>3 DEF SwapShort, SwapGiveUp, SwapStart, Legacy, SwapLoad, SwapLoaded, SwapForce, SwapRetry,
         Restore, RestoreLoad, Begin, untouched, queueVars
    <2> QED BY <2>1, <2>2, <2>3 DEF LifeNext
  <1>5. ASSUME t \in Requests PROVE WaiterSafe(t)'
    <2>1. LifeNext(t)
      BY <1>5, CoordinatorAssumption DEF Begin
    <2>2. pc[t] \in LifeLabels /\ pc'[t] \in LifeLabels \cup {"prepared"}
      BY <1>0, <1>5, <2>1, LifeLands DEF Top
    <2>3. pc[t] \notin Outside /\ pc'[t] \notin Measured
      BY <2>2 DEF LifeLabels, LoadLabels, UnloadLabels, PlanLabels, SwapLabels, Outside, Measured
    <2>4. Asked(waiter[t]) /\ (waiter[t].demandPrepared => waiter[t].demand > 0)
      BY <1>0, <1>5, <2>3 DEF WaiterSafe
    <2>5. Asks' = Asks
      BY <1>1 DEF ThreadGood, Asks
    <2> QED BY <1>4, <2>3, <2>4, <2>5 DEF WaiterSafe, Asked
  <1> QED BY <1>1, <1>2, <1>3, <1>4, <1>5 DEF Good, ThreadGood, Types, Others

\* Every step of a request keeps what every thread relies on.
LEMMA AdmissionGood ==
  ASSUME ThreadInv, NEW r \in Requests, RequestNext(r)
  PROVE  Good(r)
  <1>0. Types /\ Marks /\ ThreadSafe(r) /\ WaiterSafe(r)
    BY DEF ThreadInv, Threads
  <1>1. ThreadGood(r) /\ WaiterGood(r) /\ DataTypes' /\ MarkStep(r)
    BY <1>0, AdmissionThreads, AdmissionWaiters, AdmissionData, AdmissionMarks
  <1> QED BY <1>1 DEF Good, ThreadGood, WaiterGood, Types, Others

\* No two threads own the same mark: a drain holds the lock of its model, a
\* resize swap_mutex_.
LEMMA OwnMarks ==
  ASSUME Types, NEW s \in Threads, NEW t \in Threads, s # t, ThreadSafe(s), ThreadSafe(t)
  PROVE  /\ DrainMark(s) \cap DrainMark(t) = {}
         /\ ResizeMark(s) = {} \/ ResizeMark(t) = {}
  <1>1. Holds(s) \cap Holds(t) = {}
    BY DEF Holds
  <1>2. ASSUME NEW u \in {s, t}
        PROVE  /\ pc[u] \in {"draining", "unloading"} => LockOf(call[u].model) \in Holds(u)
               /\ pc[u] \in Resizers \cup {"growing"} => "swap" \in Holds(u)
    BY <1>2 DEF ThreadSafe, Safe, Inside, SwapHeld, Resizers, PlanLabels
  <1> QED BY <1>1, <1>2 DEF DrainMark, ResizeMark

\* What a good step of one thread does to the invariant.
LEMMA GoodKeeps ==
  ASSUME ThreadInv, NEW t \in Threads, Good(t)
  PROVE  ThreadInv'
  <1>0. Types /\ Types' /\ setup' = setup /\ \A s \in Threads : ThreadSafe(s)
    BY DEF ThreadInv, Good, Others
  <1>1. ASSUME NEW s \in Threads PROVE ThreadSafe(s)'
    <2>1. CASE s = t
      BY <2>1 DEF Good
    <2>2. CASE s # t
      <3>1. pc'[s] = pc[s] /\ call'[s] = call[s] /\ Holds(s) \subseteq Holds(s)'
        BY <2>2 DEF Good, Others, Holds
      <3>2. Safe(s, pc[s], call[s], Holds(s))
        BY <1>0 DEF ThreadSafe
      <3> QED BY <1>0, <3>1, <3>2, Enter
    <2> QED BY <2>1, <2>2
  <1>2. ASSUME NEW r \in Requests PROVE WaiterSafe(r)'
    <2>1. CASE r = t
      BY <2>1 DEF Good
    <2>2. CASE r # t
      <3>1. pc'[r] = pc[r] /\ waiter'[r] = waiter[r] /\ WaiterSafe(r)
        BY <2>2 DEF Good, Others, ThreadInv, Threads
      <3>2. Asks' = Asks
        BY <1>0 DEF Asks
      <3> QED BY <3>1, <3>2 DEF WaiterSafe, Asked
    <2> QED BY <2>1, <2>2
  <1>3. Marks'
    <2>1. ASSUME NEW s \in Threads, s # t
          PROVE  DrainMark(s)' = DrainMark(s) /\ ResizeMark(s)' = ResizeMark(s)
      <3>1. pc'[s] = pc[s] /\ call'[s] = call[s] /\ (s \in Requests => waiter'[s] = waiter[s])
        BY <2>1 DEF Good, Others
      <3>2. pc[s] = "growing" => s \in Requests
        BY <1>0 DEF ThreadSafe, Safe
      <3> QED BY <3>1, <3>2 DEF DrainMark, ResizeMark
    <2>2. ASSUME NEW s \in Threads, s # t
          PROVE  DrainMark(s) \cap DrainMark(t) = {} /\ (ResizeMark(s) = {} \/ ResizeMark(t) = {})
      BY <1>0, <2>2, OwnMarks
    <2>3. draining = UNION {DrainMark(s) : s \in Threads}
          /\ draining' = (draining \ DrainMark(t)) \cup DrainMark(t)'
      BY DEF ThreadInv, Marks, Good, MarkStep
    <2>4. resizing = UNION {ResizeMark(s) : s \in Threads}
          /\ resizing' = (resizing \ ResizeMark(t)) \cup ResizeMark(t)'
      BY DEF ThreadInv, Marks, Good, MarkStep
    <2>5. draining' = UNION {DrainMark(s)' : s \in Threads}
      BY <2>1, <2>2, <2>3
    <2>6. resizing' = UNION {ResizeMark(s)' : s \in Threads}
      BY <2>1, <2>2, <2>4
    <2> QED BY <2>5, <2>6 DEF Marks, Threads
  <1> QED BY <1>0, <1>1, <1>2, <1>3 DEF ThreadInv, Threads

\* A step that no thread takes.
LEMMA StillKeeps ==
  ASSUME ThreadInv, DataTypes', setup' = setup, tracker' = tracker, UNCHANGED threadVars,
         draining' = draining, resizing' = resizing, waiter' = waiter
  PROVE  ThreadInv'
  <1>0. pc' = pc /\ call' = call /\ owner' = owner /\ Types
    BY DEF threadVars, ThreadInv
  <1>1. Types'
    BY <1>0 DEF Types, ThreadTypes
  <1>2. ASSUME NEW s \in Threads PROVE ThreadSafe(s)'
    <2>1. Holds(s)' = Holds(s)
      BY <1>0 DEF Holds
    <2>2. Safe(s, pc[s], call[s], Holds(s))
      BY DEF ThreadInv, ThreadSafe
    <2> QED BY <1>0, <2>1, <2>2, Enter
  <1>3. ASSUME NEW r \in Requests PROVE WaiterSafe(r)'
    BY <1>0 DEF ThreadInv, WaiterSafe, Asked, Asks
  <1>4. Marks'
    BY <1>0 DEF ThreadInv, Marks, DrainMark, ResizeMark
  <1> QED BY <1>1, <1>2, <1>3, <1>4 DEF ThreadInv, Threads

\* SwapTracker keeps the invariant, the step that starts the worker included.
LEMMA TrackerKeeps ==
  ASSUME ThreadInv, TrackerNext
  PROVE  ThreadInv'
  <1>0. /\ Types /\ ThreadTypes /\ TrackerGood /\ UNCHANGED quiet
    <2>1. Types /\ TrackerGood
      BY TrackerThreads DEF ThreadInv
    <2>2. UNCHANGED quiet
      BY DEF TrackerNext, SwapEnds, EnsureReady, EnsureGiveUp, EnsureRefused, EnsureSidecar,
         EnsureStart, EnsureAwait, EnsureCheck, PostSwap, Ensured, StartWorker
    <2> QED BY <2>1, <2>2 DEF Types
  <1>1. /\ UNCHANGED residencyVars /\ UNCHANGED leaseVars /\ UNCHANGED queueVars
        /\ UNCHANGED genVars /\ setup' = setup /\ draining' = draining /\ resizing' = resizing
    BY <1>0 DEF quiet
  <1>2. DataTypes'
    <2>1. ResidencyTypes
      BY <1>0, <1>1, SameResidency
    <2>2. TableSteps
      BY <1>1 DEF TableSteps, StampSteps, leaseVars, queueVars, genVars
    <2> QED BY <1>0, <2>1, <2>2, TablesTyped
  <1>3. waiter' = waiter
    BY <1>1 DEF queueVars
  <1>4. ASSUME NEW r \in Requests
        PROVE  \/ pc'[r] = pc[r]
               \/ /\ pc[r] \in {"ensure", "await", "check"}
                  /\ pc'[r] \in {"ensure", "await", "check", "prepared", "load"}
    <2>0. r \in Threads /\ r # Worker /\ r \notin Operators
      BY CoordinatorAssumption DEF Threads
    <2>1. CASE SwapEnds
      BY <1>0, <2>0, <2>1 DEF SwapEnds, GoWith, Goto, ThreadTypes
    <2>2. CASE \E t \in Operators : PostSwap(t)
      <3>1. PICK t \in Operators : PostSwap(t)
        BY <2>2
      <3>2. \/ pc' = [pc EXCEPT ![t] = "finish", ![Worker] = "swap"]
            \/ pc' = [pc EXCEPT ![t] = "finish"]
        BY <3>1 DEF PostSwap, StartWorker, Goto
      <3> QED BY <1>0, <2>0, <3>1, <3>2 DEF ThreadTypes
    <2>3. CASE \E s \in Requests : EnsureReady(s) \/ EnsureGiveUp(s) \/ EnsureRefused(s)
                           \/ EnsureSidecar(s) \/ EnsureStart(s) \/ EnsureAwait(s) \/ EnsureCheck(s)
      <3>1. PICK s \in Requests : EnsureReady(s) \/ EnsureGiveUp(s) \/ EnsureRefused(s)
                           \/ EnsureSidecar(s) \/ EnsureStart(s) \/ EnsureAwait(s) \/ EnsureCheck(s)
        BY <2>3
      <3>2. /\ pc[s] \in {"ensure", "await", "check"}
            /\ \/ pc' = [pc EXCEPT ![s] = "await", ![Worker] = "swap"]
               \/ \E p \in {"ensure", "await", "check", "prepared", "load"} :
                     pc' = [pc EXCEPT ![s] = p]
        BY <3>1 DEF EnsureReady, EnsureGiveUp, EnsureRefused, EnsureSidecar, EnsureStart,
           EnsureAwait, EnsureCheck, Ensured, StartWorker, GoWith, Goto, CallLoad
      <3> QED BY <1>0, <2>0, <3>2 DEF ThreadTypes
    <2> QED BY <2>1, <2>2, <2>3 DEF TrackerNext
  <1>5. ASSUME NEW r \in Requests PROVE WaiterSafe(r)'
    BY <1>1, <1>3, <1>4 DEF ThreadInv, WaiterSafe, Asked, Asks, Outside, Measured
  <1>6. ASSUME NEW s \in Threads
        PROVE  DrainMark(s)' = DrainMark(s) /\ ResizeMark(s)' = ResizeMark(s)
    <2>1. CASE pc'[s] = pc[s] /\ call'[s] = call[s]
      BY <1>3, <2>1 DEF DrainMark, ResizeMark
    <2>2. CASE {pc[s], pc'[s]} \cap MarkLabels = {}
      BY <2>2 DEF DrainMark, ResizeMark, MarkLabels
    <2> QED BY <1>0, <2>1, <2>2 DEF TrackerGood
  <1>7. Marks'
    <2>1. draining' = UNION {DrainMark(s)' : s \in Threads}
      BY <1>1, <1>6 DEF ThreadInv, Marks
    <2>2. resizing' = UNION {ResizeMark(s)' : s \in Threads}
      BY <1>1, <1>6 DEF ThreadInv, Marks
    <2> QED BY <2>1, <2>2 DEF Marks, Threads
  <1> QED BY <1>0, <1>2, <1>5, <1>7 DEF TrackerGood, ThreadInv, Types, Threads

\* Failures, telemetry, time and voice sessions keep the invariant.
LEMMA OutsideKeeps ==
  ASSUME ThreadInv,
         \/ \E m \in Models : Sicken(m) \/ HoldLapses(m)
         \/ \E u \in Samples : Observe(u)
         \/ Lapse \/ Tick \/ Sessions \/ Finished \/ UNCHANGED vars
  PROVE  ThreadInv'
  <1>0. Types /\ ThreadTypes
    BY DEF ThreadInv, Types
  <1>1. /\ setup' = setup /\ tracker' = tracker /\ UNCHANGED threadVars
        /\ draining' = draining /\ resizing' = resizing /\ waiter' = waiter
        /\ UNCHANGED leaseVars
    BY DEF Sicken, HoldLapses, Observe, Lapse, Tick, Sessions, Finished, vars, threadVars, leaseVars,
       queueVars, otherVars
  <1>2. DataTypes'
    <2>1. /\ Primaries' = Primaries /\ Samples' = Samples /\ LeaseIds' = LeaseIds
          /\ MaxLeaseId' = MaxLeaseId
      BY <1>1 DEF Primaries, Primary, Info, Samples, LeaseIds, MaxLeaseId
    <2>2. backend' \in [Models -> Instance]
      <3>1. CASE \E m \in Models : Sicken(m)
        <4>1. PICK m \in Models : backend' = [backend EXCEPT ![m].healthy = FALSE]
          BY <3>1 DEF Sicken
        <4>2. ASSUME NEW b \in Instance PROVE [b EXCEPT !.healthy = FALSE] \in Instance
          BY DEF Instance
        <4> QED BY <1>0, <4>1, <4>2 DEF Types, DataTypes
      <3>2. CASE backend' = backend
        BY <1>0, <3>2 DEF Types, DataTypes
      <3> QED BY <3>1, <3>2 DEF HoldLapses, Observe, Lapse, Tick, Sessions, Finished, vars, residencyVars
    <2>3. current' = current /\ (sample' \in Samples \cup {-1})
      BY <1>0 DEF Sicken, HoldLapses, Observe, Lapse, Tick, Sessions, Finished, vars, residencyVars,
         Types, DataTypes
    <2>4. stamp' = stamp \/ stamp' = [r \in Requests |-> "none"]
      BY DEF Sicken, HoldLapses, Observe, Lapse, Tick, Sessions, Finished, vars, genVars, Bump
    <2>5. clock' \in Nat
      <3>1. clock' = clock \/ clock' = clock + 1
        BY DEF Sicken, HoldLapses, Observe, Lapse, Tick, Sessions, Finished, vars, queueVars
      <3> QED BY <1>0, <3>1 DEF Types, DataTypes
    <2>6. stamp' \in [Requests -> {"none", "before", "parked"}]
      BY <1>0, <2>4 DEF Types, DataTypes
    <2> QED BY <1>0, <1>1, <2>1, <2>2, <2>3, <2>5, <2>6 DEF Types, DataTypes, leaseVars
  <1> QED BY <1>1, <1>2, StillKeeps

\* Every step keeps the invariant.
LEMMA ThreadInvStep == ThreadInv /\ [Next]_vars => ThreadInv'
  <1> SUFFICES ASSUME ThreadInv, [Next]_vars PROVE ThreadInv'
    OBVIOUS
  <1>1. CASE AdmissionNext
    <2>1. \E r \in Requests : RequestNext(r)
      BY <1>1 DEF AdmissionNext, RequestNext
    <2>2. PICK r \in Requests : RequestNext(r)
      BY <2>1
    <2>3. Good(r) /\ r \in Threads
      BY <2>2, AdmissionGood DEF Threads
    <2> QED BY <2>3, GoodKeeps
  <1>2. CASE LifecycleNext
    <2>1. \E t \in Threads : LifeNext(t) \/ \E j \in Jobs : Begin(t, j)
      BY <1>2 DEF LifecycleNext, LifeNext, Threads
    <2>2. PICK t \in Threads : LifeNext(t) \/ \E j \in Jobs : Begin(t, j)
      BY <2>1
    <2> QED BY <2>2, LifeGood, GoodKeeps
  <1>3. CASE TrackerNext
    BY <1>3, TrackerKeeps
  <1>4. CASE \/ \E m \in Models : Sicken(m) \/ HoldLapses(m)
             \/ \E u \in Samples : Observe(u)
             \/ Lapse \/ Tick \/ Sessions \/ Finished \/ UNCHANGED vars
    BY <1>4, OutsideKeeps
  <1> QED BY <1>1, <1>2, <1>3, <1>4 DEF Next

\* The process starts in a state of the invariant.
LEMMA ThreadInvInit == Init => ThreadInv
  <1> SUFFICES ASSUME Init PROVE ThreadInv
    OBVIOUS
  <1>0. \A t \in Threads : pc[t] = "start" /\ call[t] = NoCall
    BY DEF Init
  <1>1. ThreadTypes
    <2>1. "start" \in Labels /\ "ok" \in Results /\ NoModel \in Names /\ Worker \in Threads
      BY DEF Labels, Results, Names, Threads
    <2>2. tracker \in [busy : BOOLEAN, target : Names, last : Results] /\ ~tracker.busy
      BY <2>1 DEF Init
    <2>3. pc \in [Threads -> Labels] /\ pc[Worker] = "start"
      BY <2>1 DEF Init
    <2>4. call \in [Threads -> CallType]
      BY NoCallType DEF Init
    <2> QED BY <2>2, <2>3, <2>4 DEF Init, ThreadTypes
  <1>2. MaxLeaseId \in Nat /\ \A m \in Models : Info[m] \in InfoType
    BY <1>1, SetupFields
  <1>3. DataTypes
    <2>1. backend \in [Models -> Instance]
      <3>1. ASSUME NEW m \in Models
            PROVE  NoBackend \in Instance /\ LoadedBackend(m, FreshBackend(m)) \in Instance
        <4>1. NoBackend \in Instance
          BY DEF NoBackend, Instance
        <4>2. FreshBackend(m) \in Instance
          BY <1>1, <4>1, InstanceTypes
        <4> QED BY <1>1, <4>1, <4>2, InstanceTypes
      <3> QED BY <3>1 DEF Init
    <2>2. current \in Primaries
      BY DEF Init, Selections, Primaries
    <2>3. /\ leases \in [LeaseIds -> LeaseType] /\ waiter \in [Requests -> WaiterType]
      BY NoLeaseType, NoWaiterType DEF Init
    <2>4. nextLease \in 1 .. MaxLeaseId + 1
      BY <1>2 DEF Init
    <2> QED BY <2>1, <2>2, <2>3, <2>4 DEF Init, DataTypes
  <1>4. ASSUME NEW t \in Threads PROVE ThreadSafe(t)
    <2>1. Sound(NoCall)
      BY <1>2, CoordinatorAssumption DEF Sound, NoCall
    <2>2. Safe(t, "start", NoCall, Holds(t))
      BY <2>1, Relies DEF Quiet
    <2> QED BY <1>0, <2>2 DEF ThreadSafe
  <1>5. ASSUME NEW r \in Requests PROVE WaiterSafe(r)
    <2>1. pc[r] = "start" /\ waiter[r] = NoWaiter
      BY <1>0 DEF Init, Threads
    <2> QED BY <2>1 DEF WaiterSafe, Outside, Measured, NoWaiter
  <1>6. Marks
    <2>1. \A t \in Threads : DrainMark(t) = {} /\ ResizeMark(t) = {}
      BY <1>0 DEF DrainMark, ResizeMark, Resizers
    <2> QED BY <2>1 DEF Marks, Init
  <1> QED BY <1>1, <1>3, <1>4, <1>5, <1>6 DEF ThreadInv, Types

\* Locks, marks and types hold in every reachable state, whatever the models,
\* the threads and the configurations.
THEOREM ThreadsSafe == Spec => []ThreadInv
  BY ThreadInvInit, ThreadInvStep, PTL DEF Spec

----------------------------------------------------------------------------
(* What follows from it. *)

\* FlagsOwned, in one state.
LEMMA MarksOwned == ThreadInv => FlagsOwned
  <1> SUFFICES ASSUME ThreadInv PROVE FlagsOwned
    OBVIOUS
  <1> DEFINE drains == {t \in Threads : pc[t] \in {"draining", "unloading"}}
             resizes == {t \in Threads : pc[t] \in Resizers}
             grows == {t \in Threads : pc[t] \in {"growing"}}
             users == resizes \cup grows
  <1>0. Types /\ \A t \in Threads : ThreadSafe(t)
    BY DEF ThreadInv
  <1>1. draining = {call[t].model : t \in drains}
    BY DEF ThreadInv, Marks, DrainMark
  <1>2. resizing = {call[t].model : t \in resizes} \cup {waiter[t].model : t \in grows}
    <2>1. resizing = UNION {ResizeMark(t) : t \in Threads}
      BY DEF ThreadInv, Marks
    <2>2. \A t \in resizes : ResizeMark(t) = {call[t].model}
      BY DEF ResizeMark
    <2>3. \A t \in grows : ResizeMark(t) = {waiter[t].model}
      BY DEF ResizeMark, Resizers
    <2>4. \A t \in Threads \ users : ResizeMark(t) = {}
      BY DEF ResizeMark
    <2> HIDE DEF resizes, grows
    <2>5. resizes \subseteq Threads /\ grows \subseteq Threads
      BY DEF resizes, grows
    <2> QED BY <2>1, <2>2, <2>3, <2>4, <2>5
  <1>3. Cardinality(draining) = Cardinality(drains)
    <2>1. \A t \in drains : LockOf(call[t].model) \in Holds(t)
      BY <1>0 DEF ThreadSafe, Safe, Inside
    <2>2. \A s, t \in drains : s # t => LockOf(call[s].model) # LockOf(call[t].model)
      BY <2>1 DEF Holds
    <2>3. \A t \in drains : LockOf(call[t].model) \in Locks
      BY <2>1 DEF Holds
    <2> DEFINE f == [t \in drains |-> LockOf(call[t].model)]
               g == [t \in drains |-> call[t].model]
    <2>4. f \in Injection(drains, Locks)
      BY <2>2, <2>3 DEF Injection, IsInjective
    <2>5. IsFiniteSet(Locks)
      <3>1. IsFiniteSet({"swap"})
        BY FS_Singleton
      <3>2. IsFiniteSet({"swap"} \cup {"sidecar"})
        BY <3>1, FS_AddElement
      <3>3. {"swap"} \cup {"sidecar"} = Locks
        BY DEF Locks
      <3> QED BY <3>2, <3>3
    <2> HIDE DEF f
    <2>6. IsFiniteSet(drains)
      BY <2>4, <2>5, FS_Injection
    <2>7. g \in Bijection(drains, draining)
      BY <1>1, <2>2 DEF Bijection, Injection, Surjection, IsInjective
    <2> HIDE DEF g, drains
    <2>8. ExistsBijection(drains, draining)
      BY <2>7 DEF ExistsBijection
    <2> QED BY <2>6, <2>8, FS_Bijection
  <1>4. Cardinality(resizing) = Cardinality(users)
    <2>1. \A t \in users : "swap" \in Holds(t)
      BY <1>0 DEF ThreadSafe, Safe, SwapHeld, Resizers, PlanLabels
    <2>2. \A s, t \in users : s = t
      BY <2>1 DEF Holds
    <2>3. CASE users = {}
      BY <1>2, <2>3
    <2>4. CASE users # {}
      <3>1. PICK t : users = {t}
        BY <2>2, <2>4
      <3>2. \E x : resizing = {x}
        <4>1. resizes \subseteq {t} /\ grows \subseteq {t} /\ resizes \cap grows = {} /\ users = {t}
          BY <3>1 DEF Resizers
        <4> HIDE DEF resizes, grows
        <4>2. (resizes = {t} /\ grows = {}) \/ (resizes = {} /\ grows = {t})
          BY <4>1
        <4>3. CASE resizes = {t} /\ grows = {}
          <5>1. resizing = {call[t].model}
            BY <1>2, <4>3
          <5> QED BY <5>1
        <4>4. CASE resizes = {} /\ grows = {t}
          <5>1. resizing = {waiter[t].model}
            BY <1>2, <4>4
          <5> QED BY <5>1
        <4> QED BY <4>2, <4>3, <4>4
      <3> QED BY <3>1, <3>2, FS_Singleton
    <2> QED BY <2>3, <2>4
  <1> QED BY <1>1, <1>2, <1>3, <1>4 DEF FlagsOwned, Resizers

\* Every draining or resizing mark belongs to exactly one running lifecycle call,
\* which takes it away when it ends: no path of unload, resize, reclaim or
\* capacity growth leaves a mark behind, and none erases another one's.
THEOREM FlagsAlwaysOwned == Spec => []FlagsOwned
  BY ThreadsSafe, MarksOwned, PTL

\* Sidecars do not share the code paths that take swap_mutex_ for GPU models:
\* none is served by llama.cpp, and no request states a context demand for one.
SidecarsApart ==
    /\ \A m \in Models : Sidecar(m) => Info[m].runtime # "llama"
    /\ \A a \in Asks : Sidecar(a.model) => a.demand = 0

\* A thread inside a native call holds the lifecycle lock of the model it works on.
LEMMA NativeLocked ==
  ASSUME ThreadInv, SidecarsApart, NEW t \in Native
  PROVE  LockOf(NativeModel(t)) \in Holds(t)
  <1>0. t \in Threads /\ ThreadSafe(t) /\ ThreadTypes
    BY DEF Native, ThreadInv, Types
  <1>1. CASE pc[t] \in {"loading", "late", "unloading"}
    BY <1>0, <1>1 DEF NativeModel, ThreadSafe, Safe, Inside
  <1>2. CASE pc[t] \in {"reclaiming", "shrinking"}
    <2>1. /\ "swap" \in Holds(t) /\ call[t].model \in Models
          /\ Info[call[t].model].runtime = "llama"
      BY <1>0, <1>2 DEF ThreadSafe, Safe, SwapHeld, PlanLabels, Resizers, OnModel
    <2>2. LockOf(call[t].model) = "swap"
      BY <2>1 DEF SidecarsApart, LockOf
    <2> QED BY <1>2, <2>1, <2>2 DEF NativeModel
  <1>3. CASE pc[t] \in {"growing", "estimating"}
    <2>1. "swap" \in Holds(t) /\ t \in Requests
      BY <1>0, <1>3 DEF ThreadSafe, Safe, SwapHeld
    <2>2. Asked(waiter[t]) /\ waiter[t].demand > 0
      BY <1>3, <2>1 DEF ThreadInv, WaiterSafe, Outside, Measured
    <2>3. LockOf(waiter[t].model) = "swap"
      BY <2>2 DEF Asked, SidecarsApart, LockOf
    <2> QED BY <1>3, <2>1, <2>3 DEF NativeModel
  <1> QED BY <1>1, <1>2, <1>3 DEF Native

\* So native calls do not overlap, except one on a sidecar with one on a GPU model.
LEMMA NativeApart == ThreadInv /\ SidecarsApart => NativeSerialized
  <1> SUFFICES ASSUME ThreadInv, SidecarsApart, NEW s \in Native, NEW t \in Native, s # t
               PROVE  /\ NativeModel(s) # NativeModel(t)
                      /\ Sidecar(NativeModel(s)) \/ Sidecar(NativeModel(t))
    BY DEF NativeSerialized
  <1>1. LockOf(NativeModel(s)) \in Holds(s) /\ LockOf(NativeModel(t)) \in Holds(t)
    BY NativeLocked
  <1>2. LockOf(NativeModel(s)) # LockOf(NativeModel(t))
    BY <1>1 DEF Holds
  <1> QED BY <1>2 DEF LockOf

\* The configuration never changes while the process runs.
LEMMA SetupFixed == ThreadInv /\ [Next]_vars => setup' = setup
  <1> SUFFICES ASSUME ThreadInv, [Next]_vars PROVE setup' = setup
    OBVIOUS
  <1>1. CASE AdmissionNext
    <2>1. PICK r \in Requests : RequestNext(r)
      BY <1>1 DEF AdmissionNext, RequestNext
    <2> QED BY <2>1, AdmissionGood DEF Good, Others
  <1>2. CASE LifecycleNext
    <2>1. PICK t \in Threads : LifeNext(t) \/ \E j \in Jobs : Begin(t, j)
      BY <1>2 DEF LifecycleNext, LifeNext, Threads
    <2> QED BY <2>1, LifeGood DEF Good, Others
  <1>3. CASE TrackerNext
    BY <1>3, TrackerThreads DEF ThreadInv, TrackerGood
  <1>4. CASE \/ \E m \in Models : Sicken(m) \/ HoldLapses(m)
             \/ \E u \in Samples : Observe(u)
             \/ Lapse \/ Tick \/ Sessions \/ Finished \/ UNCHANGED vars
    BY <1>4 DEF Sicken, HoldLapses, Observe, Lapse, Tick, Sessions, Finished, vars, otherVars
  <1> QED BY <1>1, <1>2, <1>3, <1>4 DEF Next

\* Native calls never overlap on one instance nor on two GPU models, in any
\* interleaving of loads, unloads, swaps with their rollbacks, reclaims, resizes,
\* demand estimates and growths, provided sidecars keep to their own paths: the
\* code takes swap_mutex_ for a demand estimate or a growth of any model, but
\* sidecar_mutex_ to load or unload a sidecar.
THEOREM NativeAlwaysSerialized == Spec /\ SidecarsApart => []NativeSerialized
  <1>1. SidecarsApart /\ setup' = setup => SidecarsApart'
    BY DEF SidecarsApart, Sidecar, Primary, Info, Asks
  <1>2. ThreadInv /\ SidecarsApart /\ [Next]_vars => SidecarsApart'
    BY <1>1, SetupFixed
  <1>3. ThreadInv /\ SidecarsApart => NativeSerialized
    BY NativeApart
  <1> QED BY <1>2, <1>3, ThreadsSafe, PTL DEF Spec
=============================================================================
