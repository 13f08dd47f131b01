----------------------- MODULE CoordinatorLeases_proofs -----------------------
(***************************************************************************)
(* Leases of BackendCoordinator, for any models, threads and setups: the   *)
(* lease table, the counters that admission and draining read, the busy    *)
(* slots of each instance and the residency agree, in every interleaving.  *)
(*                                                                         *)
(* The code checks an idle model, leaves mutex_, and unloads or resizes it *)
(* later.  What makes that sound is that the model is marked (draining or  *)
(* resizing) or not loaded in between, so that nothing is granted on it,   *)
(* and that the thread holds the model's lifecycle lock, so that nobody    *)
(* else replaces the instance.  Calm below says so for every label.        *)
(***************************************************************************)
EXTENDS CoordinatorThreads_proofs

(* One model: its leases are counted, each has a slot of its own that the instance
   knows to be busy, and the instance is there as long as there is one. *)
SlotsOf(m) == {leases[n].slot : n \in HeldOn(m)}

\* How many slots an instance may serve: as many as some model is configured for.
Sizes == {0} \cup {n \in Nat : \E s \in Setups, m \in Models : n <= s.info[m].slots}

Settled(m) ==
    /\ active[m] = Cardinality(HeldOn(m))
    /\ backend[m].busy = SlotsOf(m)
    /\ \A n, o \in HeldOn(m) : n # o => leases[n].slot # leases[o].slot
    /\ HeldOn(m) # {} => Loaded(m)
    /\ backend[m].busy \subseteq 0 .. backend[m].slots - 1
    /\ backend[m].slots \in Sizes

(* The lease ids that were not issued yet are free. *)
Unissued == \A n \in LeaseIds : n >= nextLease => leases[n] = NoLease
Placed == \A n \in Held : leases[n].model \in Models

(* What the steps of thread t take for granted about the model they work on. *)
Calm(t) ==
    LET c == call[t]
        b == backend[c.model]
    IN  /\ pc[t] = "create" /\ c.res = "ok" => b.st # "loaded"
        /\ pc[t] = "loading" => b.st = "empty"
        /\ pc[t] = "unloading" => b.st = "none" /\ c.moved.busy = {}
        /\ pc[t] \in Resizers => active[c.model] = 0
        /\ pc[t] = "shrinkGuard" => b.slots > 0
        /\ pc[t] = "shrinking" => c.moved.slots > 0
        /\ c.slots \in Sizes /\ c.moved.slots \in Sizes

LeaseInv ==
    /\ \A m \in Models : Settled(m)
    /\ \A t \in Threads : Calm(t)
    /\ Unissued /\ Placed

(* No runtime whose load may take a loaded model away again by itself. *)
LoadsStay == \A m \in Models : Info[m].runtime # "fixed"

LeaseHyp == SidecarsApart /\ LoadsStay

----------------------------------------------------------------------------
(* The lease table and one model. *)

\* A size is a number, smaller ones are sizes too, and so is what a model is
\* configured for, which is at least one slot.
LEMMA SizesFacts ==
  ASSUME ThreadTypes
  PROVE  /\ 0 \in Sizes /\ \A n \in Sizes : n \in Nat /\ n >= 0
         /\ \A n \in Sizes, k \in Int : 0 <= k /\ k <= n => k \in Sizes
         /\ \A m \in Models : Info[m].slots \in Sizes /\ 1 \in Sizes
  <1>1. \A s \in Setups, m \in Models : s.info[m].slots \in Nat
    BY CoordinatorAssumption DEF SetupType, InfoType
  <1>2. ASSUME NEW m \in Models PROVE Info[m].slots \in Sizes /\ 1 \in Sizes
    <2>1. setup \in Setups /\ setup \in SetupType /\ Info[m] \in InfoType /\ ValidInfo(Info[m])
      BY CoordinatorAssumption DEF ThreadTypes, SetupType, Info
    <2>2. Info[m].slots \in Nat /\ 1 <= Info[m].slots
      BY <2>1 DEF InfoType, ValidInfo
    <2> QED BY <2>1, <2>2 DEF Sizes, Info
  <1>3. ASSUME NEW n \in Sizes, NEW k \in Int, 0 <= k, k <= n PROVE k \in Sizes
    <2>1. CASE n = 0
      BY <1>3, <2>1 DEF Sizes
    <2>2. ASSUME NEW s \in Setups, NEW m \in Models, n \in Nat, n <= s.info[m].slots
          PROVE  k \in Sizes
      <3>1. k \in Nat /\ k <= s.info[m].slots
        BY <1>1, <1>3, <2>2
      <3> QED BY <3>1 DEF Sizes
    <2> QED BY <2>1, <2>2 DEF Sizes
  <1> QED BY <1>2, <1>3 DEF Sizes

\* The leases of a model are finitely many, and none is left when none is counted.
LEMMA HeldFinite ==
  ASSUME ThreadTypes, NEW m
  PROVE  /\ IsFiniteSet(HeldOn(m)) /\ Cardinality(HeldOn(m)) \in Nat
         /\ Cardinality(HeldOn(m)) = 0 <=> HeldOn(m) = {}
  <1>1. IsFiniteSet(1 .. MaxLeaseId)
    BY SetupFields, FS_Interval
  <1>2. IsFiniteSet(HeldOn(m))
    BY <1>1, FS_Subset DEF HeldOn, Held, LeaseIds
  <1> QED BY <1>2, FS_CardinalityType, FS_EmptySet

\* A model nobody has a lease on is not busy, one that is not loaded is not leased.
LEMMA SettledIdle ==
  ASSUME ThreadTypes, NEW m \in Models, Settled(m)
  PROVE  /\ active[m] = 0 <=> HeldOn(m) = {}
         /\ HeldOn(m) = {} <=> backend[m].busy = {}
         /\ ~Loaded(m) => HeldOn(m) = {}
  BY HeldFinite DEF Settled, SlotsOf

\* Labels at which a thread relies on the model it works on being idle.
Delicate == {"create", "loading", "unloading"} \cup Resizers

\* A thread at any other label only needs sizes that are not negative.
LEMMA Gentle ==
  ASSUME NEW t, pc'[t] \notin Delicate, call'[t].slots \in Sizes, call'[t].moved.slots \in Sizes
  PROVE  Calm(t)'
  BY DEF Calm, Delicate, Resizers

\* b takes the place of an idle instance, or serves the same slots.
Keeps(m, b) ==
    \/ HeldOn(m) = {} /\ b.busy = {} /\ b.slots \in Sizes
    \/ /\ b.busy = backend[m].busy /\ b.st = backend[m].st
       /\ b.slots = backend[m].slots

\* If the lease table stays as it is, and so do the leased instances, all still agree.
LEMMA Rebuilt ==
  ASSUME Types, NEW m \in Models, NEW b \in Instance, \A n \in Models : Settled(n),
         Unissued, Placed, UNCHANGED leaseVars, setup' = setup,
         backend' = [backend EXCEPT ![m] = b], Keeps(m, b)
  PROVE  (\A n \in Models : Settled(n))' /\ Unissued' /\ Placed'
  <1>0. /\ Models' = Models /\ LeaseIds' = LeaseIds
        /\ leases' = leases /\ nextLease' = nextLease /\ active' = active
    BY DEF LeaseIds, MaxLeaseId, leaseVars
  <1>1. Held' = Held /\ \A n : HeldOn(n)' = HeldOn(n) /\ SlotsOf(n)' = SlotsOf(n)
    BY <1>0 DEF Held, HeldOn, SlotsOf, NoLease
  <1>2. Unissued' /\ Placed'
    BY <1>0, <1>1 DEF Unissued, Placed, NoLease
  <1>3. ASSUME NEW n \in Models PROVE Settled(n)'
    <2>0. Settled(n) /\ backend \in [Models -> Instance] /\ backend[n] \in Instance
      BY DEF Types, DataTypes
    <2>1. CASE n # m
      <3>1. backend'[n] = backend[n]
        BY <2>0, <2>1
      <3> QED BY <1>0, <1>1, <2>0, <3>1 DEF Settled, Loaded
    <2>2. CASE n = m
      <3>1. backend'[n] = b /\ b.slots \in Int /\ backend[m].slots \in Int
        BY <2>0, <2>2 DEF Instance
      <3>2. CASE HeldOn(m) = {} /\ b.busy = {} /\ b.slots \in Sizes
        BY <1>0, <1>1, <2>0, <2>2, <3>1, <3>2 DEF Settled, Loaded, SlotsOf
      <3>3. CASE /\ b.busy = backend[m].busy /\ b.st = backend[m].st
                 /\ b.slots = backend[m].slots
        BY <1>0, <1>1, <2>0, <2>2, <3>1, <3>3 DEF Settled, Loaded
      <3> QED BY <3>2, <3>3 DEF Keeps
    <2> QED BY <2>1, <2>2
  <1> QED BY <1>0, <1>2, <1>3

\* Nothing about leases changes.
LEMMA Undisturbed ==
  ASSUME Types, \A n \in Models : Settled(n), Unissued, Placed, UNCHANGED leaseVars,
         setup' = setup, backend' = backend
  PROVE  (\A n \in Models : Settled(n))' /\ Unissued' /\ Placed'
  <1>0. /\ Models' = Models /\ LeaseIds' = LeaseIds
        /\ leases' = leases /\ nextLease' = nextLease /\ active' = active
    BY DEF LeaseIds, MaxLeaseId, leaseVars
  <1>1. Held' = Held /\ \A n : HeldOn(n)' = HeldOn(n) /\ SlotsOf(n)' = SlotsOf(n)
    BY <1>0 DEF Held, HeldOn, SlotsOf, NoLease
  <1> QED BY <1>0, <1>1 DEF Settled, Unissued, Placed, NoLease, Loaded

\* The parts of Settled in the next state, for a model whose instance serves as many
\* slots as before.
LEMMA SettledNext ==
  ASSUME NEW m, NEW h, h = HeldOn(m)',
         active'[m] = Cardinality(h), backend'[m].busy = SlotsOf(m)',
         \A i, o \in h : i # o => leases'[i].slot # leases'[o].slot,
         h # {} => backend'[m].st = "loaded",
         backend'[m].busy \subseteq 0 .. backend'[m].slots - 1, backend'[m].slots \in Sizes
  PROVE  Settled(m)'
  BY DEF Settled, Loaded

\* A slot that is free is leased under an id that was not issued: the model's
\* leases stay counted and apart.
LEMMA Leased ==
  ASSUME Types, NEW m \in Models, NEW l \in LeaseType, NEW s \in Nat,
         \A n \in Models : Settled(n), Unissued, Placed, setup' = setup,
         nextLease <= MaxLeaseId, l.who # Nobody, l.model = m, l.slot = s,
         Loaded(m), s \notin backend[m].busy, s < backend[m].slots,
         leases' = [leases EXCEPT ![nextLease] = l], nextLease' = nextLease + 1,
         active' = [active EXCEPT ![m] = @ + 1],
         backend' = [backend EXCEPT ![m].busy = @ \cup {s}]
  PROVE  (\A n \in Models : Settled(n))' /\ Unissued' /\ Placed'
  <1> DEFINE k == nextLease
  <1>0. /\ LeaseIds' = LeaseIds /\ k \in LeaseIds /\ k \in Nat
        /\ leases \in [LeaseIds -> LeaseType] /\ active \in [Models -> Nat]
        /\ backend \in [Models -> Instance] /\ ThreadTypes
    BY SetupFields DEF LeaseIds, MaxLeaseId, Types, DataTypes
  <1>1. leases[k] = NoLease /\ l # NoLease
    BY <1>0 DEF Unissued, NoLease
  <1> HIDE DEF k
  <1>2. /\ \A n \in LeaseIds : leases'[n] = IF n = k THEN l ELSE leases[n]
        /\ Held' = Held \cup {k} /\ k \notin Held
    <2>1. \A n \in LeaseIds : leases'[n] = IF n = k THEN l ELSE leases[n]
      BY <1>0 DEF k
    <2> QED BY <1>0, <1>1, <2>1 DEF Held, NoLease
  <1>3. Unissued' /\ Placed'
    <2>1. Placed'
      BY <1>0, <1>2 DEF Placed, Held
    <2>2. ASSUME NEW n \in LeaseIds, n >= k + 1 PROVE leases'[n] = NoLease
      <3>1. n # k /\ n >= k
        BY <1>0, <2>2 DEF LeaseIds
      <3>2. leases[n] = NoLease
        BY <3>1 DEF Unissued, k
      <3> QED BY <1>2, <3>1, <3>2
    <2>3. nextLease' = k + 1
      BY DEF k
    <2>4. Unissued'
      BY <1>0, <2>2, <2>3 DEF Unissued, NoLease
    <2> QED BY <2>1, <2>4
  <1>4. ASSUME NEW n \in Models PROVE Settled(n)'
    <2>0. Settled(n) /\ backend[n] \in Instance
      BY <1>0
    <2>1. \A i \in HeldOn(n) : leases'[i] = leases[i] /\ i # k
      BY <1>2 DEF HeldOn, Held
    <2>2. CASE n # m
      <3>1. HeldOn(n)' = HeldOn(n)
        BY <1>0, <1>2, <2>2 DEF HeldOn, Held
      <3>2. SlotsOf(n)' = SlotsOf(n) /\ backend'[n] = backend[n] /\ active'[n] = active[n]
        BY <1>0, <2>1, <2>2, <3>1 DEF SlotsOf
      <3>3. \A i, o \in HeldOn(n) : i # o => leases'[i].slot # leases'[o].slot
        BY <2>0, <2>1, <3>1 DEF Settled
      <3>4. HeldOn(n) # {} => backend[n].st = "loaded"
        BY <2>0 DEF Settled, Loaded
      <3>5. /\ active'[n] = Cardinality(HeldOn(n)') /\ backend'[n].busy = SlotsOf(n)'
            /\ backend'[n].busy \subseteq 0 .. backend'[n].slots - 1 /\ backend'[n].slots \in Sizes
        BY <2>0, <3>1, <3>2 DEF Settled
      <3>6. /\ \A i, o \in HeldOn(n)' : i # o => leases'[i].slot # leases'[o].slot
            /\ HeldOn(n)' # {} => backend'[n].st = "loaded"
        BY <3>1, <3>2, <3>3, <3>4
      <3> QED BY <3>5, <3>6, SettledNext
    <2>3. CASE n = m
      <3>1. HeldOn(m)' = HeldOn(m) \cup {k} /\ k \notin HeldOn(m)
        BY <1>0, <1>2 DEF HeldOn, Held
      <3>2. /\ SlotsOf(m)' = SlotsOf(m) \cup {s}
        BY <1>0, <1>2, <2>1, <2>3, <3>1 DEF SlotsOf
      <3>3. /\ backend'[m].busy = backend[m].busy \cup {s} /\ backend'[m].st = backend[m].st
            /\ backend'[m].slots = backend[m].slots /\ backend[m].slots \in Int
        BY <1>0, <2>0, <2>3 DEF Instance
      <3>4. active'[m] = Cardinality(HeldOn(m)')
        <4>1. Cardinality(HeldOn(m) \cup {k}) = Cardinality(HeldOn(m)) + 1
          BY <1>0, <3>1, HeldFinite, FS_AddElement
        <4> QED BY <1>0, <2>0, <2>3, <3>1, <4>1 DEF Settled
      <3>5. \A i, o \in HeldOn(m)' : i # o => leases'[i].slot # leases'[o].slot
        <4>1. \A i \in HeldOn(m) : leases[i].slot # s
          BY <2>0, <2>3 DEF Settled, SlotsOf
        <4>2. leases'[k].slot = s
          BY <1>0, <1>2
        <4>3. \A i, o \in HeldOn(m) : i # o => leases[i].slot # leases[o].slot
          BY <2>0, <2>3 DEF Settled
        <4> QED BY <2>1, <2>3, <3>1, <4>1, <4>2, <4>3
      <3>6. backend'[m].busy = SlotsOf(m)' /\ backend'[m].st = "loaded"
        BY <2>0, <2>3, <3>2, <3>3 DEF Settled, Loaded
      <3>7. backend'[m].busy \subseteq 0 .. backend'[m].slots - 1 /\ backend'[m].slots \in Sizes
        BY <2>0, <2>3, <3>3 DEF Settled
      <3> QED BY <2>3, <3>4, <3>5, <3>6, <3>7, SettledNext
    <2> QED BY <2>2, <2>3
  <1> QED BY <1>0, <1>3, <1>4

\* A lease is taken off the table, and only its slot becomes free.
LEMMA Returned ==
  ASSUME Types, NEW k \in Held,
         \A n \in Models : Settled(n), Unissued, Placed, setup' = setup,
         leases' = [leases EXCEPT ![k] = NoLease], nextLease' = nextLease,
         active' = [active EXCEPT ![leases[k].model] = Reduced(@, 1)],
         backend' = [backend EXCEPT ![leases[k].model].busy = @ \ {leases[k].slot}]
  PROVE  (\A n \in Models : Settled(n))' /\ Unissued' /\ Placed'
  <1> DEFINE m == leases[k].model
             s == leases[k].slot
  <1>0. /\ LeaseIds' = LeaseIds /\ k \in LeaseIds /\ m \in Models
        /\ leases \in [LeaseIds -> LeaseType] /\ active \in [Models -> Nat]
        /\ backend \in [Models -> Instance] /\ ThreadTypes
    BY DEF LeaseIds, MaxLeaseId, Types, DataTypes, Held, Placed
  <1> HIDE DEF m, s
  <1>2. /\ \A n \in LeaseIds : leases'[n] = IF n = k THEN NoLease ELSE leases[n]
        /\ Held' = Held \ {k}
    <2>1. \A n \in LeaseIds : leases'[n] = IF n = k THEN NoLease ELSE leases[n]
      BY <1>0
    <2> QED BY <1>0, <2>1 DEF Held, NoLease
  <1>3. Unissued' /\ Placed'
    <2>1. Placed'
      BY <1>0, <1>2 DEF Placed, Held
    <2>2. Unissued'
      BY <1>0, <1>2 DEF Unissued, NoLease
    <2> QED BY <2>1, <2>2
  <1>4. ASSUME NEW n \in Models PROVE Settled(n)'
    <2>0. Settled(n) /\ backend[n] \in Instance
      BY <1>0
    <2>1. \A i \in HeldOn(n)' : leases'[i] = leases[i] /\ i # k
      BY <1>0, <1>2 DEF HeldOn, Held
    <2>2. CASE n # m
      <3>1. HeldOn(n)' = HeldOn(n)
        BY <1>0, <1>2, <2>2 DEF HeldOn, Held, m
      <3>2. SlotsOf(n)' = SlotsOf(n) /\ backend'[n] = backend[n] /\ active'[n] = active[n]
        BY <1>0, <2>1, <2>2, <3>1 DEF SlotsOf, m
      <3>3. \A i, o \in HeldOn(n) : i # o => leases'[i].slot # leases'[o].slot
        BY <2>0, <2>1, <3>1 DEF Settled
      <3>4. HeldOn(n) # {} => backend[n].st = "loaded"
        BY <2>0 DEF Settled, Loaded
      <3>5. /\ active'[n] = Cardinality(HeldOn(n)') /\ backend'[n].busy = SlotsOf(n)'
            /\ backend'[n].busy \subseteq 0 .. backend'[n].slots - 1 /\ backend'[n].slots \in Sizes
        BY <2>0, <3>1, <3>2 DEF Settled
      <3>6. /\ \A i, o \in HeldOn(n)' : i # o => leases'[i].slot # leases'[o].slot
            /\ HeldOn(n)' # {} => backend'[n].st = "loaded"
        BY <3>1, <3>2, <3>3, <3>4
      <3> QED BY <3>5, <3>6, SettledNext
    <2>3. CASE n = m
      <3>1. HeldOn(n)' = HeldOn(n) \ {k} /\ k \in HeldOn(n)
        <4>1. k \in HeldOn(n)
          BY <2>3 DEF HeldOn, m
        <4>2. \A i \in Held' : leases'[i] = leases[i] /\ i \in Held /\ i # k
          BY <1>2 DEF Held
        <4> QED BY <1>2, <4>1, <4>2 DEF HeldOn
      <3>2. SlotsOf(n)' = SlotsOf(n) \ {s}
        <4>1. \A i, o \in HeldOn(n) : i # o => leases[i].slot # leases[o].slot
          BY <2>0, <2>3 DEF Settled
        <4> QED BY <2>1, <2>3, <3>1, <4>1 DEF SlotsOf, s
      <3>3. /\ backend'[n].busy = backend[n].busy \ {s} /\ backend'[n].st = backend[n].st
            /\ backend'[n].slots = backend[n].slots /\ backend[n].slots \in Int
        <4>1. backend' = [backend EXCEPT ![n].busy = @ \ {s}]
          BY <2>3 DEF m, s
        <4> HIDE DEF s
        <4> QED BY <1>0, <2>0, <4>1 DEF Instance
      <3>4. active'[n] = Cardinality(HeldOn(n)')
        <4>1. Cardinality(HeldOn(n) \ {k}) = Cardinality(HeldOn(n)) - 1
          BY <1>0, <3>1, HeldFinite, FS_RemoveElement
        <4>2. active[n] = Cardinality(HeldOn(n)) /\ active[n] \in Nat /\ active[n] # 0
          BY <1>0, <2>0, <2>3, <3>1, HeldFinite DEF Settled
        <4>3. Reduced(active[n], 1) = active[n] - 1
          <5>1. ASSUME NEW x \in Nat, x # 0 PROVE Max({0, x - 1}) = x - 1
            <6>1. 0 \in Int /\ x - 1 \in Int /\ x - 1 >= 0
              BY <5>1
            <6> DEFINE y == x - 1
            <6> HIDE DEF y
            <6>2. Max({0, y}) = IF 0 >= y THEN 0 ELSE y
              BY <6>1, MaxOf DEF y
            <6> QED BY <6>1, <6>2 DEF y
          <5> QED BY <4>2, <5>1 DEF Reduced
        <4>4. active'[n] = Reduced(active[n], 1)
          BY <1>0, <2>3 DEF m
        <4> QED BY <3>1, <4>1, <4>2, <4>3, <4>4
      <3>5. \A i, o \in HeldOn(n)' : i # o => leases'[i].slot # leases'[o].slot
        BY <2>0, <2>1, <2>3, <3>1 DEF Settled
      <3>6. /\ backend'[n].busy = SlotsOf(n)'
            /\ HeldOn(n)' # {} => backend'[n].st = "loaded"
        <4>1. backend[n].busy = SlotsOf(n) /\ (HeldOn(n) # {} => backend[n].st = "loaded")
          BY <2>0, <2>3 DEF Settled, Loaded
        <4> QED BY <3>1, <3>2, <3>3, <4>1
      <3>7. backend'[n].busy \subseteq 0 .. backend'[n].slots - 1 /\ backend'[n].slots \in Sizes
        BY <2>0, <2>3, <3>3 DEF Settled
      <3> QED BY <2>3, <3>4, <3>5, <3>6, <3>7, SettledNext
    <2> QED BY <2>2, <2>3
  <1> QED BY <1>0, <1>3, <1>4

\* What a step of thread t may do to a model without disturbing the threads that
\* rely on it: under the model's lifecycle lock anything, else only hand out and
\* take back slots, and hand out none while it is marked.  A model somebody has a
\* lease on stays as it is, lock or not.
Spares(t) ==
    \A m \in Models :
        /\ \/ LockOf(m) \in Holds(t)
           \/ /\ backend'[m].st = backend[m].st /\ backend'[m].slots = backend[m].slots
              /\ m \in resizing /\ active[m] = 0 => active'[m] = 0
        /\ HeldOn(m) # {} =>
              backend'[m].st = backend[m].st /\ backend'[m].slots = backend[m].slots

\* Another thread at a delicate label stays calm.
LEMMA CalmKept ==
  ASSUME ThreadInv, SidecarsApart, NEW t, Spares(t), NEW s \in Threads, s # t, Calm(s),
         pc'[s] = pc[s], call'[s] = call[s]
  PROVE  Calm(s)'
  <1> DEFINE m == call[s].model
  <1>0. ThreadSafe(s) /\ Marks /\ ThreadTypes
    BY DEF ThreadInv, Types
  <1>1. CASE pc[s] \in {"create", "loading", "unloading"}
    <2>1. m \in Models /\ LockOf(m) \in Holds(s)
      BY <1>0, <1>1 DEF ThreadSafe, Safe, OnModel, LoadLabels, UnloadLabels, Inside
    <2>2. LockOf(m) \notin Holds(t)
      BY <2>1 DEF Holds
    <2>3. backend'[m].st = backend[m].st
      BY <2>1, <2>2 DEF Spares
    <2> QED BY <1>1, <2>3 DEF Calm, Resizers
  <1>2. CASE pc[s] \in Resizers
    <2>1. /\ m \in Models /\ "swap" \in Holds(s) /\ Info[m].runtime = "llama"
          /\ m \in resizing
      <3>1. m \in Models /\ "swap" \in Holds(s) /\ Info[m].runtime = "llama"
        BY <1>0, <1>2 DEF ThreadSafe, Safe, OnModel, SwapHeld, PlanLabels, Resizers
      <3>2. m \in resizing
        BY <1>0, <1>2 DEF Marks, ResizeMark
      <3> QED BY <3>1, <3>2
    <2>2. LockOf(m) \notin Holds(t)
      BY <2>1 DEF Holds, SidecarsApart, LockOf
    <2>3. backend'[m].slots = backend[m].slots /\ (active[m] = 0 => active'[m] = 0)
      BY <2>1, <2>2 DEF Spares
    <2> QED BY <1>2, <2>3 DEF Calm, Resizers
  <1>3. CASE pc[s] \notin Delicate
    BY <1>3, Gentle DEF Calm
  <1> QED BY <1>1, <1>2, <1>3 DEF Delicate

----------------------------------------------------------------------------
(* What a step of thread t has to show. *)
Tables == (\A n \in Models : Settled(n)) /\ Unissued /\ Placed
LeaseGood(t) == Tables' /\ Spares(t) /\ Calm(t)'
Sized(c) == c.slots \in Sizes /\ c.moved.slots \in Sizes

\* A step of the thread that leaves leases and instances alone.
LEMMA Sits ==
  ASSUME Types, Tables, UNCHANGED leaseVars, setup' = setup, backend' = backend, NEW t
  PROVE  Tables' /\ Spares(t)
  <1>1. Tables'
    BY Undisturbed DEF Tables
  <1>2. active' = active
    BY DEF leaseVars
  <1> QED BY <1>1, <1>2 DEF Spares

\* A step of the thread that replaces an instance under its lifecycle lock.
LEMMA Replaces ==
  ASSUME Types, Tables, UNCHANGED leaseVars, setup' = setup, NEW t,
         NEW m \in Models, NEW b \in Instance, LockOf(m) \in Holds(t),
         backend' = [backend EXCEPT ![m] = b], Keeps(m, b)
  PROVE  Tables' /\ Spares(t)
  <1>1. Tables'
    BY Rebuilt DEF Tables
  <1>2. active' = active /\ backend \in [Models -> Instance]
    BY DEF leaseVars, Types, DataTypes
  <1>3. \A n \in Models : n # m => backend'[n] = backend[n]
    BY <1>2
  <1>4. HeldOn(m) # {} => backend'[m].st = backend[m].st /\ backend'[m].slots = backend[m].slots
    BY <1>2 DEF Keeps
  <1> QED BY <1>1, <1>2, <1>3, <1>4 DEF Spares

\* The locals of a call that returns, and of one that goes on with c.
LEMMA ReturnSized ==
  ASSUME ThreadTypes, NEW t \in Threads, NEW p, NEW res, Return(t, p, res), Sized(call[t])
  PROVE  /\ pc'[t] = p /\ Sized(call'[t])
         /\ p # Top(t) => call'[t].model = call[t].model /\ call'[t].res = res
  <1>1. pc'[t] = p
    BY DEF Return, Goto, ThreadTypes
  <1>2. call[t] \in CallType /\ NoCall \in CallType
    BY NoCallType DEF ThreadTypes
  <1>3. call'[t] = IF p = Top(t) THEN [NoCall EXCEPT !.res = res, !.lease = call[t].lease]
                   ELSE [call[t] EXCEPT !.res = res]
    BY DEF Return, ThreadTypes
  <1>4. NoCall.slots \in Sizes /\ NoCall.moved.slots \in Sizes
    <2>1. NoCall.slots = 0 /\ NoCall.moved.slots = 0
      BY DEF NoCall, NoBackend
    <2> QED BY <2>1, SizesFacts
  <1>5. ASSUME NEW c \in CallType, NEW l
        PROVE  /\ [c EXCEPT !.res = res].slots = c.slots /\ [c EXCEPT !.res = res].moved = c.moved
               /\ [c EXCEPT !.res = res].model = c.model /\ [c EXCEPT !.res = res].res = res
               /\ [c EXCEPT !.res = res, !.lease = l].slots = c.slots
               /\ [c EXCEPT !.res = res, !.lease = l].moved = c.moved
    BY DEF CallType
  <1> QED BY <1>1, <1>2, <1>3, <1>4, <1>5 DEF Sized

\* Where a thread that moves alone with new locals ends up.
LEMMA GoSized ==
  ASSUME ThreadTypes, NEW t \in Threads, NEW p, NEW c, GoWith(t, p, c)
  PROVE  pc'[t] = p /\ call'[t] = c
  BY DEF GoWith, Goto, With, ThreadTypes

\* The planner's return, and calls to load and unload.
LEMMA CallsSized ==
  ASSUME ThreadTypes, NEW t \in Threads, Sized(call[t])
  PROVE  /\ \A res : PlanReturn(t, res) => pc'[t] \in {"retry", "swapLoad"} /\ Sized(call'[t])
         /\ \A m, lret : CallLoad(t, m, lret) => pc'[t] = "load" /\ Sized(call'[t])
         /\ \A m, ret : CallUnload(t, m, ret) => pc'[t] = "unload" /\ Sized(call'[t])
  <1>0. call[t] \in CallType
    BY DEF ThreadTypes
  <1>1. ASSUME NEW res, PlanReturn(t, res)
        PROVE  pc'[t] \in {"retry", "swapLoad"} /\ Sized(call'[t])
    <2>1. Sized([call[t] EXCEPT !.res = res])
      BY <1>0 DEF Sized, CallType
    <2> QED BY <1>1, <2>1, GoSized DEF PlanReturn
  <1>2. ASSUME NEW m, NEW lret, CallLoad(t, m, lret) PROVE pc'[t] = "load" /\ Sized(call'[t])
    <2>1. Sized([call[t] EXCEPT !.model = m, !.lret = lret, !.ret = "none", !.slots = 0])
      BY <1>0, SizesFacts DEF Sized, CallType
    <2> QED BY <1>2, <2>1, GoSized DEF CallLoad
  <1>3. ASSUME NEW m, NEW ret, CallUnload(t, m, ret) PROVE pc'[t] = "unload" /\ Sized(call'[t])
    <2>1. Sized([call[t] EXCEPT !.model = m, !.ret = ret])
      BY <1>0 DEF Sized, CallType
    <2> QED BY <1>3, <2>1, GoSized DEF CallUnload
  <1> QED BY <1>1, <1>2, <1>3

\* A thread that arrives at a label that is not delicate.
LEMMA Arrive ==
  ASSUME NEW t, pc'[t] \notin Delicate, Sized(call'[t])
  PROVE  Calm(t)'
  BY Gentle DEF Sized

\* Where a nested load or unload returns to is not delicate, a recovery apart.
LEMMA BacksGentle ==
  ASSUME NEW t
  PROVE  ({Top(t)} \cup LoadBacks \cup UnloadBacks) \cap Delicate = {}
  BY DEF Top, LoadBacks, UnloadBacks, Delicate, Resizers

----------------------------------------------------------------------------
(* Lifecycle steps. *)

\* What a thread may use of the invariant.
Base(t) == ThreadInv /\ LeaseHyp /\ Tables /\ Calm(t)

\* And what follows from it at once.
LEMMA BaseFacts ==
  ASSUME NEW t \in Threads, Base(t)
  PROVE  /\ Types /\ ThreadTypes /\ ThreadSafe(t) /\ Tables /\ Sized(call[t]) /\ call[t] \in CallType
         /\ backend \in [Models -> Instance] /\ call[t].moved \in Instance /\ call[t].slots \in Int
  <1>1. Types /\ ThreadTypes /\ ThreadSafe(t) /\ call[t] \in CallType
    BY DEF Base, ThreadInv, Types, ThreadTypes
  <1>2. call[t].moved \in Instance /\ call[t].slots \in Int
    BY <1>1, CallFields
  <1> QED BY <1>1, <1>2 DEF Base, Sized, Calm, Types, DataTypes

\* load_with_lock_deadline: it creates an instance only for a model that is not
\* loaded, and nothing is leased of it until the native load is over.
LEMMA LoadLeases ==
  ASSUME NEW t \in Threads, Base(t), setup' = setup,
         LoadStart(t) \/ LoadGiveUp(t) \/ LoadCreate(t) \/ LoadNative(t) \/ LoadLate(t) \/ LoadEnd(t)
  PROVE  LeaseGood(t)
  <1> DEFINE m == call[t].model
  <1>0. /\ Types /\ ThreadTypes /\ ThreadSafe(t) /\ Tables /\ Sized(call[t]) /\ call[t] \in CallType
        /\ backend \in [Models -> Instance]
    BY BaseFacts
  <1>1. pc[t] \in LoadLabels
    BY DEF LoadStart, LoadGiveUp, LoadCreate, LoadNative, LoadLate, LoadEnd, LoadLabels
  <1>2. /\ m \in Models /\ backend[m] \in Instance /\ Settled(m)
        /\ call[t].lret \in {Top(t)} \cup LoadBacks
    BY <1>0, <1>1 DEF ThreadSafe, Safe, OnModel, FromLoad, Tables
  <1>3. call[t].lret \notin Delicate
    BY <1>2, BacksGentle
  <1>4. UNCHANGED leaseVars
    BY DEF LoadStart, LoadGiveUp, LoadCreate, LoadNative, LoadLate, LoadEnd, LoadFails, untouched
  <1>5. ASSUME NEW res, Return(t, call[t].lret, res) PROVE Calm(t)'
    BY <1>0, <1>3, <1>5, ReturnSized, Arrive
  <1>6. ASSUME backend' = backend, Calm(t)' PROVE LeaseGood(t)
    BY <1>0, <1>4, <1>6, Sits DEF LeaseGood
  <1>7. ASSUME NEW b \in Instance, Keeps(m, b), LockOf(m) \in Holds(t),
               backend' = [backend EXCEPT ![m] = b], Calm(t)'
        PROVE  LeaseGood(t)
    BY <1>0, <1>2, <1>4, <1>7, Replaces DEF LeaseGood
  <1>8. pc[t] \in {"create", "loading", "late", "loaded"} => LockOf(m) \in Holds(t)
    BY <1>0 DEF ThreadSafe, Safe, Inside
  <1>9. Keeps(m, backend[m])
    BY <1>2 DEF Keeps, Instance
  <1>10. ASSUME NEW res, LoadFails(t, backend[m], res), pc[t] \in {"loading", "late"}
         PROVE  LeaseGood(t)
    <2>1. Calm(t)'
      BY <1>5, <1>10 DEF LoadFails
    <2> QED BY <1>2, <1>7, <1>8, <1>9, <1>10, <2>1 DEF LoadFails
  <1>11. CASE LoadStart(t)
    <2>1. backend' = backend
      BY <1>11 DEF LoadStart
    <2>2. CASE Return(t, call[t].lret, "ok")
      BY <1>5, <1>6, <2>1, <2>2
    <2>3. CASE GoWith(t, "unload", [call[t] EXCEPT !.ret = "create", !.slots = backend[m].slots])
      <3>1. backend[m].slots \in Sizes
        BY <1>2 DEF Settled
      <3>2. Sized([call[t] EXCEPT !.ret = "create", !.slots = backend[m].slots])
        BY <1>0, <3>1 DEF Sized, CallType
      <3>3. Calm(t)'
        BY <1>0, <2>3, <3>2, GoSized, Arrive DEF Delicate, Resizers
      <3> QED BY <1>6, <2>1, <3>3
    <2>4. CASE GoWith(t, "create", [call[t] EXCEPT !.res = "ok"]) /\ ~Loaded(m)
      <3> DEFINE c == [call[t] EXCEPT !.res = "ok"]
      <3>1. Sized(c) /\ c.model = m
        BY <1>0 DEF Sized, CallType
      <3>2. pc'[t] = "create" /\ call'[t] = c
        BY <1>0, <2>4, GoSized
      <3> HIDE DEF c
      <3>3. call'[t].model = m /\ Sized(call'[t])
        BY <3>1, <3>2
      <3>4. backend'[call'[t].model].st # "loaded"
        BY <2>1, <2>4, <3>3 DEF Loaded
      <3>5. Calm(t)'
        BY <3>2, <3>3, <3>4 DEF Calm, Resizers, Sized
      <3> QED BY <1>6, <2>1, <3>5
    <2> QED BY <1>11, <2>2, <2>3, <2>4 DEF LoadStart
  <1>12. CASE LoadGiveUp(t)
    BY <1>5, <1>6, <1>12 DEF LoadGiveUp, residencyVars
  <1>13. CASE LoadCreate(t)
    <2>0. pc[t] = "create"
      BY <1>13 DEF LoadCreate
    <2>1. CASE call[t].res # "ok"
      BY <1>5, <1>6, <1>13, <2>1 DEF LoadCreate
    <2>2. CASE call[t].res = "ok"
      <3> DEFINE b == IF backend[m].st = "none" THEN FreshBackend(m) ELSE backend[m]
                 d == IF call[t].slots = 0 \/ Info[m].auto THEN b
                      ELSE [b EXCEPT !.slots = call[t].slots]
      <3>1. backend[m].st # "loaded" /\ backend[m].st \in {"none", "empty", "loaded"}
        BY <1>2, <2>0, <2>2 DEF Base, Calm, Instance
      <3>2. HeldOn(m) = {} /\ backend[m].busy = {} /\ backend[m].slots \in Sizes
        BY <1>0, <1>2, <3>1, SettledIdle DEF Loaded, Settled
      <3>3. b \in Instance /\ b.st = "empty" /\ b.busy = {} /\ b.slots \in Sizes
        <4>1. FreshBackend(m) \in Instance
          BY <1>0, <1>2, InstanceTypes
        <4>2. Info[m].slots \in Sizes
          BY <1>0, <1>2, SizesFacts
        <4>3. /\ FreshBackend(m).st = "empty" /\ FreshBackend(m).busy = {}
              /\ FreshBackend(m).slots \in Sizes
          BY <4>2 DEF FreshBackend
        <4> QED BY <1>2, <3>1, <3>2, <4>1, <4>3
      <3>4. /\ backend' = [backend EXCEPT ![m] = d] /\ Goto(t, "loading") /\ call' = call
        BY <1>13, <2>2 DEF LoadCreate
      <3> HIDE DEF b
      <3>5. d \in Instance /\ d.st = "empty" /\ d.busy = {} /\ d.slots \in Sizes
        <4>1. call[t].slots \in Int /\ call[t].slots \in Sizes
          BY <1>0, BaseFacts DEF Sized
        <4> QED BY <3>3, <4>1 DEF Instance
      <3> HIDE DEF d
      <3>6. Keeps(m, d)
        BY <3>2, <3>5 DEF Keeps
      <3>7. pc'[t] = "loading" /\ call'[t] = call[t] /\ backend'[m] = d
        BY <1>0, <1>2, <3>4, Lands
      <3>8. Calm(t)'
        BY <1>0, <3>5, <3>7 DEF Calm, Resizers, Sized
      <3> QED BY <1>7, <1>8, <2>0, <3>4, <3>5, <3>6, <3>8
    <2> QED BY <2>1, <2>2
  <1>14. CASE LoadNative(t)
    <2>0. pc[t] = "loading"
      BY <1>14 DEF LoadNative
    <2>1. CASE \E res : LoadFails(t, backend[m], res)
      BY <1>10, <2>0, <2>1
    <2>2. CASE /\ backend' = [backend EXCEPT ![m] = LoadedBackend(m, backend[m])]
               /\ Goto(t, IF Info[m].runtime = "fixed" THEN "late" ELSE "loaded")
               /\ call' = call
      <3> DEFINE b == LoadedBackend(m, backend[m])
      <3>1. backend[m].st = "empty"
        BY <2>0 DEF Base, Calm
      <3>2. HeldOn(m) = {} /\ backend[m].slots \in Sizes
        BY <1>0, <1>2, <3>1, SettledIdle DEF Loaded, Settled
      <3>3. b \in Instance /\ b.busy = {} /\ b.slots = backend[m].slots
        <4>1. b \in Instance
          BY <1>0, <1>2, InstanceTypes
        <4> QED BY <1>2, <4>1 DEF LoadedBackend, Instance
      <3> HIDE DEF b
      <3>4. Keeps(m, b)
        BY <3>2, <3>3 DEF Keeps
      <3>5. pc'[t] \in {"late", "loaded"} /\ call'[t] = call[t]
        BY <1>0, <2>2, Lands
      <3>6. Calm(t)'
        BY <1>0, <3>5, Arrive DEF Delicate, Resizers
      <3> QED BY <1>7, <1>8, <2>0, <2>2, <3>3, <3>4, <3>6 DEF b
    <2> QED BY <1>14, <2>1, <2>2 DEF LoadNative
  <1>15. CASE LoadLate(t)
    <2>1. pc[t] = "late"
      BY <1>15 DEF LoadLate
    <2>2. Info[m].runtime = "fixed"
      BY <1>0, <2>1 DEF ThreadSafe, Safe
    <2> QED BY <1>2, <2>2 DEF Base, LeaseHyp, LoadsStay
  <1>16. CASE LoadEnd(t)
    BY <1>5, <1>6, <1>16 DEF LoadEnd
  <1> QED BY <1>11, <1>12, <1>13, <1>14, <1>15, <1>16

\* unload_with_control: the instance is taken away only when no lease is left on
\* it, and put back only where nothing was created meanwhile.
LEMMA UnloadLeases ==
  ASSUME NEW t \in Threads, Base(t), setup' = setup,
         UnloadStart(t) \/ UnloadGiveUp(t) \/ Drained(t) \/ DrainGiveUp(t) \/ UnloadNative(t)
  PROVE  LeaseGood(t)
  <1> DEFINE m == call[t].model
  <1>0. /\ Types /\ ThreadTypes /\ ThreadSafe(t) /\ Tables /\ Sized(call[t]) /\ call[t] \in CallType
        /\ backend \in [Models -> Instance] /\ call[t].moved \in Instance
    BY BaseFacts
  <1>1. pc[t] \in UnloadLabels
    BY DEF UnloadStart, UnloadGiveUp, Drained, DrainGiveUp, UnloadNative, UnloadLabels
  <1>2. /\ m \in Models /\ backend[m] \in Instance /\ Settled(m)
        /\ call[t].ret \in {Top(t), "create"} \cup UnloadBacks
    BY <1>0, <1>1 DEF ThreadSafe, Safe, OnModel, FromUnload, Tables
  <1>3. ASSUME NEW res, Return(t, call[t].ret, res), res # "ok" \/ backend'[m].st = "none"
        PROVE  Calm(t)'
    <2>1. CASE call[t].ret \in {Top(t)} \cup UnloadBacks
      <3>1. call[t].ret \notin Delicate
        BY <2>1, BacksGentle
      <3> QED BY <1>0, <1>3, <3>1, ReturnSized, Arrive
    <2>2. CASE call[t].ret = "create"
      <3>1. "create" # Top(t)
        BY DEF Top
      <3>2. /\ pc'[t] = "create" /\ Sized(call'[t]) /\ call'[t].model = m /\ call'[t].res = res
        BY <1>0, <1>3, <2>2, <3>1, ReturnSized
      <3> QED BY <1>3, <3>2 DEF Calm, Resizers, Sized
    <2> QED BY <1>2, <2>1, <2>2
  <1>4. ASSUME UNCHANGED leaseVars, backend' = backend, Calm(t)' PROVE LeaseGood(t)
    BY <1>0, <1>4, Sits DEF LeaseGood
  <1>5. pc[t] \in {"draining", "unloading"} => LockOf(m) \in Holds(t)
    BY <1>0 DEF ThreadSafe, Safe, Inside
  <1>6. ASSUME NEW b \in Instance, Keeps(m, b), pc[t] \in {"draining", "unloading"},
               UNCHANGED leaseVars, backend' = [backend EXCEPT ![m] = b], Calm(t)'
        PROVE  LeaseGood(t)
    BY <1>0, <1>2, <1>5, <1>6, Replaces DEF LeaseGood
  <1>7. CASE UnloadStart(t)
    <2>1. pc'[t] = "draining" /\ call'[t] = call[t] /\ UNCHANGED leaseVars /\ backend' = backend
      BY <1>0, <1>7, Lands DEF UnloadStart, untouched, residencyVars
    <2> QED BY <1>0, <1>4, <2>1, Arrive DEF Delicate, Resizers
  <1>8. CASE UnloadGiveUp(t) \/ DrainGiveUp(t)
    <2>1. /\ Return(t, call[t].ret, "gone") /\ UNCHANGED leaseVars /\ backend' = backend
      BY <1>8 DEF UnloadGiveUp, DrainGiveUp, untouched, residencyVars
    <2> QED BY <1>3, <1>4, <2>1
  <1>9. CASE Drained(t)
    <2> DEFINE c == [call[t] EXCEPT !.moved = backend[m], !.primary = (current = m)]
    <2>1. /\ pc[t] = "draining" /\ active[m] = 0 /\ UNCHANGED leaseVars
          /\ backend' = [backend EXCEPT ![m] = NoBackend] /\ GoWith(t, "unloading", c)
      BY <1>9 DEF Drained, Idle, untouched
    <2>2. HeldOn(m) = {} /\ backend[m].busy = {} /\ backend[m].slots \in Sizes
      BY <1>0, <1>2, <2>1, SettledIdle DEF Settled
    <2>3. /\ NoBackend \in Instance /\ NoBackend.st = "none" /\ NoBackend.busy = {}
          /\ NoBackend.slots = 0
      <3>1. NoBackend \in Instance
        BY <1>0, <1>2, InstanceTypes
      <3> QED BY <3>1 DEF NoBackend
    <2>4. Keeps(m, NoBackend)
      BY <1>0, <2>2, <2>3, SizesFacts DEF Keeps
    <2>5. c.model = m /\ c.moved = backend[m] /\ c.slots = call[t].slots
      BY <1>0 DEF CallType
    <2>6. pc'[t] = "unloading" /\ call'[t] = c
      BY <1>0, <2>1, GoSized
    <2>7. backend'[m] = NoBackend
      BY <1>0, <1>2, <2>1
    <2> HIDE DEF c
    <2>8. call'[t].model = m /\ call'[t].moved = backend[m] /\ call'[t].slots = call[t].slots
      BY <2>5, <2>6
    <2>9. Calm(t)'
      BY <1>0, <2>2, <2>3, <2>6, <2>7, <2>8 DEF Calm, Resizers, Sized
    <2> QED BY <1>6, <2>1, <2>3, <2>4, <2>9
  <1>10. CASE UnloadNative(t)
    <2> DEFINE old == call[t].moved
               sick == [old EXCEPT !.healthy = FALSE]
    <2>1. pc[t] = "unloading" /\ backend[m].st = "none" /\ old.busy = {} /\ old.slots \in Sizes
      BY <1>0, <1>10 DEF UnloadNative, Base, Calm, Sized
    <2>2. HeldOn(m) = {} /\ active[m] = 0
      BY <1>0, <1>2, <2>1, SettledIdle DEF Loaded
    <2>3. old \in Instance /\ sick \in Instance /\ sick.busy = {} /\ sick.slots \in Sizes
      BY <1>0, <2>1 DEF Instance
    <2>4. /\ leases' = leases /\ nextLease' = nextLease /\ reserved' = reserved
      BY <1>10 DEF UnloadNative
    <2> HIDE DEF sick
    <2>5. CASE active' = [active EXCEPT ![m] = 0] /\ Return(t, call[t].ret, "ok") /\ backend' = backend
      <3>1. active' = active
        BY <1>0, <1>2, <2>2, <2>5 DEF Types, DataTypes
      <3>2. UNCHANGED leaseVars /\ Calm(t)'
        BY <1>3, <2>1, <2>4, <2>5, <3>1 DEF leaseVars
      <3> QED BY <1>4, <2>5, <3>2
    <2>6. CASE \E b \in {old, sick} : \E res \in {"gone", "error"} :
                 /\ backend' = [backend EXCEPT ![m] = b] /\ active' = active
                 /\ Return(t, call[t].ret, res)
      <3>1. PICK b \in {old, sick}, res \in {"gone", "error"} :
                 /\ backend' = [backend EXCEPT ![m] = b] /\ active' = active
                 /\ Return(t, call[t].ret, res)
        BY <2>6
      <3>2. Keeps(m, b) /\ b \in Instance
        BY <2>1, <2>2, <2>3 DEF Keeps
      <3>3. UNCHANGED leaseVars /\ Calm(t)'
        BY <1>3, <2>4, <3>1 DEF leaseVars
      <3> QED BY <1>6, <2>1, <3>1, <3>2, <3>3
    <2> QED BY <1>10, <2>5, <2>6 DEF UnloadNative, sick
  <1> QED BY <1>7, <1>8, <1>9, <1>10

\* prepare_capacity_for: a model is marked for a reclaim or a shrink only while it
\* has no lease, so its instance can be rebuilt; evictions go through unload.
LEMMA PlanLeases ==
  ASSUME NEW t \in Threads, Base(t), setup' = setup, PlanNext(t) \/ PlanGiveUp(t)
  PROVE  LeaseGood(t)
  <1> DEFINE m == call[t].model
  <1>0. /\ Types /\ ThreadTypes /\ ThreadSafe(t) /\ Tables /\ Sized(call[t]) /\ call[t] \in CallType
        /\ backend \in [Models -> Instance] /\ call[t].moved \in Instance
    BY BaseFacts
  <1>1. pc[t] \in Resizers =>
          /\ m \in Models /\ backend[m] \in Instance /\ Settled(m) /\ active[m] = 0
          /\ LockOf(m) \in Holds(t) /\ HeldOn(m) = {} /\ backend[m].busy = {}
    <2> SUFFICES ASSUME pc[t] \in Resizers
                 PROVE  /\ m \in Models /\ backend[m] \in Instance /\ Settled(m) /\ active[m] = 0
                        /\ LockOf(m) \in Holds(t) /\ HeldOn(m) = {} /\ backend[m].busy = {}
      OBVIOUS
    <2>1. m \in Models /\ "swap" \in Holds(t) /\ Info[m].runtime = "llama"
      BY <1>0 DEF ThreadSafe, Safe, OnModel, SwapHeld, PlanLabels, Resizers
    <2>2. LockOf(m) = "swap"
      BY <2>1 DEF Base, LeaseHyp, SidecarsApart, LockOf
    <2>3. active[m] = 0 /\ Settled(m) /\ backend[m] \in Instance
      BY <1>0, <2>1 DEF Base, Calm, Tables
    <2> QED BY <1>0, <2>1, <2>2, <2>3, SettledIdle
  <1>2. ASSUME UNCHANGED leaseVars, backend' = backend, Calm(t)' PROVE LeaseGood(t)
    BY <1>0, <1>2, Sits DEF LeaseGood
  <1>3. ASSUME UNCHANGED leaseVars, backend' = backend, pc'[t] \notin Delicate, Sized(call'[t])
        PROVE  LeaseGood(t)
    BY <1>2, <1>3, Arrive
  <1>4. ASSUME NEW b \in Instance, Keeps(m, b), pc[t] \in Resizers, UNCHANGED leaseVars,
               backend' = [backend EXCEPT ![m] = b], Calm(t)'
        PROVE  LeaseGood(t)
    BY <1>0, <1>1, <1>4, Replaces DEF LeaseGood
  <1>5. ASSUME NEW res, PlanReturn(t, res) PROVE pc'[t] \notin Delicate /\ Sized(call'[t])
    <2>1. pc'[t] \in {"retry", "swapLoad"} /\ Sized(call'[t])
      BY <1>0, <1>5, CallsSized
    <2> QED BY <2>1 DEF Delicate, Resizers
  <1>6. ASSUME NEW p \in {"shrink", "evict", "reclaim", "reclaimed", "verdict"}, Goto(t, p), call' = call
        PROVE  pc'[t] \notin Delicate /\ Sized(call'[t])
    BY <1>0, <1>6, Lands DEF Delicate, Resizers
  <1>7. ASSUME NEW c, PlanRefused(t, c) PROVE LeaseGood(t)
    BY <1>3, <1>5, <1>7 DEF PlanRefused, untouched, residencyVars
  <1>8. ASSUME NEW p, NEW c, GoWith(t, p, c), Sized(c), p \notin Delicate
        PROVE  pc'[t] \notin Delicate /\ Sized(call'[t])
    BY <1>0, <1>8, GoSized
  <1>9. CASE Plan(t) \/ PlanFits(t) \/ PlanGiveUp(t) \/ Verdict(t) \/ Evicted(t)
    <2>1. UNCHANGED leaseVars /\ backend' = backend
      BY <1>9 DEF Plan, PlanFits, PlanGiveUp, Verdict, Evicted, PlanRefused, untouched, residencyVars
    <2>2. Sized([call[t] EXCEPT !.tried = {}])
      BY <1>0 DEF Sized, CallType
    <2>3. \/ \E res : PlanReturn(t, res)
          \/ GoWith(t, "reclaim", [call[t] EXCEPT !.tried = {}])
          \/ Goto(t, "evict") /\ call' = call
      BY <1>9 DEF Plan, PlanFits, PlanGiveUp, Verdict, Evicted, PlanRefused
    <2>4. "reclaim" \notin Delicate
      BY DEF Delicate, Resizers
    <2>5. pc'[t] \notin Delicate /\ Sized(call'[t])
      BY <1>5, <1>6, <1>8, <2>2, <2>3, <2>4
    <2> QED BY <1>3, <2>1, <2>5
  <1>10. CASE ReclaimPick(t)
    <2>1. UNCHANGED leaseVars /\ backend' = backend
      BY <1>10 DEF ReclaimPick, untouched, residencyVars
    <2>2. CASE \E c \in Reclaimable(t) :
                 GoWith(t, "reclaimGuard", [call[t] EXCEPT
                    !.model = c, !.tried = @ \cup {c}, !.observed = Fresh])
      <3>1. PICK c \in Reclaimable(t) :
                 GoWith(t, "reclaimGuard", [call[t] EXCEPT
                    !.model = c, !.tried = @ \cup {c}, !.observed = Fresh])
        BY <2>2
      <3> DEFINE d == [call[t] EXCEPT !.model = c, !.tried = @ \cup {c}, !.observed = Fresh]
      <3>2. d.model = c /\ Sized(d)
        BY <1>0 DEF Sized, CallType
      <3>3. pc'[t] = "reclaimGuard" /\ call'[t] = d
        BY <1>0, <3>1, GoSized
      <3> HIDE DEF d
      <3>4. active[c] = 0 /\ active' = active
        BY <2>1 DEF Reclaimable, leaseVars
      <3>5. call'[t].model = c /\ Sized(call'[t])
        BY <3>2, <3>3
      <3>6. active'[call'[t].model] = 0
        BY <3>4, <3>5
      <3>7. Calm(t)'
        BY <3>3, <3>5, <3>6 DEF Calm, Sized
      <3> QED BY <1>2, <2>1, <3>7
    <2>3. CASE (\E res : PlanReturn(t, res)) \/ (Goto(t, "shrink") /\ call' = call)
      BY <1>3, <1>5, <1>6, <2>1, <2>3
    <2> QED BY <1>10, <2>2, <2>3 DEF ReclaimPick
  <1>11. CASE ReclaimGuard(t)
    <2>1. CASE PlanRefused(t, {m})
      BY <1>7, <2>1
    <2>2. CASE Goto(t, "reclaiming") /\ UNCHANGED <<call, residencyVars, untouched>>
      <3>1. pc'[t] = "reclaiming" /\ call'[t] = call[t] /\ backend' = backend
            /\ UNCHANGED leaseVars /\ active' = active
        BY <1>0, <2>2, Lands DEF residencyVars, untouched, leaseVars
      <3>2. active[m] = 0
        BY <1>1, <1>11 DEF ReclaimGuard, Resizers
      <3>3. Calm(t)'
        BY <1>0, <3>1, <3>2 DEF Calm, Sized
      <3> QED BY <1>2, <3>1, <3>3
    <2> QED BY <1>11, <2>1, <2>2 DEF ReclaimGuard
  <1>12. CASE ReclaimNative(t)
    <2> DEFINE d == [backend[m] EXCEPT !.context = Info[m].context, !.slots = 1, !.trimmed = TRUE]
    <2>1. pc[t] \in Resizers /\ UNCHANGED leaseVars /\ active' = active
      BY <1>12 DEF ReclaimNative, Resizers, untouched, leaseVars
    <2>2. CASE /\ backend' = [backend EXCEPT ![m] = d] /\ call' = call
               /\ Goto(t, "reclaimWait") \/ Goto(t, "reclaimed")
      <3>1. d \in Instance
        <4>1. Info[m].context \in Nat
          BY <1>0, <1>1, <2>1, SetupFields DEF InfoType
        <4>2. backend[m] \in Instance
          BY <1>1, <2>1
        <4>3. ASSUME NEW n \in Int
              PROVE  [backend[m] EXCEPT !.context = Info[m].context, !.slots = n, !.trimmed = TRUE]
                       \in Instance
          BY <4>1, <4>2 DEF Instance
        <4>4. 1 \in Int
          OBVIOUS
        <4> QED BY <4>3, <4>4, Zenon
      <3>2. d.busy = {} /\ d.slots = 1
        BY <1>1, <2>1 DEF Instance
      <3> HIDE DEF d
      <3>3. Keeps(m, d)
        BY <1>0, <1>1, <2>1, <3>2, SizesFacts DEF Keeps
      <3>4. pc'[t] \in {"reclaimWait", "reclaimed"} /\ call'[t] = call[t]
        BY <1>0, <2>2, Lands
      <3>5. Calm(t)'
        BY <1>0, <1>1, <2>1, <3>4 DEF Calm, Sized, Resizers
      <3> QED BY <1>4, <2>1, <2>2, <3>1, <3>3, <3>5
    <2>3. CASE /\ backend' = backend
               /\ \/ \E res : PlanReturn(t, res)
                  \/ Goto(t, "reclaim") /\ call' = call
      <3>1. pc'[t] \notin Delicate /\ Sized(call'[t])
        BY <1>5, <1>6, <2>3
      <3> QED BY <1>3, <2>1, <2>3, <3>1
    <2> QED BY <1>0, <1>1, <1>12, <2>1, <2>2, <2>3 DEF ReclaimNative
  <1>13. CASE ReclaimWait(t) \/ ReclaimAgain(t)
    <2>1. /\ Goto(t, "reclaimed") \/ Goto(t, "reclaim")
          /\ call' = call /\ backend' = backend /\ UNCHANGED leaseVars
      BY <1>13 DEF ReclaimWait, ReclaimAgain, residencyVars, untouched
    <2> QED BY <1>3, <1>6, <2>1
  <1>14. CASE ShrinkPick(t)
    <2>1. UNCHANGED leaseVars /\ backend' = backend /\ active' = active
      BY <1>14 DEF ShrinkPick, untouched, residencyVars, leaseVars
    <2>2. CASE \E c \in Shrinkable(t) : GoWith(t, "shrinkGuard", [call[t] EXCEPT !.model = c])
      <3>1. PICK c \in Shrinkable(t) : GoWith(t, "shrinkGuard", [call[t] EXCEPT !.model = c])
        BY <2>2
      <3> DEFINE d == [call[t] EXCEPT !.model = c]
      <3>2. d.model = c /\ Sized(d)
        BY <1>0 DEF Sized, CallType
      <3>3. pc'[t] = "shrinkGuard" /\ call'[t] = d
        BY <1>0, <3>1, GoSized
      <3> HIDE DEF d
      <3>4. active[c] = 0 /\ backend[c].slots > 0
        <4>1. c \in Models /\ active[c] = 0 /\ backend[c].slots > Info[c].minSlots
          BY DEF Shrinkable, CanResize, OnGpu, Resident
        <4>2. Info[c].minSlots \in Nat /\ backend[c].slots \in Int
          BY <1>0, <4>1, SetupFields DEF InfoType, Instance
        <4> QED BY <4>1, <4>2
      <3>5. call'[t].model = c /\ Sized(call'[t])
        BY <3>2, <3>3
      <3>6. active'[call'[t].model] = 0 /\ backend'[call'[t].model].slots > 0
        BY <2>1, <3>4, <3>5
      <3>7. Calm(t)'
        BY <3>3, <3>5, <3>6 DEF Calm, Sized
      <3> QED BY <1>2, <2>1, <3>7
    <2>3. CASE Goto(t, "evict") /\ call' = call
      BY <1>3, <1>6, <2>1, <2>3
    <2> QED BY <1>14, <2>2, <2>3 DEF ShrinkPick
  <1>15. CASE ShrinkGuard(t)
    <2>0. pc[t] = "shrinkGuard" /\ pc[t] \in Resizers
      BY <1>15 DEF ShrinkGuard, Resizers
    <2>1. CASE PlanRefused(t, {m})
      BY <1>7, <2>1
    <2>2. CASE /\ GoWith(t, "shrinking", [call[t] EXCEPT !.moved = backend[m]])
               /\ backend' = [backend EXCEPT ![m] = EmptyBackend(backend[m])]
               /\ UNCHANGED untouched
      <3> DEFINE d == [call[t] EXCEPT !.moved = backend[m]]
                 b == EmptyBackend(backend[m])
      <3>1. UNCHANGED leaseVars /\ active' = active
        BY <2>2 DEF untouched, leaseVars
      <3>2. backend[m].slots > 0
        BY <2>0 DEF Base, Calm
      <3>3. d.model = m /\ d.moved = backend[m] /\ d.slots = call[t].slots
        BY <1>0 DEF CallType
      <3>4. pc'[t] = "shrinking" /\ call'[t] = d
        BY <1>0, <2>2, GoSized
      <3> HIDE DEF d
      <3>5. b \in Instance /\ b.busy = {} /\ b.slots = backend[m].slots
        <4>1. b \in Instance
          BY <1>0, <1>1, <2>0, InstanceTypes
        <4> QED BY <1>1, <2>0, <4>1 DEF EmptyBackend, Instance
      <3> HIDE DEF b
      <3>6. Keeps(m, b)
        BY <1>1, <2>0, <3>2, <3>5 DEF Keeps, Settled
      <3>7. call'[t].model = m /\ call'[t].moved.slots > 0 /\ Sized(call'[t])
        BY <1>0, <1>1, <2>0, <3>2, <3>3, <3>4 DEF Sized, Settled
      <3>8. active'[call'[t].model] = 0
        BY <1>1, <2>0, <3>1, <3>7
      <3>9. Calm(t)'
        BY <3>4, <3>7, <3>8 DEF Calm, Sized
      <3> QED BY <1>4, <2>0, <2>2, <3>1, <3>5, <3>6, <3>9 DEF b
    <2> QED BY <1>15, <2>1, <2>2 DEF ShrinkGuard
  <1>16. CASE ShrinkNative(t)
    <2> DEFINE back == LoadedBackend(m, call[t].moved)
               less == [back EXCEPT !.slots = @ - 1]
    <2>0. pc[t] = "shrinking" /\ pc[t] \in Resizers /\ UNCHANGED leaseVars /\ call' = call
      BY <1>16 DEF ShrinkNative, Resizers, untouched
    <2>1. call[t].moved.slots > 0
      BY <2>0 DEF Base, Calm
    <2>2. back \in Instance /\ back.busy = {} /\ back.slots = call[t].moved.slots
      <3>1. back \in Instance
        BY <1>0, <1>1, <2>0, InstanceTypes
      <3> QED BY <1>0, <3>1 DEF LoadedBackend, Instance
    <2> HIDE DEF back
    <2>3. less \in Instance /\ less.busy = {} /\ less.slots \in Sizes /\ back.slots \in Sizes
      BY <1>0, <2>1, <2>2, SizesFacts DEF Instance, Sized
    <2> HIDE DEF less
    <2>4. Keeps(m, back) /\ Keeps(m, less)
      BY <1>1, <2>0, <2>2, <2>3 DEF Keeps
    <2>5. (Goto(t, "shrink") \/ Goto(t, "evict"))
          /\ \/ backend' = backend \/ backend' = [backend EXCEPT ![m] = back]
             \/ backend' = [backend EXCEPT ![m] = less]
      BY <1>16 DEF ShrinkNative, back, less
    <2>6. pc'[t] \notin Delicate /\ Sized(call'[t])
      BY <1>6, <2>0, <2>5
    <2>7. Calm(t)'
      BY <2>6, Arrive
    <2> QED BY <1>2, <1>4, <2>0, <2>2, <2>3, <2>4, <2>5, <2>7
  <1>17. CASE EvictPick(t) \/ EvictGuard(t)
    <2>1. UNCHANGED leaseVars /\ backend' = backend
      BY <1>17 DEF EvictPick, EvictGuard, PlanRefused, untouched, residencyVars
    <2>2. \A c : Sized([call[t] EXCEPT !.model = c])
      BY <1>0 DEF Sized, CallType
    <2>3. "evictGuard" \notin Delicate /\ "unload" \notin Delicate
      BY DEF Delicate, Resizers
    <2>4. \/ \E c : GoWith(t, "evictGuard", [call[t] EXCEPT !.model = c])
          \/ Goto(t, "verdict") /\ call' = call
          \/ CallUnload(t, m, "evicted")
          \/ \E res : PlanReturn(t, res)
      BY <1>17 DEF EvictPick, EvictGuard, PlanRefused
    <2>5. pc'[t] \notin Delicate /\ Sized(call'[t])
      BY <1>0, <1>5, <1>6, <1>8, <2>2, <2>3, <2>4, CallsSized
    <2> QED BY <1>3, <2>1, <2>5
  <1> QED BY <1>9, <1>10, <1>11, <1>12, <1>13, <1>14, <1>15, <1>16, <1>17 DEF PlanNext

\* swap_to_with_control itself leaves instances and leases to the calls it makes.
LEMMA SwapLeases ==
  ASSUME NEW t \in Threads, Base(t), setup' = setup,
         \/ SwapShort(t) \/ SwapGiveUp(t) \/ SwapStart(t) \/ Legacy(t)
         \/ SwapLoad(t) \/ SwapLoaded(t) \/ SwapForce(t) \/ SwapRetry(t)
         \/ Restore(t) \/ RestoreLoad(t)
         \/ \E j \in Jobs : Begin(t, j)
  PROVE  LeaseGood(t)
  <1> DEFINE c == call[t]
  <1>0. /\ Types /\ ThreadTypes /\ ThreadSafe(t) /\ Tables /\ Sized(c) /\ c \in CallType
    BY BaseFacts
  <1> SUFFICES pc'[t] \notin Delicate /\ Sized(call'[t]) /\ UNCHANGED leaseVars /\ backend' = backend
    BY <1>0, Arrive, Sits DEF LeaseGood
  <1>1. UNCHANGED leaseVars /\ backend' = backend
    <2>1. CASE SwapShort(t) \/ SwapGiveUp(t) \/ SwapStart(t) \/ Legacy(t)
      BY <2>1 DEF SwapShort, SwapGiveUp, SwapStart, Legacy, untouched, residencyVars
    <2>2. CASE SwapLoad(t) \/ SwapLoaded(t) \/ SwapForce(t) \/ SwapRetry(t)
               \/ Restore(t) \/ RestoreLoad(t) \/ \E j \in Jobs : Begin(t, j)
      BY <2>2 DEF SwapLoad, SwapLoaded, SwapForce, SwapRetry, Restore, RestoreLoad, Begin,
         untouched, residencyVars
    <2> QED BY <2>1, <2>2
  <1>2. ASSUME NEW res, Return(t, Top(t), res) PROVE pc'[t] \notin Delicate /\ Sized(call'[t])
    BY <1>0, <1>2, ReturnSized, BacksGentle
  <1>3. /\ \A m, lret : CallLoad(t, m, lret) => pc'[t] \notin Delicate /\ Sized(call'[t])
        /\ \A m, ret : CallUnload(t, m, ret) => pc'[t] \notin Delicate /\ Sized(call'[t])
    <2>1. "load" \notin Delicate /\ "unload" \notin Delicate
      BY DEF Delicate, Resizers
    <2> QED BY <1>0, <2>1, CallsSized
  <1>4. ASSUME NEW p \in {"load", "unload", "plan", "post"}, NEW d, GoWith(t, p, d), Sized(d)
        PROVE  pc'[t] \notin Delicate /\ Sized(call'[t])
    BY <1>0, <1>4, GoSized DEF Delicate, Resizers
  <1>5. CASE SwapShort(t) \/ SwapGiveUp(t) \/ SwapLoad(t) \/ RestoreLoad(t)
    <2>1. \/ \E res : Return(t, Top(t), res)
          \/ \E m, lret : CallLoad(t, m, lret)
      BY <1>5 DEF SwapShort, SwapGiveUp, SwapLoad, RestoreLoad
    <2> QED BY <1>1, <1>2, <1>3, <2>1
  <1>6. CASE SwapStart(t)
    <2> DEFINE prior == [n \in Models |-> IF Loaded(n) THEN backend[n].slots ELSE 0]
               d1 == [c EXCEPT !.previous = current, !.force = FALSE, !.prior = prior]
               d2 == [c EXCEPT !.model = current, !.previous = current, !.ret = "legacyLoad"]
    <2>1. Sized(d1) /\ Sized(d2)
      <3> HIDE DEF prior
      <3> QED BY <1>0 DEF Sized, CallType
    <2>2. \/ \E res : Return(t, Top(t), res)
          \/ \E m, lret : CallLoad(t, m, lret)
          \/ GoWith(t, "plan", d1) \/ GoWith(t, "unload", d2)
      BY <1>6 DEF SwapStart
    <2> QED BY <1>1, <1>2, <1>3, <1>4, <2>1, <2>2
  <1>7. CASE Legacy(t)
    <2>1. Sized([c EXCEPT !.model = c.previous, !.slots = 0, !.lret = "legacyRestored",
                          !.error = c.res])
      BY <1>0, SizesFacts DEF Sized, CallType
    <2>2. \/ \E res : Return(t, Top(t), res)
          \/ \E m, lret : CallLoad(t, m, lret)
          \/ GoWith(t, "load", [c EXCEPT !.model = c.previous, !.slots = 0,
                                         !.lret = "legacyRestored", !.error = c.res])
      BY <1>7 DEF Legacy
    <2> QED BY <1>1, <1>2, <1>3, <1>4, <2>1, <2>2
  <1>8. CASE SwapLoaded(t) \/ SwapRetry(t)
    <2>1. /\ \A ret : Sized([c EXCEPT !.model = c.target, !.ret = ret, !.lret = "none",
                                      !.error = c.res])
          /\ Sized([c EXCEPT !.model = c.target, !.ret = "restore", !.lret = "none"])
      BY <1>0 DEF Sized, CallType
    <2>2. \/ \E res : Return(t, Top(t), res)
          \/ \E m, lret : CallLoad(t, m, lret)
          \/ \E ret : GoWith(t, "unload", [c EXCEPT !.model = c.target, !.ret = ret,
                                                    !.lret = "none", !.error = c.res])
          \/ GoWith(t, "unload", [c EXCEPT !.model = c.target, !.ret = "restore", !.lret = "none"])
      BY <1>8 DEF SwapLoaded, SwapRetry
    <2> QED BY <1>1, <1>2, <1>3, <1>4, <2>1, <2>2
  <1>9. CASE SwapForce(t)
    <2>1. Sized([c EXCEPT !.force = TRUE])
      BY <1>0 DEF Sized, CallType
    <2> QED BY <1>1, <1>4, <1>9, <2>1 DEF SwapForce
  <1>10. CASE Restore(t)
    <2>1. CASE \E res : Return(t, Top(t), res)
      BY <1>1, <1>2, <2>1
    <2>2. CASE \E m \in Models :
                 LET rest == [c EXCEPT !.prior[m] = 0]
                 IN  \/ With(t, rest) /\ UNCHANGED pc
                     \/ GoWith(t, "unload", [rest EXCEPT !.model = m, !.ret = "restoreLoad"])
                     \/ GoWith(t, "load", [rest EXCEPT !.model = m, !.lret = "restore",
                                                       !.ret = "none", !.slots = 0])
      <3>1. PICK m \in Models :
                 LET rest == [c EXCEPT !.prior[m] = 0]
                 IN  \/ With(t, rest) /\ UNCHANGED pc
                     \/ GoWith(t, "unload", [rest EXCEPT !.model = m, !.ret = "restoreLoad"])
                     \/ GoWith(t, "load", [rest EXCEPT !.model = m, !.lret = "restore",
                                                       !.ret = "none", !.slots = 0])
        BY <2>2
      <3> DEFINE rest == [c EXCEPT !.prior[m] = 0]
      <3>2. /\ Sized(rest)
            /\ Sized([rest EXCEPT !.model = m, !.ret = "restoreLoad"])
            /\ Sized([rest EXCEPT !.model = m, !.lret = "restore", !.ret = "none", !.slots = 0])
        BY <1>0, SizesFacts DEF Sized, CallType
      <3> HIDE DEF rest
      <3>3. CASE With(t, rest) /\ UNCHANGED pc
        <4>1. pc[t] = "restore" /\ call'[t] = rest
          BY <1>0, <1>10, <3>3 DEF Restore, With, ThreadTypes
        <4>2. pc'[t] = "restore"
          BY <3>3, <4>1
        <4> QED BY <1>1, <3>2, <4>1, <4>2 DEF Delicate, Resizers
      <3> QED BY <1>1, <1>4, <3>1, <3>2, <3>3 DEF rest
    <2> QED BY <1>10, <2>1, <2>2 DEF Restore
  <1>11. CASE \E j \in Jobs : Begin(t, j)
    <2>1. PICK j \in Jobs : Begin(t, j)
      BY <1>11
    <2>2. Sized([c EXCEPT !.job = j.op, !.target = j.model, !.model = j.model,
                          !.ret = "finish", !.lret = "finish"])
      BY <1>0 DEF Sized, CallType
    <2>3. j.op \in {"load", "unload", "post"}
      BY <1>0, SetupFields DEF JobType
    <2> QED BY <1>1, <1>4, <2>1, <2>2, <2>3 DEF Begin
  <1> QED BY <1>5, <1>6, <1>7, <1>8, <1>9, <1>10, <1>11

----------------------------------------------------------------------------
(* Steps of acquire_slot and release_slot. *)

\* ensure_request_capacity keeps an instance loaded or not, and its busy slots; it
\* adds slots only to an idle one, and no more than it is configured for.
LEMMA GrowthKeeps ==
  ASSUME ThreadTypes, NEW m \in Models, NEW b \in Instance, NEW w \in WaiterType,
         NEW g \in Growths(m, b, w), b.slots \in Sizes
  PROVE  /\ g.b.busy = b.busy /\ g.b.st = b.st
         /\ g.b.slots = b.slots \/ (b.busy = {} /\ g.b.slots \in Sizes)
  <1> DEFINE i == Info[m]
             s == Max({b.slots, w.sequences})
             x == IF w.aggregate <= b.context THEN b.context
                  ELSE Min({i.contextMax, Max({w.aggregate, 2 * b.context})})
             grown == [b EXCEPT !.trimmed = FALSE, !.slots = s, !.context = x]
             sick == [b EXCEPT !.healthy = FALSE]
  <1>1. b.slots \in Int /\ w.sequences \in Int
    BY DEF Instance, WaiterType
  <1>2. w.sequences <= i.slots => s \in Sizes
    <2>1. i.slots \in Sizes /\ i.slots \in Nat /\ b.slots >= 0
      BY SizesFacts
    <2>2. s \in {b.slots, w.sequences} /\ s >= b.slots
      BY <1>1, MaxOf
    <2> QED BY <1>1, <2>1, <2>2, SizesFacts
  <1>3. g.b \in {b, sick} \/ (g.b = grown /\ w.sequences <= i.slots /\ b.busy = {})
    <2>1. w.sequences > i.slots \/ w.sequences <= i.slots
      BY <1>1, SizesFacts
    <2> QED BY <2>1 DEF Growths
  <1> HIDE DEF s, x
  <1>4. grown.busy = b.busy /\ grown.st = b.st /\ grown.slots = s
    BY DEF Instance
  <1>5. sick.busy = b.busy /\ sick.st = b.st /\ sick.slots = b.slots
    BY DEF Instance
  <1> HIDE DEF grown, sick
  <1> QED BY <1>1, <1>2, <1>3, <1>4, <1>5

\* A lease is issued on a loaded model that is not marked, for a free slot.
LEMMA Issues ==
  ASSUME NEW r \in Requests, Base(r), setup' = setup, NEW w \in WaiterType, w.model \in Models,
         Loaded(w.model), Free(w.model) # {}, w.model \notin resizing, nextLease <= MaxLeaseId,
         IssueLease(r, w, Min(Free(w.model)))
  PROVE  LeaseGood(r)
  <1> DEFINE m == w.model
             s == Min(Free(m))
             continues == HoldValid(m) /\ hold[m].key = w.key
             context == IF w.demandPrepared THEN w.demand ELSE 0
             l == [who |-> r, model |-> m, slot |-> s, context |-> context,
                   key |-> w.key, prio |-> w.prio, continues |-> continues]
  <1>0. /\ r \in Threads /\ r # Nobody /\ Types /\ ThreadTypes /\ Tables /\ Sized(call[r])
        /\ call[r] \in CallType /\ backend \in [Models -> Instance] /\ active \in [Models -> Nat]
    BY BaseFacts, CoordinatorAssumption DEF Threads, Types, DataTypes
  <1>1. s \in Nat /\ s \notin backend[m].busy /\ s < backend[m].slots
    BY <1>0, FreeSlot
  <1>2. context \in Nat /\ w.key \in KeyNames /\ w.prio \in Int /\ m \in Names
    BY DEF WaiterType
  <1>3. continues \in BOOLEAN
    OBVIOUS
  <1>4. /\ leases' = [leases EXCEPT ![nextLease] = l] /\ nextLease' = nextLease + 1
        /\ active' = [active EXCEPT ![m] = @ + 1]
        /\ backend' = [backend EXCEPT ![m].busy = @ \cup {s}]
        /\ Goto(r, "leased") /\ call' = [call EXCEPT ![r].lease = nextLease]
    BY DEF IssueLease
  <1> HIDE DEF continues, context, s
  <1>5. l \in LeaseType /\ l.who = r /\ l.model = m /\ l.slot = s
    BY <1>1, <1>2, <1>3 DEF LeaseType
  <1> HIDE DEF l
  <1>6. Tables'
    BY <1>0, <1>1, <1>4, <1>5, Leased DEF Tables
  <1>7. Spares(r)
    <2>1. ASSUME NEW n \in Models
          PROVE  /\ backend'[n].st = backend[n].st /\ backend'[n].slots = backend[n].slots
                 /\ n \in resizing /\ active[n] = 0 => active'[n] = 0
      <3>1. backend'[n] = IF n = m THEN [backend[n] EXCEPT !.busy = @ \cup {s}] ELSE backend[n]
        BY <1>0, <1>4
      <3>2. backend[n] \in Instance
        BY <1>0
      <3>3. n # m => active'[n] = active[n]
        BY <1>0, <1>4
      <3> QED BY <3>1, <3>2, <3>3 DEF Instance
    <2> QED BY <2>1 DEF Spares
  <1>8. pc'[r] = "leased" /\ call'[r] = [call[r] EXCEPT !.lease = nextLease]
    BY <1>0, <1>4 DEF Goto, ThreadTypes
  <1>9. Sized([call[r] EXCEPT !.lease = nextLease])
    BY <1>0 DEF Sized, CallType
  <1>10. Calm(r)'
    BY <1>8, <1>9, Arrive DEF Delicate, Resizers
  <1> QED BY <1>6, <1>7, <1>10 DEF LeaseGood

\* Every step of a request.
LEMMA AdmissionLeases ==
  ASSUME NEW r \in Requests, Base(r), WaiterSafe(r), setup' = setup, RequestNext(r)
  PROVE  LeaseGood(r)
  <1> DEFINE w == waiter[r]
  <1>0. /\ r \in Threads /\ Types /\ ThreadTypes /\ ThreadSafe(r) /\ Tables /\ Sized(call[r])
        /\ call[r] \in CallType /\ backend \in [Models -> Instance] /\ w \in WaiterType
    BY BaseFacts DEF Threads, Types, DataTypes
  <1>1. pc[r] \notin Outside => w.model \in Models
    BY <1>0, AskedModel DEF WaiterSafe
  <1>2. ASSUME NEW p, Goto(r, p), p \in {"start", "queued", "leased", "released", "done", "estimate",
                  "estimating", "estimated", "capacity", "growing", "grown", "ensure", "swap"}
        PROVE  pc'[r] \notin Delicate
    BY <1>0, <1>2, Lands DEF Delicate, Resizers
  <1>3. ASSUME \/ call' = call
               \/ \E res : call' = [call EXCEPT ![r].res = res]
        PROVE  Sized(call'[r])
    <2>1. CASE call' = call
      BY <1>0, <2>1
    <2>2. CASE \E res : call' = [call EXCEPT ![r].res = res]
      <3>1. PICK res : call' = [call EXCEPT ![r].res = res]
        BY <2>2
      <3>2. call'[r] = [call[r] EXCEPT !.res = res]
        BY <1>0, <3>1 DEF ThreadTypes
      <3>3. Sized([call[r] EXCEPT !.res = res])
        BY <1>0 DEF Sized, CallType
      <3> QED BY <3>2, <3>3
    <2> QED BY <1>3, <2>1, <2>2
  <1>4. ASSUME UNCHANGED leaseVars, backend' = backend, pc'[r] \notin Delicate, Sized(call'[r])
        PROVE  LeaseGood(r)
    BY <1>0, <1>4, Sits, Arrive DEF LeaseGood
  <1>5. CASE \E a \in Asks : TryAcquire(r, a) \/ Enqueue(r, a)
    <2>1. PICK a \in Asks : TryAcquire(r, a) \/ Enqueue(r, a)
      BY <1>5
    <2>2. CASE Enqueue(r, a)
      <3>1. /\ UNCHANGED leaseVars /\ backend' = backend /\ call' = call
            /\ Goto(r, "done") \/ Goto(r, "queued")
        BY <2>2 DEF Enqueue, residencyVars
      <3> QED BY <1>2, <1>3, <1>4, <3>1
    <2>3. CASE TryAcquire(r, a)
      <3>1. CASE UNCHANGED leaseVars /\ backend' = backend /\ call' = call /\ Goto(r, "done")
        BY <1>2, <1>3, <1>4, <3>1
      <3>2. CASE /\ IssueLease(r, NewWaiter(a), Min(Free(a.model))) /\ Loaded(a.model)
                 /\ a.model \notin resizing /\ Free(a.model) # {} /\ nextLease <= MaxLeaseId
        <4>1. NewWaiter(a) \in WaiterType /\ NewWaiter(a).model = a.model /\ a.model \in Models
          BY <1>0, NewWaiterType, AskedModel
        <4> HIDE DEF NewWaiter
        <4> QED BY <3>2, <4>1, Issues
      <3> QED BY <2>3, <3>1, <3>2 DEF TryAcquire
    <2> QED BY <2>1, <2>2, <2>3
  <1>6. CASE GiveUp(r) \/ Estimating(r) \/ EstimateLock(r) \/ EstimateNative(r) \/ EstimateReturn(r)
             \/ NotReady(r) \/ PrepareCapacity(r) \/ CapacityLock(r)
    <2>1. UNCHANGED leaseVars /\ backend' = backend
      BY <1>6 DEF GiveUp, Estimating, EstimateLock, EstimateNative, EstimateReturn, NotReady,
         PrepareCapacity, CapacityLock, residencyVars
    <2>2. \E p \in {"queued", "done", "estimate", "estimating", "estimated", "capacity",
                    "growing", "grown"} : Goto(r, p)
      BY <1>6 DEF GiveUp, Estimating, EstimateLock, EstimateNative, EstimateReturn, NotReady,
         PrepareCapacity, CapacityLock
    <2>3. \/ call' = call
          \/ \E res : call' = [call EXCEPT ![r].res = res]
      BY <1>6 DEF GiveUp, Estimating, EstimateLock, EstimateNative, EstimateReturn, NotReady,
         PrepareCapacity, CapacityLock
    <2> QED BY <1>2, <1>3, <1>4, <2>1, <2>2, <2>3
  <1>7. CASE CapacityReturn(r) \/ LoadReturn(r)
    <2>1. PICK v : TakeResult(r, v)
      BY <1>7 DEF CapacityReturn, LoadReturn
    <2>2. /\ UNCHANGED leaseVars /\ backend' = backend /\ call' = call
          /\ Goto(r, "queued") \/ Goto(r, "done")
      BY <2>1 DEF TakeResult, residencyVars
    <2> QED BY <1>2, <1>3, <1>4, <2>2
  <1>8. CASE PrepareLoad(r)
    <2>1. PICK job \in {"swap", "ensure"} :
             Goto(r, job) /\ call' = [call EXCEPT ![r] = [NoCall EXCEPT !.job = job, !.target = w.model]]
      BY <1>8 DEF PrepareLoad
    <2>2. UNCHANGED leaseVars /\ backend' = backend
      BY <1>8 DEF PrepareLoad, residencyVars
    <2>3. call'[r] = [NoCall EXCEPT !.job = job, !.target = w.model]
      BY <1>0, <2>1 DEF ThreadTypes
    <2>4. Sized([NoCall EXCEPT !.job = job, !.target = w.model])
      <3>1. 0 \in Sizes
        BY <1>0, SizesFacts
      <3> QED BY <3>1 DEF Sized, NoCall, NoBackend
    <2> QED BY <1>2, <1>4, <2>1, <2>2, <2>3, <2>4
  <1>9. CASE CapacityStale(r)
    <2>1. UNCHANGED leaseVars /\ backend' = backend /\ call' = call /\ pc' = pc /\ pc[r] = "queued"
      BY <1>9 DEF CapacityStale, Proceeds, threadVars, residencyVars
    <2> QED BY <1>3, <1>4, <2>1 DEF Delicate, Resizers
  <1>10. CASE CapacityNative(r)
    <2> DEFINE m == w.model
    <2>1. PICK g \in Growths(m, backend[m], w) \cup {[res |-> "gone", b |-> backend[m]]} :
                 backend' = [backend EXCEPT ![m] = g.b] /\ call' = [call EXCEPT ![r].res = g.res]
      BY <1>10 DEF CapacityNative
    <2>2. UNCHANGED leaseVars /\ pc[r] = "growing" /\ Goto(r, "grown")
      BY <1>10 DEF CapacityNative
    <2>3. m \in Models /\ backend[m] \in Instance
      BY <1>0, <1>1, <2>2 DEF Outside
    <2>4. /\ g.b \in Instance /\ g.b.busy = backend[m].busy /\ g.b.st = backend[m].st
          /\ \/ g.b.slots = backend[m].slots
             \/ backend[m].busy = {} /\ g.b.slots \in Sizes
      <3>1. CASE g \in Growths(m, backend[m], w)
        <4>1. backend[m].slots \in Sizes
          BY <1>0, <2>3 DEF Tables, Settled
        <4> QED BY <1>0, <2>3, <3>1, <4>1, GrowthInstances, GrowthKeeps
      <3>2. CASE g = [res |-> "gone", b |-> backend[m]]
        BY <2>3, <3>2 DEF Instance
      <3> QED BY <2>1, <3>1, <3>2
    <2>5. Keeps(m, g.b)
      BY <1>0, <2>3, <2>4, SettledIdle DEF Keeps, Tables
    <2>6. LockOf(m) \in Holds(r)
      <3>1. "swap" \in Holds(r)
        BY <1>0, <2>2 DEF ThreadSafe, Safe, SwapHeld
      <3>2. Asked(w) /\ w.demand > 0
        BY <2>2 DEF WaiterSafe, Outside, Measured
      <3>3. LockOf(m) = "swap"
        BY <3>2 DEF Asked, Base, LeaseHyp, SidecarsApart, LockOf
      <3> QED BY <3>1, <3>3
    <2>7. Calm(r)'
      BY <1>2, <1>3, <2>1, <2>2, Arrive
    <2>8. backend' = [backend EXCEPT ![m] = g.b]
      BY <2>1
    <2> QED BY <1>0, <2>2, <2>3, <2>4, <2>5, <2>6, <2>7, <2>8, Replaces DEF LeaseGood
  <1>11. CASE Grant(r)
    <2>1. /\ pc[r] = "queued" /\ Free(w.model) # {} /\ w.model \notin resizing
          /\ Loaded(w.model)
      BY <1>11 DEF Grant, Proceeds, WantsSlot, WantsLoad
    <2>2. CASE UNCHANGED leaseVars /\ backend' = backend /\ call' = call /\ Goto(r, "done")
      BY <1>2, <1>3, <1>4, <2>2
    <2>3. CASE IssueLease(r, w, Min(Free(w.model))) /\ nextLease <= MaxLeaseId
      <3>1. w.model \in Models
        BY <1>1, <2>1 DEF Outside
      <3> QED BY <1>0, <2>1, <2>3, <3>1, Issues
    <2> QED BY <1>11, <2>2, <2>3 DEF Grant
  <1>12. CASE Release(r)
    <2> DEFINE n == call[r].lease
               l == leases[n]
               m == l.model
    <2>1. n \in LeaseIds /\ call' = call /\ (Goto(r, "released") \/ Goto(r, "done"))
      BY <1>0, <1>12 DEF Release, ThreadSafe, Safe
    <2>2. pc'[r] \notin Delicate /\ Sized(call'[r])
      BY <1>2, <1>3, <2>1
    <2>3. CASE UNCHANGED leaseVars /\ backend' = backend
      BY <1>4, <2>2, <2>3
    <2>4. CASE /\ leases' = [leases EXCEPT ![n] = NoLease] /\ l # NoLease
               /\ active' = [active EXCEPT ![m] = Reduced(@, 1)]
               /\ backend' = [backend EXCEPT ![m].busy = @ \ {l.slot}]
               /\ nextLease' = nextLease
      <3>1. n \in Held /\ m \in Models
        BY <1>0, <2>1, <2>4 DEF Held, Tables, Placed
      <3>2. Tables'
        BY <1>0, <2>4, <3>1, Returned DEF Tables
      <3>3. Spares(r)
        <4>1. active \in [Models -> Nat] /\ Reduced(0, 1) = 0
          BY <1>0, MaxOf DEF Types, DataTypes, Reduced
        <4>2. ASSUME NEW o \in Models
              PROVE  /\ backend'[o].st = backend[o].st /\ backend'[o].slots = backend[o].slots
                     /\ active[o] = 0 => active'[o] = 0
          <5>1. backend'[o] = IF o = m THEN [backend[o] EXCEPT !.busy = @ \ {l.slot}] ELSE backend[o]
            BY <1>0, <2>4
          <5>2. backend[o] \in Instance
            BY <1>0
          <5>3. active'[o] = IF o = m THEN Reduced(active[o], 1) ELSE active[o]
            BY <2>4, <4>1
          <5> QED BY <4>1, <5>1, <5>2, <5>3 DEF Instance
        <4> QED BY <4>2 DEF Spares
      <3> QED BY <2>2, <3>2, <3>3, Arrive DEF LeaseGood
    <2> QED BY <1>12, <2>3, <2>4 DEF Release
  <1> QED BY <1>5, <1>6, <1>7, <1>8, <1>9, <1>10, <1>11, <1>12 DEF RequestNext

----------------------------------------------------------------------------
(* The invariant. *)

\* A step of one thread that spares the others keeps the invariant.
LEMMA StepKeeps ==
  ASSUME ThreadInv, LeaseHyp, LeaseInv, NEW t \in Threads, Good(t), LeaseGood(t)
  PROVE  LeaseInv'
  <1>1. ASSUME NEW s \in Threads PROVE Calm(s)'
    <2>1. CASE s = t
      BY <2>1 DEF LeaseGood
    <2>2. CASE s # t
      <3>1. pc'[s] = pc[s] /\ call'[s] = call[s] /\ Calm(s) /\ Spares(t) /\ SidecarsApart
        BY <2>2 DEF Good, Others, LeaseInv, LeaseGood, LeaseHyp
      <3> QED BY <2>2, <3>1, CalmKept
    <2> QED BY <2>1, <2>2
  <1> QED BY <1>1 DEF LeaseInv, LeaseGood, Tables

\* SwapTracker touches no lease and no instance, and leads no thread to a delicate label.
LEMMA TrackerLeases ==
  ASSUME ThreadInv, LeaseInv, setup' = setup, TrackerNext
  PROVE  LeaseInv'
  <1>0. Types /\ ThreadTypes /\ Tables
    BY DEF ThreadInv, Types, LeaseInv, Tables
  <1>1. UNCHANGED leaseVars /\ backend' = backend /\ active' = active
    BY DEF TrackerNext, SwapEnds, EnsureReady, EnsureGiveUp, EnsureRefused, EnsureSidecar,
       EnsureStart, EnsureAwait, EnsureCheck, PostSwap, Ensured, StartWorker, quiet, residencyVars,
       leaseVars
  <1>2. Tables'
    BY <1>0, <1>1, Undisturbed DEF Tables
  <1> DEFINE Calls == {"start", "prepared", "await", "swap", "load", "ensure", "check", "finish"}
  <1>3. Calls \cap Delicate = {}
    BY DEF Delicate, Resizers
  <1>4. /\ Sized(NoCall)
        /\ \A res : Sized([NoCall EXCEPT !.res = res])
        /\ \A job, m : Sized([NoCall EXCEPT !.job = job, !.target = m])
    <2>1. Sized(NoCall)
      BY <1>0, SizesFacts DEF Sized, NoCall, NoBackend
    <2>2. ASSUME NEW res PROVE Sized([NoCall EXCEPT !.res = res])
      BY <1>0, SizesFacts DEF Sized, NoCall, NoBackend
    <2>3. ASSUME NEW job, NEW m PROVE Sized([NoCall EXCEPT !.job = job, !.target = m])
      BY <1>0, SizesFacts DEF Sized, NoCall, NoBackend
    <2> QED BY <2>1, <2>2, <2>3
  <1>5. ASSUME NEW s \in Threads PROVE Calm(s)'
    <2>1. Calm(s) /\ Sized(call[s]) /\ call[s] \in CallType
      BY <1>0 DEF LeaseInv, Calm, Sized, ThreadTypes
    <2>2. CASE pc'[s] = pc[s] /\ call'[s] = call[s]
      BY <1>1, <2>1, <2>2 DEF Calm
    <2>3. CASE pc'[s] \in Calls /\ Sized(call'[s])
      BY <1>3, <2>3, Arrive
    <2>4. ASSUME NEW t \in Threads, NEW p \in Calls, NEW c, GoWith(t, p, c), Sized(c)
          PROVE  Calm(s)'
      <3>1. /\ pc'[t] = p /\ call'[t] = c
            /\ s # t => pc'[s] = pc[s] /\ call'[s] = call[s]
        BY <1>0, <2>4 DEF GoWith, Goto, With, ThreadTypes
      <3> QED BY <2>2, <2>3, <2>4, <3>1
    <2>5. ASSUME NEW t \in Threads, NEW p \in Calls, Goto(t, p), call' = call PROVE Calm(s)'
      <3>1. pc'[t] = p /\ (s # t => pc'[s] = pc[s])
        BY <1>0, <2>5 DEF Goto, ThreadTypes
      <3> QED BY <2>1, <2>2, <2>3, <2>5, <3>1
    <2>6. ASSUME NEW t \in Threads, NEW m, NEW p \in Calls, StartWorker(t, m, p) PROVE Calm(s)'
      <3>1. /\ s \notin {t, Worker} => pc'[s] = pc[s] /\ call'[s] = call[s]
            /\ s = Worker => pc'[s] = "swap"
                             /\ call'[s] = [NoCall EXCEPT !.job = "swap", !.target = m]
            /\ s = t /\ s # Worker => pc'[s] = p /\ call'[s] = call[s]
        BY <1>0, <2>6 DEF StartWorker, ThreadTypes
      <3>2. Sized([NoCall EXCEPT !.job = "swap", !.target = m])
        BY <1>4
      <3> QED BY <2>1, <2>2, <2>3, <2>6, <3>1, <3>2
    <2>7. CASE SwapEnds
      <3>1. Worker \in Threads /\ Sized(NoCall)
        BY <1>4 DEF Threads
      <3> QED BY <2>4, <2>7, <3>1 DEF SwapEnds
    <2>8. ASSUME NEW r \in Requests, NEW res, Ensured(r, res) PROVE Calm(s)'
      <3>1. r \in Threads /\ Sized([NoCall EXCEPT !.res = res])
        BY <1>4 DEF Threads
      <3> QED BY <2>4, <2>8, <3>1 DEF Ensured
    <2>9. CASE \E r \in Requests : EnsureReady(r) \/ EnsureGiveUp(r) \/ EnsureRefused(r)
                                   \/ EnsureAwait(r) \/ EnsureCheck(r)
      <3>1. PICK r \in Requests : EnsureReady(r) \/ EnsureGiveUp(r) \/ EnsureRefused(r)
                                  \/ EnsureAwait(r) \/ EnsureCheck(r)
        BY <2>9
      <3>2. \/ \E res : Ensured(r, res)
            \/ \E p \in Calls : Goto(r, p) /\ call' = call
        BY <3>1 DEF EnsureReady, EnsureGiveUp, EnsureRefused, EnsureAwait, EnsureCheck
      <3>3. r \in Threads
        BY DEF Threads
      <3> QED BY <2>5, <2>8, <3>2, <3>3
    <2>10. CASE \E r \in Requests : EnsureSidecar(r) \/ EnsureStart(r)
      <3>1. PICK r \in Requests : EnsureSidecar(r) \/ EnsureStart(r)
        BY <2>10
      <3>2. r \in Threads
        BY DEF Threads
      <3>3. CASE EnsureSidecar(r)
        <4>1. call[r] \in CallType /\ Sized(call[r])
          BY <1>0, <3>2 DEF ThreadTypes, LeaseInv, Calm, Sized
        <4>2. Sized([call[r] EXCEPT !.model = call[r].target, !.lret = "prepared", !.ret = "none",
                                    !.slots = 0])
          BY <1>0, <4>1, SizesFacts DEF Sized, CallType
        <4> QED BY <2>4, <3>2, <3>3, <4>2 DEF EnsureSidecar, CallLoad
      <3>4. CASE EnsureStart(r)
        <4>1. Sized([NoCall EXCEPT !.res = "error"])
          BY <1>4
        <4>2. \/ StartWorker(r, call[r].target, "await")
              \/ Goto(r, "await") /\ call' = call
              \/ GoWith(r, "prepared", [NoCall EXCEPT !.res = "error"])
          BY <3>4 DEF EnsureStart
        <4> QED BY <2>4, <2>5, <2>6, <3>2, <4>1, <4>2
      <3> QED BY <3>1, <3>3, <3>4
    <2>11. CASE \E t \in Operators : PostSwap(t)
      <3>1. PICK t \in Operators : PostSwap(t)
        BY <2>11
      <3>2. t \in Threads
        BY DEF Threads
      <3>3. \/ StartWorker(t, call[t].target, "finish")
            \/ Goto(t, "finish") /\ call' = call
        BY <3>1 DEF PostSwap
      <3> QED BY <2>5, <2>6, <3>2, <3>3
    <2> QED BY <2>7, <2>9, <2>10, <2>11 DEF TrackerNext
  <1> QED BY <1>2, <1>5 DEF LeaseInv, Tables

\* A failure, telemetry, time and voice sessions touch no lease.
LEMMA OutsideLeases ==
  ASSUME ThreadInv, LeaseInv, setup' = setup,
         \/ \E m \in Models : Sicken(m) \/ HoldLapses(m)
         \/ \E u \in Samples : Observe(u)
         \/ Lapse \/ Tick \/ Sessions \/ Finished \/ UNCHANGED vars
  PROVE  LeaseInv'
  <1>0. /\ Types /\ ThreadTypes /\ Tables /\ backend \in [Models -> Instance]
        /\ \A s \in Threads : Calm(s)
    BY DEF ThreadInv, Types, DataTypes, LeaseInv, Tables
  <1>1. UNCHANGED leaseVars /\ active' = active /\ pc' = pc /\ call' = call
    BY DEF Sicken, HoldLapses, Observe, Lapse, Tick, Sessions, Finished, vars, threadVars, leaseVars
  <1>2. CASE \E m \in Models : Sicken(m)
    <2>1. PICK m \in Models : Sicken(m)
      BY <1>2
    <2> DEFINE b == [backend[m] EXCEPT !.healthy = FALSE]
    <2>2. /\ b \in Instance /\ b.st = backend[m].st /\ b.busy = backend[m].busy
          /\ b.slots = backend[m].slots
      BY <1>0 DEF Instance
    <2>3. backend' = [backend EXCEPT ![m] = b]
      BY <1>0, <2>1 DEF Sicken
    <2> HIDE DEF b
    <2>4. Keeps(m, b)
      BY <1>0, <2>2 DEF Keeps, Instance
    <2>5. Tables'
      BY <1>0, <1>1, <2>2, <2>3, <2>4, Rebuilt DEF Tables
    <2>6. \A n : backend'[n].st = backend[n].st /\ backend'[n].slots = backend[n].slots
      <3>1. \A n : n # m => backend'[n] = backend[n]
        BY <1>0, <2>3
      <3>2. backend'[m] = b
        BY <1>0, <2>3
      <3> QED BY <2>2, <3>1, <3>2
    <2>7. ASSUME NEW s \in Threads PROVE Calm(s)'
      BY <1>0, <1>1, <2>6 DEF Calm
    <2> QED BY <2>5, <2>7 DEF LeaseInv, Tables
  <1>3. CASE backend' = backend
    <2>1. Tables'
      BY <1>0, <1>1, <1>3, Undisturbed DEF Tables
    <2>2. ASSUME NEW s \in Threads PROVE Calm(s)'
      BY <1>0, <1>1, <1>3 DEF Calm
    <2> QED BY <2>1, <2>2 DEF LeaseInv, Tables
  <1>4. backend' = backend \/ \E m \in Models : Sicken(m)
    BY DEF HoldLapses, Observe, Lapse, Tick, Sessions, Finished, vars, residencyVars
  <1> QED BY <1>2, <1>3, <1>4

\* Nothing is leased when the process starts.
LEMMA LeaseInvInit == Init => LeaseInv
  <1> SUFFICES ASSUME Init PROVE LeaseInv
    OBVIOUS
  <1>0. ThreadTypes
    BY ThreadInvInit DEF ThreadInv, Types
  <1>1. \A n \in LeaseIds : leases[n] = NoLease
    BY DEF Init
  <1>2. Held = {}
    BY <1>1 DEF Held
  <1>3. Unissued /\ Placed
    BY <1>1, <1>2 DEF Unissued, Placed
  <1>4. ASSUME NEW m \in Models PROVE Settled(m)
    <2>1. HeldOn(m) = {} /\ Cardinality(HeldOn(m)) = 0 /\ SlotsOf(m) = {}
      BY <1>0, <1>2, HeldFinite DEF HeldOn, SlotsOf
    <2>2. backend[m].busy = {} /\ backend[m].slots \in Sizes
      <3>1. Info[m].slots \in Sizes /\ 0 \in Sizes
        BY <1>0, SizesFacts
      <3>2. /\ LoadedBackend(m, FreshBackend(m)).busy = {}
            /\ LoadedBackend(m, FreshBackend(m)).slots = Info[m].slots
        BY DEF LoadedBackend, FreshBackend
      <3>3. backend[m] \in {LoadedBackend(m, FreshBackend(m)), NoBackend}
        BY DEF Init
      <3> QED BY <3>1, <3>2, <3>3 DEF NoBackend
    <2> QED BY <2>1, <2>2 DEF Settled, Init
  <1>5. ASSUME NEW t \in Threads PROVE Calm(t)
    <2>1. pc[t] = "start" /\ call[t] = NoCall
      BY DEF Init
    <2>2. NoCall.slots = 0 /\ NoCall.moved.slots = 0
      BY DEF NoCall, NoBackend
    <2> QED BY <1>0, <2>1, <2>2, SizesFacts DEF Calm, Resizers
  <1> QED BY <1>3, <1>4, <1>5 DEF LeaseInv

\* Every step keeps the invariant.
LEMMA LeaseInvStep == ThreadInv /\ LeaseHyp /\ LeaseInv /\ [Next]_vars => LeaseInv'
  <1> SUFFICES ASSUME ThreadInv, LeaseHyp, LeaseInv, [Next]_vars PROVE LeaseInv'
    OBVIOUS
  <1>0. setup' = setup /\ \A t \in Threads : Base(t)
    BY SetupFixed DEF Base, LeaseInv, Tables
  <1>1. CASE AdmissionNext
    <2>1. PICK r \in Requests : RequestNext(r)
      BY <1>1 DEF AdmissionNext, RequestNext
    <2>2. r \in Threads /\ WaiterSafe(r)
      BY DEF Threads, ThreadInv
    <2> QED BY <1>0, <2>1, <2>2, AdmissionGood, AdmissionLeases, StepKeeps
  <1>2. CASE LifecycleNext
    <2>1. PICK t \in Threads : LifeNext(t) \/ \E j \in Jobs : Begin(t, j)
      BY <1>2 DEF LifecycleNext, LifeNext, Threads
    <2>2. Good(t)
      BY <2>1, LifeGood
    <2>3. LeaseGood(t)
      BY <1>0, <2>1, LoadLeases, UnloadLeases, PlanLeases, SwapLeases DEF LifeNext
    <2> QED BY <2>2, <2>3, StepKeeps
  <1>3. CASE TrackerNext
    BY <1>0, <1>3, TrackerLeases
  <1>4. CASE \/ \E m \in Models : Sicken(m) \/ HoldLapses(m)
             \/ \E u \in Samples : Observe(u)
             \/ Lapse \/ Tick \/ Sessions \/ Finished \/ UNCHANGED vars
    BY <1>0, <1>4, OutsideLeases
  <1> QED BY <1>1, <1>2, <1>3, <1>4 DEF Next

\* Both hypotheses are about the configuration, which never changes.
LEMMA LeaseHypKept == ThreadInv /\ LeaseHyp /\ [Next]_vars => LeaseHyp'
  <1>1. LeaseHyp /\ setup' = setup => LeaseHyp'
    BY DEF LeaseHyp, LoadsStay, SidecarsApart, Sidecar, Primary, Info, Asks
  <1> QED BY <1>1, SetupFixed

\* Lease table, counters, busy slots and residency agree in every interleaving.
THEOREM LeasesAgree == Spec /\ LeaseHyp => [](ThreadInv /\ LeaseHyp /\ LeaseInv)
  <1>1. Init => ThreadInv /\ LeaseInv
    BY ThreadInvInit, LeaseInvInit
  <1>2. ThreadInv /\ LeaseHyp /\ LeaseInv /\ [Next]_vars => (ThreadInv /\ LeaseHyp /\ LeaseInv)'
    BY ThreadInvStep, LeaseHypKept, LeaseInvStep
  <1> QED BY <1>1, <1>2, PTL DEF Spec

----------------------------------------------------------------------------
(* What follows from it. *)

\* LeaseSafe, in one state.
LEMMA SettledSafe == LeaseInv => LeaseSafe
  <1> SUFFICES ASSUME LeaseInv, NEW n \in Held
               PROVE  /\ Loaded(leases[n].model)
                      /\ leases[n].slot \in backend[leases[n].model].busy
                      /\ \A o \in HeldOn(leases[n].model) \ {n} : leases[o].slot # leases[n].slot
    BY DEF LeaseSafe
  <1>1. Settled(leases[n].model) /\ n \in HeldOn(leases[n].model)
    BY DEF LeaseInv, Placed, HeldOn
  <1> QED BY <1>1 DEF Settled, SlotsOf

\* A granted slot is served by a loaded backend and belongs to one lease until it is
\* released, whatever unloads, shrinks, reclaims, evictions, rollbacks and recoveries
\* run meanwhile: no model is unloaded, resized or replaced under a lease.
THEOREM LeasesAlwaysSafe == Spec /\ LeaseHyp => []LeaseSafe
  BY LeasesAgree, SettledSafe, PTL
=============================================================================
