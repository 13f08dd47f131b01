------------------------------- MODULE Control -------------------------------
(***************************************************************************)
(* The gateway's control plane: configuration, keys and leases, and the    *)
(* benchmark, sharing one process, one registry and one maintenance        *)
(* resource; reload, crash and restart.                                    *)
(***************************************************************************)
EXTENDS ProfileBenchmark

Init ==
    /\ office \in Offices /\ gateway = "up" /\ restarts = office.restarts /\ maintenance = None
    /\ resident = {} /\ reload = FALSE /\ pc = [c \in Callers |-> "idle"]
    /\ base = office.base /\ active = office.active
    /\ applied = Selected /\ registry = Registry(Selected, office.stored)
    /\ loading = Filled(Selected, "default_model")
    /\ my = [c \in Callers |-> [text |-> <<>>, revision |-> <<>>, previous |-> None]]
    /\ keys = office.keys /\ lease = None /\ known = Live /\ healthy = TRUE /\ issued = 0 /\ clock = 0 /\ last = 0
    /\ grant = [c \in Callers |-> None] /\ at = [c \in Callers |-> 0] /\ left = [c \in Callers |-> Val(Ask(c), "calls", 0)]
    /\ bench = NoBench /\ cancel = FALSE /\ worker = "none" /\ job = NoJob /\ attempted = {}

fixed == <<office, gateway, restarts>>
\* Each request is authorized when it arrives.
ConfigStep(c) ==
    /\ pc[c] \in {"idle", "holding"} => Granted(c)
    /\ Fetch(c) \/ Enter(c) \/ SaveBase(c) \/ SaveActive(c) \/ SaveSettings(c) \/ ResetActive(c)
       \/ PutAlias(c) \/ RemoveAlias(c) \/ Unregister(c)
    /\ UNCHANGED <<fixed, maintenance, resident, leasing, bench_vars>>
KeyStepOf(c) == KeyStep(c) /\ UNCHANGED <<fixed, maintenance, resident, reload, config, bench_vars>>
RequestStepOf(c) ==
    /\ RequestStep(c)
    /\ UNCHANGED <<fixed, maintenance, reload, config, bench, cancel, worker, attempted, database, known, healthy, issued, clock, grant, at, left>>
StartStepOf(c) == StartStep(c) /\ UNCHANGED <<fixed, resident, reload, config, leasing>>
Alone == \/ DefaultLoaded /\ Ousts /\ UNCHANGED <<fixed, maintenance, pc, leasing, bench, cancel, worker, attempted>>
         \/ Tick /\ UNCHANGED <<shared, config, bench_vars>>
         \/ (WorkerStep \/ Quit) /\ UNCHANGED <<fixed, reload, pc, config, leasing>>

\* run_gateway returns to main, which starts it again.
Reload ==
    /\ Up /\ reload /\ ~loading /\ ~Handling /\ worker = "none" /\ ConfigBoot /\ KeysBoot /\ BenchBoot
    /\ maintenance' = None /\ UNCHANGED <<office, restarts, pc, files, my>>
\* Memory is lost; a program that was waiting for an answer calls again.
Crash ==
    /\ Up /\ restarts > 0 /\ restarts' = restarts - 1 /\ ConfigBoot /\ KeysBoot /\ BenchBoot
    /\ pc' = [c \in Callers |-> IF pc[c] \in {"idle", "holding"} \/ Principal(c) = "managed" \/ Ask(c).do = "schedule"
                                THEN (IF pc[c] = "holding" THEN "holding" ELSE "idle") ELSE "done"]
    /\ maintenance' = None /\ UNCHANGED <<office, files, my>>
Next == \/ \E c \in Callers : ConfigStep(c) \/ KeyStepOf(c) \/ RequestStepOf(c) \/ StartStepOf(c)
        \/ Alone \/ Reload \/ Crash
ControlSpec == Init /\ [][Next]_<<shared, config, leasing, bench_vars>>
=============================================================================
