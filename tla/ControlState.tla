---------------------------- MODULE ControlState ----------------------------
(***************************************************************************)
(* What the control plane's parts share: the gateway process, the          *)
(* maintenance resource, and the people and programs that call it.         *)
(*                                                                         *)
(* An office is one configuration of the model: who asks for what, what    *)
(* may fail, how often the gateway is restarted.                           *)
(***************************************************************************)
EXTENDS Integers, Sequences, FiniteSets, TLC

CONSTANTS Offices, None

\* Every program has a key of its own; a new key has an identifier that was
\* never in use, as the code draws it at random; documents are there, and two
\* measurements of a model try the same numbers of requests; None is not a
\* lease, nor a resource, nor the state of a job.
Measurement == [prompt : Int, speed : Int, parallel : Seq(Int), quality : Int, drafted : BOOLEAN, vram : Int]
Programs(o) == {c \in DOMAIN o.asks : o.asks[c].do \in {"lease", "probe"}}
Creators(o) == {c \in DOMAIN o.asks : o.asks[c].do = "create"}
Identifiers == UNION {DOMAIN o.keys \cup {o.asks[c].id : c \in Creators(o)} : o \in Offices}
ASSUME OfficeAssumption ==
    /\ \A o \in Offices :
         /\ o.keys \in [DOMAIN o.keys -> [priority : Int, revoked : BOOLEAN]]
         /\ \A c \in Programs(o) : "credential" \in DOMAIN o.asks[c]
         /\ \A c \in Programs(o) : o.asks[c].do = "lease" => o.asks[c].duration \in Nat
         /\ \A c, d \in Programs(o) : o.asks[c].credential = o.asks[d].credential => c = d
         /\ \A c \in Creators(o) : o.asks[c].id \notin DOMAIN o.keys
         /\ \A c, d \in Creators(o) : o.asks[c].id = o.asks[d].id => c = d
         /\ o.base # None
         /\ \A c \in DOMAIN o.asks : o.asks[c].do \in {"base", "active"} => o.asks[c].edit # None
         /\ o.baseline # None =>
              /\ o.baseline \in Measurement
              /\ \A p \in DOMAIN o.measures : \A m \in o.measures[p] :
                   m \in Measurement /\ DOMAIN m.parallel = DOMAIN o.baseline.parallel
    /\ None \notin [id : Nat, owner : Identifiers, expires : Int]
    /\ None \notin {"cpu", "gpu", "failed", "cancelled", "completed", "unmeasured"}

VARIABLES
    office,        \* the chosen office, constant
    gateway,       \* "up", or "dead" when run_gateway throws
    restarts,      \* crashes left
    maintenance,   \* maintenance_resource: None, "cpu" or "gpu"
    resident,      \* the models that are loaded
    reload,        \* g_reload
    pc             \* caller -> where its request stands
shared == <<office, gateway, restarts, maintenance, resident, reload, pc>>

Callers == DOMAIN office.asks
Ask(c) == office.asks[c]
Goes(c, point) == pc' = [pc EXCEPT ![c] = point]
Fault(f) == f \in office.faults
Up == gateway = "up"
\* The pre-routing handler turns every request away once a reload is due.
Serving == Up /\ ~reload
\* A handler is running: httplib lets it finish before the server stops.
Handling == \E c \in Callers : pc[c] \notin {"idle", "holding", "done"}
=============================================================================
