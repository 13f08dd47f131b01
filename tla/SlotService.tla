---------------------------- MODULE SlotService ----------------------------
(***************************************************************************)
(* What BackendCoordinator promises the routes, without saying how: a      *)
(* client that acquired a slot of a model has it for itself, and the model *)
(* stays as it is until the client gives the slot back.  No queue, no      *)
(* locks, no memory: those decide only when a step is taken.               *)
(* BackendCoordinator.tla implements this specification.                   *)
(***************************************************************************)
EXTENDS Naturals

CONSTANTS
    Clients,    \* those who ask for slots
    Services,   \* the models
    MaxSize     \* bound: slots of one model

VARIABLES
    grant,      \* per client: the slots it has, as <<model, slot>> pairs
    size        \* per model: slots it serves, 0 when it is not loaded

serviceVars == <<grant, size>>

Pairs == Services \X (0 .. MaxSize - 1)
\* Grants are pairs of a model and a slot, sizes stay within what is configured.
ServiceTypeOK ==
    /\ grant \in [Clients -> SUBSET Pairs]
    /\ size \in [Services -> 0 .. MaxSize]

Taken == {p \in Pairs : \E c \in Clients : p \in grant[c]}

Idle(m) == \A p \in Taken : p[1] # m

ServiceInit ==
    /\ grant = [c \in Clients |-> {}]
    /\ size \in [Services -> 0 .. MaxSize]

\* acquire_slot succeeds: a client without a slot gets one that is served and free.
Acquire(c, p) ==
    /\ grant[c] = {}
    /\ p[2] < size[p[1]] /\ p \notin Taken
    /\ grant' = [grant EXCEPT ![c] = {p}]
    /\ UNCHANGED size

\* release_slot
GiveBack(c) ==
    /\ grant[c] # {}
    /\ grant' = [grant EXCEPT ![c] = {}]
    /\ UNCHANGED size

\* load, unload, resize_slots, reclaim_idle_context, ensure_request_capacity:
\* the model is loaded, unloaded or resized, only while nobody uses it.
Change(m, n) ==
    /\ Idle(m) /\ n # size[m]
    /\ size' = [size EXCEPT ![m] = n]
    /\ UNCHANGED grant

ServiceNext ==
    \/ \E c \in Clients : \E p \in Pairs : Acquire(c, p)
    \/ \E c \in Clients : GiveBack(c)
    \/ \E m \in Services : \E n \in 0 .. MaxSize : Change(m, n)

ServiceSpec == ServiceInit /\ [][ServiceNext]_serviceVars

----------------------------------------------------------------------------
\* acquire_slot never hands out a slot twice, and what it handed out stays
\* served by a loaded model: the slot of a running request is in range for as
\* long as the request has it.
Exclusive ==
    /\ \A c, d \in Clients : c # d => grant[c] \cap grant[d] = {}
    /\ \A p \in Taken : p[2] < size[p[1]]
=============================================================================
