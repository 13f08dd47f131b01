----------------------------- MODULE RouteSlots -----------------------------
(***************************************************************************)
(* What the handlers of the data plane share: the configuration of a run,  *)
(* the slots of a model as BackendCoordinator hands them out, and where    *)
(* each request stands.                                                    *)
(***************************************************************************)
EXTENDS Integers, Sequences, FiniteSets

CONSTANTS Requests,   \* the names the configurations give their requests
          Rigs        \* the configurations of a run

VARIABLES rig,        \* the configuration: limits, faults, what is asked
          owner,      \* the slots of the model: who holds each
          at,         \* where the handler, the provider or the cleanup is
          th          \* where the inference thread or speech worker is

Nobody == "nobody"
Ask(r) == rig.ask[r]
AskedFor(kinds) == {r \in DOMAIN rig.ask : rig.ask[r].kind \in kinds}
Free == {s \in DOMAIN owner : owner[s] = Nobody}
Goes(r, point) == at' = [at EXCEPT ![r] = point]
Runs(r, point) == th' = [th EXCEPT ![r] = point]

\* What a configuration asks for is what the routes serve; a name that stands
\* for no request is not the name of one.
Kinds == {"chat", "responses", "plain", "image", "music", "video", "wav", "transcription", "speech"}
ASSUME RigAssumption ==
    \A g \in Rigs : /\ g.slots \in Nat /\ g.maxJobs \in Nat /\ g.maxChunks \in Nat
                    /\ DOMAIN g.ask \subseteq Requests \ {Nobody, "startup"}
                    /\ \A r \in DOMAIN g.ask : g.ask[r].kind \in Kinds

RouteInit ==
    /\ rig \in Rigs
    /\ owner = [s \in 1..rig.slots |-> Nobody]
    /\ at = [r \in DOMAIN rig.ask |-> "idle"] /\ th = [r \in DOMAIN rig.ask |-> "none"]
=============================================================================
