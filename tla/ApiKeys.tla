------------------------------- MODULE ApiKeys -------------------------------
(***************************************************************************)
(* ApiKeyStore: managed keys, authorization of requests, and the one       *)
(* background lease that programs take, renew and give back.               *)
(*                                                                         *)
(* Every store operation holds the store's mutex and is one transaction.   *)
(* A route authenticates and reads the clock before it; a program may be   *)
(* told the outcome late, or never.                                        *)
(***************************************************************************)
EXTENDS ConfigControl

VARIABLES
    keys,      \* api_keys: id -> [priority, revoked]
    lease,     \* background_leases: None or [id, owner, expires]
    known,     \* active: id -> priority, what requests are checked against
    healthy,   \* is_healthy
    issued,    \* lease identifiers drawn so far
    clock, last,   \* now, and when a request last ended or the gateway started
    grant,     \* program -> the lease it believes to hold
    at,        \* program -> the time its call has read, or the lease it releases
    left       \* program -> calls left
database == <<keys, lease>>
leasing == <<keys, lease, known, healthy, issued, clock, last, grant, at, left>>

Live == [k \in {j \in DOMAIN keys : ~keys[j].revoked} |-> keys[k].priority]
----------------------------------------------------------------------------
(* Authorization.                                                          *)

Credential(c) == Val(Ask(c), "credential", "")
Principal(c) ==
    CASE Ask(c).do = "work" -> "data"
      [] Ask(c).do \in {"lease", "probe"} -> "managed"
      [] OTHER -> "control"
\* RouteAuthorizer::authorize.  A caller is local unless it says otherwise.
Matches(c, token) == token # "" /\ Credential(c) = token
Granted(c) ==
    LET auth == Part(applied, "auth")  control == Part(applied, "control")
        required == Val(auth, "required", FALSE)  data == Val(auth, "token", "") IN
    CASE Principal(c) = "data" -> Credential(c) \in DOMAIN known \/ ~required \/ Matches(c, data)
      [] Principal(c) = "managed" -> Credential(c) \in DOMAIN known
      [] OTHER -> \/ ~Val(Ask(c), "remote", FALSE)
                  \/ /\ Val(control, "allow_remote", FALSE)
                     /\ \/ Matches(c, Val(control, "token", ""))
                        \/ Val(control, "allow_data_plane_token", FALSE) /\ required /\ Matches(c, data)
\* The pre-routing handler answers 401 or 403; a program tries again.
Deny(c) ==
    /\ pc[c] = "idle" /\ Serving /\ ~Granted(c)
    /\ \/ Principal(c) # "managed" /\ Goes(c, "done") /\ UNCHANGED left
       \/ Principal(c) = "managed" /\ left[c] > 0 /\ left' = [left EXCEPT ![c] = @ - 1] /\ UNCHANGED pc
    /\ UNCHANGED <<database, known, healthy, issued, clock, last, grant, at>>
----------------------------------------------------------------------------
(* Keys.                                                                   *)

ValidPriority(p) == p \in -100..100
Added(f, id, entry) == [k \in DOMAIN f \cup {id} |-> IF k = id THEN entry ELSE f[k]]
\* One call of an administrator; the database may refuse it.
Administers(c, do) == pc[c] = "idle" /\ Serving /\ Granted(c) /\ Ask(c).do = do /\ Goes(c, "done")
                      /\ UNCHANGED <<healthy, issued, clock, last, grant, at, left>>
Create(c) ==
    /\ Administers(c, "create")
    /\ \/ /\ healthy /\ ValidPriority(Ask(c).priority)
          /\ keys' = Added(keys, Ask(c).id, [priority |-> Ask(c).priority, revoked |-> FALSE])
          /\ known' = Added(known, Ask(c).id, Ask(c).priority)
       \/ (~healthy \/ ~ValidPriority(Ask(c).priority) \/ Fault("database")) /\ UNCHANGED <<keys, known>>
    /\ UNCHANGED lease
Update(c) ==
    /\ Administers(c, "update")
    /\ \/ /\ healthy /\ Ask(c).id \in DOMAIN known /\ ValidPriority(Ask(c).priority)
          /\ keys' = [keys EXCEPT ![Ask(c).id].priority = Ask(c).priority]
          /\ known' = [known EXCEPT ![Ask(c).id] = Ask(c).priority]
       \/ (Ask(c).id \notin DOMAIN known \/ ~ValidPriority(Ask(c).priority) \/ Fault("database")) /\ UNCHANGED <<keys, known>>
    /\ UNCHANGED lease
\* The key, its lease and what requests are checked against go together.
Freed(owner) == IF lease # None /\ lease.owner = owner THEN None ELSE lease
Revoke(c) ==
    /\ Administers(c, "revoke")
    /\ \/ /\ healthy /\ Ask(c).id \in DOMAIN Live
          /\ keys' = [keys EXCEPT ![Ask(c).id].revoked = TRUE] /\ lease' = Freed(Ask(c).id)
          /\ known' = [k \in DOMAIN known \ {Ask(c).id} |-> known[k]]
       \/ (~healthy \/ Ask(c).id \notin DOMAIN Live \/ Fault("database")) /\ UNCHANGED <<keys, lease, known>>
----------------------------------------------------------------------------
(* Background leases.                                                      *)

Working == {c \in Callers : pc[c] = "working"}
\* runtime_availability: no request, no maintenance, and a quiet period.
Available(now) == Working = {} /\ maintenance = None /\ ~Fault("stats") /\ now - last >= office.idle
\* read_active_background_lease deletes what has expired.
Fresh(now) == IF lease # None /\ lease.expires <= now THEN None ELSE lease
\* A program's call ends with an answer, which may be lost on the way.
Answer(c, g) ==
    /\ Goes(c, "idle") /\ left' = [left EXCEPT ![c] = @ - 1]
    /\ \/ grant' = [grant EXCEPT ![c] = g]
       \/ Fault("lost") /\ UNCHANGED grant
Told(l) == [id |-> l.id, expires |-> l.expires]
\* require_managed_key, and the clock.  A program stops before it releases.
Call(c) ==
    /\ pc[c] = "idle" /\ Serving /\ Principal(c) = "managed" /\ left[c] > 0 /\ Granted(c) /\ healthy
    /\ \/ Goes(c, "asking") /\ at' = [at EXCEPT ![c] = clock] /\ UNCHANGED grant
       \/ Ask(c).do = "lease" /\ grant[c] # None /\ Goes(c, "renewing") /\ at' = [at EXCEPT ![c] = clock] /\ UNCHANGED grant
       \/ /\ Ask(c).do = "lease" /\ grant[c] # None /\ Goes(c, "releasing")
          /\ at' = [at EXCEPT ![c] = grant[c].id] /\ grant' = [grant EXCEPT ![c] = None]
    /\ UNCHANGED <<database, known, healthy, issued, clock, last, left>>
\* active_background_lease, for a program that wants one or only looks.
Inspect(c) ==
    /\ pc[c] = "asking"
    /\ \/ /\ lease' = Fresh(at[c])
          /\ \/ lease' = None /\ Goes(c, "free") /\ UNCHANGED <<grant, left>>
             \/ lease' # None /\ lease'.owner = Credential(c) /\ Answer(c, Told(lease'))
             \/ lease' # None /\ lease'.owner # Credential(c) /\ Answer(c, grant[c])
       \/ Fault("database") /\ Answer(c, grant[c]) /\ UNCHANGED lease
    /\ UNCHANGED <<keys, known, healthy, issued, clock, last, at>>
\* handle_acquire_background_lease looks at the load before it acquires.
Probe(c) ==
    /\ pc[c] = "free"
    /\ \/ Available(at[c]) /\ Ask(c).do = "lease" /\ Goes(c, "clear") /\ UNCHANGED <<grant, left>>
       \/ ~(Available(at[c]) /\ Ask(c).do = "lease") /\ Answer(c, grant[c])
    /\ UNCHANGED <<database, known, healthy, issued, clock, last, at>>
\* Mutant: a key revoked since the request was authorized may still acquire.
MayOwnAnyway(c) == healthy
MayOwn(c) == healthy /\ Credential(c) \in DOMAIN known
Acquire(c) ==
    /\ pc[c] = "clear"
    /\ \/ /\ MayOwn(c)
          /\ \/ /\ Fresh(at[c]) = None
                /\ lease' = [id |-> issued, owner |-> Credential(c), expires |-> at[c] + Ask(c).duration]
                /\ issued' = issued + 1 /\ Answer(c, Told(lease'))
             \/ /\ Fresh(at[c]) # None /\ lease' = lease /\ UNCHANGED issued
                /\ Answer(c, IF lease.owner = Credential(c) THEN Told(lease) ELSE grant[c])
       \/ (~MayOwn(c) \/ Fault("database")) /\ Answer(c, grant[c]) /\ UNCHANGED <<lease, issued>>
    /\ UNCHANGED <<keys, known, healthy, clock, last, at>>
Renew(c) ==
    /\ pc[c] = "renewing"
    /\ LET l == Fresh(at[c])
           mine == l # None /\ l.owner = Credential(c) /\ l.id = grant[c].id IN
       \/ MayOwn(c) /\ mine /\ lease' = [l EXCEPT !.expires = at[c] + Ask(c).duration] /\ Answer(c, Told(lease'))
       \/ MayOwn(c) /\ ~mine /\ lease' = l /\ Answer(c, None)
       \/ (~MayOwn(c) \/ Fault("database")) /\ UNCHANGED lease /\ Answer(c, grant[c])
    /\ UNCHANGED <<keys, known, healthy, issued, clock, last, at>>
Release(c) ==
    /\ pc[c] = "releasing"
    /\ \/ healthy /\ lease' = IF lease # None /\ lease.id = at[c] /\ lease.owner = Credential(c) THEN None ELSE lease
       \/ (~healthy \/ Fault("database")) /\ UNCHANGED lease
    /\ Answer(c, None)
    /\ UNCHANGED <<keys, known, healthy, issued, clock, last, at>>
Tick == clock < office.hours /\ clock' = clock + 1
        /\ UNCHANGED <<database, known, healthy, issued, last, grant, at, left>>
\* The store is opened and the live keys are read.
KeysBoot ==
    /\ \/ healthy' = TRUE /\ known' = Live
       \/ Fault("store") /\ healthy' = FALSE /\ known' = <<>>
    /\ last' = clock /\ UNCHANGED <<database, issued, clock, grant, at>>
    /\ left' = [c \in Callers |-> IF pc[c] = "idle" \/ left[c] = 0 THEN left[c] ELSE left[c] - 1]
KeyStep(c) == Deny(c) \/ Create(c) \/ Update(c) \/ Revoke(c) \/ Call(c) \/ Inspect(c) \/ Probe(c) \/ Acquire(c) \/ Renew(c) \/ Release(c)
----------------------------------------------------------------------------
(* Properties.                                                             *)

\* One program at a time works in the background.  The lease row belongs to
\* a key that is not revoked, requests are checked against the keys and
\* priorities the database holds, and a program whose key is live and whose
\* grant has not expired holds the row, however late, lost or repeated the
\* calls around it were and whatever was revoked or restarted meanwhile.
LeaseExclusive ==
    /\ lease # None => lease.owner \in DOMAIN Live
    /\ healthy => known = Live
    /\ \A c \in Callers : grant[c] # None /\ Credential(c) \in DOMAIN Live /\ grant[c].expires > clock =>
         lease # None /\ lease.owner = Credential(c) /\ lease.id = grant[c].id /\ lease.expires >= grant[c].expires
=============================================================================
