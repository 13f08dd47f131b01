----------------------------- MODULE StoreUpkeep -----------------------------
(***************************************************************************)
(* The rest of the model store: quantization, archiving and removal, the   *)
(* models the coordinator loads meanwhile, shutdown, crash and restart.    *)
(***************************************************************************)
EXTENDS ModelStore

\* Requests, queued requests or a swap at the moment of a check.
Busy(source) == Fault("busy") \/ source \in loaded
Idle(source) == source \notin loaded
----------------------------------------------------------------------------
(* quantize: two checks of the names, two of the coordinator, one claim of *)
(* the maintenance resource.                                               *)

Quantizable(p) ==
    Ask(p).source \in DOMAIN installed /\ Active("quantize") = {} /\ ~Taken(Ask(p).name)
QuantizeAsk(p) ==
    /\ pc[p] = "idle" /\ Ask(p).do = "quantize" /\ nextJob <= MaxId
    /\ threads' = Reaped /\ jobs' = Pruned("quantize")
    /\ \/ Quantizable(p) /\ Goes(p, "claim") /\ Keeps(p, [Fresh EXCEPT !.entry = installed[Ask(p).source]])
       \/ ~Quantizable(p) /\ Goes(p, "done") /\ UNCHANGED my
    /\ UNCHANGED <<names, nextJob, spoken, token, commits, upkeep, manifest, writer, files, world>>
\* The output directory and what may be in it.
Output(n) == {Path(n, "quantized", role, part) : role \in {"final", "partial", "staged"}, part \in 0..1}
QuantizeClaim(p) ==
    /\ pc[p] = "claim"
    /\ \/ /\ Idle(Ask(p).source) /\ my[p].entry \in DOMAIN files /\ Output(Ask(p).name) \cap DOMAIN files = {}
          /\ upkeep = None /\ upkeep' = "quantize" /\ Goes(p, "recheck")
       \/ /\ \/ Busy(Ask(p).source) \/ my[p].entry \notin DOMAIN files
             \/ Output(Ask(p).name) \cap DOMAIN files # {} \/ upkeep # None
          /\ Goes(p, "done") /\ UNCHANGED upkeep
    /\ UNCHANGED <<names, work, manifest, writer, files, my, world>>
\* release_quantization_resource, and the call fails.
Releases(p) == upkeep' = None /\ Goes(p, "done") /\ UNCHANGED my
QuantizeRecheck(p) ==
    /\ pc[p] = "recheck"
    /\ \/ Idle(Ask(p).source) /\ Goes(p, "add") /\ UNCHANGED <<upkeep, my>>
       \/ Busy(Ask(p).source) /\ Releases(p)
    /\ UNCHANGED <<names, work, manifest, writer, files, world>>
QuantizeAdd(p) ==
    /\ pc[p] = "add"
    /\ \/ /\ Quantizable(p) /\ nextJob <= MaxId
          /\ jobs' = nextJob :> [kind |-> "quantize", name |-> Ask(p).name, file |-> "quantized", parts |-> 1,
                                 source |-> Ask(p).source, state |-> "queued", flag |-> 0] @@ jobs
          /\ reserved' = Ask(p).name :> nextJob @@ reserved /\ nextJob' = nextJob + 1
          /\ Goes(p, "launch") /\ Keeps(p, [my[p] EXCEPT !.id = nextJob, !.why = "quantize"]) /\ UNCHANGED upkeep
       \/ ~Quantizable(p) /\ Releases(p) /\ UNCHANGED <<jobs, reserved, nextJob>>
    /\ UNCHANGED <<installed, registry, spoken, token, commits, threads, manifest, writer, files, world>>
\* start_quantization: with too many threads nothing happens, and where none can
\* be made the job fails and its name is free, before quantize has the lock again.
QuantizeLaunch(p) ==
    /\ pc[p] = "launch"
    /\ LET i == my[p].id IN
       \/ /\ Cardinality(Reaped) < store.maxJobs /\ threads' = Reaped \cup {i}
          /\ pc' = [pc EXCEPT ![p] = "done", ![Worker(i)] = "begin"]
          /\ my' = [my EXCEPT ![Worker(i)] = [Fresh EXCEPT !.id = i, !.entry = my[p].entry]]
          /\ UNCHANGED <<jobs, reserved>>
       \/ /\ Cardinality(Reaped) >= store.maxJobs
          /\ threads' = Reaped /\ Goes(p, "withdraw") /\ UNCHANGED <<my, jobs, reserved>>
       \/ /\ Cardinality(Reaped) < store.maxJobs /\ Fault("thread")
          /\ jobs' = [jobs EXCEPT ![i].state = "failed"] /\ reserved' = Without(reserved, {jobs[i].name})
          /\ threads' = Reaped /\ Goes(p, "withdraw") /\ UNCHANGED my
    /\ UNCHANGED <<installed, registry, nextJob, spoken, token, commits, upkeep, manifest, writer, files, world>>
----------------------------------------------------------------------------
(* run_quantization: everything is checked once more.                      *)

Fails(p, point) == Goes(p, point) /\ Keeps(p, [my[p] EXCEPT !.end = "failed"])
QuantizeBegin(p) ==
    /\ pc[p] = "begin" /\ Me(p).kind = "quantize"
    /\ jobs' = [jobs EXCEPT ![my[p].id].state = "quantizing"]
    /\ \/ Me(p).source \in DOMAIN installed /\ Goes(p, "check") /\ UNCHANGED my
       \/ Me(p).source \notin DOMAIN installed /\ Fails(p, "finish")
    /\ UNCHANGED <<names, nextJob, spoken, token, commits, threads, upkeep, manifest, writer, files, world>>
QuantizeCheck(p) ==
    /\ pc[p] = "check"
    /\ LET j == Me(p)  directory == Staged(j, 0)
           ready == j.source \in DOMAIN registry /\ my[p].entry \in DOMAIN files /\ directory \notin DOMAIN files IN
       \/ Idle(j.source) /\ ready /\ files' = directory :> Whole @@ files /\ Goes(p, "quantize") /\ UNCHANGED my
       \/ (Busy(j.source) \/ ~ready) /\ Fails(p, "finish") /\ UNCHANGED files
    /\ Quiet(p)
\* quantizer_->quantize, and the checksum of what it wrote.
Quantize(p) ==
    /\ pc[p] = "quantize"
    /\ \/ Verified(my[p].entry) /\ files' = Partial(Me(p), 1) :> Whole @@ files /\ Goes(p, "rename") /\ UNCHANGED my
       \/ (Fault("quantizer") \/ ~Verified(my[p].entry)) /\ Fails(p, "clear") /\ UNCHANGED files
    /\ Quiet(p)
\* install_new_file
QuantizeRename(p) ==
    /\ pc[p] = "rename"
    /\ \/ Final(Me(p)) \notin DOMAIN files /\ files' = Moved(Partial(Me(p), 1), Final(Me(p)))
          /\ Goes(p, "list") /\ UNCHANGED my
       \/ (Final(Me(p)) \in DOMAIN files \/ Fault("rename")) /\ Fails(p, "clear") /\ UNCHANGED files
    /\ Quiet(p)
\* finish_quantization: the resource first, then the job.
QuantizeRelease(p) ==
    /\ pc[p] = "finish" /\ Me(p).kind = "quantize"
    /\ upkeep' = None /\ Goes(p, "conclude")
    /\ UNCHANGED <<names, work, manifest, writer, files, my, world>>
QuantizeEnd(p) == pc[p] = "conclude" /\ Finish(p, my[p].end) /\ UNCHANGED files
----------------------------------------------------------------------------
(* retire: remove or archive.                                              *)

Quantizing(n) == \E i \in Active("quantize") : n \in {jobs[i].source, jobs[i].name}
RetireAsk(p) ==
    /\ pc[p] = "idle" /\ Ask(p).do \in {"remove", "archive"}
    /\ LET n == Ask(p).name IN
       \/ /\ n \in DOMAIN installed /\ ~Quantizing(n)
          /\ Goes(p, "probe") /\ Keeps(p, [Fresh EXCEPT !.entry = installed[n], !.why = "retire"])
       \/ (n \notin DOMAIN installed \/ Quantizing(n)) /\ Goes(p, "done") /\ UNCHANGED my
    /\ UNCHANGED <<names, work, upkeep, manifest, writer, files, world>>
\* Loaded, shared with another model, or archived before: refused.
Archived(f) == [f EXCEPT !.role = "archive"]
Shared(n, f) == \E m \in (DOMAIN installed \cup DOMAIN registry) \ {n} :
                  \/ m \in DOMAIN installed /\ installed[m] = f
                  \/ m \in DOMAIN registry /\ registry[m] = f
Refused(p) ==
    \/ Ask(p).name \in loaded \/ Shared(Ask(p).name, my[p].entry)
    \/ Ask(p).do = "archive" /\ Archived(my[p].entry) \in DOMAIN files
RetireProbe(p) ==
    /\ pc[p] = "probe"
    /\ \/ Refused(p) /\ Goes(p, "done") /\ UNCHANGED my
       \/ /\ ~Refused(p) /\ Goes(p, "erase")
          /\ Keeps(p, [my[p] EXCEPT !.was = IF Ask(p).name \in DOMAIN registry THEN "registered" ELSE None])
    /\ UNCHANGED <<names, work, upkeep, manifest, writer, files, world>>
RetireErase(p) ==
    /\ pc[p] = "erase" /\ installed' = Without(installed, {Ask(p).name}) /\ Goes(p, "save")
    /\ UNCHANGED <<registry, reserved, work, upkeep, manifest, writer, files, my, world>>
Relist(p, point) ==
    /\ installed' = Ask(p).name :> my[p].entry @@ installed /\ Goes(p, point)
    /\ Keeps(p, [my[p] EXCEPT !.why = "restore"])
    /\ UNCHANGED <<registry, reserved, work, upkeep, manifest, writer, files, world>>
RetireRelist(p) == pc[p] = "relist" /\ Relist(p, "done")
\* BackendCoordinator::unregister refuses a loaded model and the target of an
\* alias; the entry is restored and saved again.
Unregister(p) ==
    /\ pc[p] = "unregister"
    /\ LET n == Ask(p).name IN
       \/ (n \in loaded \/ n \in store.targets) /\ Goes(p, "restore") /\ UNCHANGED registry
       \/ n \notin loaded \cup store.targets /\ registry' = Without(registry, {n}) /\ Goes(p, "delete")
    /\ UNCHANGED <<installed, reserved, work, upkeep, manifest, writer, files, my, world>>
\* remove_all may leave some artifacts of a bundle, or its empty directory; a
\* file, or what is renamed, is there or not.
Left(size) == [size |-> size, good |-> FALSE]
RetireDelete(p) ==
    /\ pc[p] = "delete"
    /\ LET f == my[p].entry IN
       \/ /\ f \in DOMAIN files /\ Goes(p, "done")
          /\ files' = IF Ask(p).do = "archive" THEN Moved(f, Archived(f)) ELSE Without(files, {f})
       \/ (f \notin DOMAIN files \/ Fault("delete")) /\ Goes(p, "register back") /\ UNCHANGED files
       \/ /\ f \in DOMAIN files /\ Fault("delete") /\ Ask(p).do = "remove" /\ f.role = "bundle"
          /\ \E size \in 0..(Full - 1) : files' = f :> Left(size) @@ files
          /\ Goes(p, "register back")
    /\ UNCHANGED <<names, work, upkeep, manifest, writer, my, world>>
RegisterBack(p) ==
    /\ pc[p] = "register back" /\ Goes(p, "restore")
    /\ registry' = IF my[p].was = "registered" THEN Ask(p).name :> my[p].entry @@ registry ELSE registry
    /\ UNCHANGED <<installed, reserved, work, upkeep, manifest, writer, files, my, world>>
RestoreUnsaved(p) == pc[p] = "restore" /\ Relist(p, "done")
RetireRestore(p) == pc[p] = "restore" /\ Relist(p, "save")
----------------------------------------------------------------------------
(* The coordinator, other maintenance, and the life of the process.        *)

Load ==
    /\ \/ \E n \in (store.loads \cap DOMAIN registry) \ loaded : loaded' = loaded \cup {n}
       \/ \E n \in loaded : loaded' = loaded \ {n}
    /\ UNCHANGED <<store, names, work, upkeep, manifest, writer, files, pc, my, life>>
Benchmark ==
    /\ store.benchmarks
    /\ \/ upkeep = None /\ upkeep' = "benchmark"
       \/ upkeep = "benchmark" /\ upkeep' = None
    /\ UNCHANGED <<world, names, work, manifest, writer, files, pc, my>>
\* load_manifest: what is listed and still there, a directory with an artifact
\* at least.  An entry that register_model refuses ends the loop: what comes
\* before it in the list is registered, and nothing counts as installed.
Listed(m) == Restrict(m, {n \in DOMAIN m : m[n] \in DOMAIN files /\ (m[n].role = "bundle" => Size(m[n]) > 0)})
LoadManifest ==
    LET there == Listed(manifest)  refused == DOMAIN there \cap store.aliases IN
    \/ refused = {} /\ installed' = there /\ registry' = there
    \/ /\ refused # {} /\ installed' = <<>>
       /\ \E before \in SUBSET (DOMAIN there \ refused) : registry' = Restrict(there, before)
Boot ==
    /\ LoadManifest
    /\ loaded' = {} /\ reserved' = <<>> /\ jobs' = <<>> /\ nextJob' = 1 /\ spoken' = {} /\ token' = 1
    /\ commits' = {} /\ threads' = {} /\ upkeep' = None /\ writer' = [who |-> Nobody, text |-> <<>>]
    /\ pc' = [p \in Procs |-> IF p[1] = "worker" THEN None ELSE IF pc[p] = "idle" THEN "idle" ELSE "done"]
    /\ my' = [p \in Procs |-> Fresh]
    /\ UNCHANGED <<store, manifest, files>>
Crash ==
    /\ life.at \in {"up", "down"} /\ life.left > 0
    /\ life' = [at |-> "up", left |-> life.left - 1] /\ Boot
\* ~ModelStore, once no request is served: every flag is set, every thread joined.
Shutdown ==
    /\ life.at = "up" /\ life.left > 0 /\ \A c \in Clients : pc[Client(c)] \in {"idle", "done"}
    /\ life' = [life EXCEPT !.at = "down"] /\ spoken' = {jobs[i].flag : i \in DOMAIN jobs}
    /\ UNCHANGED <<store, names, loaded, jobs, nextJob, token, commits, threads, upkeep, manifest, writer, files, pc, my>>
Restart ==
    /\ life.at = "down" /\ \A i \in 1..MaxId : pc[Worker(i)] \in {None, "done"}
    /\ life' = [at |-> "up", left |-> life.left - 1] /\ Boot

StoreInit ==
    /\ store \in Stores
    /\ installed = [n \in store.has |-> Path(n, "f", IF n \in store.bundles THEN "bundle" ELSE "final", 0)]
    /\ registry = installed /\ manifest = installed
    /\ files = store.left @@ [f \in Range(installed) |-> Whole]
    /\ loaded = {} /\ reserved = <<>> /\ jobs = <<>> /\ nextJob = 1 /\ spoken = {} /\ token = 1 /\ commits = {}
    /\ threads = {} /\ upkeep = None /\ writer = [who |-> Nobody, text |-> <<>>]
    /\ pc = [p \in Procs |-> IF p[1] = "worker" THEN None ELSE "idle"] /\ my = [p \in Procs |-> Fresh]
    /\ life = [at |-> "up", left |-> store.restarts]
\* A request of the dashboard, or what is left of one; a worker.
ClientStep(p) ==
    \/ Install(p) \/ Resume(p) \/ Start(p) \/ Launch(p) \/ Withdraw(p) \/ Cancel(p)
    \/ QuantizeAsk(p) \/ QuantizeClaim(p) \/ QuantizeRecheck(p) \/ QuantizeAdd(p) \/ QuantizeLaunch(p)
    \/ RetireAsk(p) \/ RetireProbe(p) \/ RetireErase(p) \/ RetireRelist(p) \/ Unregister(p)
    \/ RetireDelete(p) \/ RegisterBack(p) \/ RetireRestore(p)
WorkerStep(p) ==
    \/ Begin(p) \/ Stage(p) \/ Part(p) \/ Fetch(p) \/ Verify(p) \/ Keep(p) \/ Commit(p) \/ Place(p)
    \/ List(p) \/ Register(p) \/ Clear(p) \/ Unlist(p) \/ End(p)
    \/ QuantizeBegin(p) \/ QuantizeCheck(p) \/ Quantize(p) \/ QuantizeRename(p) \/ QuantizeRelease(p) \/ QuantizeEnd(p)
StoreNext ==
    \/ life.at = "up" /\ (Load \/ Benchmark \/ \E c \in Clients : ClientStep(Client(c)))
    \/ life.at # "ended" /\ \E i \in 1..MaxId : WorkerStep(Worker(i))
    \/ life.at # "ended" /\ \E p \in Procs : SaveBegins(p) \/ SaveEnds(p)
    \/ Crash \/ Shutdown \/ Restart
StoreSpec == StoreInit /\ [][StoreNext]_storeVars
----------------------------------------------------------------------------
(* The removals of a model that have begun.                                *)
Removals(n) == {c \in Clients : /\ store.asks[c].do \in {"remove", "archive"} /\ store.asks[c].name = n
                                 /\ pc[Client(c)] # "idle"}
(* A bundle whose removal may have failed half-way, and a model that is    *)
(* removed twice at once: retire registers both again without a look at    *)
(* what is left of their artifacts, and so does the next start.            *)
Unsure(n) ==
    \/ registry[n].role = "bundle" /\ Fault("delete") /\ \E c \in Removals(n) : store.asks[c].do = "remove"
    \/ Cardinality(Removals(n)) > 1
(* Whatever is interrupted, cancelled, resumed or undone, at every moment  *)
(* a registered model has its complete verified artifact at the registered *)
(* path and a loaded one is still registered: no partial or corrupt        *)
(* download is registered, before or after a restart, and nothing deletes  *)
(* the file of a model that is in use.  The removals above are where this  *)
(* fails.                                                                  *)
RegisteredVerified ==
    /\ \A n \in DOMAIN registry : Verified(registry[n]) \/ Unsure(n)
    /\ loaded \subseteq DOMAIN registry
(* A cancellation the store accepted is never followed by that start of    *)
(* the job finishing as installed: begin_install_commit and cancel decide  *)
(* the race under the mutex.                                               *)
CancelHonoured ==
    life.at = "up" => \A i \in DOMAIN jobs : jobs[i].state = "installed" => jobs[i].flag \notin spoken
(* Once every call and every worker is through, memory, registry and disk  *)
(* tell the same story: what is installed is registered under the same     *)
(* path, no name, commit or maintenance resource stays taken, and unless a *)
(* write of it failed installed.json lists exactly what is installed; what *)
(* it lists besides after a restart has no artifact any more.  Excepted is *)
(* a name that is removed twice at once, or whose removal fails on the     *)
(* disk after it was given to a new model: the undo of the removal         *)
(* overwrites the other call.  And where the process went down between the *)
(* save and the refused registration of a model named like an alias,       *)
(* load_manifest forgets every model: those registered are more then.      *)
Restarted == life.left < store.restarts
Contested == {n \in DOMAIN installed \cup DOMAIN registry \cup DOMAIN manifest :
    \/ Cardinality(Removals(n)) > 1
    \/ Fault("delete") /\ Removals(n) # {} /\ \E c \in Clients : store.asks[c].do \in {"install", "quantize"} /\ store.asks[c].name = n}
Forgetful == Restarted /\ \E c \in Clients : "name" \in DOMAIN store.asks[c] /\ store.asks[c].name \in store.aliases
StoreSettled ==
    (life.at = "up" /\ \A p \in Procs : pc[p] \in {"idle", "done", None}) =>
        LET here == Without(installed, Contested)  known == Without(registry, Contested)
            stale == IF Restarted THEN DOMAIN manifest \ (DOMAIN Listed(manifest) \cup DOMAIN installed) ELSE {}
            listed == Without(manifest, Contested \cup stale) IN
        /\ DOMAIN here \subseteq DOMAIN known /\ here = Restrict(known, DOMAIN here)
        /\ ~Forgetful => here = known /\ (~Fault("save") => listed = here)
        /\ reserved = <<>> /\ commits = {} /\ upkeep # "quantize"
(* A job never has two threads: the store refuses to start a download that *)
(* is already running.                                                     *)
OneThread == life.at # "ended"
=============================================================================
