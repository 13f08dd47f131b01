----------------------------- MODULE ModelStore -----------------------------
(***************************************************************************)
(* The model store: installs by background workers, cancel and resume,     *)
(* and installed.json (StoreUpkeep adds the rest).  A step is a stretch    *)
(* of a call between two points where it takes mutex_ or manifest_mutex_,  *)
(* touches the disk, the coordinator or the network.                       *)
(***************************************************************************)
EXTENDS Naturals, FiniteSets, Sequences, FiniteSetsExt, Functions, TLC

CONSTANTS Stores,    \* the rigs: what is installed, asked for and may fail
          MaxId      \* a bound on the job ids one process hands out

VARIABLES store,     \* the rig of this behaviour
          installed, \* installed_: name -> path
          registry,  \* the coordinator's models: name -> path
          loaded,    \* the models the coordinator holds in memory
          reserved,  \* reserved_names_: name -> job
          jobs,      \* downloads_ and quantizations_: id -> job
          nextJob,   \* next_id_
          spoken,    \* the cancellation flags that are set, by token
          token,     \* the next token: a start makes a new flag
          commits,   \* committing_installs_
          threads,   \* workers_: the jobs whose thread the store can join
          upkeep,    \* maintenance_resource_
          manifest,  \* installed.json
          writer,    \* who holds manifest_mutex_, and its snapshot
          files,     \* the files of the store: path -> content
          pc, my,    \* where each client and worker is, and its locals
          life       \* "up", "down", "ended" by std::terminate; restarts left
storeVars == <<store, installed, registry, loaded, reserved, jobs, nextJob, spoken, token, commits,
               threads, upkeep, manifest, writer, files, pc, my, life>>
names == <<installed, registry, reserved>>
work == <<jobs, nextJob, spoken, token, commits, threads>>
world == <<store, loaded, life>>

None == "none"
Nobody == <<None, 0>>
Clients == DOMAIN store.asks
Client(c) == <<"client", c>>
Worker(i) == <<"worker", i>>
Ask(p) == store.asks[p[2]]
Procs == {Client(c) : c \in Clients} \cup {Worker(i) : i \in 1..MaxId}
Full == 2                           \* the size every artifact should have
Whole == [size |-> Full, good |-> TRUE]
Path(model, file, role, part) == [model |-> model, file |-> file, role |-> role, part |-> part]
\* A bundle is a directory of artifacts; what is left of it is good as a whole.
Final(j) == Path(j.name, j.file, IF j.parts = 1 THEN "final" ELSE "bundle", 0)
Partial(j, k) == Path(j.name, j.file, "partial", k)
Staged(j, k) == Path(j.name, j.file, "staged", k)
Size(f) == IF f \in DOMAIN files THEN files[f].size ELSE 0
Verified(f) == f \in DOMAIN files /\ files[f] = Whole
Without(f, S) == Restrict(f, DOMAIN f \ S)
Unfinished(i) == jobs[i].state \in {"queued", "downloading", "quantizing"}
Active(kind) == {i \in DOMAIN jobs : jobs[i].kind = kind /\ Unfinished(i)}
Taken(n) == n \in DOMAIN reserved \cup DOMAIN installed \cup DOMAIN registry
Fault(f) == f \in store.faults

Fresh == [id |-> 0, flag |-> 0, part |-> 1, entry |-> None, was |-> None, why |-> None, end |-> None]
Goes(p, point) == pc' = [pc EXCEPT ![p] = point]
Keeps(p, m) == my' = [my EXCEPT ![p] = m]
Me(p) == jobs[my[p].id]
----------------------------------------------------------------------------
(* The names, the jobs and the threads, under mutex_.                      *)

\* prune_completed_jobs_locked: the oldest finished jobs make room.
OfKind(js, kind) == {i \in DOMAIN js : js[i].kind = kind}
Pruned(kind) ==
    LET ended == {i \in OfKind(jobs, kind) : ~Unfinished(i)}
        oldest == {i \in ended : Cardinality({k \in ended : k < i}) + store.maxJobs
                                    <= Cardinality(OfKind(jobs, kind))}
    IN Without(jobs, oldest)
\* reap_completed_workers: threads that are done are joined.
Reaped == {i \in threads : pc[Worker(i)] # "done"}
\* install, from its lock on: the name is reserved and the job listed.  The
\* metadata of the files comes from the network before.
Install(p) ==
    /\ pc[p] = "idle" /\ Ask(p).do = "install" /\ nextJob <= MaxId
    /\ threads' = Reaped
    /\ LET kept == Pruned("download") IN
       \/ /\ Cardinality(Active("download")) < store.maxActive /\ Cardinality(OfKind(kept, "download")) < store.maxJobs
          /\ ~Taken(Ask(p).name)
          /\ jobs' = nextJob :> [kind |-> "download", name |-> Ask(p).name, file |-> Ask(p).file,
                                 parts |-> Ask(p).parts, source |-> None, state |-> "queued", flag |-> token] @@ kept
          /\ reserved' = Ask(p).name :> nextJob @@ reserved
          /\ nextJob' = nextJob + 1 /\ token' = token + 1
          /\ Goes(p, "start") /\ Keeps(p, [Fresh EXCEPT !.id = nextJob, !.why = "install"])
       \/ /\ \/ Cardinality(Active("download")) >= store.maxActive
             \/ Cardinality(OfKind(kept, "download")) >= store.maxJobs \/ Taken(Ask(p).name)
          /\ jobs' = kept /\ Goes(p, "done") /\ UNCHANGED <<reserved, nextJob, token, my>>
    /\ UNCHANGED <<installed, registry, spoken, commits, upkeep, manifest, writer, files, world>>
\* resume: checked under one lock, started under another.
Resumable(i) == i \in DOMAIN jobs /\ jobs[i].kind = "download" /\ jobs[i].state \in {"cancelled", "failed"}
Resume(p) ==
    /\ pc[p] = "idle" /\ Ask(p).do = "resume"
    /\ threads' = Reaped
    /\ \/ Resumable(Ask(p).id) /\ Goes(p, "start") /\ Keeps(p, [Fresh EXCEPT !.id = Ask(p).id, !.why = "resume"])
       \/ ~Resumable(Ask(p).id) /\ Goes(p, "done") /\ UNCHANGED my
    /\ UNCHANGED <<names, jobs, nextJob, spoken, token, commits, upkeep, manifest, writer, files, world>>
\* start: a job may start again unless it is downloading, its name is taken by
\* another one, or too many are active or have a thread.
Startable(i) ==
    /\ i \in DOMAIN jobs /\ jobs[i].state # "downloading"
    /\ Cardinality(Active("download") \ {i}) < store.maxActive /\ Cardinality(Reaped) < store.maxJobs
    /\ IF jobs[i].name \in DOMAIN reserved THEN reserved[jobs[i].name] = i
       ELSE jobs[i].name \notin DOMAIN installed \cup DOMAIN registry
Start(p) ==
    /\ pc[p] = "start"
    /\ LET i == my[p].id IN
       \/ /\ Startable(i)
          /\ jobs' = [jobs EXCEPT ![i].state = "queued", ![i].flag = token]
          /\ reserved' = jobs[i].name :> i @@ reserved
          /\ token' = token + 1 /\ threads' = Reaped \ {i}
          /\ Goes(p, "join") /\ Keeps(p, [my[p] EXCEPT !.was = IF i \in threads THEN "thread" ELSE None])
       \/ /\ ~Startable(i)
          /\ Goes(p, IF my[p].why = "install" THEN "withdraw" ELSE "done")
          /\ threads' = Reaped /\ UNCHANGED <<jobs, reserved, token, my>>
    /\ UNCHANGED <<installed, registry, nextJob, spoken, commits, upkeep, manifest, writer, files, world>>
\* The name a job has reserved.
Own(i) == {n \in DOMAIN reserved : reserved[n] = i}
\* The previous thread is joined, and the new one put into workers_.  A second
\* thread for a job that has one cannot be kept: destroying it ends the process.
Launch(p) ==
    /\ pc[p] = "join"
    /\ LET i == my[p].id IN
       /\ my[p].was = None \/ pc[Worker(i)] \in {None, "done"}
       /\ \/ /\ i \notin threads
             /\ threads' = threads \cup {i}
             /\ pc' = [pc EXCEPT ![p] = "done", ![Worker(i)] = "begin"]
             /\ my' = [my EXCEPT ![Worker(i)] = [Fresh EXCEPT !.id = i]]
             /\ UNCHANGED <<life, jobs, reserved>>
          \/ /\ i \in threads
             /\ life' = [life EXCEPT !.at = "ended"] /\ UNCHANGED <<threads, pc, my, jobs, reserved>>
          \/ /\ i \notin threads /\ Fault("thread")
             /\ jobs' = [jobs EXCEPT ![i].state = "failed"] /\ reserved' = Without(reserved, Own(i))
             /\ Goes(p, IF my[p].why = "install" THEN "withdraw" ELSE "done")
             /\ UNCHANGED <<threads, my, life>>
    /\ UNCHANGED <<installed, registry, nextJob, spoken, token, commits, upkeep, manifest, writer, files, store, loaded>>
\* An install or a quantization that could not start takes its job back; the
\* quantization frees the name whoever has reserved it meanwhile.
Withdraw(p) ==
    /\ pc[p] = "withdraw"
    /\ reserved' = Without(reserved, IF my[p].why = "quantize" THEN {Ask(p).name} ELSE Own(my[p].id))
    /\ jobs' = Without(jobs, {my[p].id}) /\ Goes(p, "done")
    /\ upkeep' = IF my[p].why = "quantize" THEN None ELSE upkeep
    /\ UNCHANGED <<installed, registry, nextJob, spoken, token, commits, threads, manifest, writer, files, my, world>>
\* cancel: refused once the install is being finalized.
Cancel(p) ==
    /\ pc[p] = "idle" /\ Ask(p).do = "cancel" /\ Goes(p, "done")
    /\ LET i == Ask(p).id IN
       spoken' = IF i \in Active("download") /\ i \notin commits THEN spoken \cup {jobs[i].flag} ELSE spoken
    /\ UNCHANGED <<names, jobs, nextJob, token, commits, threads, upkeep, manifest, writer, files, my, world>>
----------------------------------------------------------------------------
(* A worker downloads: run and run_bundle.                                 *)

\* finish_job: the last thing a worker does.
Finished(i, state) ==
    /\ jobs' = [jobs EXCEPT ![i].state = state]
    /\ reserved' = Without(reserved, Own(i))
    /\ commits' = commits \ {i}
Finish(p, state) ==
    /\ Finished(my[p].id, state) /\ Goes(p, "done")
    /\ UNCHANGED <<installed, registry, nextJob, spoken, token, threads, upkeep, manifest, writer, my, world>>
Off(p) == my[p].flag \in spoken
Quiet(p) == UNCHANGED <<names, work, upkeep, manifest, writer, world>>
Begin(p) ==
    /\ pc[p] = "begin" /\ Me(p).kind = "download"
    /\ jobs' = [jobs EXCEPT ![my[p].id].state = "downloading"]
    /\ Goes(p, IF Me(p).parts = 1 THEN "fetch" ELSE "stage") /\ Keeps(p, [my[p] EXCEPT !.flag = Me(p).flag])
    /\ UNCHANGED <<names, nextJob, spoken, token, commits, threads, upkeep, manifest, writer, files, world>>
\* run_bundle: the destination must be new.
Stage(p) ==
    /\ pc[p] = "stage"
    /\ \/ Final(Me(p)) \in DOMAIN files /\ Finish(p, "failed") /\ UNCHANGED files
       \/ Final(Me(p)) \notin DOMAIN files /\ Goes(p, "part") /\ UNCHANGED <<files, my>> /\ Quiet(p)
\* An artifact of a bundle that was staged before and is still right is kept.
Part(p) ==
    /\ pc[p] = "part"
    /\ LET j == Me(p)  there == Staged(j, my[p].part) IN
       \/ Off(p) /\ Finish(p, "cancelled") /\ UNCHANGED files
       \/ /\ ~Off(p) /\ Verified(there)
          /\ Goes(p, IF my[p].part < j.parts THEN "part" ELSE "commit")
          /\ Keeps(p, [my[p] EXCEPT !.part = IF @ < j.parts THEN @ + 1 ELSE @]) /\ UNCHANGED files /\ Quiet(p)
       \/ /\ ~Off(p) /\ ~Verified(there)
          /\ files' = Without(files, {there}) /\ Goes(p, "fetch") /\ UNCHANGED my /\ Quiet(p)
\* transport_->download appends from the size of the partial file; its callback
\* stops it when the flag is set or there is too much.  A single file whose
\* partial is too large fails at once, a bundle's is fetched again.
Net(f) == f \in store.net
Fetched(here, size, good) ==
    files' = here :> [size |-> size, good |-> good /\ (Size(here) \in {0, Full + 1} \/ files[here].good)] @@ files
Fetch(p) ==
    /\ pc[p] = "fetch"
    /\ LET j == Me(p)  here == Partial(j, my[p].part)  single == j.parts = 1
           from == IF Size(here) > Full THEN 0 ELSE Size(here) IN
       \/ single /\ Size(here) > Full /\ files' = Without(files, {here}) /\ Finish(p, "failed")
       \/ single /\ Size(here) = Full /\ Goes(p, "verify") /\ UNCHANGED <<files, my>> /\ Quiet(p)
       \/ /\ (single => Size(here) < Full)
          /\ \/ /\ ~Off(p)
                /\ \/ Net("good") /\ Fetched(here, Full, TRUE)
                   \/ Net("corrupt") /\ from < Full /\ Fetched(here, Full, FALSE)
                   \/ Net("short") /\ from < Full /\ Fetched(here, 1, TRUE)
                /\ Goes(p, "verify") /\ UNCHANGED my /\ Quiet(p)
             \/ /\ ~Off(p) /\ Net("over")
                /\ IF single THEN files' = Without(files, {here}) ELSE Fetched(here, Full + 1, FALSE)
                /\ Finish(p, "failed")
             \/ /\ Off(p) \/ Net("fail")
                /\ IF from < Full THEN Fetched(here, 1, TRUE) ELSE UNCHANGED files
                /\ Finish(p, IF Off(p) THEN "cancelled" ELSE "failed")
\* Size and checksum; the flag stops the checksum as well.  A single file of
\* the wrong size stays, anything else that is wrong goes.
AllStaged(j) == {Staged(j, k) : k \in 1..j.parts} \cup {Partial(j, k) : k \in 1..j.parts}
VerifyTrusting(p) ==
    /\ pc[p] = "verify"
    /\ LET j == Me(p)  here == Partial(j, my[p].part) IN
       \/ Size(here) # Full /\ Finish(p, "failed") /\ UNCHANGED files
       \/ Size(here) = Full /\ Goes(p, IF j.parts = 1 THEN "commit" ELSE "keep") /\ UNCHANGED <<files, my>> /\ Quiet(p)
Verify(p) ==
    /\ pc[p] = "verify"
    /\ LET j == Me(p)  here == Partial(j, my[p].part)  single == j.parts = 1 IN
       \/ single /\ Size(here) # Full /\ Finish(p, "failed") /\ UNCHANGED files
       \/ (single => Size(here) = Full) /\ Off(p) /\ Finish(p, "cancelled") /\ UNCHANGED files
       \/ /\ (single => Size(here) = Full) /\ ~Off(p) /\ ~Verified(here)
          /\ files' = Without(files, IF single THEN {here} ELSE AllStaged(j)) /\ Finish(p, "failed")
       \/ /\ ~Off(p) /\ Verified(here)
          /\ Goes(p, IF single THEN "commit" ELSE "keep") /\ UNCHANGED <<files, my>> /\ Quiet(p)
\* The verified artifact takes its name in the staging directory.
Moved(old, new) == new :> files[old] @@ Without(files, {old})
Keep(p) ==
    /\ pc[p] = "keep"
    /\ LET j == Me(p) IN
       \/ /\ files' = Moved(Partial(j, my[p].part), Staged(j, my[p].part))
          /\ Goes(p, IF my[p].part < j.parts THEN "part" ELSE "commit")
          /\ Keeps(p, [my[p] EXCEPT !.part = IF @ < j.parts THEN @ + 1 ELSE @]) /\ Quiet(p)
       \/ Fault("rename") /\ Finish(p, "failed") /\ UNCHANGED files
----------------------------------------------------------------------------
(* The commit of an install: place, list, save, register, or undo.         *)

\* begin_install_commit: from here on cancel is refused.
CommitBlindly(p) ==
    /\ pc[p] = "commit" /\ commits' = commits \cup {my[p].id} /\ Goes(p, "place")
    /\ UNCHANGED <<names, jobs, nextJob, spoken, token, threads, upkeep, manifest, writer, files, my, world>>
Commit(p) ==
    /\ pc[p] = "commit"
    /\ \/ Me(p).flag \in spoken /\ Finish(p, "cancelled") /\ UNCHANGED files
       \/ /\ Me(p).flag \notin spoken /\ commits' = commits \cup {my[p].id} /\ Goes(p, "place")
          /\ UNCHANGED <<names, jobs, nextJob, spoken, token, threads, upkeep, manifest, writer, files, my, world>>
Place(p) ==
    /\ pc[p] = "place"
    /\ LET j == Me(p) IN
       \/ (Final(j) \in DOMAIN files \/ Fault("rename")) /\ Finish(p, "failed") /\ UNCHANGED files
       \/ /\ Final(j) \notin DOMAIN files
          /\ files' = IF j.parts = 1 THEN Moved(Partial(j, 1), Final(j))
                      ELSE Final(j) :> [size |-> Full, good |-> \A k \in 1..j.parts : Verified(Staged(j, k))]
                           @@ Without(files, AllStaged(j))
          /\ Goes(p, "list") /\ UNCHANGED my /\ Quiet(p)
\* A quantization checks the name again, a download holds the reservation.
List(p) ==
    /\ pc[p] = "list"
    /\ LET j == Me(p) IN
       \/ /\ j.kind = "quantize" => j.name \notin DOMAIN installed \cup DOMAIN registry
          /\ installed' = j.name :> Final(j) @@ installed
          /\ Goes(p, "save") /\ Keeps(p, [my[p] EXCEPT !.why = "commit"])
       \/ /\ j.kind = "quantize" /\ j.name \in DOMAIN installed \cup DOMAIN registry
          /\ Goes(p, "clear") /\ UNCHANGED <<installed, my>>
    /\ UNCHANGED <<registry, reserved, work, upkeep, manifest, writer, files, world>>
\* register_model refuses a name that is an alias.
Register(p) ==
    /\ pc[p] = "register"
    /\ LET n == Me(p).name IN
       \/ /\ n \notin store.aliases /\ registry' = n :> Final(Me(p)) @@ registry
          /\ Goes(p, "finish") /\ Keeps(p, [my[p] EXCEPT !.end = "installed"])
       \/ /\ n \in store.aliases
          /\ Goes(p, IF Me(p).kind = "quantize" THEN "unlist" ELSE "clear")
          /\ Keeps(p, [my[p] EXCEPT !.why = "undo"]) /\ UNCHANGED registry
    /\ UNCHANGED <<installed, reserved, work, upkeep, manifest, writer, files, world>>
\* The undo of a download removes the file, then the entry; a quantization
\* does it the other way round.
After(p, point) ==
    IF point = "clear"
    THEN CASE Me(p).kind = "quantize" -> "finish" [] OTHER -> "unlist"
    ELSE CASE my[p].why = "undo" -> "save" [] Me(p).kind = "quantize" -> "clear" [] OTHER -> "finish"
Clear(p) ==
    /\ pc[p] = "clear"
    /\ files' = Without(files, {Final(Me(p)), Partial(Me(p), 1), Staged(Me(p), 0)})
    /\ Goes(p, After(p, "clear")) /\ Keeps(p, [my[p] EXCEPT !.end = "failed"]) /\ Quiet(p)
Unlist(p) ==
    /\ pc[p] = "unlist"
    /\ installed' = Without(installed, {Me(p).name})
    /\ Goes(p, After(p, "unlist")) /\ Keeps(p, [my[p] EXCEPT !.end = "failed"])
    /\ UNCHANGED <<registry, reserved, work, upkeep, manifest, writer, files, world>>
End(p) ==
    /\ pc[p] = "finish" /\ Me(p).kind = "download" /\ Finish(p, my[p].end) /\ UNCHANGED files
----------------------------------------------------------------------------
(* save_manifest, for everyone.                                            *)

SaveBegins(p) ==
    /\ pc[p] = "save" /\ writer.who = Nobody
    /\ writer' = [who |-> p, text |-> installed] /\ Goes(p, "saving")
    /\ UNCHANGED <<names, work, upkeep, manifest, files, my, world>>
Saved(p) ==
    CASE my[p].why = "commit" -> "register"
      [] my[p].why = "undo" -> IF Me(p).kind = "quantize" THEN "clear" ELSE "finish"
      [] my[p].why = "retire" -> "unregister" [] OTHER -> "done"
Unsaved(p) ==
    CASE my[p].why = "commit" -> IF Me(p).kind = "quantize" THEN "unlist" ELSE "clear"
      [] my[p].why = "undo" -> Saved(p) [] my[p].why = "retire" -> "relist" [] OTHER -> "done"
SaveEnds(p) ==
    /\ pc[p] = "saving"
    /\ \/ manifest' = writer.text /\ Goes(p, Saved(p))
       \/ Fault("save") /\ UNCHANGED manifest /\ Goes(p, Unsaved(p))
    /\ writer' = [who |-> Nobody, text |-> <<>>]
    /\ UNCHANGED <<names, work, upkeep, files, my, world>>
=============================================================================
