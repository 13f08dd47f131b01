----------------------------- MODULE MediaJobs -----------------------------
(***************************************************************************)
(* The media routes: image, music, video, speech and transcription         *)
(* requests, the job each of them leaves in the history, the outputs kept  *)
(* on disk, and the history file that survives a restart.  A step is a     *)
(* stretch of a handler between two points where it takes jobs_mutex or    *)
(* history_persistence_mutex, touches the disk or calls the coordinator.   *)
(***************************************************************************)
EXTENDS RouteSlots, FiniteSetsExt, SequencesExt

VARIABLES jobs,       \* the history in memory: id -> job
          nextId,     \* next_job_id
          retired,    \* retired_media_outputs: files no job lists any more
          disk,       \* the output files that exist
          saved,      \* the jobs of history.json
          saver,      \* who holds history_persistence_mutex, and its locals
          permit,     \* decode_busy, and for whom
          crashes, orphans,   \* restarts so far; files left unlisted, by them or a failed removal
          req         \* the locals of each handler

\* A rig: persist (a history directory), maxJobs, maxBytes of the history,
\* maxChunks of a speech stream, crashes, faults ("save", "write", "remove"), and
\* for each request its kind, the outputs or chunks it makes, how its runtime may
\* end, whether its client may leave and the dashboard may cancel it.
historyVars == <<jobs, nextId, retired, disk, saved, saver>>
mediaVars == <<historyVars, permit, crashes, orphans, req>>
Generators == {"image", "music", "video"}       \* routes that keep outputs
Medias == AskedFor(Generators \cup {"wav", "transcription", "speech"})
Outside == {"idle", "closed", "lost"}           \* where there is no handler

NoSaver == [who |-> Nobody, phase |-> "none", snap |-> <<>>, retired |-> {}]
FreshRequest == [then |-> "idle", id |-> 0, slot |-> 0, files |-> {}, status |-> 0, records |-> <<>>,
                 gone |-> FALSE, cancelled |-> FALSE, made |-> 0, queue |-> <<>>, aborted |-> FALSE,
                 failed |-> FALSE, cleaned |-> FALSE, sent |-> <<>>, last |-> "provider"]
MediaInit ==
    /\ jobs = <<>> /\ nextId = 1 /\ retired = {} /\ disk = {} /\ saved = <<>> /\ saver = NoSaver
    /\ permit = Nobody /\ crashes = 0 /\ orphans = {}
    /\ req = [r \in Medias |-> FreshRequest]

Set(r, new) == req' = [req EXCEPT ![r] = new]
Move(r, point, new) == Goes(r, point) /\ Set(r, new)
Listed(h) == UNION {h[i].outputs : i \in DOMAIN h}
Running(h) == {i \in DOMAIN h : h[i].state = "running"}
Off(r) == req[r].gone \/ req[r].cancelled
----------------------------------------------------------------------------
(* The bounded history.                                                    *)

\* prune_jobs_locked: the oldest job that is not running goes, until the
\* history is within both bounds or only running jobs are left.
Fits(h) == Cardinality(DOMAIN h) <= rig.maxJobs /\ Cardinality(Listed(h)) <= rig.maxBytes
Pruned(h) ==
    LET since(k) == [i \in {j \in DOMAIN h : j > k \/ h[j].state = "running"} |-> h[i]]
        enough == {k \in {0} \cup DOMAIN h : Fits(since(k))}
    IN  since(IF enough = {} THEN Max({0} \cup DOMAIN h) ELSE Min(enough))
\* A change of the history, pruned; what it no longer lists is retired.
Update(h) ==
    /\ jobs' = Pruned(h)
    /\ retired' = retired \cup IF rig.persist THEN Listed(jobs) \ Listed(Pruned(h)) ELSE {}
\* std::filesystem::remove, whose error is ignored: what stays is nobody's.
Delete(files) ==
    \E kept \in SUBSET files :
        /\ kept = {} \/ "remove" \in rig.faults
        /\ disk' = disk \ (files \ kept)
        /\ orphans' = orphans \cup (kept \cap disk)
----------------------------------------------------------------------------
(* persist_jobs_or_warn: snapshot, save, delete, one thread at a time.     *)

Persist(r, then, new) == Move(r, "persist", [new EXCEPT !.then = then])
Snapshot(r) ==
    /\ at[r] = "persist" /\ saver.who = Nobody
    /\ \/ /\ ~rig.persist
          /\ Goes(r, req[r].then)
          /\ UNCHANGED <<saver, retired>>
       \/ /\ rig.persist
          /\ saver' = [who |-> r, phase |-> "save", snap |-> jobs, retired |-> retired]
          /\ retired' = {}
          /\ Goes(r, "saving")
    /\ UNCHANGED <<owner, th, jobs, nextId, disk, saved, permit, crashes, orphans, req>>
\* The request that holds the mutex goes on; at startup there is none.
Holder(point) == IF saver.who \in DOMAIN req THEN Goes(saver.who, point) ELSE UNCHANGED at
Resume == IF saver.who \in DOMAIN req THEN Goes(saver.who, req[saver.who].then) ELSE UNCHANGED at
\* save_json_file replaces history.json as a whole.
Save ==
    /\ saver.phase = "save"
    /\ saved' = saver.snap /\ saver' = [saver EXCEPT !.phase = "sweep"] /\ Holder("sweeping")
    /\ UNCHANGED <<owner, th, jobs, nextId, retired, disk, permit, crashes, orphans, req>>
\* When it fails the retired files wait for the next time.
SaveFailsUnseen ==
    /\ saver.phase = "save" /\ "save" \in rig.faults
    /\ saver' = [saver EXCEPT !.phase = "sweep"] /\ Holder("sweeping")
    /\ UNCHANGED <<owner, th, jobs, nextId, retired, disk, saved, permit, crashes, orphans, req>>
SaveFails ==
    /\ saver.phase = "save" /\ "save" \in rig.faults
    /\ retired' = retired \cup saver.retired /\ saver' = NoSaver /\ Resume
    /\ UNCHANGED <<owner, th, jobs, nextId, disk, saved, permit, crashes, orphans, req>>
\* Then the retired files go that the snapshot does not list.
Sweep ==
    /\ saver.phase = "sweep"
    /\ Delete(saver.retired \ Listed(saver.snap)) /\ saver' = NoSaver /\ Resume
    /\ UNCHANGED <<owner, th, jobs, nextId, retired, saved, permit, crashes, req>>
----------------------------------------------------------------------------
(* The handlers.                                                           *)

\* begin_job: listed as running, and persisted.  Nothing is pruned here.
Begin(r) ==
    /\ at[r] = "idle" /\ saver.who # "startup"
    /\ jobs' = [i \in DOMAIN jobs \cup {nextId} |->
                  IF i = nextId THEN [state |-> "running", outputs |-> {}] ELSE jobs[i]]
    /\ nextId' = nextId + 1
    /\ Persist(r, IF Ask(r).kind = "transcription" THEN "permit" ELSE "slot",
               [req[r] EXCEPT !.id = nextId])
    /\ UNCHANGED <<owner, th, retired, disk, saved, saver, permit, crashes, orphans>>
\* The client closes the connection; cancel_media_job from the dashboard.
Depart(r) ==
    /\ Ask(r).leaves /\ ~req[r].gone /\ at[r] \notin Outside
    /\ Set(r, [req[r] EXCEPT !.gone = TRUE])
    /\ UNCHANGED <<owner, at, th, historyVars, permit, crashes, orphans>>
Cancel(r) ==
    /\ Ask(r).cancels /\ ~req[r].cancelled /\ at[r] \notin Outside
    /\ req[r].id \in Running(jobs)
    /\ Set(r, [req[r] EXCEPT !.cancelled = TRUE])
    /\ UNCHANGED <<owner, at, th, historyVars, permit, crashes, orphans>>

\* record_media, after which the handler finishes the job.
Settle(r, status) ==
    Move(r, "finish", [req[r] EXCEPT !.records = Append(@, status), !.status = status, !.files = {}])
\* internal_status_for what admission returns: cancelled, or no slot in time.
NotAdmitted(r) == IF Off(r) THEN 499 ELSE 503
\* acquire_decode_permit: one upload is decoded at a time, a waiter gives up
\* when it is cancelled or after thirty seconds.
Permit(r) ==
    /\ at[r] = "permit"
    /\ \/ permit = Nobody /\ permit' = r /\ Goes(r, "slot") /\ UNCHANGED req
       \/ permit # Nobody /\ Settle(r, NotAdmitted(r)) /\ UNCHANGED permit
    /\ UNCHANGED <<owner, th, historyVars, crashes, orphans>>
\* acquire_media_slot
GetSlot(r) ==
    /\ at[r] = "slot"
    /\ \E s \in Free : owner' = [owner EXCEPT ![s] = r] /\ Set(r, [req[r] EXCEPT !.slot = s])
    /\ Goes(r, CASE Ask(r).kind = "transcription" -> "decode" [] Ask(r).kind = "speech" -> "enter"
                 [] OTHER -> "run")
    /\ Runs(r, IF Ask(r).kind = "speech" THEN "call" ELSE "none")
    /\ UNCHANGED <<historyVars, permit, crashes, orphans>>
NoSlot(r) ==
    /\ at[r] = "slot" /\ (Free = {} \/ Off(r))
    /\ Settle(r, NotAdmitted(r))
    /\ UNCHANGED <<owner, th, historyVars, permit, crashes, orphans>>
\* decode_audio; the permit goes back before the runtime starts.
Decode(r) ==
    /\ at[r] = "decode"
    /\ permit' = Nobody
    /\ \/ Goes(r, "run") /\ UNCHANGED req
       \/ "error" \in Ask(r).ends /\ Settle(r, 400)
    /\ UNCHANGED <<owner, th, historyVars, crashes, orphans>>
\* The runtime's call fails, or returns because its progress callback was
\* told that the client has left or the job was cancelled.
CallFails(r) ==
    \/ Off(r) /\ Settle(r, 499)
    \/ "error" \in Ask(r).ends /\ Settle(r, IF req[r].cancelled THEN 499 ELSE 500)
\* Images and music: what the runtime made is stored, a cancellation that came
\* too late is overlooked.
Generate(r) ==
    /\ at[r] = "run" /\ Ask(r).kind \in {"image", "music"}
    /\ \/ CallFails(r)
       \/ Goes(r, "store") /\ UNCHANGED req
    /\ UNCHANGED <<owner, th, historyVars, permit, crashes, orphans>>
\* The video route looks at the connection and the cancellation again.
GenerateVideo(r) ==
    /\ at[r] = "run" /\ Ask(r).kind = "video"
    /\ \/ CallFails(r)
       \/ ~Off(r) /\ Goes(r, "store") /\ UNCHANGED req
    /\ UNCHANGED <<owner, th, historyVars, permit, crashes, orphans>>
\* A text without words is refused.
Transcribe(r) ==
    /\ at[r] = "run" /\ Ask(r).kind = "transcription"
    /\ CallFails(r) \/ Settle(r, 200) \/ ("error" \in Ask(r).ends /\ Settle(r, 422))
    /\ UNCHANGED <<owner, th, historyVars, permit, crashes, orphans>>
SynthesizeWav(r) ==
    /\ at[r] = "run" /\ Ask(r).kind = "wav"
    /\ CallFails(r) \/ Settle(r, 200)
    /\ UNCHANGED <<owner, th, historyVars, permit, crashes, orphans>>
----------------------------------------------------------------------------
(* store_job_outputs                                                       *)

File(r) == <<req[r].id, Cardinality(req[r].files) + 1>>
\* One output after the other: a temporary file, then renamed into place.
WriteFile(r) ==
    /\ at[r] = "store" /\ Cardinality(req[r].files) < Ask(r).makes
    /\ Goes(r, "rename")
    /\ UNCHANGED <<owner, th, historyVars, permit, crashes, orphans, req>>
Rename(r) ==
    /\ at[r] = "rename"
    /\ disk' = IF rig.persist THEN disk \cup {File(r)} ELSE disk
    /\ Move(r, "store", [req[r] EXCEPT !.files = @ \cup {File(r)}])
    /\ UNCHANGED <<owner, th, jobs, nextId, retired, saved, saver, permit, crashes, orphans>>
\* One that fails takes the others with it; the request succeeds all the same.
WriteFails(r) ==
    /\ at[r] = "rename" /\ "write" \in rig.faults
    /\ Delete(req[r].files)
    /\ Settle(r, 200)
    /\ UNCHANGED <<owner, th, jobs, nextId, retired, saved, saver, permit, crashes>>
\* The job lists them, the history is pruned and persisted.
Attach(r) ==
    /\ at[r] = "store" /\ Cardinality(req[r].files) = Ask(r).makes
    /\ req[r].id \in DOMAIN jobs
    /\ Update([jobs EXCEPT ![req[r].id].outputs = req[r].files])
    /\ Persist(r, "kept", [req[r] EXCEPT !.files = {}])
    /\ UNCHANGED <<owner, th, nextId, disk, saved, saver, permit, crashes, orphans>>
Kept(r) ==
    /\ at[r] = "kept"
    /\ Settle(r, 200)
    /\ UNCHANGED <<owner, th, historyVars, permit, crashes, orphans>>

\* finish_job: the outcome, the bounds, the file.
Outcome(status) == CASE status = 200 -> "completed" [] status = 499 -> "cancelled" [] OTHER -> "failed"
FinishJob(r) ==
    /\ at[r] = "finish"
    /\ Update([jobs EXCEPT ![req[r].id].state = Outcome(req[r].status)])
    /\ Persist(r, "leave", req[r])
    /\ UNCHANGED <<owner, th, nextId, disk, saved, saver, permit, crashes, orphans>>
\* SlotGuard, DecodePermit and the end of SpeechStreamState::finish.
GiveBack(r) ==
    /\ at[r] = "leave"
    /\ owner' = IF req[r].slot = 0 THEN owner ELSE [owner EXCEPT ![req[r].slot] = Nobody]
    /\ permit' = IF permit = r THEN Nobody ELSE permit
    /\ Goes(r, IF req[r].cleaned /\ req[r].last = "provider" THEN "releaser" ELSE "closed")
    /\ UNCHANGED <<th, historyVars, crashes, orphans, req>>
----------------------------------------------------------------------------
(* SpeechStreamState: a worker that fills a bounded queue of chunks, the   *)
(* content provider that writes them.  Every wait is timed, so that a lost *)
(* notification costs a delay only.                                        *)

Stopped(r) == req[r].aborted \/ req[r].cancelled
SpeechCall(r) ==
    /\ r \in Medias /\ th[r] = "call" /\ req[r].made < Ask(r).makes
    /\ Runs(r, IF Stopped(r) THEN "stopped" ELSE "test")
    /\ UNCHANGED <<owner, at, historyVars, permit, crashes, orphans, req>>
SpeechPush(r) ==
    /\ th[r] = "test"
    /\ \/ Stopped(r) /\ Runs(r, "stopped") /\ UNCHANGED req
       \/ /\ ~Stopped(r) /\ Len(req[r].queue) < rig.maxChunks
          /\ Runs(r, "call") /\ Set(r, [req[r] EXCEPT !.made = @ + 1, !.queue = Append(@, req[r].made + 1)])
    /\ UNCHANGED <<owner, at, historyVars, permit, crashes, orphans>>
\* synthesize returns; finished is set last.
SpeechReturn(r) ==
    /\ \/ /\ th[r] = "stopped" \/ (th[r] = "call" /\ "error" \in Ask(r).ends)
          /\ Set(r, [req[r] EXCEPT !.failed = ~req[r].cancelled, !.aborted = @ \/ req[r].cancelled])
       \/ th[r] = "call" /\ req[r].made = Ask(r).makes /\ UNCHANGED req
    /\ Runs(r, "ended")
    /\ UNCHANGED <<owner, at, historyVars, permit, crashes, orphans>>
\* The provider writes one chunk and is called again, or ends the stream when
\* all are written.
EndStatus(s) == IF s.aborted THEN 499 ELSE IF s.failed THEN 500 ELSE 200
Finish(r, s, by, status) == Move(r, "cleanup", [s EXCEPT !.last = by, !.status = status])
SpeechWrite(r) ==
    /\ at[r] = "enter" /\ req[r].queue # <<>>
    /\ LET popped == [req[r] EXCEPT !.queue = Tail(@)]
       IN  \/ Move(r, "again", [popped EXCEPT !.sent = Append(@, Head(req[r].queue))])
           \/ req[r].gone /\ Finish(r, popped, "provider", 499)
    /\ UNCHANGED <<owner, th, historyVars, permit, crashes, orphans>>
SpeechAgain(r) ==
    /\ at[r] = "again"
    /\ Goes(r, "enter")
    /\ UNCHANGED <<owner, th, historyVars, permit, crashes, orphans, req>>
SpeechEnd(r) ==
    /\ at[r] = "enter" /\ req[r].queue = <<>> /\ th[r] = "ended"
    /\ Finish(r, req[r], "provider", EndStatus(req[r]))
    /\ UNCHANGED <<owner, th, historyVars, permit, crashes, orphans>>
\* The server gives up between two calls; the releaser after the last one.
SpeechReleaser(r) ==
    /\ \/ at[r] \in {"enter", "again"} /\ req[r].gone /\ Finish(r, req[r], "releaser", 499)
       \/ at[r] = "releaser" /\ Finish(r, req[r], "releaser", EndStatus(req[r]))
    /\ UNCHANGED <<owner, th, historyVars, permit, crashes, orphans>>
\* finish: once; it stores aborted, and joins before the accounting.
SpeechFinish(r) ==
    /\ at[r] = "cleanup"
    /\ IF req[r].cleaned THEN Goes(r, "closed") /\ UNCHANGED req
       ELSE Move(r, "join", [req[r] EXCEPT !.cleaned = TRUE, !.aborted = (req[r].status = 499)])
    /\ UNCHANGED <<owner, th, historyVars, permit, crashes, orphans>>
SpeechJoin(r) ==
    /\ r \in Medias /\ at[r] = "join" /\ th[r] = "ended"
    /\ Settle(r, req[r].status)
    /\ UNCHANGED <<owner, th, historyVars, permit, crashes, orphans>>
----------------------------------------------------------------------------
(* A crash, and configure_media_history of the next process.               *)

\* What history.json says, without outputs that are not there; what was
\* running has failed.
Reloaded == [i \in DOMAIN saved |->
               [state |-> IF saved[i].state = "running" THEN "failed" ELSE saved[i].state,
                outputs |-> saved[i].outputs \cap disk]]
Crash ==
    /\ crashes < rig.crashes /\ crashes' = crashes + 1
    /\ owner' = [s \in DOMAIN owner |-> Nobody] /\ permit' = Nobody
    /\ at' = [r \in DOMAIN at |-> IF at[r] \in Outside THEN at[r] ELSE "lost"]
    /\ th' = [r \in DOMAIN th |-> "none"]
    /\ req' = [r \in DOMAIN req |-> IF at[r] \in Outside THEN req[r] ELSE FreshRequest]
    /\ LET kept == Pruned(Reloaded)
       IN  /\ jobs' = kept
           /\ saver' = IF kept = saved THEN NoSaver
                       ELSE [who |-> "startup", phase |-> "save", snap |-> kept,
                             retired |-> Listed(Reloaded) \ Listed(kept)]
    /\ nextId' = Max({0} \cup DOMAIN saved) + 1
    /\ orphans' = disk \ Listed(saved) /\ retired' = {}
    /\ UNCHANGED <<disk, saved>>

MediaNext ==
    \/ \E r \in Medias :
         \/ Begin(r) \/ Depart(r) \/ Cancel(r)
         \/ Snapshot(r) \/ Permit(r) \/ GetSlot(r) \/ NoSlot(r) \/ Decode(r)
         \/ Generate(r) \/ GenerateVideo(r) \/ Transcribe(r) \/ SynthesizeWav(r)
         \/ WriteFile(r) \/ Rename(r) \/ WriteFails(r) \/ Attach(r) \/ Kept(r) \/ FinishJob(r) \/ GiveBack(r)
         \/ SpeechCall(r) \/ SpeechPush(r) \/ SpeechReturn(r) \/ SpeechWrite(r) \/ SpeechAgain(r)
         \/ SpeechEnd(r) \/ SpeechReleaser(r) \/ SpeechFinish(r) \/ SpeechJoin(r)
    \/ Save \/ SaveFails \/ Sweep \/ Crash

\* When the handler and when the worker of a request have a step to take.
MediaMoves(r) ==
    CASE at[r] = "persist" -> saver.who = Nobody
      [] at[r] = "enter" -> req[r].queue # <<>> \/ th[r] = "ended" \/ req[r].gone
      [] at[r] = "join" -> th[r] = "ended"
      [] OTHER -> at[r] \notin Outside
MediaThreadMoves(r) ==
    th[r] \in {"call", "stopped"} \/ (th[r] = "test" /\ (Stopped(r) \/ Len(req[r].queue) < rig.maxChunks))
=============================================================================
