------------------------------- MODULE Routes -------------------------------
(***************************************************************************)
(* The data plane: text sessions and media jobs on the slots of a model.   *)
(***************************************************************************)
EXTENDS GenerationSession, MediaJobs

vars == <<rig, owner, at, th, ses, mediaVars>>
Init == RouteInit /\ SessionInit /\ MediaInit
Next ==
    \/ SessionNext /\ UNCHANGED <<rig, mediaVars>>
    \/ MediaNext /\ UNCHANGED <<rig, ses>>
Spec == Init /\ [][Next]_vars

\* The server keeps calling its handlers and providers, threads run, runtimes
\* return and timed waits end: whoever has a step to take takes it in the end.
\* Clients and the dashboard owe nothing.
Points == {"idle", "open", "enter", "write", "running", "stopping", "finish", "stored", "join", "release",
           "releaser", "closed", "lost", "persist", "saving", "sweeping", "permit", "slot", "decode", "run",
           "store", "rename", "kept", "leave", "again", "cleanup", "none", "call", "test", "dozing", "asleep",
           "stopped", "ended"}
HandlerMoves(r) ==
    /\ \/ r \in Sessions /\ SessionMoves(r)
       \/ r \in Medias /\ MediaMoves(r)
    /\ at' \in {[at EXCEPT ![r] = p] : p \in Points \ {at[r]}}
ThreadMoves(r) ==
    /\ \/ r \in Sessions /\ SessionThreadMoves(r)
       \/ r \in Medias /\ MediaThreadMoves(r)
    /\ th' \in {[th EXCEPT ![r] = p] : p \in Points \ {th[r]}}
StartupMoves == saver.who = "startup" /\ saver' \in {[saver EXCEPT !.phase = "sweep"], NoSaver} \ {saver}
FairSpec ==
    /\ Spec
    /\ \A r \in Requests : WF_at(HandlerMoves(r)) /\ WF_th(ThreadMoves(r))
    /\ WF_saver(StartupMoves)
----------------------------------------------------------------------------
\* No slot is given away while the thread that computes on it still runs: a
\* slot goes back after the join of the inference thread (finish_once) or of
\* the speech worker (SpeechStreamState::finish), and only once.
Computing == {r \in DOMAIN at : th[r] \notin {"none", "ended"} \/ at[r] \in {"decode", "run", "store"}}
SlotOf(r) == IF r \in Sessions THEN ses[r].slot ELSE req[r].slot
SlotExclusive == \A r \in Computing : owner[SlotOf(r)] = r

\* Every request that was let in is accounted for exactly once, whichever of
\* the provider, the releaser and the destructor cleans up, and its slot and
\* decode permit are back by then.
AccountedOnce ==
    /\ \A r \in Sessions : /\ Len(ses[r].records) <= 1
                           /\ at[r] = "closed" => ses[r].records # <<>>
    /\ \A r \in Medias : /\ Len(req[r].records) <= 1
                         /\ at[r] = "closed" => req[r].records # <<>>
    /\ \A s \in DOMAIN owner : owner[s] # Nobody => at[owner[s]] \notin Outside
    /\ permit # Nobody => at[permit] \notin Outside
----------------------------------------------------------------------------
(* What is on the wire.                                                    *)

Parts(r, item) ==                 \* the item's text, event by event
    LET s == ses[r].wire
        of(e) == IF e.type = "chunk"
                 THEN CASE item = "message" -> <<e.delta.text>>
                        [] item = "reasoning" -> <<e.delta.reasoning>>
                        [] OTHER -> [i \in 1..Len(e.delta.tools) |->
                                       IF Call(e.delta.tools[i].index) = item
                                       THEN e.delta.tools[i].args ELSE <<>>]
                 ELSE IF e.type = "delta" /\ e.item = item THEN <<e.data>> ELSE <<>>
    IN  FoldLeft(LAMBDA acc, e : acc \o of(e), <<>>, s)
Made(r, item) ==                  \* the item's text as the runtime made it
    LET of(d) == CASE item = "message" -> d.text [] item = "reasoning" -> d.reasoning
                   [] OTHER -> FoldLeft(LAMBDA acc, t : IF Call(t.index) = item
                                                        THEN acc \o t.args ELSE acc, <<>>, d.tools)
    IN  FoldLeft(LAMBDA acc, d : acc \o of(d), <<>>, SubSeq(Ask(r).script, 1, ses[r].made))
Broken(bytes) == Cut(bytes) < Len(bytes)       \* it ends within a character
Joined(parts) == FoldLeft(LAMBDA acc, b : acc \o b, <<>>, parts)
Terminals(r) == {i \in 1..Len(ses[r].wire) : ses[r].wire[i].type \in {"done", "error", "completed", "failed"}}
Items == {"message", "reasoning", "call0", "call1"}

\* Deltas reach the client in order, none lost, none twice, no character cut
\* in two unless the runtime broke off within it; a stream has one terminal event, its last; a stream recorded as
\* 200 carried all that the runtime made; a Responses item is announced once,
\* before its words, and ends with the same index and the same words.
StreamFaithful ==
    \A r \in Sessions \ AskedFor({"plain"}) :
      /\ \A item \in Items :
           /\ IsPrefix(Joined(Parts(r, item)), Made(r, item))
           /\ \A k \in 1..Len(Parts(r, item)) :
                LET p == Parts(r, item)[k]
                IN  p # <<>> =>
                    /\ p[1] # 0 \/ Broken(Made(r, item))
                    /\ Cut(p) = Len(p) \/ (ses[r].done /\ Broken(Made(r, item)))
           /\ 200 \in Range(ses[r].records) => Joined(Parts(r, item)) = Made(r, item)
      /\ Terminals(r) \subseteq {Len(ses[r].wire)}
      /\ 200 \in Range(ses[r].records) => Terminals(r) # {}
      /\ LET w == ses[r].wire
             of(type) == {i \in 1..Len(w) : w[i].type = type}
         IN  Ask(r).kind = "responses" =>
             /\ \A i, j \in of("added") : i # j => w[i].item # w[j].item /\ w[i].at # w[j].at
             /\ \A i \in of("delta") : \E j \in of("added") :
                  j < i /\ w[j].item = w[i].item /\ w[j].at = w[i].at
             /\ \A i \in of("item_done") \cup of("text_done") :
                  /\ w[i].data = Joined(Parts(r, w[i].item))
                  /\ \E j \in of("added") : w[j].item = w[i].item /\ w[j].at = w[i].at

\* What waits for a slow client stays within the limits: the number of deltas
\* always; their bytes up to what the chat provider's own delta_size has taken
\* off too much, unless one delta alone is larger than the limit.
PendingBounded ==
    /\ \A r \in Sessions :
         /\ Len(ses[r].queue) <= rig.maxDeltas
         /\ \/ SumOf(ses[r].queue, Charged) <= rig.maxBytes + ses[r].over
            \/ Len(ses[r].queue) = 1
    /\ \A r \in Medias : Len(req[r].queue) <= rig.maxChunks
----------------------------------------------------------------------------
(* The media history.                                                      *)

\* What history.json lists exists: an output file is deleted only after a
\* history without it was saved, whatever fails and whenever the process dies.
\* No output is forgotten on disk: a file is listed by a job, waits for its
\* deletion, is still in its handler's hands, or was left by a crash or by a
\* removal whose error is ignored.
\* The jobs that have ended stay within the bounds; one that runs has a handler.
HistoryKept ==
    /\ rig.persist => Listed(saved) \subseteq disk
    /\ disk \subseteq Listed(jobs) \cup retired \cup saver.retired \cup orphans
                      \cup UNION {req[r].files : r \in Medias}
    /\ \/ Cardinality(Listed(jobs)) <= rig.maxBytes
       \/ DOMAIN jobs = Running(jobs)
    /\ Cardinality(DOMAIN jobs \ Running(jobs)) <= rig.maxJobs
    /\ \A i \in Running(jobs) : \E r \in Medias : req[r].id = i /\ at[r] \notin Outside

\* Every request that was let in comes to its end: no thread is left waiting
\* and no slot stays taken.
Closes == \A r \in Requests : (r \in DOMAIN at /\ at[r] # "idle")
                              ~> (r \in DOMAIN at /\ at[r] \in {"closed", "lost"})
=============================================================================
