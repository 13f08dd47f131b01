------------------------- MODULE GenerationSession -------------------------
(***************************************************************************)
(* GenerationSession and the Chat and Responses handlers around it: an     *)
(* inference thread that fills a bounded queue of deltas, the HTTP         *)
(* server's content provider that empties it, and the cleanup both the     *)
(* provider, the resource releaser and the destructor ask for.  A step is  *)
(* a stretch of one thread between two points where it takes mtx, looks at *)
(* the atomics, writes to the client or calls another component.           *)
(***************************************************************************)
EXTENDS RouteSlots, StreamText

VARIABLE ses          \* the session of each text request

\* A rig: slots, maxDeltas (max_pending_stream_deltas), maxBytes
\* (max_pending_stream_bytes), width (the modulus of pending_bytes), and for
\* each request its kind, the deltas the runtime makes, how it may end, and
\* whether the client may leave.
Sessions == AskedFor({"chat", "responses", "plain"})
Chat(r) == Ask(r).kind = "chat"
\* The limits and the size of every delta fit into pending_bytes.
ASSUME StreamAssumption ==
    \A g \in Rigs :
      /\ g.maxDeltas \in Nat /\ g.maxBytes \in Nat /\ g.width \in Nat /\ g.maxBytes < g.width
      /\ \A r \in DOMAIN g.ask :
           g.ask[r].kind \in {"chat", "responses", "plain"} =>
           LET script == g.ask[r].script
           IN  script \in Seq({d \in Range(script) : d.logprobs \in Nat /\ Charged(d) \in 0..g.width - 1})

FreshSession == [made |-> 0, queue |-> <<>>, pending |-> 0, over |-> 0, batch |-> <<>>,
                 aborted |-> FALSE, done |-> FALSE, error |-> FALSE, cleaned |-> FALSE, arg |-> FALSE,
                 fallback |-> 0, last |-> "provider", slot |-> 0, records |-> <<>>, gone |-> FALSE,
                 buffer |-> NoText, st |-> FreshResponse, wire |-> <<>>]
SessionInit == ses = [r \in Sessions |-> FreshSession]
Become(r, new) == ses' = [ses EXCEPT ![r] = new]
----------------------------------------------------------------------------
(* The client and admission.                                               *)

Leave(r) ==
    /\ Ask(r).leaves /\ ~ses[r].gone /\ at[r] # "closed"
    /\ Become(r, [ses[r] EXCEPT !.gone = TRUE])
    /\ UNCHANGED <<owner, at, th>>

\* acquire_chat_slot, then the session and its thread (start).
Acquire(r) ==
    /\ at[r] = "idle"
    /\ \E s \in Free : /\ owner' = [owner EXCEPT ![s] = r]
                       /\ Become(r, [ses[r] EXCEPT !.slot = s])
    /\ Runs(r, "call")
    /\ Goes(r, CASE Chat(r) -> "enter" [] Ask(r).kind = "responses" -> "open" [] OTHER -> "running")
\* No slot in time, or the client has gone: the refusal is recorded.
Refuse(r) ==
    /\ at[r] = "idle"
    /\ Free = {} \/ ses[r].gone
    /\ Become(r, [ses[r] EXCEPT !.records = Append(@, IF ses[r].gone THEN 499 ELSE 503)])
    /\ Goes(r, "closed")
    /\ UNCHANGED <<owner, th>>
----------------------------------------------------------------------------
(* The inference thread.                                                   *)

More(r) == ses[r].made < Len(Ask(r).script)
NextDelta(r) == Ask(r).script[ses[r].made + 1]
\* The predicate of the producer's wait, aborted aside.
RoomForBytes(r) ==
    LET bytes == Charged(NextDelta(r)) IN bytes <= rig.maxBytes /\ ses[r].pending <= rig.maxBytes
Room(r) ==
    LET bytes == Charged(NextDelta(r))
    IN  /\ Len(ses[r].queue) < rig.maxDeltas
        /\ \/ ses[r].queue = <<>>
           \/ bytes <= rig.maxBytes /\ ses[r].pending <= rig.maxBytes - bytes

\* The callback looks at aborted before it takes mtx.
Callback(r) ==
    /\ th[r] = "call" /\ More(r)
    /\ Runs(r, IF ses[r].aborted THEN "stopped" ELSE "test")
    /\ UNCHANGED <<owner, at, ses>>
\* cv.wait: the predicate under mtx; without room the thread will sleep.
Push(r) ==
    /\ th[r] = "test"
    /\ Runs(r, CASE ses[r].aborted -> "stopped" [] ~ses[r].aborted /\ Room(r) -> "call" [] OTHER -> "dozing")
    /\ IF ses[r].aborted \/ ~Room(r) THEN UNCHANGED ses
       ELSE Become(r, [ses[r] EXCEPT !.queue = Append(@, NextDelta(r)), !.made = @ + 1,
                                     !.pending = (@ + Charged(NextDelta(r))) % rig.width])
    /\ UNCHANGED <<owner, at>>
\* mtx is given up only as the thread falls asleep.
Doze(r) ==
    /\ th[r] = "dozing"
    /\ Runs(r, "asleep")
    /\ UNCHANGED <<owner, at, ses>>
Unlocked(r) == th[r] # "dozing"
NotWoken(point) == point
Woken(point) == IF point = "asleep" THEN "test" ELSE point

\* predict or predict_stream returns; the result or the error is published.
Return(r) ==
    /\ \/ th[r] = "stopped" /\ Become(r, [ses[r] EXCEPT !.done = TRUE, !.error = TRUE])
       \/ th[r] = "call" /\ "error" \in Ask(r).ends /\ Become(r, [ses[r] EXCEPT !.done = TRUE, !.error = TRUE])
       \/ th[r] = "call" /\ ~More(r) /\ Become(r, [ses[r] EXCEPT !.done = TRUE])
    /\ Runs(r, "ended")
    /\ UNCHANGED <<owner, at>>
----------------------------------------------------------------------------
(* finish_once                                                             *)

\* The cleanup is asked for by the provider, the releaser or the destructor.
Cleanup(r, s, by, aborted, fallback) ==
    /\ Become(r, [s EXCEPT !.last = by, !.arg = aborted, !.fallback = fallback])
    /\ Goes(r, "finish")
\* Only the first call goes on; the abort is stored without mtx.
Stored(s) == [s EXCEPT !.cleaned = TRUE, !.arg = s.arg \/ s.aborted, !.aborted = s.arg \/ s.aborted]
FinishAgain(r) ==
    /\ at[r] = "finish"
    /\ Goes(r, "stored") /\ Become(r, Stored(ses[r]))
    /\ UNCHANGED <<owner, th>>
FinishOnce(r) ==
    /\ at[r] = "finish"
    /\ Goes(r, IF ses[r].cleaned THEN "closed" ELSE "stored")
    /\ Become(r, IF ses[r].cleaned THEN ses[r] ELSE Stored(ses[r]))
    /\ UNCHANGED <<owner, th>>
\* notify_all without mtx: a thread that has tested but not yet slept misses it.
FinishNotify(r) ==
    /\ at[r] = "stored"
    /\ Goes(r, "join") /\ Runs(r, Woken(th[r]))
    /\ UNCHANGED <<owner, ses>>
Status(s) ==
    IF ~s.arg /\ ~s.error THEN 200
    ELSE IF s.arg THEN 499
    ELSE IF s.fallback < 400 THEN 500 ELSE s.fallback
\* After the join: the accounting, then the slot and the voice hold.
RecordNoJoin(r) ==
    /\ at[r] = "join"
    /\ Become(r, [ses[r] EXCEPT !.records = Append(@, Status(ses[r]))]) /\ Goes(r, "release")
    /\ UNCHANGED <<owner, th>>
FinishRecord(r) ==
    /\ at[r] = "join" /\ th[r] = "ended"
    /\ Become(r, [ses[r] EXCEPT !.records = Append(@, Status(ses[r]))]) /\ Goes(r, "release")
    /\ UNCHANGED <<owner, th>>
FinishRelease(r) ==
    /\ at[r] = "release"
    /\ owner' = [owner EXCEPT ![ses[r].slot] = Nobody]
    /\ Goes(r, IF ses[r].last = "provider" THEN "releaser" ELSE "closed")
    /\ UNCHANGED <<th, ses>>
\* The server's resource releaser after the provider's last call, and the
\* destructor of a session without a provider.
Releaser(r) ==
    /\ at[r] = "releaser"
    /\ Cleanup(r, ses[r], "releaser", ses[r].arg, IF ses[r].arg THEN 499 ELSE 200)
    /\ UNCHANGED <<owner, th>>
----------------------------------------------------------------------------
(* The content providers of the two streams.                               *)

\* The wait of two seconds ends when there is something to do.
Ready(r) == ses[r].queue # <<>> \/ ses[r].done \/ ses[r].aborted
\* A write that fails, or an exception, ends the stream as aborted.
Abort(r, s) == Cleanup(r, s, "provider", TRUE, 499)

\* start_response_stream, on the first call of the Responses provider.
StartStream(r) ==
    /\ at[r] = "open"
    /\ \/ Goes(r, "enter") /\ Become(r, [ses[r] EXCEPT !.st.started = TRUE, !.wire = Created(ses[r].st)])
       \/ ses[r].gone /\ \E k \in 0..1 :
            Abort(r, [ses[r] EXCEPT !.wire = SubSeq(Created(ses[r].st), 1, k)])
    /\ UNCHANGED <<owner, th>>
\* Two seconds without anything: a comment is written to the client.
Heartbeat(r) ==
    /\ at[r] = "enter" /\ ~Ready(r) /\ ses[r].gone
    /\ Abort(r, ses[r])
    /\ UNCHANGED <<owner, th>>
\* All queued deltas at once; the producer is told.  The chat provider takes
\* off more than was charged when there are log probabilities.
Take(r) ==
    /\ at[r] = "enter" /\ Unlocked(r) /\ ses[r].queue # <<>>
    /\ LET s == ses[r]
           off == SumOf(s.queue, Uncharged)
       IN  Become(r, [s EXCEPT !.batch = s.queue, !.queue = <<>>,
                        !.pending = IF Chat(r) THEN (@ - off) % rig.width ELSE 0,
                        !.over = IF Chat(r) THEN @ + off - SumOf(s.queue, Charged) ELSE @])
    /\ Goes(r, "write") /\ Runs(r, Woken(th[r]))
    /\ UNCHANGED owner

\* What one delta adds to the stream, after the UTF-8 buffers.
Framed(r, acc, d) ==
    LET x == Applied(acc.st, d)
    IN  IF Chat(r) THEN [acc EXCEPT !.frames = @ \o ChatFrames(d)]
        ELSE [acc EXCEPT !.frames = @ \o x.events, !.st = x.st]
Frames(r, deltas) ==
    LET step(acc, d) ==
            LET o == OnDelta(acc.buffer, d)
            IN  Framed(r, [acc EXCEPT !.buffer = o.buffer], o.delta)
    IN  FoldLeft(step, [buffer |-> ses[r].buffer, st |-> ses[r].st, frames |-> <<>>], deltas)
Written(r, f, k) == [ses[r] EXCEPT !.wire = @ \o SubSeq(f.frames, 1, k), !.batch = <<>>,
                                   !.buffer = f.buffer, !.st = f.st]
Write(r) ==
    /\ at[r] = "write"
    /\ LET f == Frames(r, ses[r].batch)
       IN  \/ Goes(r, "enter") /\ Become(r, Written(r, f, Len(f.frames)))
           \/ ses[r].gone /\ \E k \in 0..Len(f.frames) : Abort(r, Written(r, f, k))
    /\ UNCHANGED <<owner, th>>
\* Nothing queued and the thread done: what the buffers keep, the terminal
\* events, the cleanup and sink.done.
EndStream(r) ==
    /\ at[r] = "enter" /\ Unlocked(r) /\ ses[r].queue = <<>> /\ ses[r].done
    /\ LET f == Framed(r, [buffer |-> NoText, st |-> ses[r].st, frames |-> <<>>], OnFinish(ses[r].buffer))
           end == IF Chat(r) THEN IF ses[r].error THEN ChatError ELSE ChatDone
                  ELSE IF ses[r].error THEN FailedEvents ELSE Completed(f.st)
           all == [f EXCEPT !.frames = @ \o end]
       IN  \/ Cleanup(r, Written(r, all, Len(all.frames)), "provider", FALSE,
                      IF ses[r].error THEN 500 ELSE 200)
           \/ ses[r].gone /\ \E k \in 0..Len(all.frames) - 1 : Abort(r, Written(r, all, k))
    /\ UNCHANGED <<owner, th>>
\* The server gives up between two calls of the provider.
Dropped(r) ==
    /\ at[r] \in {"open", "enter"} /\ ses[r].gone
    /\ Cleanup(r, ses[r], "releaser", TRUE, 499)
    /\ UNCHANGED <<owner, th>>
----------------------------------------------------------------------------
(* Without a stream: run, polling the connection every 50 ms.              *)

Poll(r) ==
    /\ at[r] = "running" /\ ses[r].gone
    /\ Goes(r, "stopping") /\ Become(r, [ses[r] EXCEPT !.aborted = TRUE])
    /\ UNCHANGED <<owner, th>>
RunDone(r) ==
    /\ at[r] \in {"running", "stopping"} /\ th[r] = "ended"
    /\ ses[r].gone => ses[r].aborted
    /\ IF ses[r].aborted THEN Cleanup(r, ses[r], "provider", FALSE, 408)
       ELSE IF ses[r].error THEN Cleanup(r, ses[r], "provider", FALSE, 500)
       ELSE Cleanup(r, [ses[r] EXCEPT !.wire = <<[type |-> "response"]>>], "provider", FALSE, 200)
    /\ UNCHANGED <<owner, th>>

SessionNext ==
    \E r \in Sessions :
      \/ Leave(r) \/ Acquire(r) \/ Refuse(r)
      \/ Callback(r) \/ Push(r) \/ Doze(r) \/ Return(r)
      \/ FinishOnce(r) \/ FinishNotify(r) \/ FinishRecord(r) \/ FinishRelease(r) \/ Releaser(r)
      \/ StartStream(r) \/ Heartbeat(r) \/ Take(r) \/ Write(r) \/ EndStream(r) \/ Dropped(r)
      \/ Poll(r) \/ RunDone(r)

\* When the handler and when the thread of a session have a step to take.
SessionMoves(r) ==
    CASE at[r] = "enter" -> ses[r].gone \/ (Unlocked(r) /\ (ses[r].queue # <<>> \/ ses[r].done))
      [] at[r] = "running" -> ses[r].gone \/ th[r] = "ended"
      [] at[r] \in {"stopping", "join"} -> th[r] = "ended"
      [] OTHER -> at[r] \notin {"idle", "closed"}
SessionThreadMoves(r) == th[r] \in {"call", "test", "dozing", "stopped"}
=============================================================================
