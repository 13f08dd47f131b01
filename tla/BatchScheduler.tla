--------------------------- MODULE BatchScheduler ---------------------------
(***************************************************************************)
(* ContinuousBatchScheduler: the thread that owns all decoding of a loaded *)
(* llama.cpp model.  One turn of its loop takes the submitted tasks,       *)
(* admits them to the bounded pool, starts the new ones on what the KV     *)
(* cache still holds, drafts, packs one batch, retires the cancelled and   *)
(* the stopped, decodes, samples, and retires the completed.  A step is a  *)
(* stretch of the loop between two points where it looks at flags or takes *)
(* sub_mtx_; only this thread touches the KV cells.                        *)
(***************************************************************************)
EXTENDS PromptCache

VARIABLES active,     \* active_, guarded by sub_mtx_
          terminal,   \* terminal_error_ is set, failed_ with it
          stopping,   \* stop_
          pc,         \* where the thread is
          turn,       \* batch_turn, as far as it matters for a rotation
          work        \* the locals of the current turn of the loop

NoWork == [tasks |-> <<>>, runnable |-> <<>>, take |-> [r \in Requests |-> 0], done |-> {}]
schedVars == <<active, terminal, stopping, pc, turn, work>>
vars == <<rig, slots, kv, draft, task, at, cancel, stop, life, remakes, schedVars>>

TurnCycle == 6        \* least common multiple of the numbers of tasks in a batch
Off(r) == cancel[r] \/ stop[r]
Without(s, S) ==
    LET rest[i \in 0..Len(s)] == IF i = 0 THEN <<>>
                                 ELSE IF s[i] \in S THEN rest[i - 1] ELSE Append(rest[i - 1], s[i])
    IN  rest[Len(s)]
Members(s) == {s[i] : i \in 1..Len(s)}
Healthy == ~terminal /\ ~stopping
\* sub_mtx_ is held by the thread from its test of the queue until it sleeps.
Unlocked == pc # "dozing"

Init ==
    /\ CacheInit
    /\ active = <<>> /\ terminal = FALSE /\ stopping = FALSE
    /\ pc = "top" /\ turn = 0 /\ work = NoWork
----------------------------------------------------------------------------
(* The other threads.                                                      *)

\* submit: refused after a failure or a stop, else queued and announced.
Submit(r) ==
    /\ at[r] = "prepared" /\ Unlocked
    /\ at' = [at EXCEPT ![r] = "draining"]
    /\ \/ /\ terminal \/ stopping
          /\ task' = [task EXCEPT ![r].queue = Append(@, Failed)]
          /\ UNCHANGED <<active, pc>>
       \/ /\ ~terminal /\ ~stopping
          /\ active' = Append(active, r)
          /\ pc' = IF pc = "asleep" THEN "collect" ELSE pc
          /\ UNCHANGED task
    /\ UNCHANGED <<rig, slots, kv, draft, cancel, stop, life, remakes, terminal, stopping, turn, work>>

\* stop, first half: the flag, without the mutex.  Its callers hold mtx_ and
\* have seen no busy slot (growth, reclaim), or the coordinator has drained
\* the model (unload).
StopBegin ==
    /\ life = "up" /\ remakes < rig.remakes
    /\ \A s \in Slots : ~slots[s].busy
    /\ stopping' = TRUE /\ life' = "closing"
    /\ UNCHANGED <<rig, slots, kv, draft, task, at, cancel, stop, remakes, active, terminal, pc, turn, work>>
\* stop, second half: the notification wakes the thread if it sleeps by now.
StopNotify ==
    /\ life = "closing"
    /\ life' = "joining"
    /\ pc' = IF pc = "asleep" THEN "collect" ELSE pc
    /\ UNCHANGED <<rig, slots, kv, draft, task, at, cancel, stop, remakes, active, terminal, stopping, turn, work>>
\* After the join: the contexts, the slots and the scheduler are made anew
\* (ensure_request_capacity, reclaim_idle_context, unload and load).
Recreate ==
    /\ life = "joining" /\ pc = "ended"
    /\ life' = "up" /\ remakes' = remakes + 1
    /\ slots' = [s \in Slots |-> FreshSlot(s)]
    /\ kv' = [s \in Slots |-> <<>>] /\ draft' = [s \in Slots |-> <<>>]
    /\ stopping' = FALSE /\ terminal' = FALSE /\ pc' = "top" /\ turn' = 0 /\ work' = NoWork
    /\ UNCHANGED <<rig, task, at, cancel, stop, active>>
----------------------------------------------------------------------------
(* Waiting for work and admission.                                         *)

Top ==
    /\ pc = "top"
    /\ pc' = IF stopping THEN "failing" ELSE "collect"
    /\ UNCHANGED <<rig, callerVars, kv, draft, life, remakes, active, terminal, stopping, turn, work>>
\* Nothing to do: the predicate of the wait is false, then the thread sleeps.
Doze ==
    /\ pc = "collect" /\ active = <<>>
    /\ pc' = IF stopping THEN "failing" ELSE "dozing"
    /\ UNCHANGED <<rig, callerVars, kv, draft, life, remakes, active, terminal, stopping, turn, work>>
Sleep ==
    /\ pc = "dozing"
    /\ pc' = "asleep"
    /\ UNCHANGED <<rig, callerVars, kv, draft, life, remakes, active, terminal, stopping, turn, work>>

\* bounded_pool_reservation, bounded_pool_can_admit
Reservation(r) == Len(task[r].prompt) + task[r].max + rig.margin
CanAdmit(reserved, required) == reserved <= rig.capacity - required

Sum(S, f(_)) == FoldSet(LAMBDA x, n : f(x) + n, 0, S)
\* reclaim_bounded_pool_capacity: evict idle sequences in order until the
\* candidate fits; sequences of admitted tasks and its own are protected.
Idle(keep, cells) == Max({Sum(DOMAIN kv \ keep, LAMBDA s : Len(cells[s])),
                          Sum(DOMAIN draft \ keep, LAMBDA s : IF cells[s] = <<>> THEN 0 ELSE Len(draft[s]))})
EvictNothing(keep, cells, reserved, required) == cells
EvictOne(keep, c, reserved, required, s) ==
    IF s \in keep \/ CanAdmit(reserved + Idle(keep, c), required) THEN c ELSE [c EXCEPT ![s] = <<>>]
Evict(keep, cells, reserved, required) ==
    LET left[s \in 0..rig.slots] == IF s = 0 THEN cells ELSE EvictOne(keep, left[s - 1], reserved, required, s)
    IN  left[rig.slots]

\* admit_bounded_pool_tasks: the admitted run on; candidates are taken in
\* order, one that is too large for the pool is rejected, and the first that
\* does not fit yet ends the round.
AdmitOne(a, r) ==
    LET required == Reservation(r)
        reserved == Sum(a.admitted, Reservation)
        keep == {task[x].seq : x \in a.admitted \cup {r}}
    IN  IF a.full \/ r \in a.admitted \/ Off(r) THEN a
        ELSE IF required > rig.capacity THEN [a EXCEPT !.rejected = @ \cup {r}]
        ELSE IF ~CanAdmit(reserved, required) THEN [a EXCEPT !.full = TRUE]
        ELSE [a EXCEPT !.admitted = @ \cup {r}, !.cells = Evict(keep, @, reserved, required),
                       !.runnable = Append(@, r)]
Admission(tasks) ==
    LET in == {r \in Members(tasks) : task[r].admitted}
        none == [admitted |-> in, cells |-> kv, rejected |-> {}, full |-> FALSE,
                 runnable |-> Without(tasks, {r \in Requests : r \notin in \/ Off(r)})]
        round[i \in 0..Len(tasks)] == IF i = 0 THEN none ELSE AdmitOne(round[i - 1], tasks[i])
    IN  round[Len(tasks)]

\* The start of a turn: snapshot, admission, rejection.
Collect ==
    /\ pc = "collect" /\ active # <<>>
    /\ LET a == Admission(active)
           bounded == rig.capacity > 0
           out == {r \in Members(active) : bounded /\ r \in a.rejected}
       IN  /\ active' = Without(active, out)
           /\ work' = [NoWork EXCEPT !.tasks = Without(active, out),
                         !.runnable = IF bounded THEN a.runnable
                                      ELSE Without(active, {r \in Requests : Off(r)})]
           /\ task' = [r \in Requests |->
                IF r \in out THEN [task[r] EXCEPT !.queue = Append(@, Failed)]
                ELSE IF bounded /\ r \in a.admitted
                THEN [task[r] EXCEPT !.admitted = TRUE, !.spec = <<>>]
                ELSE IF r \in Members(active) THEN [task[r] EXCEPT !.spec = <<>>]
                ELSE task[r]]
           /\ kv' = IF bounded THEN a.cells ELSE kv
           /\ draft' = [s \in DOMAIN draft |-> IF kv'[s] # kv[s] THEN <<>> ELSE draft[s]]
    /\ pc' = "ready"
    /\ UNCHANGED <<rig, slots, at, cancel, stop, life, remakes, terminal, stopping, turn>>
----------------------------------------------------------------------------
(* Starting tasks on the cache.                                            *)

\* init_task, as a function of the task, its sequence's cells and its draft's
\* cells: where the prompt resumes and what the cells then are.
ReusableTokens(t) ==
    LET n == CommonPrefix(t.last, t.prompt)
    IN  IF n >= Len(t.prompt) /\ n > 0 THEN n - 1 ELSE n

\* Trusting what the slot remembers instead of what the cache holds.
StartTaskTrusting(t, cells, drafted) ==
    LET common == ReusableTokens(t)
    IN  [t |-> [t EXCEPT !.promptPos = common, !.nPos = common, !.initialized = TRUE,
                         !.outSynced = ~rig.mtp \/ t.eligible],
         kv |-> SubSeq(cells, 1, Min({common, Len(cells)})),
         draft |-> IF t.eligible THEN SubSeq(drafted, 1, Min({common, Len(drafted)})) ELSE drafted]
StartTask(t, cells, drafted) ==
    LET common == ReusableTokens(t)
        deferred == /\ t.eligible /\ ~t.synced
                    /\ t.max > 0 /\ t.max <= rig.margin + 2
                    /\ Min({common, Len(cells)}) >= rig.batch
        eligible == t.eligible /\ ~deferred
        resync == eligible /\ ~t.synced
        outSynced == ~rig.mtp \/ eligible
        physical == IF eligible THEN Min({Len(cells), Len(drafted)}) ELSE Len(cells)
        usable == /\ CheckpointUsable(t.checkpoint, common, t.prompt)
                  /\ eligible => t.checkpoint.drafted /\ t.checkpoint.pos > 1
        kept == ~resync /\ common > 0 /\ usable /\ t.checkpoint.pos = t.capture
        past == Min({common, physical})
        at_(pos, c, d) == [t |-> [t EXCEPT !.promptPos = pos, !.nPos = pos, !.initialized = TRUE,
                                !.eligible = eligible, !.outSynced = outSynced,
                                !.outCheckpoint = IF kept THEN t.checkpoint ELSE @],
                           kv |-> c, draft |-> d]
    IN  IF resync \/ past <= 0 THEN at_(0, <<>>, <<>>)
        ELSE IF past >= physical THEN at_(past, cells, drafted)
        ELSE IF ~rig.recurrent
             THEN at_(past, SubSeq(cells, 1, past), IF eligible THEN SubSeq(drafted, 1, past) ELSE drafted)
        ELSE IF usable
             THEN at_(t.checkpoint.pos, t.checkpoint.cells,
                      IF eligible THEN t.checkpoint.cells ELSE drafted)
        ELSE at_(0, <<>>, <<>>)

\* adaptive_mtp_enabled: drafting is on while few enough requests run.
Window == rig.mtp /\ Len(work.runnable) \in 1..rig.mtpMax
Starts(r) == r \in Members(work.runnable) /\ ~Off(r)
\* A build that forgets that the draft has fallen behind.
ReadyTaskForgetting(r) ==
    LET first == [task[r] EXCEPT !.eligible = Window /\ ~Ask(r).logprobs]
        begun == IF task[r].initialized THEN [t |-> task[r], kv |-> kv[task[r].seq], draft |-> draft[task[r].seq]]
                 ELSE StartTask(first, kv[task[r].seq], draft[task[r].seq])
    IN  [begun EXCEPT !.t.eligible = @ /\ Window]
\* A task that starts in the window drafts from now on; one that is outside
\* of it once never does again, and its draft cells fall behind.
ReadyTask(r) ==
    LET first == [task[r] EXCEPT !.eligible = Window /\ ~Ask(r).logprobs]
        begun == IF task[r].initialized THEN [t |-> task[r], kv |-> kv[task[r].seq], draft |-> draft[task[r].seq]]
                 ELSE StartTask(first, kv[task[r].seq], draft[task[r].seq])
    IN  [begun EXCEPT !.t.eligible = @ /\ Window, !.t.outSynced = @ /\ (Window \/ ~rig.mtp)]

\* The sequences drafted for a task that is past its prompt.
Drafts(r) == IF Starts(r) /\ Window /\ ReadyTask(r).t.eligible /\ task[r].promptDone
             THEN UNION {[1..n -> rig.vocab] : n \in 0..rig.margin} ELSE {<<>>}
Ready ==
    /\ pc = "ready"
    /\ \E spec \in [Members(work.tasks) -> UNION {Drafts(r) : r \in Members(work.tasks)}] :
         /\ \A r \in Members(work.tasks) : spec[r] \in Drafts(r)
         /\ task' = [r \in Requests |-> IF Starts(r) THEN [ReadyTask(r).t EXCEPT !.spec = spec[r]] ELSE task[r]]
    /\ LET started(s) == {r \in Members(work.runnable) : Starts(r) /\ task[r].seq = s}
           cell(s) == ReadyTask(CHOOSE r \in started(s) : TRUE)
       IN  /\ kv' = [s \in DOMAIN kv |-> IF started(s) = {} THEN kv[s] ELSE cell(s).kv]
           /\ draft' = [s \in DOMAIN kv |-> IF started(s) = {} THEN draft[s] ELSE cell(s).draft]
    /\ pc' = "build"
    /\ UNCHANGED <<rig, slots, at, cancel, stop, life, remakes, active, terminal, stopping, turn, work>>
----------------------------------------------------------------------------
(* One batch.                                                              *)

DecodeTokens(r) == 1 + Len(task[r].spec)
Rotated(s) == IF s = <<>> THEN s
              ELSE LET k == turn % Len(s) IN SubSeq(s, k + 1, Len(s)) \o SubSeq(s, 1, k)
\* Sorted by sequence, one task inserted after the other.
Insert(s, r) ==
    LET after == {q \in Requests : task[q].seq > task[r].seq}
    IN  Append(Without(s, after), r) \o Without(s, Requests \ after)
BySlot(s) ==
    LET sorted[i \in 0..Len(s)] == IF i = 0 THEN <<>> ELSE Insert(sorted[i - 1], s[i])
    IN  sorted[Len(s)]
MixedPrefillBudget == 1024    \* what prompts get of a batch with decoding tasks
\* prepare_batch_order: decoding tasks before prompts, rotated when not all
\* of them fit; the second component is the share of each prompt.
BatchOrder(runnable, capacity) ==
    LET order == Rotated(runnable)
        decodes == Without(order, {r \in Requests : ~task[r].promptDone})
        prompts == Without(order, {r \in Requests : task[r].promptDone})
        live == {r \in Members(order) : ~Off(r)}
        needed == Sum({r \in live : task[r].promptDone}, DecodeTokens)
        n == Cardinality({r \in live : ~task[r].promptDone})
        free == Max({0, capacity - needed})
        room == IF needed > 0 /\ n > 0 THEN Min({free, n * Max({1, MixedPrefillBudget \div n})}) ELSE free
    IN  [order |-> (IF needed <= capacity THEN BySlot(decodes) ELSE decodes)
                   \o (IF n > 0 /\ room >= n /\ room % n = 0 THEN BySlot(prompts) ELSE prompts),
         share |-> IF n > 0 THEN (room + n - 1) \div n ELSE 0]

\* How much of a prompt goes into the batch: never past a checkpoint.
Chunk(r, space, share) ==
    LET t == task[r]
        stays(n, p) == p > t.promptPos => t.promptPos + n <= p
    IN  Max({0} \cup {n \in 1..(Len(t.prompt) - t.promptPos) :
                        /\ n <= space /\ n <= share
                        /\ stays(n, t.capture) /\ (t.eligible => stays(n, t.capture - 1))})
Pack(b, r) ==
    LET space == rig.batch - b.used
        size == IF ~task[r].promptDone THEN Chunk(r, space, b.share)
                ELSE IF DecodeTokens(r) <= space THEN DecodeTokens(r) ELSE 0
    IN  IF Off(r) \/ (rig.capacity > 0 /\ ~task[r].admitted) \/ ~task[r].initialized THEN b
        ELSE [b EXCEPT !.used = @ + size, !.take[r] = size]
Packed(order, share) ==
    LET empty == [used |-> 0, take |-> NoWork.take, share |-> share]
        batch[i \in 0..Len(order)] == IF i = 0 THEN empty ELSE Pack(batch[i - 1], order[i])
    IN  batch[Len(order)]

\* Retire the cancelled, whose sequence is cleared, and the stopped, whose
\* cells stay; both get their last event after they have left active_.
Build ==
    /\ pc = "build"
    /\ LET plan == BatchOrder(work.runnable, rig.batch)
           order == plan.order \o Without(work.tasks, Members(work.runnable))
           b == Packed(order, plan.share)
           off == {r \in Members(work.tasks) : Off(r)}
           cleared(s) == \E r \in off : task[r].seq = s /\ cancel[r]
       IN  /\ active' = Without(active, off)
           /\ work' = [NoWork EXCEPT !.tasks = Without(work.tasks, off), !.take = b.take]
           /\ task' = [r \in Requests |-> IF r \in off THEN [task[r] EXCEPT !.queue = Append(@, Done)]
                                          ELSE task[r]]
           /\ kv' = [s \in DOMAIN kv |-> IF cleared(s) THEN <<>> ELSE kv[s]]
           /\ draft' = [s \in DOMAIN kv |-> IF cleared(s) THEN <<>> ELSE draft[s]]
           /\ pc' = IF b.used = 0 THEN "top" ELSE "decode"
    /\ turn' = (turn + 1) % TurnCycle
    /\ UNCHANGED <<rig, slots, at, cancel, stop, life, remakes, terminal, stopping>>
----------------------------------------------------------------------------
(* Decoding, sampling and the end of a turn.                               *)

InBatch(r) == work.take[r] > 0
Fed(r) == IF task[r].promptDone THEN <<task[r].lastToken>> \o task[r].spec
          ELSE SubSeq(task[r].prompt, task[r].promptPos + 1, task[r].promptPos + work.take[r])
\* What the model may answer: nothing while the prompt is unfinished, else the
\* accepted drafts followed by one token of its own.
Answers(r) ==
    IF ~InBatch(r) \/ (~task[r].promptDone /\ task[r].promptPos + work.take[r] < Len(task[r].prompt))
    THEN {<<>>}
    ELSE UNION {{SubSeq(task[r].spec, 1, n) \o <<x>> : x \in rig.vocab \cup {Eog}} : n \in 0..Len(task[r].spec)}

\* How many tokens of an answer are pushed: up to the end of generation and to
\* what is left of max_tokens.
Pushed(answer, room) == Max({n \in 0..Len(answer) : n <= room /\ \A i \in 1..n : answer[i] # Eog})
EmitUpTo(t, answer, room) ==
    LET n == Pushed(answer, room)
        known == IF n < room THEN n ELSE n - 1
    IN  [t |-> [t EXCEPT !.queue = @ \o SubSeq(answer, 1, n), !.generated = @ + n,
                         !.lastToken = IF known = 0 THEN @ ELSE answer[known]],
         over |-> n = room \/ n < Len(answer)]
\* A build that compares before it counts.
EmitOneMore(t, answer) == EmitUpTo(t, answer, t.max - t.generated + 1)
Emit(t, answer) == EmitUpTo(t, answer, t.max - t.generated)
\* A checkpoint is captured when the prompt reaches its position.
Captured(t, cells) ==
    IF t.promptPos = t.capture /\ ~t.promptDone
    THEN [t EXCEPT !.outCheckpoint = [pos |-> t.capture, cells |-> cells, drafted |-> t.eligible]]
    ELSE t
\* The task after the batch: the fed tokens are in the cache, rejected drafts
\* are rolled back.
Advanced(r, answer) ==
    LET t == task[r]
        fed == Fed(r)
        kept == IF t.promptDone THEN Len(answer) ELSE Len(fed)
        cells == kv[t.seq] \o SubSeq(fed, 1, kept)
        moved == [t EXCEPT !.nPos = @ + kept, !.promptPos = IF t.promptDone THEN @ ELSE @ + kept]
        out == Emit([Captured(moved, cells) EXCEPT !.promptDone = t.promptDone \/ answer # <<>>], answer)
    IN  [t |-> out.t, over |-> out.over, kv |-> cells]

InTurn == {r \in Members(work.tasks) : InBatch(r)}
Decode ==
    /\ pc = "decode"
    /\ \E answer \in {f \in [InTurn -> UNION {Answers(r) : r \in InTurn}] : \A r \in InTurn : f[r] \in Answers(r)} :
         LET after == [r \in InTurn |-> Advanced(r, answer[r])]
             shared == \E r \in InTurn : task[r].eligible
             owner(s) == CHOOSE r \in InTurn : task[r].seq = s
             fed == {task[r].seq : r \in InTurn}
         IN  /\ task' = [r \in Requests |-> IF r \in InTurn THEN after[r].t ELSE task[r]]
             /\ kv' = [s \in DOMAIN kv |-> IF s \in fed THEN after[owner(s)].kv ELSE kv[s]]
             /\ draft' = [s \in DOMAIN kv |->
                  IF s \in fed /\ shared
                  THEN draft[s] \o SubSeq(after[owner(s)].kv, Len(kv[s]) + 1, Len(after[owner(s)].kv))
                  ELSE draft[s]]
             /\ work' = [work EXCEPT !.done = {r \in InTurn : after[r].over}]
    /\ pc' = "finish"
    /\ UNCHANGED <<rig, slots, at, cancel, stop, life, remakes, active, terminal, stopping, turn>>
\* llama_decode fails, or something in the turn throws.
DecodeFails ==
    /\ pc = "decode" /\ "decode" \in rig.faults
    /\ pc' = "failing"
    /\ UNCHANGED <<rig, callerVars, kv, draft, life, remakes, active, terminal, stopping, turn, work>>

\* A build that answers a task and keeps its pointer.
FinishKeeping ==
    /\ pc = "finish"
    /\ task' = [r \in Requests |-> IF r \in work.done THEN [task[r] EXCEPT !.queue = Append(@, Done)]
                                   ELSE task[r]]
    /\ work' = NoWork
    /\ pc' = "top"
    /\ UNCHANGED <<rig, slots, kv, draft, at, cancel, stop, life, remakes, active, terminal, stopping, turn>>
\* The completed leave active_, their cells stay for the next request.
Finish ==
    /\ pc = "finish"
    /\ active' = Without(active, work.done)
    /\ task' = [r \in Requests |-> IF r \in work.done THEN [task[r] EXCEPT !.queue = Append(@, Done)]
                                   ELSE task[r]]
    /\ work' = NoWork
    /\ pc' = "top"
    /\ UNCHANGED <<rig, slots, kv, draft, at, cancel, stop, life, remakes, terminal, stopping, turn>>

\* A build that ends without it.
FailNone ==
    /\ pc = "failing"
    /\ pc' = "ended" /\ work' = NoWork /\ terminal' = TRUE
    /\ UNCHANGED <<rig, slots, kv, draft, task, at, cancel, stop, life, remakes, active, stopping, turn>>
\* fail_all at the end of run_loop: whatever is still queued gets an error.
FailAll ==
    /\ pc = "failing"
    /\ terminal' = TRUE
    /\ active' = <<>>
    /\ task' = [r \in Requests |-> IF r \in Members(active) THEN [task[r] EXCEPT !.queue = Append(@, Failed)]
                                   ELSE task[r]]
    /\ pc' = "ended" /\ work' = NoWork
    /\ UNCHANGED <<rig, slots, kv, draft, at, cancel, stop, life, remakes, stopping, turn>>
----------------------------------------------------------------------------
Thread == Top \/ Doze \/ Sleep \/ Collect \/ Ready \/ Build \/ Decode \/ DecodeFails \/ Finish \/ FailAll
Caller(r) ==
    \/ AcquireSlot(r, Healthy) /\ UNCHANGED schedVars
    \/ PrepareInference(r) /\ UNCHANGED schedVars
    \/ Submit(r)
    \/ Drain(r) /\ UNCHANGED schedVars
    \/ UpdateSlot(r) /\ UNCHANGED schedVars
    \/ ReleaseSlot(r) /\ UNCHANGED schedVars
Stopper == StopNotify \/ Recreate
Next ==
    \/ Thread \/ StopBegin \/ Stopper
    \/ \E r \in Requests : Caller(r) \/ (Disconnect(r) /\ UNCHANGED schedVars)

Spec == Init /\ [][Next]_vars
\* The thread moves on from wherever it is not waiting.  (Each of its steps
\* goes to another point, so this is the weak fairness of Thread.)
Points == {"top", "collect", "dozing", "asleep", "ready", "build", "decode", "finish", "failing", "ended"}
MovesOn == pc \notin {"asleep", "ended"} /\ pc' \in Points \ {pc}
\* The operating system runs every thread, and callers drain their queue.
FairSpec == Spec /\ WF_pc(MovesOn) /\ WF_vars(Stopper) /\ \A r \in Requests : WF_vars(Caller(r))
----------------------------------------------------------------------------
(* Properties.                                                             *)

Live == {r \in Requests : at[r] \in {"prepared", "draining", "drained"}}
Queued(r) == r \in Members(active)

\* Slots, cells, callers and the thread's locals have the shapes the code
\* gives them, and the token counters of a task stay within its prompt.
BatchTypeOK ==
    /\ rig \in Rigs
    /\ \A s \in Slots : slots[s].busy \in BOOLEAN /\ slots[s].seq \in Slots
    /\ \A r \in Requests : /\ task[r].promptPos \in 0..Len(task[r].prompt)
                           /\ task[r].generated \in 0..task[r].max
    /\ pc \in Points
    /\ life \in {"up", "closing", "joining"} /\ remakes \in 0..rig.remakes

\* Exchanging slots keeps slots and sequences in one-to-one correspondence,
\* and no two tasks in flight write to the same sequence.
SequenceExclusive ==
    /\ \A s, t \in Slots : slots[s].seq = slots[t].seq => s = t
    /\ \A q, r \in Live : task[q].seq = task[r].seq => q = r

\* No streamed answer holds a token without characters.
Voiced == \A r \in DOMAIN rig.asks : rig.asks[r].streams => rig.silent = {}
\* What a request computes on is its own prompt: a started task has as many
\* cells as it counts, they are the beginning of its prompt, and what an
\* unbound slot remembers is what its sequence holds, as far as both go.
\* predict_stream does not keep the tokens without characters: where it meets
\* one, a slot may remember something else than its cells, and the next
\* prompt on it may begin with cells of another text.  Only the count is sure
\* then.
CacheFaithful ==
    /\ \A r \in Requests : Queued(r) /\ task[r].initialized /\ ~Off(r) =>
         LET t == task[r] IN
         /\ Len(kv[t.seq]) = t.nPos
         /\ Voiced => \A i \in 1..Min({t.nPos, Len(t.prompt)}) : kv[t.seq][i] = t.prompt[i]
    /\ Voiced /\ ~terminal => \A s \in Slots : ~slots[s].bound =>
         \A i \in 1..Min({Len(slots[s].last), Len(kv[slots[s].seq])}) : kv[slots[s].seq][i] = slots[s].last[i]

\* A task that still drafts has a draft context that follows the target.
DraftInSync ==
    \A r \in Requests : Queued(r) /\ task[r].initialized /\ task[r].eligible /\ ~Off(r) =>
        draft[task[r].seq] = kv[task[r].seq]

\* The bounded pool never holds more cells than it has, whatever idle
\* sequences, drafts and admitted tasks are in it; a decode would fail
\* otherwise, and with it every request.
PoolFits ==
    rig.capacity > 0 /\ pc \in {"decode", "finish"} => Sum(DOMAIN kv, LAMBDA s : Len(kv[s])) <= rig.capacity

\* The task object lives on the caller's stack until it has read its last
\* event: the thread keeps no pointer to it longer, and it gets exactly one.
TasksAlive ==
    /\ Members(active) \cup Members(work.tasks) \subseteq {r \in Requests : at[r] = "draining"}
    /\ \A r \in Requests : at[r] = "draining" =>
         LET ends == {i \in 1..Len(task[r].queue) : task[r].queue[i] \in {Done, Failed}}
         IN  /\ ends \subseteq {Len(task[r].queue)}
             /\ ends = {} <=> Queued(r)

\* Every submitted task is answered: prompts cannot starve behind decoding
\* tasks, nor large requests behind small ones, and a failure of the thread
\* leaves nobody waiting.
Answered == \A r \in Requests : (at[r] = "draining") ~> (at[r] # "draining")
============================================================================
