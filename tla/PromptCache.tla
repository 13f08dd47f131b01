---------------------------- MODULE PromptCache ----------------------------
(***************************************************************************)
(* The slots of a loaded llama.cpp model and the callers that use them     *)
(* (llama_cpp_runtime.ipp, llama_cpp_prompt_cache.ipp,                     *)
(* llama_cpp_decoding.ipp).  A slot is bound to a sequence of the shared   *)
(* KV cache and remembers the tokens it believes to be there.  A caller    *)
(* acquires a slot, may exchange it for the slot with the longest common   *)
(* prefix, hands a task to the scheduler, drains the task's events, writes *)
(* back what the slot should now remember, and releases it.                *)
(***************************************************************************)
EXTENDS Integers, Sequences, FiniteSets, FiniteSetsExt, SequencesExt

CONSTANTS Requests,   \* calls of predict, one task each
          Rigs        \* the loaded models and workloads to choose from

VARIABLES rig,        \* the one chosen; never changes
          slots,      \* LlamaCppModel::slots_
          kv, draft,  \* cells of each sequence in the target and in the draft context
          task,       \* the SlotTask on the caller's stack
          at,         \* where the caller is
          cancel,     \* caller_cancel or *ext_cancel
          stop,       \* caller_stop
          life,       \* the contexts: "up", or "closing" and "joining" while stop runs
          remakes     \* how often the contexts were made anew

Eog == 0              \* the end-of-generation token of the vocabulary
Done == -1            \* the last event of a task that ran
Failed == -2          \* and of one that failed; the others are tokens
\* Slots and cells are counted, tokens and positions are not negative, and
\* prepare_inference leaves room for at least one token.
ASSUME RigAssumption ==
    \A g \in Rigs :
        /\ g.slots \in Nat /\ g.capacity \in Nat /\ g.remakes \in Nat /\ g.margin \in Nat
        /\ g.vocab \subseteq Nat
        /\ \A r \in DOMAIN g.asks :
             g.asks[r].prompt \in Seq(Nat) /\ g.asks[r].max \in Nat \ {0} /\ g.asks[r].capture \in Nat
NoCheckpoint == [pos |-> 0, cells |-> <<>>, drafted |-> FALSE]
NoTask == [slot |-> 0, seq |-> 0, prompt |-> <<>>, last |-> <<>>, checkpoint |-> NoCheckpoint,
           capture |-> 0, max |-> 0, synced |-> TRUE, initialized |-> FALSE, admitted |-> FALSE,
           promptPos |-> 0, promptDone |-> FALSE, nPos |-> 0, generated |-> 0,
           lastToken |-> Eog, eligible |-> FALSE, spec |-> <<>>, outCheckpoint |-> NoCheckpoint,
           outSynced |-> TRUE, queue |-> <<>>, decoded |-> <<>>]
FreshSlot(s) == [seq |-> s, busy |-> FALSE, bound |-> FALSE, last |-> <<>>,
                 checkpoint |-> NoCheckpoint, synced |-> TRUE]
Ask(r) == rig.asks[r]
Slots == DOMAIN slots

\* How many leading tokens two sequences share.
CommonPrefix(a, b) == Max({n \in 0..Min({Len(a), Len(b)}) : \A i \in 1..n : a[i] = b[i]})

\* recurrent_checkpoint_usable
CheckpointUsable(c, common, prompt) == c.pos > 0 /\ c.pos <= common /\ c.pos <= Len(prompt)

CacheInit ==
    /\ rig \in Rigs
    /\ slots = [s \in 1..rig.slots |-> FreshSlot(s)]
    /\ kv = [s \in 1..rig.slots |-> <<>>]
    /\ draft = [s \in 1..rig.slots |-> <<>>]
    /\ task = [r \in Requests |-> NoTask]
    /\ at = [r \in Requests |-> "idle"]
    /\ cancel = [r \in Requests |-> FALSE]
    /\ stop = [r \in Requests |-> FALSE]
    /\ life = "up"
    /\ remakes = 0

callerVars == <<slots, task, at, cancel, stop>>
----------------------------------------------------------------------------
(* The caller.                                                             *)

\* acquire_slot: the first slot that is not busy, if execution is healthy.
AcquireSlot(r, healthy) ==
    /\ r \in DOMAIN rig.asks /\ at[r] = "idle" /\ life = "up" /\ healthy
    /\ \E s \in Slots :
         /\ ~slots[s].busy /\ \A t \in 1..(s - 1) : slots[t].busy
         /\ slots' = [slots EXCEPT ![s].busy = TRUE]
         /\ task' = [task EXCEPT ![r].slot = s]
    /\ at' = [at EXCEPT ![r] = "acquired"]
    /\ UNCHANGED <<rig, kv, draft, cancel, stop, life, remakes>>

\* What a slot would save a prompt: a recurrent model can only go back to a
\* checkpoint, any other one to the common prefix.
ReusablePrefix(slot, prompt) ==
    LET common == CommonPrefix(prompt, slot.last)
    IN  IF ~rig.recurrent THEN common
        ELSE IF CheckpointUsable(slot.checkpoint, common, prompt) THEN slot.checkpoint.pos ELSE 0

\* The first unbound slot that beats the caller's own and all before it.
BestSlots(own, prompt) ==
    LET gain(s) == ReusablePrefix(slots[s], prompt)
        better == {s \in Slots : ~slots[s].bound /\ gain(s) > gain(own)}
    IN  IF better = {} THEN {own}
        ELSE {s \in better : \A t \in better : gain(s) > gain(t) \/ (gain(s) = gain(t) /\ s <= t)}

SwappedWithBusy(s, t) == [slots EXCEPT ![s] = slots[t], ![t] = slots[s]]
\* The slots after the exchange: everything changes places except who is busy.
Exchanged(s, t) ==
    [slots EXCEPT ![s] = [slots[t] EXCEPT !.busy = slots[s].busy],
                  ![t] = [slots[s] EXCEPT !.busy = slots[t].busy]]

\* prepare_inference: the slot with the best prefix is bound and copied into
\* the task.  The sampler may not come into being; the slot then stays bound.
PrepareInference(r) ==
    /\ at[r] = "acquired" /\ life = "up"
    /\ LET own == task[r].slot IN
       \E best \in IF slots[own].bound THEN {own} ELSE BestSlots(own, Ask(r).prompt) :
       LET now == [Exchanged(own, best) EXCEPT ![own].bound = TRUE]
       IN  /\ slots' = now
           /\ \/ /\ at' = [at EXCEPT ![r] = "prepared"]
                 /\ task' = [task EXCEPT ![r] =
                      [NoTask EXCEPT !.slot = own, !.seq = now[own].seq, !.prompt = Ask(r).prompt,
                                     !.last = now[own].last, !.checkpoint = now[own].checkpoint,
                                     !.capture = Ask(r).capture, !.max = Ask(r).max,
                                     !.synced = now[own].synced]]
              \/ /\ "sampler" \in rig.faults
                 /\ at' = [at EXCEPT ![r] = "leaving"]
                 /\ UNCHANGED task
    /\ UNCHANGED <<rig, kv, draft, cancel, stop, life, remakes>>

\* drain_task with the callback of predict or predict_stream: one event.  A
\* token that completes a stop string is not kept and stops the task; a
\* callback that refuses a token cancels it.  predict keeps every other
\* token, predict_stream only those whose piece has characters.
Drain(r) ==
    /\ at[r] = "draining" /\ task[r].queue # <<>>
    /\ LET event == Head(task[r].queue)
           popped == [task EXCEPT ![r].queue = Tail(@)]
           kept == [popped EXCEPT ![r].decoded = Append(@, event)]
           dropped == Ask(r).streams /\ event \in rig.silent
       IN  \/ /\ event \in {Done, Failed}
              /\ at' = [at EXCEPT ![r] = IF event = Done THEN "drained" ELSE "leaving"]
              /\ task' = popped /\ UNCHANGED <<cancel, stop>>
           \/ /\ event \notin {Done, Failed}
              /\ UNCHANGED at
              /\ \/ (stop[r] \/ dropped) /\ task' = popped /\ UNCHANGED <<cancel, stop>>
                 \/ ~stop[r] /\ ~dropped /\ event = Ask(r).stopAt
                    /\ stop' = [stop EXCEPT ![r] = TRUE] /\ task' = popped /\ UNCHANGED cancel
                 \/ ~stop[r] /\ ~dropped /\ event # Ask(r).stopAt
                    /\ task' = kept /\ UNCHANGED stop
                    /\ \/ UNCHANGED cancel
                       \/ Ask(r).leaves /\ Ask(r).streams /\ cancel' = [cancel EXCEPT ![r] = TRUE]
    /\ UNCHANGED <<rig, slots, kv, draft, life, remakes>>

\* The client goes away: the flag that ext_cancel points to.
Disconnect(r) ==
    /\ at[r] \in {"prepared", "draining", "drained"} /\ ~cancel[r] /\ Ask(r).leaves
    /\ cancel' = [cancel EXCEPT ![r] = TRUE]
    /\ UNCHANGED <<rig, slots, kv, draft, task, at, stop, life, remakes>>

\* What the slot remembers after a task, if the task was ever started.
Remembered(slot, t, cancelled) ==
    IF ~t.initialized THEN slot
    ELSE IF cancelled THEN [slot EXCEPT !.last = <<>>, !.checkpoint = NoCheckpoint, !.synced = FALSE]
    ELSE [slot EXCEPT !.last = t.prompt \o t.decoded, !.checkpoint = t.outCheckpoint,
                      !.synced = t.outSynced]

\* The end of predict: update the per-slot KV state.
UpdateSlot(r) ==
    /\ at[r] = "drained" /\ life = "up"
    /\ slots' = [slots EXCEPT ![task[r].slot] = Remembered(@, task[r], cancel[r])]
    /\ at' = [at EXCEPT ![r] = "leaving"]
    /\ UNCHANGED <<rig, kv, draft, task, cancel, stop, life, remakes>>

\* release_slot
ReleaseSlot(r) ==
    /\ at[r] = "leaving" /\ life = "up"
    /\ slots' = [slots EXCEPT ![task[r].slot].busy = FALSE, ![task[r].slot].bound = FALSE]
    /\ at' = [at EXCEPT ![r] = "over"]
    /\ task' = [task EXCEPT ![r] = NoTask]
    /\ cancel' = [cancel EXCEPT ![r] = FALSE] /\ stop' = [stop EXCEPT ![r] = FALSE]
    /\ UNCHANGED <<rig, kv, draft, life, remakes>>
============================================================================
