----------------------------- MODULE ContextPool -----------------------------
(***************************************************************************)
(* The shared context of one llama.cpp model: load, growth for a request,  *)
(* reclamation while idle, unload, and the slots that requests take.  An   *)
(* operation holds mtx_ from beginning to end; its native calls and its    *)
(* probes of the devices are steps of their own.                           *)
(***************************************************************************)
EXTENDS PoolFit

VARIABLES
    loaded,    \* loaded_
    pool,      \* pool_capacity_
    capacity,  \* sequence_capacity_
    limit,     \* sequence_capacity_limit_
    slots,     \* slots_.size()
    busy,      \* the slots that are taken
    batch,     \* scheduler_: none, healthy or failed
    op,        \* the operation that holds mtx_, with its locals
    said       \* how the last operation ended
pool_vars == <<rig, others, ctx, fit, gone, calm, loaded, pool, capacity, limit, slots, busy, batch, op, said>>
state == <<ctx, loaded, pool, capacity, limit, slots, busy, batch>>

Least == 8   \* 512 tokens
NoOp == [kind |-> "none", stage |-> "none", first |-> "ok", total |-> 0, n |-> 0, seqs |-> 0, tries |-> 0,
         wanted |-> 0, wantedSeqs |-> 0, oldPool |-> 0, oldSlots |-> 0, reserve |-> 0, kept |-> FALSE]
NSlots(sequences) == Max({1, IF sequences > 0 THEN sequences ELSE rig.slots})
Healthy == loaded /\ ctx # NoContext /\ (rig.chat => batch = "healthy")
Idle == op.kind = "none"
----------------------------------------------------------------------------
(* Sizes.                                                                  *)

DraftMargin == IF rig.mtp THEN 1 ELSE 0
PerSlot == Max({Least, rig.context})
Initial == IF rig.auto THEN Max({Least, Min({PerSlot, Max({Least, rig.batch})})}) ELSE PerSlot
MinimumPool == Initial + DraftMargin
Sensible ==
    /\ rig.auto => rig.pooled
    /\ rig.pooled => rig.unified /\ rig.fixed = 0
    /\ rig.fixed > 0 => rig.unified /\ rig.fixed >= PerSlot + DraftMargin
\* The capacity asked for: maximum when a pool is recreated.
Asked(maximum, n) ==
    CASE maximum # 0 -> Max({MinimumPool, maximum})
      [] maximum = 0 /\ rig.auto -> MinimumPool
      [] maximum = 0 /\ ~rig.auto /\ rig.fixed > 0 -> rig.fixed
      [] OTHER -> PerSlot * n
----------------------------------------------------------------------------
(* init_shared_context_locked, for the operation o at a stage: create, or  *)
(* recover what it had.  A pool is fitted before it is allocated.          *)

Initialize(o, stage, maximum, margin, sequences) ==
    LET n == IF rig.auto /\ maximum = 0 THEN 1 ELSE NSlots(sequences)
        total == Asked(maximum, n)
        probed == Call(MinimumPool, Max({MinimumPool, total}), margin, NSlots(sequences), FALSE) IN
    /\ op' = [o EXCEPT !.stage = stage, !.total = total, !.n = n, !.seqs = NSlots(sequences), !.tries = 0]
    /\ fit' = CASE ~Sensible -> [probed EXCEPT !.at = "failed", !.code = "invalid"]
                [] Sensible /\ rig.pooled -> probed
                [] OTHER -> [probed EXCEPT !.at = "allocating"]
Creating == op.stage \in {"create", "recover"}
Fitted ==
    /\ Creating /\ fit.at = "done"
    /\ op' = [op EXCEPT !.total = fit.best, !.seqs = op.n] /\ fit' = [fit EXCEPT !.at = "allocating"]
    /\ UNCHANGED <<rig, others, gone, calm, state, said>>
\* Both contexts or none; then the drafter, the slots and the scheduler.
Roomy == \A d \in Devices : Need(op.total, op.seqs)[d] <= Free(d)
Allocated == ctx' = [cap |-> Padded(op.total), seqs |-> op.seqs]
Limit == IF rig.auto THEN Min({rig.maxSeqs, Max({1, rig.batch})}) ELSE op.n
Allocate ==
    /\ Creating /\ fit.at = "allocating" /\ ~gone /\ Roomy
    /\ Allocated /\ pool' = ctx'.cap /\ capacity' = op.n /\ limit' = Limit
    /\ \/ /\ slots' = op.n /\ busy' = {} /\ batch' = (IF rig.chat THEN "healthy" ELSE "none")
          /\ fit' = [fit EXCEPT !.at = "attached"] /\ UNCHANGED calm
       \/ rig.mtp /\ Fault("drafter") /\ Fails("error") /\ calm' = FALSE /\ UNCHANGED <<slots, busy, batch>>
    /\ UNCHANGED <<rig, others, gone, loaded, op, said>>
\* An allocation that fails is tried again with half of what is above the
\* minimum, then with the minimum, then with half the sequences.
Lowered == IF op.tries >= 7 THEN MinimumPool ELSE MinimumPool + (op.total - MinimumPool) \div 2
\* Mutant: fewer slots, but as many sequences as before.
HalvedUnequal == [op EXCEPT !.n = op.n \div 2, !.tries = op.tries + 1]
Halved == [op EXCEPT !.n = op.n \div 2, !.seqs = op.n \div 2, !.tries = op.tries + 1]
Retries ==
    IF rig.auto /\ op.total <= MinimumPool /\ op.n > 1 /\ op.tries < 16
    THEN op' = Halved /\ UNCHANGED fit
    ELSE IF ~rig.pooled \/ op.total <= MinimumPool \/ op.tries >= 16
    THEN Fails("oom") /\ UNCHANGED op
    ELSE op' = [op EXCEPT !.total = Lowered, !.seqs = op.n, !.tries = op.tries + 1] /\ UNCHANGED fit
AllocateFails ==
    /\ Creating /\ fit.at = "allocating" /\ UNCHANGED <<rig, others, gone, state, said>>
    /\ \/ gone /\ Fails("gone") /\ UNCHANGED <<op, calm>>
       \/ ~gone /\ ~Roomy /\ Retries /\ UNCHANGED calm
       \/ ~gone /\ Fault("allocate") /\ Retries /\ calm' = FALSE
----------------------------------------------------------------------------
(* How an operation begins, goes back to what it had, and ends.            *)

Margins(m) == [d \in Devices |-> IF d = "host" THEN rig.host ELSE m]
Spared(m) == \A d \in Devices : Held[d] > 0 => Free(d) >= Margins(m)[d]
Operation(kind) ==
    [NoOp EXCEPT !.kind = kind, !.oldPool = pool, !.oldSlots = slots, !.kept = Healthy /\ Spared(rig.margin)]
\* made: the contexts are new, and were fitted with this reserve.
Says(o, code, quiet, made) ==
    said' = [kind |-> o.kind, code |-> code, calm |-> quiet, made |-> made, reserve |-> rig.margin + o.reserve,
             wanted |-> o.wanted, wantedSeqs |-> o.wantedSeqs, kept |-> o.kept, pool |-> o.oldPool, slots |-> o.oldSlots]
AtOnce(o, code) == Says(o, code, TRUE, FALSE) /\ UNCHANGED <<state, op, fit, gone, calm>>
Ends(code, made) == Says(op, code, calm, made) /\ op' = NoOp /\ fit' = NoFit /\ gone' = FALSE /\ calm' = TRUE
Cleared == ctx' = NoContext /\ pool' = 0 /\ batch' = "none" /\ busy' = {}
\* With half a minute of its own.
Recover(first) ==
    /\ Cleared /\ slots' = (IF op.kind = "grow" THEN 0 ELSE slots) /\ capacity' = op.oldSlots /\ gone' = FALSE
    /\ Initialize([op EXCEPT !.first = first, !.reserve = 0], "recover", op.oldPool, rig.margin, op.oldSlots)
    /\ UNCHANGED <<loaded, limit, said, calm>>
InitFailed ==
    /\ Creating /\ fit.at = "failed" /\ UNCHANGED <<rig, others>>
    /\ CASE op.kind = "load" ->
              /\ ctx' = NoContext /\ slots' = 0 /\ busy' = {} /\ Ends(fit.code, FALSE)
              /\ UNCHANGED <<loaded, pool, capacity, limit, batch>>
         [] op.kind # "load" /\ op.stage = "create" -> Recover(fit.code)
         [] op.kind = "grow" /\ op.stage = "recover" -> Ends("unavailable", FALSE) /\ UNCHANGED state
         [] OTHER -> Cleared /\ Ends(fit.code, FALSE) /\ UNCHANGED <<loaded, capacity, limit, slots>>
----------------------------------------------------------------------------
(* load, unload, and requests.                                             *)

Load ==
    /\ Idle /\ ~loaded /\ UNCHANGED <<rig, others>>
    /\ \/ Initialize(Operation("load"), "create", 0, rig.margin, capacity) /\ UNCHANGED <<state, gone, calm, said>>
       \/ Fault("load") /\ AtOnce(Operation("load"), "error")
Loaded ==
    /\ op.kind = "load" /\ fit.at = "attached" /\ loaded' = TRUE /\ Ends("ok", rig.pooled)
    /\ UNCHANGED <<rig, others, ctx, pool, capacity, limit, slots, busy, batch>>
\* The coordinator unloads a model when its leases are over.
Unload ==
    /\ Idle /\ loaded /\ busy = {} /\ Cleared /\ loaded' = FALSE /\ slots' = 0 /\ capacity' = 0 /\ limit' = 0
    /\ Says(Operation("unload"), "ok", TRUE, FALSE) /\ UNCHANGED <<rig, others, fit, gone, calm, op>>
Acquire ==
    /\ Idle /\ Healthy
    /\ \E s \in (0 .. slots - 1) \ busy : (\A t \in 0 .. s - 1 : t \in busy) /\ busy' = busy \cup {s}
    /\ UNCHANGED <<rig, others, ctx, fit, gone, calm, loaded, pool, capacity, limit, slots, batch, op, said>>
Release ==
    /\ Idle /\ \E s \in busy : busy' = busy \ {s}
    /\ UNCHANGED <<rig, others, ctx, fit, gone, calm, loaded, pool, capacity, limit, slots, batch, op, said>>
\* A decode that fails ends the scheduler, and its requests with it.
Breaks ==
    /\ Fault("decode") /\ Idle /\ batch = "healthy" /\ batch' = "failed" /\ said' = [said EXCEPT !.calm = FALSE]
    /\ UNCHANGED <<rig, others, ctx, fit, gone, calm, loaded, pool, capacity, limit, slots, busy, op>>
----------------------------------------------------------------------------
(* ensure_request_capacity for a demand [own, all, seqs]: its own context, *)
(* that of everyone with it, and the sequences.                            *)

AlignUp(value) == LET a == Max({1, rig.batch}) IN ((value + a - 1) \div a) * a
Most == PerSlot * Max({1, limit}) + DraftMargin
GrowthTarget(wanted) ==
    Min({Most, IF wanted > ctx.cap THEN Max({AlignUp(wanted), AlignUp(2 * ctx.cap)}) ELSE ctx.cap})
Refusal(d, o) ==
    CASE ~loaded \/ ctx = NoContext -> "error"
      [] loaded /\ ctx # NoContext /\ o.wanted <= ctx.cap /\ d.seqs <= slots -> "ok"
      [] OTHER ->
         IF ~(rig.auto /\ rig.pooled /\ rig.unified)
         THEN IF d.own + DraftMargin > ctx.cap \/ d.seqs > slots THEN "unavailable" ELSE "busy"
         ELSE IF d.seqs > Max({1, limit}) THEN "oom"
         ELSE IF busy # {} THEN "busy"
         ELSE IF batch = "failed" THEN "unavailable"
         ELSE IF o.wanted > Most THEN "oom" ELSE "none"
Grow(d) ==
    LET o == [Operation("grow") EXCEPT !.wanted = Max({d.own, d.all}) + DraftMargin, !.wantedSeqs = d.seqs,
                                       !.oldPool = ctx.cap]
        sequences == Max({slots, d.seqs}) IN
    /\ Idle /\ UNCHANGED <<rig, others>>
    /\ IF Refusal(d, o) # "none" THEN AtOnce(o, Refusal(d, o))
       ELSE /\ Cleared /\ slots' = 0 /\ capacity' = sequences
            /\ Initialize(o, "create", GrowthTarget(o.wanted), rig.margin, sequences)
            /\ UNCHANGED <<loaded, limit, gone, calm, said>>
Short == pool < op.wanted \/ capacity < op.wantedSeqs
Grown ==
    /\ op.kind = "grow" /\ fit.at = "attached" /\ UNCHANGED <<rig, others>>
    /\ CASE op.stage = "create" /\ Short -> Recover("oom")
         [] op.stage = "create" /\ ~Short -> Ends("ok", TRUE) /\ UNCHANGED state
         [] OTHER -> Ends(op.first, TRUE) /\ UNCHANGED state
----------------------------------------------------------------------------
(* reclaim_idle_context: the pool is made as small as another model's      *)
(* reserve asks for, if that gains anything.                               *)

TargetSlots == IF rig.auto THEN 1 ELSE slots
Reclaim(reserve) ==
    LET o == [Operation("reclaim") EXCEPT !.reserve = reserve, !.stage = "preflight"]
        nothing == \/ ~loaded \/ ~rig.pooled \/ ~rig.unified \/ ctx = NoContext
        spent == \/ ctx.cap <= MinimumPool /\ TargetSlots >= slots
                 \/ \A d \in Devices \ {"host"} : Held[d] = 0 IN
    /\ Idle /\ UNCHANGED <<rig, others>>
    /\ IF nothing THEN AtOnce(o, "nothing")
       ELSE IF ~Healthy \/ busy # {} THEN AtOnce(o, "unavailable")
       ELSE IF spent THEN AtOnce(o, "nothing")
       ELSE op' = o /\ fit' = Call(MinimumPool, ctx.cap, rig.margin + reserve, TargetSlots, TRUE) /\ UNCHANGED <<state, gone, calm, said>>
\* No temporary contexts beside the live ones: try one step smaller.
Preflighted ==
    LET deferred == fit.at = "failed" /\ fit.code = "busy"
        most == IF deferred THEN ctx.cap - Pad ELSE fit.best IN
    /\ op.stage = "preflight" /\ fit.at \in {"done", "failed"} /\ UNCHANGED <<rig, others>>
    /\ IF fit.at = "failed" /\ ~deferred THEN Ends(IF fit.code = "oom" THEN "nothing" ELSE fit.code, FALSE) /\ UNCHANGED state
       ELSE IF deferred /\ ctx.cap - MinimumPool < Pad THEN Ends("nothing", FALSE) /\ UNCHANGED state
       ELSE IF gone THEN Ends("gone", FALSE) /\ UNCHANGED state
       ELSE IF most >= ctx.cap /\ TargetSlots >= slots THEN Ends("nothing", FALSE) /\ UNCHANGED state
       ELSE /\ Cleared /\ capacity' = TargetSlots
            /\ Initialize(op, "create", most, rig.margin + op.reserve, TargetSlots)
            /\ UNCHANGED <<loaded, limit, slots, gone, calm, said>>
Reclaimed ==
    /\ op.kind = "reclaim" /\ fit.at = "attached" /\ UNCHANGED <<rig, others>>
    /\ \/ /\ op.stage = "create" /\ UNCHANGED state
          /\ Ends(IF ctx.cap >= op.oldPool /\ slots >= op.oldSlots THEN "nothing" ELSE "reclaimed", TRUE)
       \/ op.stage = "create" /\ Fault("measure") /\ Recover("unmeasured")
       \/ op.stage = "recover" /\ Ends(IF op.first \in {"gone", "unmeasured"} THEN op.first ELSE "nothing", TRUE) /\ UNCHANGED state
----------------------------------------------------------------------------
(* The caller gives up; other programs take and return memory.             *)

GiveUp ==
    /\ ~Idle /\ ~gone /\ gone' = TRUE
    /\ \/ op.stage # "recover" /\ UNCHANGED calm
       \/ op.stage = "recover" /\ Fault("late") /\ calm' = FALSE
    /\ UNCHANGED <<rig, others, state, fit, op, said>>
Elsewhere ==
    /\ others' \in rig.others \ {others} /\ \A d \in Devices : others'[d] + Held[d] <= rig.total[d]
    /\ calm' = Idle /\ said' = [said EXCEPT !.calm = FALSE] /\ UNCHANGED <<rig, gone, state, fit, op>>

PoolInit ==
    /\ rig \in PoolRigs /\ others \in rig.others /\ ctx = NoContext /\ fit = NoFit /\ gone = FALSE /\ calm = TRUE
    /\ loaded = FALSE /\ pool = 0 /\ capacity = 0 /\ limit = 0 /\ slots = 0 /\ busy = {} /\ batch = "none" /\ op = NoOp
    /\ said = [kind |-> "none", code |-> "ok", calm |-> FALSE, made |-> FALSE, reserve |-> 0, wanted |-> 0,
               wantedSeqs |-> 0, kept |-> FALSE, pool |-> 0, slots |-> 0]
PoolNext ==
    \/ FitNext /\ UNCHANGED <<loaded, pool, capacity, limit, slots, busy, batch, op, said>>
    \/ Fitted \/ Allocate \/ AllocateFails \/ InitFailed \/ Load \/ Loaded \/ Unload \/ Acquire \/ Release \/ Breaks
    \/ (\E d \in rig.demands : Grow(d)) \/ Grown \/ (\E r \in rig.reserves : Reclaim(r)) \/ Preflighted \/ Reclaimed
    \/ GiveUp \/ Elsewhere
PoolSpec == PoolInit /\ [][PoolNext]_pool_vars
----------------------------------------------------------------------------
(* Properties.                                                             *)

\* Between operations a usable model has one context whose size, sequences,
\* slots and reported capacity agree, and a running request keeps it.  A
\* growth that succeeded has what was asked for.  When memory held still, no
\* native call failed and the old pool respected the margin, an operation
\* that did not succeed leaves what there was; and every pool it made leaves
\* its reserve free on every device.
PoolSettled ==
    /\ busy # {} => loaded /\ ctx # NoContext /\ busy \subseteq 0 .. slots - 1
    /\ Idle /\ Healthy =>
         /\ pool = ctx.cap /\ slots = ctx.seqs /\ capacity = slots /\ slots > 0
         /\ rig.pooled => pool >= MinimumPool
    /\ Idle /\ said.kind = "grow" /\ said.code = "ok" => pool >= said.wanted /\ slots >= said.wantedSeqs
    /\ Idle /\ said.calm /\ said.kept /\ said.kind \in {"grow", "reclaim"} /\ said.code \notin {"ok", "reclaimed"} =>
         Healthy /\ pool = said.pool /\ slots = said.slots
    /\ Idle /\ said.calm /\ said.made =>
         Spared(IF said.code \in {"ok", "reclaimed"} THEN said.reserve ELSE rig.margin)
=============================================================================
