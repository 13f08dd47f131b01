------------------------------- MODULE PoolFit -------------------------------
(***************************************************************************)
(* fit_context_pool: the search for the largest context pool that leaves   *)
(* the safety margin free on every device.  Each probe reads the devices   *)
(* anew, so what other programs hold may change between two probes.        *)
(* Tokens are counted so that Pad stands for the 256 that llama.cpp rounds *)
(* a context up to; memory is in small units.                              *)
(***************************************************************************)
EXTENDS Integers, FiniteSets, FiniteSetsExt

CONSTANT PoolRigs   \* models, devices, demands and what may fail
VARIABLES
    rig,      \* the rig of this behaviour
    others,   \* what everything but the contexts holds: device -> memory
    ctx,      \* shared_ctx_ with draft_ctx_: [cap, seqs], or NoContext
    fit,      \* the locals of fit_context_pool
    gone,     \* the operation's control is cancelled or expired
    calm      \* since the operation began no memory moved and no native call failed

NoContext == [cap |-> 0, seqs |-> 0]
Pad == 4
Padded(capacity) == ((capacity + Pad - 1) \div Pad) * Pad
Halvings == 12
Devices == DOMAIN rig.total
Fault(f) == f \in rig.faults
----------------------------------------------------------------------------
(* Memory: what contexts of a capacity take, the draft's as the target's.  *)

Need(capacity, seqs) ==
    [d \in Devices |-> (IF rig.mtp THEN 2 ELSE 1) * (rig.token[d] * Padded(capacity) + rig.sequence[d] * seqs)]
Held == Need(ctx.cap, ctx.seqs)
Free(d) == Max({0, rig.total[d] - others[d] - Held[d]})
Recoverable(d) == Min({rig.total[d], Free(d) + Held[d]})
Margin(d) == IF d = "host" THEN rig.host ELSE fit.margin
\* Mutant: the margin is asked for beside the pool as if it were part of it.
AvailableUnreserved(capacity, seqs) ==
    \A d \in Devices : Need(capacity, seqs)[d] > 0 =>
        LET free == IF fit.credit THEN Recoverable(d) ELSE Free(d) IN
        free >= Margin(d) /\ Need(capacity, seqs)[d] <= free
Available(capacity, seqs) ==
    \A d \in Devices : Need(capacity, seqs)[d] > 0 =>
        LET free == IF fit.credit THEN Recoverable(d) ELSE Free(d) IN
        free >= Margin(d) /\ Need(capacity, seqs)[d] <= free - Margin(d)
----------------------------------------------------------------------------
(* The search.  at: begin, the probes, then done with best or failed.      *)

NoFit == [at |-> "idle", code |-> "ok", min |-> 1, max |-> 1, margin |-> 0, seqs |-> 1, credit |-> FALSE,
          lo |-> 1, hi |-> 1, best |-> 0, probes |-> 0]
\* Called with the bounds, the reserve and, by reclaim, the live contexts
\* whose memory counts as free.
Call(min, max, margin, seqs, credit) ==
    [NoFit EXCEPT !.at = "begin", !.min = min, !.max = max, !.margin = margin, !.seqs = seqs, !.credit = credit,
                  !.lo = min, !.hi = max]
Fails(code) == fit' = [fit EXCEPT !.at = "failed", !.code = code]
FitVars == <<rig, others, ctx, gone>>
\* The metadata model is loaded, and a reserve that no reclamation could
\* leave is refused.
FitBegin ==
    /\ fit.at = "begin" /\ UNCHANGED FitVars
    /\ \/ gone /\ Fails("gone") /\ UNCHANGED calm
       \/ Fault("metadata") /\ Fails("error") /\ calm' = FALSE
       \/ /\ ~gone /\ UNCHANGED calm
          /\ IF fit.credit /\ \E d \in Devices \ {"host"} : Held[d] > 0 /\ fit.margin >= Recoverable(d)
             THEN Fails("oom")
             ELSE fit' = [fit EXCEPT !.at = "minimum"]
Target ==
    CASE fit.at = "minimum" -> fit.min
      [] fit.at = "maximum" -> fit.max
      [] OTHER -> fit.lo + (fit.hi - fit.lo) \div 2
\* Where the search goes after a probe.
MayHalve(f) == f.probes < Halvings /\ f.lo + 1 < f.hi
Halve(f) == [f EXCEPT !.at = IF MayHalve(f) THEN "middle" ELSE "done"]
Fitting == [fit EXCEPT !.best = Max({@, Padded(Target)}), !.lo = Target]
AfterProbe(fits) ==
    CASE fit.at = "minimum" /\ fits -> IF fit.min = fit.max THEN [Fitting EXCEPT !.at = "done"] ELSE [Fitting EXCEPT !.at = "maximum"]
      [] fit.at = "minimum" /\ ~fits -> [fit EXCEPT !.at = "failed", !.code = "oom"]
      [] fit.at = "maximum" /\ fits -> [Fitting EXCEPT !.at = "done"]
      [] fit.at = "maximum" /\ ~fits -> Halve(fit)
      [] fit.at = "middle" /\ fits -> Halve([Fitting EXCEPT !.probes = @ + 1])
      [] OTHER -> Halve([fit EXCEPT !.hi = Target, !.probes = @ + 1])
\* A probe whose temporary contexts cannot be made is out of memory, or,
\* beside live contexts, busy.
FitProbe ==
    /\ fit.at \in {"minimum", "maximum", "middle"} /\ UNCHANGED FitVars
    /\ \/ gone /\ Fails("gone") /\ UNCHANGED calm
       \/ Fault("probe") /\ Fails(IF fit.credit THEN "busy" ELSE "oom") /\ calm' = FALSE
       \/ ~gone /\ fit' = AfterProbe(Available(Target, fit.seqs)) /\ UNCHANGED calm
FitNext == FitBegin \/ FitProbe
----------------------------------------------------------------------------
\* When nothing moved meanwhile, the pool the search ends with fits, and it
\* is the largest one that does: exactly, or within what twelve halvings of
\* the interval leave open.  A search that fails found that not even the
\* minimum fits.  The bounds of the caller are kept either way.
Leaves(capacity, seqs) ==
    \A d \in Devices : Need(capacity, seqs)[d] > 0 => others[d] + Need(capacity, seqs)[d] + Margin(d) <= rig.total[d]
Slack == IF fit.probes < Halvings THEN 1 ELSE 1 + (fit.max - fit.min) \div 2 ^ Halvings
FitBest ==
    /\ fit.at = "done" =>
         /\ fit.min <= fit.lo /\ fit.lo <= fit.max /\ fit.best = Padded(fit.lo)
         /\ calm => /\ Leaves(fit.lo, fit.seqs)
                    /\ fit.lo + Slack <= fit.max => ~Leaves(fit.lo + Slack, fit.seqs)
    /\ fit.at = "failed" /\ fit.code = "oom" /\ calm => ~Leaves(fit.min, fit.seqs)
=============================================================================
