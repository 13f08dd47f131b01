--------------------------- MODULE ProfileBenchmark ---------------------------
(***************************************************************************)
(* ProfileBenchmarkManager, its nightly scheduler, quantisation's claim on *)
(* the same maintenance resource, and the requests it keeps away.          *)
(*                                                                         *)
(* A measurement is [prompt, speed, parallel, quality, drafted, vram]: the *)
(* rates in tokens per second, parallel one per concurrency level.         *)
(***************************************************************************)
EXTENDS ApiKeys, FiniteSetsExt
LOCAL INSTANCE SequencesExt

VARIABLES
    bench,      \* state_: [state, model, restored, baseline, trials, recommended]
    cancel,     \* cancel_requested_
    worker,     \* where the worker thread stands, "none" when it has ended
    job,        \* its locals: [previous, todo, ok, plan, outcome]; ousted is history
    attempted   \* models the scheduler has tried today
bench_vars == <<bench, cancel, worker, job, attempted>>

NoBench == [state |-> "idle", model |-> None, restored |-> FALSE, baseline |-> None, trials |-> <<>>, recommended |-> None]
NoJob == [previous |-> {}, todo |-> {}, ok |-> TRUE, plan |-> <<>>, outcome |-> None, ousted |-> {}]
Registered(m) == m \in DOMAIN registry.models
Compute(m) == IF registry.models[m].compute = "cpu" THEN "cpu" ELSE "gpu"
Active == bench.state \in {"running", "cancelling"}
----------------------------------------------------------------------------
(* Requests: maintenance_blocks_model, then the coordinator.               *)

\* The models of the running benchmark that someone else's swap has unloaded.
Ousts == job' = IF worker = "none" THEN job
                ELSE [job EXCEPT !.ousted = job.previous \cap ((@ \cup resident) \ resident')]
Blocked(m) == maintenance # None /\ Registered(m) /\ Compute(m) = maintenance
Arrive(c) ==
    /\ pc[c] = "idle" /\ Serving /\ Ask(c).do = "work" /\ Granted(c)
    /\ Goes(c, IF Blocked(Ask(c).model) THEN "done" ELSE "admitted")
    /\ UNCHANGED <<resident, last, job>>
\* A late request is not turned away: it was admitted before the claim.
Work(c) ==
    /\ pc[c] = "admitted"
    /\ \/ SwapTo(Ask(c).model) /\ Goes(c, "working")
       \/ (~Registered(Ask(c).model) \/ Fault("load")) /\ SwapFails(Ask(c).model) /\ Goes(c, "done")
    /\ Ousts /\ UNCHANGED last
Complete(c) == pc[c] = "working" /\ Goes(c, "done") /\ last' = clock /\ UNCHANGED <<resident, job>>
----------------------------------------------------------------------------
(* ProfileBenchmarkManager::start, from a route or the scheduler.          *)

Target(c) == Ask(c).model
Starter(c) == Ask(c).do \in {"benchmark", "schedule"}
\* A refused scheduler evaluates again in a quarter of a minute.
Declined(c) == Goes(c, IF Ask(c).do = "schedule" THEN "idle" ELSE "done")
Undisturbed(m) == \A c \in Working : Registered(Target(c)) => Compute(Target(c)) # Compute(m)
Apply(c) ==
    /\ pc[c] = "idle" /\ Up /\ Starter(c)
    /\ Ask(c).do = "benchmark" => Serving /\ Granted(c)
    /\ Ask(c).do = "schedule" => Working = {} /\ Target(c) \notin attempted /\ Registered(Target(c)) /\ ~Active
    /\ IF Registered(Target(c)) /\ ~Active THEN Goes(c, "checked") ELSE Declined(c)
    /\ UNCHANGED <<maintenance, bench_vars>>
\* Mutant: the resource is read and then set.
ClaimOver(c) ==
    /\ pc[c] = "checked" /\ maintenance' = Compute(Target(c)) /\ Goes(c, "claimed") /\ UNCHANGED bench_vars
Claim(c) ==
    /\ pc[c] = "checked"
    /\ \/ maintenance = None /\ maintenance' = Compute(Target(c)) /\ Goes(c, "claimed")
       \/ maintenance # None /\ Declined(c) /\ UNCHANGED maintenance
    /\ UNCHANGED bench_vars
Vacant(c) ==
    /\ pc[c] = "claimed"
    /\ \/ Undisturbed(Target(c)) /\ Goes(c, "vacant") /\ UNCHANGED maintenance
       \/ ~Undisturbed(Target(c)) /\ Declined(c) /\ maintenance' = None
    /\ UNCHANGED bench_vars
\* The profiles to measure: other windows for drafting, then the estimates
\* that fit, each once, at most the limit.
Smaller(a, b) == IF a < b THEN a ELSE b
Candidates(limit) ==
    LET current == [window |-> office.window, profile |-> 0]
        windows == IF ~office.mtp THEN <<>> ELSE SelectSeq(<<2, Smaller(4, office.slots)>>, LAMBDA w : w <= office.slots)
        estimates == SelectSeq(office.estimates, LAMBDA e : e.fits)
        all == [i \in DOMAIN windows |-> [window |-> windows[i], profile |-> 0]]
               \o [i \in DOMAIN estimates |-> [window |-> office.window, profile |-> estimates[i].profile]]
        Unseen(s, x) == IF x \in ToSet(s) \cup {current} THEN s ELSE Append(s, x)
        distinct == FoldLeft(Unseen, <<>>, all) IN
    SubSeq(distinct, 1, Smaller(limit, Len(distinct)))
\* The old worker is joined; a thread that cannot be created is a failure.
Launch(c) ==
    /\ pc[c] = "vacant" /\ worker = "none" /\ cancel' = FALSE
    /\ \/ /\ worker' = "begin" /\ job' = [NoJob EXCEPT !.plan = Candidates(Val(Ask(c), "limit", 3))] /\ Goes(c, "done")
          /\ bench' = [NoBench EXCEPT !.state = "running", !.model = Target(c)] /\ UNCHANGED maintenance
          /\ attempted' = IF Ask(c).do = "schedule" THEN attempted \cup {Target(c)} ELSE attempted
       \/ /\ Fault("thread") /\ Declined(c) /\ maintenance' = None /\ UNCHANGED <<worker, job, attempted>>
          /\ bench' = [NoBench EXCEPT !.state = "failed", !.model = Target(c)]
Cancel(c) ==
    /\ pc[c] = "idle" /\ Serving /\ Granted(c) /\ Ask(c).do = "cancel" /\ Goes(c, "done")
    /\ \/ Active /\ cancel' = TRUE /\ bench' = [bench EXCEPT !.state = "cancelling"]
       \/ ~Active /\ UNCHANGED <<bench, cancel>>
    /\ UNCHANGED <<maintenance, worker, job, attempted>>
----------------------------------------------------------------------------
(* ProfileBenchmarkManager::run.                                           *)

Worker(from) == worker = from /\ UNCHANGED <<attempted, cancel>>
Restores(outcome) == worker' = "restoring" /\ job' = [job EXCEPT !.todo = job.previous, !.outcome = outcome]
Begin ==
    /\ Worker("begin") /\ worker' = "unloading"
    /\ LET same == {m \in resident : Registered(m) /\ Compute(m) = maintenance} IN
       job' = [job EXCEPT !.previous = same, !.todo = same]
    /\ UNCHANGED <<bench, resident, maintenance>>
Unload ==
    /\ Worker("unloading")
    /\ \/ \E m \in job.todo :
            \/ resident' = resident \ {m} /\ job' = [job EXCEPT !.todo = @ \ {m}] /\ UNCHANGED worker
            \/ (Fault("unload") \/ m \in {Target(c) : c \in Working}) /\ Restores("failed") /\ UNCHANGED resident
       \/ /\ job.todo = {} /\ UNCHANGED resident
          /\ \/ cancel /\ Restores("cancelled")
             \/ ~cancel /\ job.plan = <<>> /\ Restores("failed")
             \/ ~cancel /\ job.plan # <<>> /\ worker' = "baseline" /\ UNCHANGED job
    /\ UNCHANGED <<bench, maintenance>>
\* run_profile_benchmark_trial loads a profile aside, measures it and unloads
\* it; nothing is measured when a step of that fails, or when a cancellation
\* is seen on the way.
RunTrial(measures) == measures \cup (IF Fault("trial") \/ cancel THEN {None} ELSE {})
Baseline ==
    /\ Worker("baseline") /\ UNCHANGED <<resident, maintenance>>
    /\ \E m \in RunTrial({office.baseline}) :
         \/ m # None /\ bench' = [bench EXCEPT !.baseline = m] /\ worker' = "trying" /\ UNCHANGED job
         \/ m = None /\ Restores("unmeasured") /\ UNCHANGED bench
Try ==
    /\ Worker("trying")
    /\ IF cancel \/ Len(bench.trials) = Len(job.plan) THEN Restores(None) ELSE worker' = "trial" /\ UNCHANGED job
    /\ UNCHANGED <<bench, resident, maintenance>>
Trial ==
    /\ Worker("trial") /\ worker' = "trying" /\ UNCHANGED <<job, resident, maintenance>>
    /\ LET next == job.plan[Len(bench.trials) + 1] IN
       \E m \in RunTrial(Val(office.measures, next.profile, {})) :
         bench' = [bench EXCEPT !.trials = Append(@, IF m = None THEN None ELSE Over([window |-> next.window], m))]
Restore ==
    /\ Worker("restoring") /\ UNCHANGED <<bench, maintenance>>
    /\ \/ \E m \in job.todo :
            \/ Registered(m) /\ resident' = resident \cup {m} /\ UNCHANGED worker
               /\ job' = [job EXCEPT !.todo = @ \ {m}, !.ousted = @ \ {m}]
            \/ /\ ~Registered(m) \/ Fault("load") \/ reload
               /\ job' = [job EXCEPT !.todo = @ \ {m}, !.ok = FALSE] /\ UNCHANGED <<resident, worker>>
       \/ job.todo = {} /\ worker' = "restored" /\ UNCHANGED <<resident, job>>
\* Scores are in hundredths, and a candidate has to gain two of them.  What
\* the current profile did not manage at all is no measure of a gain.
Ratio(m, b) == IF b > 0 THEN (100 * m) \div b ELSE 100
Score(t, b) ==
    LET managed == {i \in DOMAIN b.parallel : b.parallel[i] > 0}
        ratios == [i \in managed |-> Ratio(t.parallel[i], b.parallel[i])]
        gain == IF managed = {} THEN 100
                ELSE MapThenSumSet(LAMBDA i : ratios[i], managed) \div Cardinality(managed) IN
    (Ratio(t.prompt, b.prompt) + Ratio(t.speed, b.speed) + 2 * gain) \div 4
\* preserves_rate, and every workload
Sustains(m, b) == b > 0 /\ m >= b
Preserves(t, b) ==
    /\ Sustains(t.prompt, b.prompt) /\ Sustains(t.speed, b.speed)
    /\ \A i \in DOMAIN b.parallel : Sustains(t.parallel[i], b.parallel[i])
Fits(t, b) ==
    /\ t.vram <= office.vram \/ t.vram <= b.vram
    /\ (office.mtp /\ t.window > 1 => t.drafted) /\ t.quality >= b.quality /\ Preserves(t, b) /\ Score(t, b) >= 102
Best(trials, b) ==
    LET fit == {t \in {trials[i] : i \in DOMAIN trials} \ {None} : Fits(t, b)} IN
    IF fit = {} THEN None ELSE CHOOSE t \in fit : \A u \in fit : Score(t, b) >= Score(u, b)
Settle ==
    /\ Worker("restored") /\ worker' = "finishing" /\ UNCHANGED <<resident, maintenance>>
    /\ \/ job.outcome \notin {None, "unmeasured"} /\ UNCHANGED <<bench, job>>
       \/ job.outcome \in {None, "unmeasured"} /\ cancel /\ job' = [job EXCEPT !.outcome = "cancelled"] /\ UNCHANGED bench
       \/ job.outcome = "unmeasured" /\ ~cancel /\ job' = [job EXCEPT !.outcome = "failed"] /\ UNCHANGED bench
       \/ /\ job.outcome = None /\ ~cancel /\ bench' = [bench EXCEPT !.recommended = Best(bench.trials, bench.baseline)]
          /\ job' = [job EXCEPT !.outcome = IF \E i \in DOMAIN bench.trials : bench.trials[i] # None THEN "completed" ELSE "failed"]
\* finish: the state first, then the resource.
Finish ==
    /\ Worker("finishing") /\ worker' = "releasing" /\ bench' = [bench EXCEPT !.state = job.outcome, !.restored = job.ok]
    /\ UNCHANGED <<job, resident, maintenance>>
ReleaseResource ==
    /\ Worker("releasing") /\ worker' = "none" /\ maintenance' = None /\ UNCHANGED <<bench, job, resident>>
WorkerStep == Begin \/ Unload \/ Baseline \/ Try \/ Trial \/ Restore \/ Settle \/ Finish \/ ReleaseResource
----------------------------------------------------------------------------
(* Quantisation claims the CPU; see StoreUpkeep for the job itself.        *)

Quantize(c) ==
    /\ Ask(c).do = "quantize" /\ UNCHANGED bench_vars
    /\ \/ pc[c] = "idle" /\ Serving /\ Granted(c) /\ maintenance = None /\ maintenance' = "cpu" /\ Goes(c, "quantizing")
       \/ pc[c] = "idle" /\ Serving /\ Granted(c) /\ maintenance # None /\ Goes(c, "done") /\ UNCHANGED maintenance
       \/ pc[c] = "quantizing" /\ maintenance' = None /\ Goes(c, "done")
\* The destructor asks the worker to stop and waits for it.
Quit ==
    /\ reload /\ ~loading /\ ~Handling /\ worker # "none" /\ ~cancel /\ cancel' = TRUE
    /\ UNCHANGED <<bench, worker, job, attempted, resident, maintenance>>
BenchBoot == bench' = NoBench /\ cancel' = FALSE /\ worker' = "none" /\ job' = NoJob /\ attempted' = {}
RequestStep(c) == Arrive(c) \/ Work(c) \/ Complete(c)
StartStep(c) == Apply(c) \/ Claim(c) \/ Vacant(c) \/ Launch(c) \/ Cancel(c) \/ Quantize(c)
----------------------------------------------------------------------------
(* Properties.                                                             *)

\* Maintenance is owned by exactly one job from its claim to its release,
\* and given back by it alone, however it ends.  A benchmark that reports
\* its models restored has every one of them back before anyone else may
\* have the resource, except those a late request's or the default model's
\* swap has unloaded since their own restoration.  The profile it recommends
\* was measured to be no worse than the current one at anything and better
\* than any other trial.
Owners == Cardinality({c \in Callers : pc[c] \in {"claimed", "vacant", "quantizing"}}) + (IF worker = "none" THEN 0 ELSE 1)
BenchmarkSettled ==
    /\ Owners = IF maintenance = None THEN 0 ELSE 1
    /\ worker = "releasing" /\ bench.restored => job.previous \subseteq resident \cup job.ousted
    /\ Active => worker # "none"
    /\ bench.recommended # None =>
         /\ Preserves(bench.recommended, bench.baseline) /\ bench.recommended.quality >= bench.baseline.quality
         /\ \A i \in DOMAIN bench.trials :
              bench.trials[i] # None /\ Fits(bench.trials[i], bench.baseline)
              => Score(bench.trials[i], bench.baseline) <= Score(bench.recommended, bench.baseline)
=============================================================================
