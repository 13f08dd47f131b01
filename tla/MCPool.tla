------------------------------- MODULE MCPool -------------------------------
(* Instances of ContextPool for TLC: one model on one or two small devices.   *)
EXTENDS ContextPool, TLC

On(gpu, host) == [gpu |-> gpu, host |-> host]
Demand(own, all, seqs) == [own |-> own, all |-> all, seqs |-> seqs]
\* An automatic model that starts with 8 tokens and may have 24 per request.
Auto == [context |-> 24, batch |-> 8, slots |-> 2, maxSeqs |-> 3, auto |-> TRUE, pooled |-> TRUE, unified |-> TRUE,
         fixed |-> 0, chat |-> TRUE, mtp |-> FALSE, margin |-> 4, host |-> 2, total |-> On(64, 10),
         token |-> On(1, 0), sequence |-> On(2, 1), others |-> {On(4, 0)}, faults |-> {}, reserves |-> {},
         demands |-> {Demand(6, 6, 1), Demand(14, 20, 2), Demand(24, 50, 3), Demand(90, 90, 1), Demand(8, 8, 4)}]
\* Other programs come and go; the drafter doubles what a context takes.
Shared == [Auto EXCEPT !.mtp = TRUE, !.others = {On(4, 0), On(30, 0), On(4, 8)}, !.reserves = {10},
                       !.demands = {Demand(14, 20, 2)}]
Faulty == [Auto EXCEPT !.mtp = TRUE, !.total = On(140, 20), !.reserves = {30}, !.demands = {Demand(14, 20, 2)},
                       !.faults = {"allocate", "drafter", "decode", "load", "late"}]
Unsure == [Auto EXCEPT !.mtp = TRUE, !.reserves = {20}, !.others = {On(4, 0), On(20, 0)}, !.demands = {Demand(14, 20, 2)},
                       !.faults = {"metadata", "probe", "measure"}]
\* A pool for two slots of 16, that gives idle context back.
Pooled == [Auto EXCEPT !.auto = FALSE, !.context = 16, !.total = On(48, 10), !.reserves = {0, 6, 14, 60},
                       !.others = {On(0, 0), On(12, 0)}, !.demands = {Demand(16, 16, 1), Demand(30, 44, 2)},
                       !.faults = {"probe"}]
\* A fixed pool, an embedding model on the host, and one nobody could load.
Fixed == [Auto EXCEPT !.auto = FALSE, !.pooled = FALSE, !.fixed = 28, !.reserves = {4}]
Embeds == [Auto EXCEPT !.auto = FALSE, !.context = 12, !.chat = FALSE, !.token = On(0, 1), !.sequence = On(0, 0),
                       !.total = On(10, 40), !.reserves = {4}, !.others = {On(0, 0), On(0, 30)}]
Wrong == [Auto EXCEPT !.pooled = FALSE]
\* So wide that twelve halvings do not reach the end.
Wide(t) == [Auto EXCEPT !.auto = FALSE, !.context = 8000, !.slots = 5, !.total = On(t, 10), !.reserves = {9000}]
MCPoolRigs == {Auto, Shared, Faulty, Unsure, Pooled, Fixed, Embeds, Wrong, [Wide(20000) EXCEPT !.faults = {"allocate"}], Wide(31003)}
=============================================================================
