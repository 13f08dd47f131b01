------------------------------ MODULE MCStores ------------------------------
EXTENDS StoreUpkeep
Get(n, parts) == [do |-> "install", name |-> n, file |-> "f", parts |-> parts]
Off1 == [do |-> "cancel", id |-> 1]
Again(i) == [do |-> "resume", id |-> i]
Shrink(s, n) == [do |-> "quantize", source |-> s, name |-> n]
Drop(n) == [do |-> "remove", name |-> n]
Shelve(n) == [do |-> "archive", name |-> n]
Plain == [asks |-> <<>>, has |-> {}, bundles |-> {}, faults |-> {}, net |-> {"good"}, left |-> <<>>, aliases |-> {}, targets |-> {}, loads |-> {},
          benchmarks |-> FALSE, maxActive |-> 2, maxJobs |-> 2, restarts |-> 0]
\* One file: cancelled, resumed, broken in transit, interrupted.
Single == [Plain EXCEPT !.asks = <<Get("a", 1), Off1, Again(1)>>, !.net = {"good", "corrupt", "short", "fail", "over"},
                        !.restarts = 1]
SingleAgain == [Plain EXCEPT !.asks = <<Get("a", 1), Get("a", 1), Again(1)>>, !.net = {"good", "fail", "over"},
                        !.faults = {"rename"}, !.restarts = 1]
BundleAgain == [Plain EXCEPT !.asks = <<Get("b", 2), Get("b", 2)>>, !.restarts = 1]
Larger == [Plain EXCEPT !.asks = <<Get("a", 1), Again(1)>>,
               !.left = Path("a", "f", "partial", 1) :> [size |-> Full + 1, good |-> FALSE]]
Bundle == [Plain EXCEPT !.asks = <<Get("b", 2), Off1, Again(1)>>, !.net = {"good", "corrupt", "fail", "over"},
                        !.faults = {"rename"}, !.restarts = 1]
\* Two installs and a removal save the manifest at once; saves fail.
Manifests == [Plain EXCEPT !.asks = <<Get("a", 1), Get("b", 2), Drop("c")>>, !.has = {"c"}, !.loads = {"c"},
                           !.restarts = 1]
Unsavable == [Plain EXCEPT !.asks = <<Get("a", 1), Drop("c")>>, !.has = {"c"}, !.faults = {"save"}, !.restarts = 1]
\* Names that are aliases or the targets of aliases; deletions that fail.
Aliased == [Plain EXCEPT !.asks = <<Get("a", 1), Drop("c"), Shelve("d")>>, !.has = {"c", "d"}, !.aliases = {"a"},
                         !.targets = {"d"}, !.faults = {"delete"}, !.loads = {"c"}]
\* Quantization against removal, loading, other maintenance and restarts.
Quantized == [Plain EXCEPT !.asks = <<Shrink("c", "q"), Drop("c"), Get("q", 1)>>, !.has = {"c"}, !.loads = {"c"},
                           !.benchmarks = TRUE]
QuantizedBadly == [Plain EXCEPT !.asks = <<Shrink("c", "q"), Shrink("c", "r"), Shelve("c")>>, !.has = {"c"},
                           !.faults = {"busy", "quantizer", "thread", "rename"}, !.aliases = {"r"}, !.maxJobs = 1, !.restarts = 1]
\* A removal that fails after the name was given to a quantization.
Revived == [Plain EXCEPT !.asks = <<Shrink("c", "q"), Drop("q")>>, !.has = {"c", "q"}, !.faults = {"delete"}]
\* Two removals of one model; a bundle whose removal fails half-way; a crash
\* between the save of a name that is an alias and its refusal, and a restart.
Gone == [Plain EXCEPT !.asks = <<Drop("c"), Drop("c")>>, !.has = {"c"}, !.loads = {"c"}]
Crumbled == [Plain EXCEPT !.asks = <<Drop("b"), Get("a", 1), Shelve("d")>>, !.has = {"b", "d"}, !.bundles = {"b", "d"}, !.loads = {"b"},
                          !.faults = {"delete"}, !.restarts = 1]
Misnamed == [Plain EXCEPT !.asks = <<Get("a", 1), Drop("c")>>, !.has = {"c", "d"}, !.aliases = {"a"}, !.restarts = 2]
\* A quantization without a thread, while its name is given away or the only
\* thread is taken.
Stolen == [Plain EXCEPT !.asks = <<Shrink("c", "q"), Get("q", 1), Get("r", 1)>>, !.has = {"c"}, !.faults = {"thread"}, !.maxJobs = 1]
Full3 == [Plain EXCEPT !.asks = <<Get("a", 1), Get("b", 1), Get("c", 1)>>, !.net = {"good", "fail"}, !.faults = {"thread"},
                       !.maxActive = 1, !.maxJobs = 1]
Twice == [Plain EXCEPT !.asks = <<Get("a", 1), Again(1), Again(1)>>, !.net = {"fail"}]
MCStoreRigs == {Single, SingleAgain, Larger, Bundle, BundleAgain, Manifests, Unsavable, Aliased, Quantized,
                QuantizedBadly, Revived, Gone, Crumbled, Misnamed, Stolen, Full3, Twice}
TwiceResumed == {Twice}
=============================================================================
