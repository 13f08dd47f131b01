----------------------------- MODULE MCControl -----------------------------
EXTENDS Control
Llama(n, context) == [name |-> n, gguf_path |-> n, context_size |-> context]
Embedder(n) == [name |-> n, gguf_path |-> n, modality |-> "embedding"]
Alias(n, target) == [name |-> n, target |-> target]
Plain == [schema_version |-> 1, auth |-> [required |-> TRUE, token |-> "t"], default_model |-> "m",
          model_registry |-> <<Llama("m", 4096), Llama("n", 8192)>>, model_aliases |-> <<Alias("x", "n")>>]
Quiet == [asks |-> <<>>, base |-> Plain, active |-> None, stored |-> <<>>, faults |-> {}, restarts |-> 0,
          keys |-> <<>>, hours |-> 0, idle |-> 0, mtp |-> FALSE, window |-> 1, slots |-> 2, estimates |-> <<>>,
          measures |-> <<>>, baseline |-> None, vram |-> 10]
Save(layer, edit) == [do |-> layer, edit |-> edit]
Put(n, target) == [do |-> "alias", name |-> n, target |-> target]
Drop(n) == [do |-> "unalias", name |-> n]
Unlist(n) == [do |-> "unregister", name |-> n]
Public(b) == [do |-> "settings", public |-> b]
Reset == [do |-> "reset"]
Hidden == [Plain EXCEPT !.auth = [required |-> TRUE, token |-> "u"]] @@ [model_store |-> [hf_token |-> "h"]]
Stored(n) == n :> Decoded(<<>>, Llama(n, 4096))
\* Two administrators edit aliases, files and the registry; writes fail.
Aliasing == [Quiet EXCEPT !.asks = <<Put("y", "m"), Put("x", "m"), Drop("x")>>, !.restarts = 1]
AliasFails == [Quiet EXCEPT !.asks = <<Put("x", "m"), Drop("x")>>, !.faults = {"write"}, !.restarts = 1]
AliasStored == [Quiet EXCEPT !.asks = <<Put("y", "s"), Put("z", "q")>>, !.stored = Stored("s"), !.restarts = 1]
Unlisting == [Quiet EXCEPT !.asks = <<Unlist("n"), Drop("x"), Unlist("m")>>, !.faults = {"write", "load"}]
UnlistSaved == [Quiet EXCEPT !.asks = <<Unlist("n"), Save("active", [model_aliases |-> <<Alias("n", "m")>>, model_registry |-> <<Llama("m", 4096)>>])>>,
                   !.faults = {"write"}, !.base = [Plain EXCEPT !.model_aliases = <<>>], !.restarts = 1]
Masks == [Quiet EXCEPT !.asks = <<Save("active", [default_model |-> "n"]), Reset, Save("base", [default_model |-> "n"])>>, !.active = Hidden]
Settings == [Quiet EXCEPT !.asks = <<Public(TRUE), Public(FALSE), Reset>>, !.restarts = 1,
                 !.base = [Plain EXCEPT !.auth = [required |-> FALSE]]]
Fallback == [Quiet EXCEPT !.asks = <<Put("y", "m"), Reset>>, !.active = [Plain EXCEPT !.default_model = "gone"], !.restarts = 1]
\* One administrator saves a document, accepted or not, and the gateway restarts.
Saved(edit) == [Quiet EXCEPT !.asks = <<Save("base", edit)>>, !.restarts = 1]
Only(e, aliases) == [default_model |-> "", model_registry |-> <<e>>, model_aliases |-> aliases]
Artifacts == {<<>>, [model |-> "p"], [prefill_attention |-> "upstream"],
              [prefill_attention |-> "r4d_int4", kv_cache_dtype |-> "int4_per_token_head", decode_dll |-> "d",
               decode_dll_sha256 |-> "good", prefill_overlay |-> "o", prefill_dll |-> "p", prefill_dll_sha256 |-> "good"]}
Contracts == {Saved(Only([name |-> "m", gguf_path |-> path, runtime |-> runtime, modality |-> modality, artifacts |-> a],
                         <<[name |-> "x", target |-> "m", required_context_size |-> 65536 + over,
                            required_capabilities |-> {"responses"}]>>)) :
              path \in {"", "p"}, runtime \in DOMAIN Contract, modality \in DOMAIN Offers, a \in Artifacts, over \in 0..1}
Placed == {Saved(Only([name |-> "m", gguf_path |-> "p", role |-> role, compute |-> compute, residency |-> residency,
                       admission_pool |-> pool, concurrency_limit |-> limit, memory_required_mb |-> memory,
                       eviction_eligible |-> evictable, capabilities |-> {"responses"}], <<>>)) :
           role \in {"conversation", "helper", "embedding"}, compute \in {"cpu", "vulkan_gpu"},
           residency \in {"always", "managed"}, pool \in {"", "p"}, limit \in {0, 2, 3}, memory \in {-1, 0},
           evictable \in BOOLEAN}
Rich(k, v) == Only(k :> v @@ Llama("m", 4096), <<>>)
Details == {Saved(edit) : edit \in
    {[gateway |-> [n_batch |-> 512, n_ubatch |-> n]] : n \in {512, 513}} \cup
    {[gateway |-> [voice_session_grace_ms |-> n]] : n \in {999, 1000, Mistyped}} \cup
    {[auth |-> [required |-> TRUE]], [server |-> [port |-> 0]], [surplus |-> 1], [extensions |-> <<>>],
     [default_model |-> "gone"], [model_store |-> [root |-> ""]], [compatibility |-> [openai_derivative |-> [enabled |-> TRUE]]]} \cup
    {[control |-> [allow_remote |-> TRUE, token |-> token, origins |-> {"o"}]] : token \in {"t", "strong-control-token"}} \cup
    {Rich("reasoning", [efforts |-> <<"low", "high">>, default |-> d]) : d \in {"low", "none", "gone"}} \cup
    {Rich("speculative", [type |-> "mtp", draft_tokens |-> 4, max_active_requests |-> n]) : n \in {2, 3}} \cup
    {Rich("kv_unified", TRUE), Rich("n_slots", Mistyped), Rich("min_slots", 3), Rich("has_vision", TRUE),
     Rich("concurrency_auto", TRUE), Rich("sampling", [top_p |-> 101]), Rich("cache_type_k", "q8_0"),
     Rich("optimization", [schedule |-> [window_start |-> 300]])}}
\* Values that only load_config converts, in either file.
Unchecked == {[gateway |-> [auto_swap |-> Mistyped]], [gateway |-> [n_gpu_layers |-> Mistyped]], Rich("n_gpu_layers", Mistyped),
    Rich("optimization", [quality_passes |-> Mistyped]), Rich("optimization", [schedule |-> [enabled |-> Mistyped]]),
    Rich("reasoning", [efforts |-> <<"low">>, default |-> "low", none_disables |-> Mistyped])}
Unconverted == {Saved(edit) : edit \in Unchecked} \cup
    {[Quiet EXCEPT !.asks = <<Save("active", edit), Save("base", [gateway |-> [use_mmap |-> Mistyped]])>>, !.restarts = 1] : edit \in Unchecked}
\* Two programs share the background; keys are revoked, answers lost.
Key(p) == [priority |-> p, revoked |-> FALSE]
Lease(k, n) == [do |-> "lease", credential |-> k, duration |-> 2, calls |-> n]
Request(k, m) == [do |-> "work", credential |-> k, model |-> m]
Lessees == [Quiet EXCEPT !.keys = [k |-> Key(0), j |-> Key(5)], !.base = [Plain EXCEPT !.default_model = ""], !.hours = 3]
Rivals == [Lessees EXCEPT !.asks = <<Lease("k", 3), Lease("j", 3), [do |-> "revoke", id |-> "k"]>>]
LostAnswers == [Lessees EXCEPT !.asks = <<Lease("k", 3), Lease("j", 2)>>, !.faults = {"lost", "database", "store"}, !.restarts = 1]
Idling == [Lessees EXCEPT !.asks = <<Lease("k", 2), Request("t", "m"), [do |-> "probe", credential |-> "j", calls |-> 1]>>, !.idle = 1]
Admins == [Lessees EXCEPT !.asks = <<[do |-> "create", id |-> "i", priority |-> 7], [do |-> "update", id |-> "j", priority |-> 9],
               [do |-> "revoke", id |-> "j"], Request("i", "m"), [do |-> "update", id |-> "i", priority |-> 101]>>,
               !.faults = {"database"}, !.hours = 0, !.restarts = 1]
Remote == [Lessees EXCEPT !.asks = <<[do |-> "revoke", id |-> "j", remote |-> TRUE, credential |-> "t"],
               [do |-> "revoke", id |-> "k", remote |-> TRUE, credential |-> "strong-control-token"]>>, !.hours = 0,
               !.base = Plain @@ [control |-> [allow_remote |-> TRUE, token |-> "strong-control-token", origins |-> {"o"}]]]
\* Benchmarks, requests, quantisation and cancellation.
Rate(prompt, speed, one, two, quality, drafted) ==
    [prompt |-> prompt, speed |-> speed, parallel |-> <<one, two>>, quality |-> quality, drafted |-> drafted, vram |-> 9]
Bench(m) == [do |-> "benchmark", model |-> m]
Measured == [Quiet EXCEPT !.base = [Plain EXCEPT !.model_registry = @ \o <<Llama("o", 4096) @@ [role |-> "helper", compute |-> "cpu",
                    residency |-> "always", admission_pool |-> "o", concurrency_limit |-> 1, memory_required_mb |-> 0,
                    eviction_eligible |-> FALSE]>>],
                !.mtp = TRUE, !.baseline = Rate(100, 100, 100, 100, 3, TRUE),
                !.estimates = <<[profile |-> 1, fits |-> FALSE], [profile |-> 2, fits |-> TRUE], [profile |-> 2, fits |-> TRUE]>>,
                !.measures = 0 :> {Rate(120, 110, 130, 100, 3, d) : d \in BOOLEAN}
                             @@ 2 :> {Rate(120, 110, 140, 99, 3, TRUE), Rate(100, 101, 100, 101, 3, TRUE), Rate(120, 120, 150, 120, 3, TRUE)}]
Nightly == [Measured EXCEPT !.asks = <<Bench("m"), [do |-> "schedule", model |-> "n"], [do |-> "cancel"]>>, !.faults = {"trial"}]
Crowded == [Measured EXCEPT !.asks = <<Bench("m"), Request("t", "n"), [do |-> "quantize"], Request("t", "o")>>, !.measures = 0 :> {Rate(100, 100, 100, 100, 3, TRUE)} @@ 2 :> {},
               !.estimates = <<>>, !.faults = {"load", "unload"}]
Withdrawn == [Measured EXCEPT !.asks = <<Bench("m"), Unlist("n"), Request("t", "n"), Drop("x")>>, !.faults = {"thread"}, !.mtp = FALSE, !.estimates = <<>>, !.restarts = 1]
OnCpu == [Measured EXCEPT !.asks = <<Bench("o") @@ [limit |-> 1], [do |-> "quantize"], Request("t", "o"), Lease("k", 1)>>,
             !.keys = [k |-> Key(0)], !.estimates = <<>>, !.measures = 0 :> {Rate(120, 110, 130, 100, 3, TRUE)}]
Reloaded == [Measured EXCEPT !.asks = <<Bench("m"), Public(TRUE)>>, !.mtp = FALSE, !.restarts = 1]
Desks == {Rivals, LostAnswers, Idling, Admins, Remote, Nightly, Crowded, Withdrawn, OnCpu, Reloaded}
MCControlOffices == {Aliasing, AliasFails, AliasStored, Unlisting, UnlistSaved, Masks, Settings, Fallback}
                    \cup Contracts \cup Placed \cup Details \cup Unconverted \cup Desks
AliasLost == {[Quiet EXCEPT !.asks = <<Save("base", [model_aliases |-> <<Alias("x", "n"), Alias("z", "m")>>]), Put("y", "m")>>]}
=============================================================================
