----------------------------- MODULE ConfigRules -----------------------------
(***************************************************************************)
(* What a configuration document says: which documents the validator       *)
(* accepts (config_schema.hpp, config_validation.hpp), what load_config    *)
(* decodes, and what the model registry makes of it at startup.            *)
(*                                                                         *)
(* A YAML mapping is a function on the keys that are present.  Fractions   *)
(* are in hundredths.  A value whose conversion throws is Mistyped.        *)
(***************************************************************************)
EXTENDS Integers, Sequences, FiniteSets, TLC
LOCAL INSTANCE SequencesExt

CONSTANTS
    Mistyped,      \* a scalar that as<int>, as<float> and as<bool> reject
    StrongTokens   \* tokens of at least 32 cookie-safe characters

Has(f, k) == k \in DOMAIN f
Val(f, k, default) == IF Has(f, k) THEN f[k] ELSE default
Part(t, section) == Val(t, section, <<>>)
Within(f, k, low, high) == Has(f, k) => f[k] \in low..high
AtLeast(f, k, low) == Has(f, k) => f[k] # Mistyped /\ f[k] >= low
OneOf(f, k, values) == Has(f, k) => f[k] \in values
Filled(f, k) == Has(f, k) /\ f[k] # ""
Known(f, keys) == DOMAIN f \subseteq keys
\* The keys of f on top of those of g.
Over(f, g) == [k \in DOMAIN f \cup DOMAIN g |-> IF k \in DOMAIN f THEN f[k] ELSE g[k]]
----------------------------------------------------------------------------
(* validate_config_schema: no unknown key anywhere.                        *)

SamplingKeys == {"temperature", "top_p", "top_k", "min_p", "repeat_penalty", "repeat_last_n", "dry_multiplier",
                 "dry_base", "dry_allowed_length", "dry_penalty_last_n", "dry_seq_breakers"}
SectionKeys ==
    [server |-> {"host", "port"}, default_models |-> {"image", "music", "video"}, logging |-> {"level", "file"},
     auth |-> {"required", "token", "api_keys_db"}, cors |-> {"origins"}, state |-> {"file"},
     control |-> {"allow_remote", "allow_data_plane_token", "token", "origins"},
     model_store |-> {"root", "archive_root", "hf_token"},
     observability |-> {"stats_db", "adlx_helper", "telemetry_poll_ms"},
     gateway |-> {"auto_swap", "n_batch", "n_ubatch", "use_mmap", "use_mlock", "n_gpu_layers", "flash_attn",
                  "kv_offload", "op_offload", "cache_type_k", "cache_type_v", "swa_full", "truncate_prompt",
                  "vram_budget_mb", "vram_safety_margin_mb", "max_queue_size", "voice_session_grace_ms",
                  "background_idle_after_seconds", "sampling"},
     compatibility |-> {"openai_derivative"}]
ResourceKeys == {"role", "compute", "residency", "admission_pool", "concurrency_limit", "memory_required_mb",
                 "eviction_eligible"}
EntryKeys == ResourceKeys \cup
    {"name", "family", "runtime", "modality", "capabilities", "gguf_path", "artifacts", "mmproj_path", "n_slots",
     "min_slots", "continuation_grace_ms", "request_queue_timeout_seconds", "vram_required_mb", "vram_fixed_mb",
     "vram_per_slot_mb", "context_size", "default_max_output_tokens", "kv_unified", "context_pool_size",
     "context_pool_auto", "concurrency_auto", "n_batch", "n_ubatch", "cache_type_k", "cache_type_v",
     "n_gpu_layers", "speculative", "has_vision", "reasoning_format", "chat_template_path", "reasoning",
     "prompt_price_per_million", "cached_prompt_price_per_million", "completion_price_per_million",
     "optimization", "sampling"}
EntryKnown(e) ==
    /\ Known(e, EntryKeys) /\ Known(Part(e, "sampling"), SamplingKeys)
    /\ Known(Part(e, "speculative"), {"type", "draft_tokens", "p_min", "max_active_requests"})
    /\ Known(Part(e, "reasoning"), {"supported", "efforts", "default", "none_disables", "aliases"})
    /\ Known(Part(e, "optimization"), {"status", "measured_at", "quality_passes", "quality_total",
                 "single_tokens_per_second", "parallel_tokens_per_second", "schedule"})
    /\ Known(Part(Part(e, "optimization"), "schedule"), {"enabled", "window_start", "window_end"})
SchemaOK(t) ==
    /\ IF Has(t, "schema_version") THEN t.schema_version = 1 ELSE ~Has(t, "extensions")
    /\ Known(t, DOMAIN SectionKeys \cup {"schema_version", "default_model", "model_aliases", "model_registry", "extensions"})
    /\ \A s \in DOMAIN SectionKeys : Known(Part(t, s), SectionKeys[s])
    /\ \A kind \in DOMAIN Part(t, "default_models") : t.default_models[kind] # ""
    /\ Known(Part(Part(t, "gateway"), "sampling"), SamplingKeys)
    /\ \A i \in DOMAIN Part(t, "model_aliases") :
         Known(t.model_aliases[i], {"name", "target", "required_context_size", "required_capabilities"})
    /\ \A i \in DOMAIN Part(t, "model_registry") : EntryKnown(t.model_registry[i])
----------------------------------------------------------------------------
(* validate_config_node, the sections.                                     *)

SamplingOK(s) ==
    /\ Within(s, "temperature", 0, 200) /\ Within(s, "top_p", 0, 100) /\ Within(s, "min_p", 0, 100)
    /\ \A k \in {"repeat_penalty", "dry_base"} : Within(s, k, 1, 10000)
    /\ Within(s, "dry_multiplier", 0, 10000)
    /\ \A k \in {"top_k", "dry_allowed_length"} : AtLeast(s, k, 0)
    /\ \A k \in {"repeat_last_n", "dry_penalty_last_n"} : AtLeast(s, k, -1)
ServerOK(t) == Within(Part(t, "server"), "port", 1, 65535) /\ AtLeast(Part(t, "observability"), "telemetry_poll_ms", 10)
AuthOK(a) ==
    /\ OneOf(a, "required", BOOLEAN) /\ (Val(a, "required", FALSE) = TRUE => Filled(a, "token"))
    /\ Val(a, "api_keys_db", "keys") # ""
\* Remote administration needs a strong token of its own and exact origins.
ControlOK(t) ==
    LET c == Part(t, "control")  data == Val(Part(t, "auth"), "token", "") IN
    /\ OneOf(c, "allow_remote", BOOLEAN) /\ OneOf(c, "allow_data_plane_token", BOOLEAN)
    /\ "*" \notin Val(c, "origins", {})
    /\ Val(c, "allow_remote", FALSE) = TRUE =>
         /\ Val(c, "token", "") \in StrongTokens /\ Val(c, "origins", {}) # {}
         /\ Val(c, "allow_data_plane_token", FALSE) = TRUE \/ data = "" \/ data # c.token
CompatibilityOK(c) == \A p \in DOMAIN c : Known(c[p], {"enabled"}) /\ OneOf(c[p], "enabled", BOOLEAN)
CacheTypes == {"f32", "f16", "bf16", "q8_0", "q4_0", "q4_1", "q5_0", "q5_1", "iq4_nl"}
GatewayOK(g) ==
    /\ \A k \in {"n_batch", "n_ubatch", "max_queue_size"} : AtLeast(g, k, 1)
    /\ Within(g, "voice_session_grace_ms", 1000, 120000)
    /\ Within(g, "background_idle_after_seconds", 60, 86400)
    /\ Has(g, "n_batch") /\ Has(g, "n_ubatch") => g.n_ubatch <= g.n_batch
    /\ \A k \in {"vram_budget_mb", "vram_safety_margin_mb"} : AtLeast(g, k, 0)
    /\ \A k \in {"cache_type_k", "cache_type_v"} : OneOf(g, k, CacheTypes)
    /\ OneOf(g, "flash_attn", {"auto", "on", "off"})
    /\ SamplingOK(Part(g, "sampling"))
StoreOK(s) == Val(s, "root", "models") # "" /\ Val(s, "archive_root", "archive") # ""
----------------------------------------------------------------------------
(* The model registry.                                                     *)

\* standard_runtime_contracts.  A runtime that has vision has reasoning and
\* speculative decoding too.
Offers == [text |-> {"chat_completions", "responses"}, embedding |-> {"embeddings"}, image |-> {"image_generation"},
           audio_speech |-> {"audio_speech"}, audio_transcription |-> {"audio_transcription"},
           audio_generation |-> {"audio_generation"}, video |-> {"video_generation"}]
Contract ==
    LET Media(modalities) == [modalities |-> modalities, policy |-> "artifacts", rich |-> FALSE] IN
    [llama_cpp |-> [modalities |-> {"text", "embedding"}, policy |-> "gguf", rich |-> TRUE],
     vllm_radiance |-> [modalities |-> {"text"}, policy |-> "artifacts", rich |-> TRUE],
     stable_diffusion_cpp |-> Media({"image"}), ace_step_cpp |-> Media({"audio_generation"}),
     ltx_video_cpp |-> Media({"video"}), whisper_cpp |-> Media({"audio_transcription"}),
     sherpa_onnx |-> Media({"audio_speech", "audio_transcription"}),
     windows_sapi |-> [Media({"audio_speech"}) EXCEPT !.policy = "none"]]
Runtime(e) == Val(e, "runtime", "llama_cpp")
Modality(e) == Val(e, "modality", "text")
Context(e) == Val(e, "context_size", 65536)
Slots(e) == Val(e, "n_slots", 2)
Capabilities(e) == Val(e, "capabilities", Offers[Modality(e)])
ContractOK(e) ==
    /\ Runtime(e) \in DOMAIN Contract /\ Modality(e) \in Contract[Runtime(e)].modalities
    /\ Capabilities(e) \subseteq Offers[Modality(e)]
\* validate_runtime_artifacts.  A digest is 64 hexadecimal digits or "bad".
ArtifactsFit(runtime, a) ==
    LET prefill == Val(a, "prefill_attention", "r4d")
        int4 == Val(a, "kv_cache_dtype", "auto") = "int4_per_token_head" IN
    runtime = "vllm_radiance" =>
      /\ prefill \in {"r4d", "r4d_int4", "upstream"} /\ OneOf(a, "kv_cache_dtype", {"auto", "int4_per_token_head"})
      /\ ~Has(a, "gpu_memory_utilization") /\ (Has(a, "decode_dll") <=> Has(a, "decode_dll_sha256"))
      /\ Has(a, "decode_dll") => prefill = "r4d_int4" /\ a.decode_dll # "" /\ a.decode_dll_sha256 # "bad"
      /\ prefill = "r4d_int4" =>
           /\ int4 /\ Has(a, "decode_dll") /\ Filled(a, "prefill_overlay") /\ Filled(a, "prefill_dll")
           /\ Val(a, "prefill_dll_sha256", "bad") # "bad"
      /\ prefill = "r4d" => ~int4
ArtifactsOK(e) ==
    /\ Contract[Runtime(e)].policy = "gguf" => Filled(e, "gguf_path")
    /\ Contract[Runtime(e)].policy = "artifacts" => DOMAIN Part(e, "artifacts") # {}
    /\ ArtifactsFit(Runtime(e), Part(e, "artifacts")) /\ OneOf(e, "has_vision", BOOLEAN)
    /\ Val(e, "has_vision", FALSE) = TRUE =>
         Contract[Runtime(e)].rich /\ (Runtime(e) = "llama_cpp" => Filled(e, "mmproj_path"))

\* validate_model_resources: what the registry requires of a model.
ResourcesFit(info) ==
    /\ info.pool # "" /\ info.limit \in 1..info.slots /\ info.memory >= 0
    /\ ~(info.residency = "always" /\ info.evictable)
    /\ ~(info.role = "conversation" /\ info.residency = "always" /\ info.compute = "cpu")
    /\ info.role = "helper" => info.residency = "always" /\ info.compute = "cpu"
    /\ info.role = "embedding" => "embeddings" \in info.capabilities
Resources(e) ==
    [role |-> e.role, compute |-> e.compute, residency |-> e.residency, pool |-> e.admission_pool,
     limit |-> e.concurrency_limit, memory |-> e.memory_required_mb, evictable |-> e.eviction_eligible,
     slots |-> Slots(e), capabilities |-> Capabilities(e)]
Explicit(e) == ResourceKeys \cap DOMAIN e # {}
ResourcesOK(e) == Explicit(e) =>
    /\ ResourceKeys \subseteq DOMAIN e
    /\ e.role \in {"conversation", "helper", "media", "embedding", "maintenance"}
    /\ e.compute \in {"cpu", "vulkan_gpu", "cuda_gpu", "rocm_gpu", "mixed"}
    /\ e.residency \in {"always", "managed", "on_demand"} /\ e.eviction_eligible \in BOOLEAN
    /\ {e.concurrency_limit, e.memory_required_mb} \subseteq Int
    /\ ResourcesFit(Resources(e))
PoolsAgree(models) == \A i, j \in DOMAIN models :
    /\ Explicit(models[i]) /\ Explicit(models[j]) /\ models[i].admission_pool = models[j].admission_pool
    => models[i].concurrency_limit = models[j].concurrency_limit

SlotsOK(e) ==
    /\ Slots(e) # Mistyped /\ Val(e, "min_slots", 1) \in 1..Slots(e)
    /\ Within(e, "continuation_grace_ms", 0, 2000) /\ Within(e, "request_queue_timeout_seconds", 1, 1800)
    /\ \A k \in {"prompt_price_per_million", "cached_prompt_price_per_million", "completion_price_per_million"} :
         AtLeast(e, k, 0)
\* A pool holds one full request and the draft tokens beside it.
Larger(a, b) == IF a > b THEN a ELSE b
PoolOK(e) ==
    LET unified == Val(e, "kv_unified", FALSE) = TRUE  auto == Val(e, "context_pool_auto", FALSE)
        draft == Part(e, "speculative")
        margin == IF Val(draft, "type", "none") = "mtp" THEN Val(draft, "draft_tokens", 2) ELSE 0 IN
    /\ OneOf(e, "kv_unified", BOOLEAN) /\ auto \in BOOLEAN /\ OneOf(e, "concurrency_auto", BOOLEAN)
    /\ AtLeast(e, "context_size", 1) /\ Within(e, "default_max_output_tokens", 1, 65536)
    /\ Val(e, "concurrency_auto", FALSE) = TRUE => auto /\ Runtime(e) = "llama_cpp"
    /\ auto => unified /\ Val(e, "context_pool_size", 0) = 0
    /\ AtLeast(e, "context_pool_size", 0)
    /\ Val(e, "context_pool_size", 0) > 0 => unified /\ e.context_pool_size >= Larger(512, Context(e)) + margin
BatchOK(t, e) ==
    LET Size(k) == Val(e, k, Val(Part(t, "gateway"), k, 512)) IN
    /\ Size("n_batch") # Mistyped /\ Size("n_ubatch") \in 1..Size("n_batch")
    /\ \A k \in {"cache_type_k", "cache_type_v"} : OneOf(e, k, CacheTypes)
    /\ \A k \in {"vram_required_mb", "vram_fixed_mb", "vram_per_slot_mb"} : AtLeast(e, k, 0)
ReasoningOK(e) ==
    LET r == e.reasoning  supported == Val(r, "supported", TRUE)  efforts == Val(r, "efforts", <<>>) IN
    Has(e, "reasoning") =>
      /\ supported \in BOOLEAN
      /\ ~supported => DOMAIN r \subseteq {"supported"}
      /\ supported => Contract[Runtime(e)].rich /\ efforts # <<>>
      /\ IsInjective(efforts) /\ {"", "none"} \cap ToSet(efforts) = {}
      /\ supported => \/ Val(r, "default", "") \in ToSet(efforts)
                      \/ Val(r, "default", "") = "none" /\ Val(r, "none_disables", FALSE) = TRUE
      /\ \A a \in DOMAIN Part(r, "aliases") : a \notin {"", "none"} /\ r.aliases[a] \in ToSet(efforts)
SpeculativeOK(e) ==
    LET s == e.speculative IN
    Has(e, "speculative") =>
      /\ OneOf(s, "type", {"none", "mtp"}) /\ (Val(s, "type", "none") = "mtp" => Contract[Runtime(e)].rich)
      /\ Within(s, "draft_tokens", 1, 4) /\ Within(s, "p_min", 0, 100)
      /\ Val(s, "max_active_requests", 1) \in 1..Slots(e)
\* Times are minutes of the day.
ScheduleOK(e) ==
    LET s == Part(Part(e, "optimization"), "schedule") IN
    Has(Part(e, "optimization"), "schedule") =>
      /\ Val(s, "window_start", 180) \in 0..1439 /\ Val(s, "window_end", 240) \in 0..1439
      /\ Val(s, "window_start", 180) < Val(s, "window_end", 240)
EntryOK(t, e) ==
    /\ Filled(e, "name") /\ ContractOK(e) /\ SlotsOK(e) /\ ResourcesOK(e) /\ PoolOK(e) /\ BatchOK(t, e)
    /\ ArtifactsOK(e) /\ ReasoningOK(e) /\ SpeculativeOK(e) /\ SamplingOK(Part(e, "sampling")) /\ ScheduleOK(e)
----------------------------------------------------------------------------
(* Aliases, and the whole document.                                        *)

Names(entries) == {entries[i].name : i \in DOMAIN entries}
Distinct(entries) == \A i, j \in DOMAIN entries : entries[i].name = entries[j].name => i = j
\* Mutant: the context an alias promises is not compared with its target's
AliasUnsized(models, a) ==
    Filled(a, "name") /\ Filled(a, "target") /\ a.name \notin Names(models) /\ a.target \in Names(models)
AliasOK(models, a) ==
    /\ Filled(a, "name") /\ Filled(a, "target") /\ a.name \notin Names(models)
    /\ \E i \in DOMAIN models :
         /\ models[i].name = a.target
         /\ Val(a, "required_context_size", 0) \in 0..Context(models[i])
         /\ Val(a, "required_capabilities", {}) \subseteq Capabilities(models[i])
ValidateConfig(t) ==
    LET models == Part(t, "model_registry")  aliases == Part(t, "model_aliases") IN
    /\ SchemaOK(t) /\ ServerOK(t) /\ AuthOK(Part(t, "auth")) /\ ControlOK(t)
    /\ CompatibilityOK(Part(t, "compatibility")) /\ GatewayOK(Part(t, "gateway")) /\ StoreOK(Part(t, "model_store"))
    /\ \A i \in DOMAIN models : EntryOK(t, models[i])
    /\ Distinct(models) /\ PoolsAgree(models)
    /\ \A i \in DOMAIN aliases : AliasOK(models, aliases[i])
    /\ Distinct(aliases)
    /\ Filled(t, "default_model") => t.default_model \in Names(models)
----------------------------------------------------------------------------
(* load_config: the keys the validator never converts are converted here.  *)

UncheckedKeys == {"auto_swap", "use_mmap", "use_mlock", "n_gpu_layers", "kv_offload", "op_offload", "swa_full",
                  "truncate_prompt"}
Typed(f, keys) == \A k \in keys \cap DOMAIN f : f[k] # Mistyped
Converts(t) ==
    /\ Typed(Part(t, "gateway"), UncheckedKeys)
    /\ \A i \in DOMAIN Part(t, "model_registry") :
         LET e == t.model_registry[i] IN
         /\ Typed(e, {"n_gpu_layers"})
         /\ Typed(Part(e, "optimization"), {"quality_passes", "quality_total", "single_tokens_per_second",
                                            "parallel_tokens_per_second"})
         /\ Typed(Part(Part(e, "optimization"), "schedule"), {"enabled"})
         /\ Typed(Part(e, "reasoning"), {"none_disables"})
Loads(t) == ValidateConfig(t) /\ Converts(t)
\* parse_sampling: a model's block on top of the gateway's.
Sampling(t, e) == Over(Part(e, "sampling"), Part(Part(t, "gateway"), "sampling"))
\* A ModelInfo, before the registry has normalised it.
Decoded(t, e) ==
    [name |-> e.name, runtime |-> Runtime(e), modality |-> Modality(e), capabilities |-> Capabilities(e),
     artifacts |-> Part(e, "artifacts"), slots |-> Slots(e), context |-> Context(e), sampling |-> Sampling(t, e),
     explicit |-> Has(e, "role"),
     role |-> Val(e, "role", "conversation"), compute |-> Val(e, "compute", "vulkan_gpu"),
     residency |-> Val(e, "residency", "managed"), pool |-> Val(e, "admission_pool", "conversation"),
     limit |-> Val(e, "concurrency_limit", 0), memory |-> Val(e, "memory_required_mb", 0),
     evictable |-> Val(e, "eviction_eligible", TRUE)]
----------------------------------------------------------------------------
(* The model registry.                                                     *)

MediaCapabilities == {"audio_speech", "audio_transcription", "audio_generation", "image_generation", "video_generation"}
\* normalize_model_resources
Normalized(info) ==
    LET native == info.runtime \in {"whisper_cpp", "sherpa_onnx", "windows_sapi"}
        role == IF info.capabilities \cap MediaCapabilities # {} THEN "media"
                ELSE IF "embeddings" \in info.capabilities THEN "embedding"
                ELSE IF info.modality = "text" THEN "conversation"
                ELSE IF info.modality = "embedding" THEN "embedding" ELSE "media"
        derived == [info EXCEPT !.role = role, !.compute = IF native THEN "cpu" ELSE "vulkan_gpu",
                      !.residency = IF native THEN "always" ELSE "managed", !.evictable = ~native,
                      !.pool = info.name,
                      !.capabilities = IF info.modality # "text" /\ ~(Offers[info.modality] \subseteq @)
                                       THEN Offers[info.modality] ELSE @]
        full == IF info.explicit THEN info ELSE derived IN
    [full EXCEPT !.pool = IF @ = "" THEN full.role ELSE @, !.limit = IF @ <= 0 THEN full.slots ELSE @,
                 !.memory = Larger(0, @)]
\* The registry: models and aliases by name; Refused when a call throws.
Refused == [models |-> <<>>, aliases |-> <<>>, ok |-> FALSE]
RegisterModel(r, given) ==
    LET info == Normalized(given) IN
    IF r.ok /\ ArtifactsFit(info.runtime, info.artifacts) /\ ResourcesFit(info) /\ info.name \notin DOMAIN r.aliases
    THEN [r EXCEPT !.models = info.name :> info @@ @] ELSE Refused
\* set_alias: an existing alias keeps its contract, a new one may take its
\* target's.
Meets(info, contract) == contract.context <= info.context /\ contract.capabilities \subseteq info.capabilities
AliasContract(r, a) ==
    LET info == r.models[a.target]  context == Val(a, "required_context_size", 0)
        capabilities == Val(a, "required_capabilities", {}) IN
    IF a.name \in DOMAIN r.aliases THEN [r.aliases[a.name] EXCEPT !.target = a.target]
    ELSE [target |-> a.target, context |-> IF context <= 0 THEN info.context ELSE context,
          capabilities |-> IF capabilities = {} THEN info.capabilities ELSE capabilities]
SetAlias(r, a) ==
    IF /\ r.ok /\ a.name \notin DOMAIN r.models /\ a.target \in DOMAIN r.models
       /\ Val(a, "required_context_size", 0) >= 0 /\ Meets(r.models[a.target], AliasContract(r, a))
    THEN [r EXCEPT !.aliases = a.name :> AliasContract(r, a) @@ @] ELSE Refused
\* main: the models, the aliases, then what the model store has installed.
Registry(t, stored) ==
    LET infos == [i \in DOMAIN Part(t, "model_registry") |-> Decoded(t, t.model_registry[i])]
        configured == FoldLeft(RegisterModel, [models |-> <<>>, aliases |-> <<>>, ok |-> TRUE], infos)
        aliased == FoldLeft(SetAlias, configured, Part(t, "model_aliases")) IN
    IF ~aliased.ok THEN Refused
    ELSE [aliased EXCEPT !.models = @ @@ [n \in DOMAIN stored \ DOMAIN aliased.aliases |-> Normalized(stored[n])]]
=============================================================================
