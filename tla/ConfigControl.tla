---------------------------- MODULE ConfigControl ----------------------------
(***************************************************************************)
(* ConfigRepository and the dashboard routes that change configuration:    *)
(* base and active documents, aliases, public access, unregistering; the   *)
(* reload they schedule, crash and restart.                                *)
(*                                                                         *)
(* Every repository operation holds one mutex, so each is one action; what *)
(* a client or a route read before it may be stale.                        *)
(***************************************************************************)
EXTENDS ControlState, ConfigRules
LOCAL INSTANCE SequencesExt

VARIABLES
    base, active,  \* the two files; active is None when absent
    registry,      \* the model registry
    applied,       \* the document the registry stands for (history)
    loading,       \* g_default_model_loading
    my             \* caller -> [text, revision, previous]
files == <<base, active>>
config == <<base, active, registry, applied, loading, my>>

Desired == IF active = None THEN base ELSE active
Keeps(c, m) == my' = [my EXCEPT ![c] = m]
Secrets == {<<"auth", "token">>, <<"control", "token">>, <<"model_store", "hf_token">>}
Sentinel == "__INFERDECK_SECRET__"
SecretSections == {field[1] : field \in Secrets}
\* mask_config_secrets, restore_config_secrets
MaskSecrets(t) ==
    [s \in DOMAIN t |-> IF s \notin SecretSections THEN t[s]
                        ELSE [k \in DOMAIN t[s] |-> IF <<s, k>> \in Secrets THEN Sentinel ELSE t[s][k]]]
Returned(s, k, value, current) ==
    IF <<s, k>> \in Secrets /\ value = Sentinel THEN Val(Part(current, s), k, value) ELSE value
RestoreSecrets(t, current) ==
    [s \in DOMAIN t |-> IF s \notin SecretSections THEN t[s]
                        ELSE [k \in DOMAIN t[s] |-> Returned(s, k, t[s][k], current)]]
----------------------------------------------------------------------------
(* Documents the routes render.                                            *)

\* render_aliases: the aliases of the registry, with their contracts.
RenderAliases(t, aliases) ==
    LET names == SetToSeq(DOMAIN aliases) IN
    Over([model_aliases |-> [i \in DOMAIN names |->
        [name |-> names[i], target |-> aliases[names[i]].target,
         required_context_size |-> aliases[names[i]].context,
         required_capabilities |-> aliases[names[i]].capabilities]]], t)
RenderAccess(t, public) == Over([auth |-> Over([required |-> ~public], Part(t, "auth"))], t)
RemoveEntry(t, name) == [t EXCEPT !.model_registry = SelectSeq(@, LAMBDA e : e.name # name)]
Configured(t, name) == name \in Names(Part(t, "model_registry"))
----------------------------------------------------------------------------
(* Requests.                                                               *)

\* GET: the document, masked, and its revision.  A revision names a text.
Fetch(c) ==
    /\ pc[c] = "idle" /\ Serving /\ Ask(c).do \in {"base", "active", "reset", "settings", "alias", "unalias", "unregister"}
    /\ LET t == IF Ask(c).do = "base" THEN base ELSE Desired IN
       Keeps(c, [text |-> MaskSecrets(t), revision |-> t, previous |-> None])
    /\ Goes(c, "holding")
    /\ UNCHANGED <<files, registry, applied, reload, loading>>
\* What a route checks and reads before it enters the repository.
NeedsQuiet(c) == Ask(c).do \in {"base", "active", "reset", "settings"}
Turned(c) ==
    \/ NeedsQuiet(c) /\ maintenance # None
    \/ Ask(c).do = "unalias" /\ Ask(c).name \notin DOMAIN registry.aliases
    \/ Ask(c).do = "unregister" /\ Ask(c).name \notin DOMAIN registry.models
Previous(c) ==
    CASE Ask(c).do \in {"alias", "unalias"} -> Val(registry.aliases, Ask(c).name, None)
      [] Ask(c).do = "unregister" -> registry.models[Ask(c).name]
      [] OTHER -> None
Enter(c) ==
    /\ pc[c] = "holding" /\ Serving
    /\ \/ Turned(c) /\ Goes(c, "done") /\ UNCHANGED my
       \/ ~Turned(c) /\ Goes(c, "entered") /\ Keeps(c, [my[c] EXCEPT !.previous = Previous(c)])
    /\ UNCHANGED <<files, registry, applied, reload, loading>>

Inside(c, do) == pc[c] = "entered" /\ Ask(c).do = do /\ Goes(c, "done") /\ UNCHANGED my
Submitted(c) == Over(Ask(c).edit, my[c].text)
\* write_base: no reload.
SaveBase(c) ==
    /\ Inside(c, "base")
    /\ LET t == RestoreSecrets(Submitted(c), base) IN
       \/ my[c].revision = base /\ ValidateConfig(t) /\ base' = t
       \/ (my[c].revision # base \/ ~ValidateConfig(t) \/ Fault("write")) /\ UNCHANGED base
    /\ UNCHANGED <<active, registry, applied, reload, loading>>
\* write_active: the file is replaced and a reload is due.
\* Mutant: any revision is current
AnyRevision(c) == TRUE
Current(c) == my[c].revision = Desired
Replaces(c, t) ==
    \/ Current(c) /\ ValidateConfig(t) /\ active' = t /\ reload' = TRUE
    \/ (~Current(c) \/ ~ValidateConfig(t) \/ Fault("write")) /\ UNCHANGED <<active, reload>>
SaveActive(c) ==
    /\ Inside(c, "active") /\ Replaces(c, RestoreSecrets(Submitted(c), Desired))
    /\ UNCHANGED <<base, registry, applied, loading>>
SaveSettings(c) ==
    /\ Inside(c, "settings") /\ Replaces(c, RenderAccess(Desired, Ask(c).public))
    /\ UNCHANGED <<base, registry, applied, loading>>
ResetActive(c) ==
    /\ Inside(c, "reset")
    /\ \/ Current(c) /\ active # None /\ active' = None /\ reload' = TRUE
       \/ (~Current(c) \/ active = None \/ Fault("write")) /\ UNCHANGED <<active, reload>>
    /\ UNCHANGED <<base, registry, applied, loading>>

\* transact_active for aliases: the registry changes first, then the file;
\* a document that is refused or cannot be written takes the change back.
\* There is no reload: the registry has changed already.
Dropped(r, name) == [r EXCEPT !.aliases = [n \in DOMAIN @ \ {name} |-> @[n]]]
AsAsked(name, p) == [name |-> name, target |-> p.target, required_context_size |-> p.context,
                     required_capabilities |-> p.capabilities]
\* What set_alias leaves: the registry as it was when it is refused.
Tried(r, a) == IF SetAlias(r, a).ok THEN SetAlias(r, a) ELSE r
\* Mutant: the registry keeps a change whose document was not saved
KeptAnyway(c, r) == r
PutBack(c, r) ==
    IF my[c].previous = None THEN Dropped(r, Ask(c).name) ELSE Tried(r, AsAsked(Ask(c).name, my[c].previous))
Transacts(c, changed) ==
    LET t == RenderAliases(Desired, changed.aliases) IN
    \/ /\ Current(c) /\ changed.ok /\ ValidateConfig(t)
       /\ active' = t /\ registry' = changed /\ applied' = IF applied = Desired THEN t ELSE applied
    \/ /\ Current(c) /\ (~changed.ok \/ ~ValidateConfig(t) \/ Fault("write"))
       /\ registry' = PutBack(c, IF changed.ok THEN changed ELSE registry) /\ UNCHANGED <<active, applied>>
    \/ ~Current(c) /\ UNCHANGED <<active, registry, applied>>
PutAlias(c) ==
    /\ Inside(c, "alias") /\ Transacts(c, SetAlias(registry, [name |-> Ask(c).name, target |-> Ask(c).target]))
    /\ UNCHANGED <<base, reload, loading>>
RemoveAlias(c) ==
    /\ Inside(c, "unalias")
    /\ Transacts(c, IF Ask(c).name \in DOMAIN registry.aliases THEN Dropped(registry, Ask(c).name) ELSE Refused)
    /\ UNCHANGED <<base, reload, loading>>
\* unregister: refused for the default model, an alias's target, a model
\* that is loaded or not in the document.
Unregister(c) ==
    /\ Inside(c, "unregister")
    /\ LET name == Ask(c).name
           removable == /\ Val(Desired, "default_model", "") # name /\ Configured(Desired, name)
                        /\ \A a \in DOMAIN registry.aliases : registry.aliases[a].target # name
           t == RemoveEntry(Desired, name) IN
       \/ /\ Current(c) /\ removable /\ name \notin resident /\ ValidateConfig(t)
          /\ active' = t /\ reload' = TRUE /\ registry' = [registry EXCEPT !.models = [n \in DOMAIN @ \ {name} |-> @[n]]]
       \/ /\ Current(c) /\ removable /\ name \notin resident /\ (~ValidateConfig(t) \/ Fault("write"))
          /\ registry' = RegisterModel([registry EXCEPT !.models = [n \in DOMAIN @ \ {name} |-> @[n]]], my[c].previous)
          /\ UNCHANGED <<active, reload>>
       \/ (~Current(c) \/ ~removable \/ name \in resident) /\ UNCHANGED <<active, reload, registry>>
    /\ UNCHANGED <<base, applied, loading>>
----------------------------------------------------------------------------
(* The process.                                                            *)

\* load_config_with_active, and what run_gateway does with the result.
Selected == IF active # None /\ Loads(active) THEN active ELSE base
Starts(t) == Loads(t) /\ Registry(t, office.stored).ok
ConfigBoot ==
    /\ gateway' = IF Starts(Selected) THEN "up" ELSE "dead"
    /\ registry' = IF Starts(Selected) THEN Registry(Selected, office.stored) ELSE Refused
    /\ applied' = Selected /\ reload' = FALSE /\ resident' = {}
    /\ loading' = (Starts(Selected) /\ Filled(Selected, "default_model"))
\* What swap_to may unload for a model that is not loaded: nothing for a CPU
\* sidecar; else the current conversation model when no VRAM budget is known,
\* and with a budget idle models that may be evicted.
InUse == {Ask(c).model : c \in {d \in Callers : pc[d] = "working"}}
Displaced(m) ==
    LET info == registry.models  idle == (resident \cap DOMAIN info) \ InUse IN
    IF m \notin DOMAIN info \ resident \/ (info[m].role # "conversation" /\ info[m].compute = "cpu") THEN {{}}
    ELSE {{n} : n \in {k \in idle : info[k].role = "conversation"}}
         \cup SUBSET {k \in idle : info[k].evictable /\ info[k].residency # "always"}
\* A load that fails may leave unloaded what was unloaded for it.
SwapTo(m) == m \in DOMAIN registry.models /\ \E out \in Displaced(m) : resident' = (resident \ out) \cup {m}
SwapFails(m) == \E out \in Displaced(m) : resident' = resident \ out
\* The default model has been loaded, or has failed to.
DefaultLoaded ==
    /\ loading /\ loading' = FALSE
    /\ LET m == applied.default_model IN
       \/ SwapTo(m)
       \/ (m \notin DOMAIN registry.models \/ Fault("load") \/ reload) /\ SwapFails(m)
    /\ UNCHANGED <<files, registry, applied, reload, my>>
----------------------------------------------------------------------------
(* Properties.                                                             *)

\* A document the gateway accepted starts the gateway unless a value does not
\* convert that only load_config converts: the validator refuses whatever else
\* load_config, register_model or set_alias would reject, and there is no
\* handler above run_gateway to catch it.  Such a value stops the gateway in
\* the base file only; for an active file with one the base file is taken.
AcceptedStarts == gateway = "up" \/ (Selected = base /\ ~Converts(base))

\* A restart changes nothing: while no reload is due and the registry stands
\* for the desired file, it is what loading that file gives, whatever was
\* refused, failed to be written or was rolled back on the way.
RestartChangesNothing ==
    Up /\ ~reload /\ applied = Desired => registry = Registry(Desired, office.stored)

\* A secret is never replaced by the placeholder clients see in its place,
\* nor by the secret of another field: what is stored was configured.
Given(s, k) ==
    LET texts == {office.base, office.active} \cup
                 {Ask(c).edit : c \in {d \in Callers : Ask(d).do \in {"base", "active"}}} IN
    {Val(Part(t, s), k, "") : t \in texts \ {None}}
SecretsKept ==
    \A t \in {base, active} \ {None} : \A field \in Secrets :
      Has(Part(t, field[1]), field[2]) => t[field[1]][field[2]] \in Given(field[1], field[2])

\* Saving one alias leaves the other aliases of the saved document alone.
Targets(t, except) == {<<a.name, a.target>> : a \in {Part(t, "model_aliases")[i] : i \in DOMAIN Part(t, "model_aliases")}}
                      \ {<<except, m>> : m \in DOMAIN registry.models}
AliasesKept == [][\A c \in Callers :
    pc[c] = "entered" /\ pc'[c] = "done" /\ Ask(c).do = "alias" => Targets(Desired', Ask(c).name) = Targets(Desired, Ask(c).name)]_<<shared, config>>
=============================================================================
