---------------------------- MODULE ModelRegistry ----------------------------
(***************************************************************************)
(* The persisted model registry and the agent builds that read it          *)
(* (backend/config: models.py, effective_models.py, runtime_models.py,     *)
(* model_provider_registry.py, model_readiness.py; backend/admin:          *)
(* model_providers_routes.py, model_probe_routes.py,                       *)
(* model_registry_settings_routes.py; resolve_model_chain of               *)
(* backend/adk/agent.py).                                                  *)
(*                                                                         *)
(* The admin routes are plain functions that run on worker threads, so a   *)
(* route that reads, decides and writes is two steps, and an agent build   *)
(* that reads the registry several times is several. Each document is      *)
(* written atomically. A worker of the model is one such activity.         *)
(***************************************************************************)
EXTENDS Integers, FiniteSets, Store

CONSTANTS
    Providers,      \* ids of persisted providers
    DynModels,      \* ids of persisted (dynamic) models
    Keyless,        \* providers whose apiKeyRef does not resolve
    ProviderBodies, \* request bodies of upsert_provider: [enabled, url]
    ModelBodies,    \* request bodies of upsert_dynamic_model
    Workers,        \* concurrent requests
    MaxEdits        \* bound: requests begun


VARIABLES
    policy,     \* MODEL_RESIDENCY_POLICY
    providers,  \* model_providers
    models,     \* model_registry
    checks,     \* model_readiness: per model and mode, the recorded probe
    settings,   \* model_registry_settings/default
    root,       \* the Root Agent's model in platform_config/singleton
    rootSeen,   \* the same in the configuration cache of a route's process
    work,       \* what a worker is in the middle of
    edits,      \* requests begun
    passed      \* history: configurations that passed a live probe, by mode

registryVars == <<policy, providers, models, checks, settings, root, rootSeen,
                  work, edits, passed>>

Modes == {"completion", "tool_call"}
ProviderDocs == [enabled : BOOLEAN, url : 0..1]
ModelDocs == [provider : Providers, residency : {"eu", "us"}, enabled : BOOLEAN, tools : BOOLEAN]
Idle == [op |-> "idle"]

ASSUME RegistryAssumption ==
    /\ Keyless \subseteq Providers
    /\ ProviderBodies \subseteq ProviderDocs /\ ModelBodies \subseteq ModelDocs
    /\ MaxEdits \in Nat
-----------------------------------------------------------------------------
(* The YAML baseline: an EU entry, and a US one that falls back to it. The  *)
(* tier "smart" has a variant for eu-strict.                                *)
YamlIds == {"gemini-eu", "claude-us"}
YamlResidency(id) == IF id = "gemini-eu" THEN "eu" ELSE "us"
YamlVariant == IF policy = "eu-strict" THEN "gemini-eu" ELSE "claude-us"

(* get_provider and _dynamic_entry: a dynamic model counts while it and its *)
(* provider are enabled.                                                    *)
ProviderLive(p) == providers[p] # None /\ providers[p].enabled
DynamicEntry(m) == models[m] # None /\ models[m].enabled /\ ProviderLive(models[m].provider)

(* load_effective_models_config.                                            *)
Available == YamlIds \cup {m \in DynModels : DynamicEntry(m)}

(* _apply_registry_settings: a persisted mapping replaces every variant of  *)
(* the tier, and a dangling one is ignored.                                 *)
TierTarget == IF settings # None /\ settings.smart \in Available
              THEN settings.smart ELSE YamlVariant

(* resolve_api_key_ref: ${ENV_VAR} names a variable that is set.            *)
HasKey(p) == p \notin Keyless

(* entry_for: a tier resolves to its target, an id to itself.               *)
EntryFor(ref) == LET id == IF ref = "smart" THEN TierTarget ELSE ref
                 IN  IF id \in Available THEN id ELSE None
Residency(id) == IF id \in YamlIds THEN YamlResidency(id) ELSE models[id].residency
ResidencyOf(ref) == LET id == EntryFor(ref) IN IF id = None THEN "us" ELSE Residency(id)
-----------------------------------------------------------------------------
(* probe_fingerprint: the provider's and the model's own fields, without    *)
(* residency.                                                               *)
Fingerprint(model, provider) ==
    [provider |-> provider, model |-> [provider |-> model.provider,
                                       enabled |-> model.enabled, tools |-> model.tools]]

(* model_readiness: both modes passed, within a day, on this fingerprint.   *)
Ready(m) ==
    /\ DynamicEntry(m)
    /\ models[m].tools
    /\ \A mode \in Modes :
          LET check == checks[m][mode]
          IN  check # None /\ check.ok /\ check.fresh
              /\ check.print = Fingerprint(models[m], providers[models[m].provider])

Recorded == [ok : BOOLEAN, fresh : BOOLEAN,
             print : [provider : ProviderDocs,
                      model : [provider : Providers, enabled : BOOLEAN, tools : BOOLEAN]]]
-----------------------------------------------------------------------------
RegistryInit ==
    /\ policy \in {"eu-strict", "unrestricted"}
    /\ providers = [p \in Providers |-> None]
    /\ models = [m \in DynModels |-> None]
    /\ checks = [m \in DynModels |-> [mode \in Modes |-> None]]
    /\ settings = None
    /\ root = "smart" /\ rootSeen = "smart"
    /\ work = [w \in Workers |-> Idle]
    /\ edits = 0
    /\ passed = [mode \in Modes |-> {}]

docVars == <<providers, models, checks, settings>>
rootVars == <<root, rootSeen>>

Begin(w, record) ==
    /\ work[w] = Idle
    /\ edits < MaxEdits
    /\ edits' = edits + 1
    /\ work' = [work EXCEPT ![w] = record]
End(w) == work' = [work EXCEPT ![w] = Idle]

(* upsert_provider: nothing is decided on what was there before.            *)
UpsertProvider(w, p, doc) ==
    /\ work[w] = Idle /\ edits < MaxEdits
    /\ edits' = edits + 1
    /\ providers' = [providers EXCEPT ![p] = doc]
    /\ UNCHANGED <<policy, models, checks, settings, rootVars, work, passed>>

(* delete_provider: refused while a model names it, then deleted.           *)
DeleteProvider(w, p) ==
    /\ providers[p] # None
    /\ \A m \in DynModels : models[m] # None => models[m].provider # p
    /\ Begin(w, [op |-> "delete provider", id |-> p])
    /\ UNCHANGED <<policy, docVars, rootVars, passed>>

(* upsert_dynamic_model: its provider must exist, then it is written.       *)
UpsertModel(w, m, doc) ==
    /\ providers[doc.provider] # None
    /\ Begin(w, [op |-> "upsert model", id |-> m, doc |-> doc])
    /\ UNCHANGED <<policy, docVars, rootVars, passed>>

(* delete_dynamic_model: refused while the Root Agent or the settings name  *)
(* it; then the model and its readiness go, one after the other.            *)
DeleteModel(w, m) ==
    /\ models[m] # None
    /\ rootSeen # m
    /\ settings # None => m \notin {settings.platformDefault, settings.smart}
    /\ Begin(w, [op |-> "delete model", id |-> m])
    /\ UNCHANGED <<policy, docVars, rootVars, passed>>

(* update_model_registry_settings: every id must be available.              *)
UpdateSettings(w, default, smart) ==
    /\ {default, smart} \subseteq Available
    /\ Begin(w, [op |-> "settings", doc |-> [platformDefault |-> default, smart |-> smart]])
    /\ UNCHANGED <<policy, docVars, rootVars, passed>>

(* The write that ends each of these requests.                              *)
CommitDocument(w) ==
    /\ \/ /\ work[w].op = "delete provider"
          /\ providers' = [providers EXCEPT ![work[w].id] = None]
          /\ End(w)
          /\ UNCHANGED <<models, checks, settings>>
       \/ /\ work[w].op = "upsert model"
          /\ models' = [models EXCEPT ![work[w].id] = work[w].doc]
          /\ End(w)
          /\ UNCHANGED <<providers, checks, settings>>
       \/ /\ work[w].op = "delete model"
          /\ models' = [models EXCEPT ![work[w].id] = None]
          /\ work' = [work EXCEPT ![w] = [op |-> "delete readiness", id |-> work[w].id]]
          /\ UNCHANGED <<providers, checks, settings>>
       \/ /\ work[w].op = "delete readiness"
          /\ checks' = [checks EXCEPT ![work[w].id] = [mode \in Modes |-> None]]
          /\ End(w)
          /\ UNCHANGED <<providers, models, settings>>
       \/ /\ work[w].op = "settings"
          /\ settings' = work[w].doc
          /\ End(w)
          /\ UNCHANGED <<providers, models, checks>>
    /\ UNCHANGED <<policy, rootVars, edits, passed>>
-----------------------------------------------------------------------------
(* test_dynamic_model: the documents and their fingerprint are read before  *)
(* the probe is awaited.                                                    *)
TestModel(w, m, mode) ==
    /\ models[m] # None
    /\ providers[models[m].provider] # None
    /\ Begin(w, [op |-> "probe", id |-> m, mode |-> mode,
                 print |-> Fingerprint(models[m], providers[models[m].provider])])
    /\ UNCHANGED <<policy, docVars, rootVars, passed>>

(* _probe: what is disabled, cannot call tools or has no key never passes;  *)
(* the provider decides the rest.                                           *)
CanPass(print, mode) ==
    /\ print.provider.enabled /\ print.model.enabled
    /\ mode = "tool_call" => print.model.tools
    /\ HasKey(print.model.provider)

(* Faulty variant of ProbeEnds: the fingerprint is taken after the await.   *)
ProbeEndsLate(w, ok) ==
    /\ work[w].op = "probe"
    /\ ok => CanPass(work[w].print, work[w].mode)
    /\ LET m == work[w].id
           late == IF models[m] # None /\ providers[models[m].provider] # None
                   THEN Fingerprint(models[m], providers[models[m].provider]) ELSE work[w].print
       IN  checks' = [checks EXCEPT ![m][work[w].mode] = [ok |-> ok, fresh |-> TRUE, print |-> late]]
    /\ passed' = IF ok THEN [passed EXCEPT ![work[w].mode] = @ \cup {work[w].print}] ELSE passed
    /\ End(w)
    /\ UNCHANGED <<policy, providers, models, settings, rootVars, edits>>

(* record_probe: merged into the model's readiness document.                *)
ProbeEnds(w, ok) ==
    /\ work[w].op = "probe"
    /\ ok => CanPass(work[w].print, work[w].mode)
    /\ checks' = [checks EXCEPT ![work[w].id][work[w].mode] =
                    [ok |-> ok, fresh |-> TRUE, print |-> work[w].print]]
    /\ passed' = IF ok THEN [passed EXCEPT ![work[w].mode] = @ \cup {work[w].print}] ELSE passed
    /\ End(w)
    /\ UNCHANGED <<policy, providers, models, settings, rootVars, edits>>

(* MAX_PROBE_AGE_SECONDS pass.                                              *)
ProbeAges(m) ==
    /\ \E mode \in Modes : checks[m][mode] # None /\ checks[m][mode].fresh
    /\ checks' = [checks EXCEPT ![m] = [mode \in Modes |->
                    IF checks[m][mode] = None THEN None ELSE [checks[m][mode] EXCEPT !.fresh = FALSE]]]
    /\ UNCHANGED <<policy, providers, models, settings, rootVars, work, edits, passed>>
-----------------------------------------------------------------------------
(* use_root_model: an EU model under eu-strict, and a ready one. The write  *)
(* refreshes the cache of its own process, not of another one.              *)
UseRootModel(w, m) ==
    /\ Ready(m)
    /\ policy = "eu-strict" => models[m].residency = "eu"
    /\ Begin(w, [op |-> "root", id |-> m])
    /\ UNCHANGED <<policy, docVars, rootVars, passed>>

RootWritten(w) ==
    /\ work[w].op = "root"
    /\ root' = work[w].id
    /\ rootSeen' \in {rootSeen, work[w].id}
    /\ End(w)
    /\ UNCHANGED <<policy, docVars, edits, passed>>

(* The other process's cache expires and is read again.                     *)
RootRefreshed ==
    /\ rootSeen # root
    /\ rootSeen' = root
    /\ UNCHANGED <<policy, docVars, root, work, edits, passed>>
-----------------------------------------------------------------------------
(* resolve_model_chain. It asks for the residency of the reference, and     *)
(* refuses; then resolve_model reads the registry again to construct it.    *)
BuildGate(w, ref, link) ==
    /\ policy = "eu-strict" => ResidencyOf(ref) = "eu"
    /\ Begin(w, [op |-> "build", ref |-> ref, link |-> link, from |-> ResidencyOf(ref)])
    /\ UNCHANGED <<policy, docVars, rootVars, passed>>

(* resolve_model: an unknown name is unsupported, and the runtime settings  *)
(* of a dynamic provider raise without its key.                             *)
Resolves(ref) ==
    LET id == EntryFor(ref)
    IN  id # None /\ (id \in DynModels => HasKey(models[id].provider))

(* provider_key_missing, asked of a fallback before it is constructed.      *)
ProviderKeyMissing(ref) ==
    LET id == EntryFor(ref)
    IN  id \in DynModels /\ ~HasKey(models[id].provider)

BuildPrimary(w) ==
    /\ work[w].op = "build"
    /\ work' = [work EXCEPT ![w] =
                    IF ~Resolves(work[w].ref) THEN Idle
                    ELSE [op |-> "link", link |-> work[w].link, from |-> work[w].from,
                          chain |-> {ResidencyOf(work[w].ref)}]]
    /\ UNCHANGED <<policy, docVars, rootVars, edits, passed>>

(* One fallback candidate: dropped when it leaves the EU under eu-strict,   *)
(* when it widens egress without the skill's consent (never given here), or *)
(* when its key is not mounted.                                             *)
BuildLink(w) ==
    /\ work[w].op = "link"
    /\ LET r == ResidencyOf(work[w].link)
           keep == /\ policy = "eu-strict" => r = "eu"
                   /\ work[w].from = "eu" => r = "eu"
                   /\ ~ProviderKeyMissing(work[w].link)
       IN  work' = [work EXCEPT ![w] =
                        IF keep /\ ~Resolves(work[w].link) THEN Idle
                        ELSE [op |-> "built", from |-> work[w].from,
                              chain |-> work[w].chain \cup (IF keep THEN {r} ELSE {})]]
    /\ UNCHANGED <<policy, docVars, rootVars, edits, passed>>

BuildDone(w) ==
    /\ work[w].op = "built"
    /\ End(w)
    /\ UNCHANGED <<policy, docVars, rootVars, edits, passed>>

References == {"smart"} \cup YamlIds \cup DynModels

RegistryNext ==
    \/ \E w \in Workers :
          \/ \E p \in Providers, doc \in ProviderBodies : UpsertProvider(w, p, doc)
          \/ \E p \in Providers : DeleteProvider(w, p)
          \/ \E m \in DynModels, doc \in ModelBodies : UpsertModel(w, m, doc)
          \/ \E m \in DynModels : DeleteModel(w, m) \/ UseRootModel(w, m)
          \/ \E d \in YamlIds \cup DynModels, s \in YamlIds \cup DynModels : UpdateSettings(w, d, s)
          \/ CommitDocument(w)
          \/ \E m \in DynModels, mode \in Modes : TestModel(w, m, mode)
          \/ \E ok \in BOOLEAN : ProbeEnds(w, ok)
          \/ RootWritten(w)
          \/ \E ref \in References, link \in YamlIds \cup DynModels : BuildGate(w, ref, link)
          \/ BuildPrimary(w) \/ BuildLink(w) \/ BuildDone(w)
    \/ \E m \in DynModels : ProbeAges(m)
    \/ RootRefreshed

RegistrySpec == RegistryInit /\ [][RegistryNext]_registryVars
-----------------------------------------------------------------------------
(* Type invariant.                                                          *)
RegistryTypeOK ==
    /\ \A p \in Providers : providers[p] \in ProviderDocs \cup {None}
    /\ \A m \in DynModels : models[m] \in ModelDocs \cup {None}
    /\ \A m \in DynModels, mode \in Modes : checks[m][mode] \in Recorded \cup {None}
    /\ {root, rootSeen} \subseteq {"smart"} \cup DynModels

(* A model the registry calls ready has passed a live probe in both modes   *)
(* in exactly the configuration that is stored now, whatever was edited     *)
(* while a probe was under way.                                             *)
ReadyIsTested ==
    \A m \in DynModels : Ready(m) =>
        \A mode \in Modes : Fingerprint(models[m], providers[models[m].provider]) \in passed[mode]
=============================================================================
