------------------------------ MODULE MCModels ------------------------------
(* The model layer for TLC: the components between an agent and its models  *)
(* share no state, so a behaviour is one of any one of them (part) while    *)
(* the others rest in an initial state.                                     *)
EXTENDS Budget, ResilientLlm, ModelRegistry, PlatformConfig, Voice

CONSTANT ModelParts

VARIABLE part

Chain == <<"gemini", "claude">>

MCProviderBodies == [enabled: {TRUE}, url: {0, 1}] \cup [enabled: {FALSE}, url: {0}]
MCModelBodies ==
    [provider: Providers, residency: {"eu", "us"}, enabled: {TRUE}, tools: {TRUE}]
        \cup [provider: Providers, residency: {"eu"}, enabled: {TRUE}, tools: {FALSE}]

Persona(provider, voice, prompt) ==
    [provider |-> provider, voice |-> voice, lang |-> None, rate |-> None, enabled |-> provider # "wavenet",
     prompt |-> prompt]
MCPersonas == {Persona("gemini", "aoede", "calm"), Persona("gemini", "aoede", "brisk"),
               Persona("browser", None, None), Persona("wavenet", None, None), Persona("eleven", None, None)}

ModelsInit ==
    /\ part \in ModelParts
    /\ Init /\ LlmInit
    /\ RegistryInit /\ (part # "registry" => policy = "eu-strict")
    /\ ConfigInit /\ (part # "config" => stored = None)
    /\ IF part = "history" THEN HistoryInit ELSE original = <<>> /\ contents = <<>>
    /\ VoiceInit /\ (part # "voice" => persona = None /\ audioBucket)

ModelsNext ==
    \/ part = "budget" /\ Next
       /\ UNCHANGED <<part, llmVars, historyVars, registryVars, configVars, voiceVars>>
    \/ part = "llm" /\ LlmNext
       /\ UNCHANGED <<part, vars, historyVars, registryVars, configVars, voiceVars>>
    \/ part = "history" /\ HistoryNext
       /\ UNCHANGED <<part, vars, llmVars, registryVars, configVars, voiceVars>>
    \/ part = "registry" /\ RegistryNext
       /\ UNCHANGED <<part, vars, llmVars, historyVars, configVars, voiceVars>>
    \/ part = "config" /\ ConfigNext
       /\ UNCHANGED <<part, vars, llmVars, historyVars, registryVars, voiceVars>>
    \/ part = "voice" /\ VoiceNext
       /\ UNCHANGED <<part, vars, llmVars, historyVars, registryVars, configVars>>

ModelsSpec ==
    /\ ModelsInit
    /\ [][ModelsNext]_<<part, vars, llmVars, historyVars, registryVars, configVars, voiceVars>>
-----------------------------------------------------------------------------
(* One model call, whatever fails underneath it: at most one attempt shows  *)
(* output, retries are bounded, it gives up only when no member of the      *)
(* chain could help, and the history it sends after a switch is valid for   *)
(* the new provider (AnsweredOnce, GaveUpForCause, RewrittenIsValid).       *)
ModelCallsSound == LlmTypeOK /\ AnsweredOnce /\ GaveUpForCause /\ RewrittenIsValid

(* No cache is believed beyond what it stands for: a model offered as ready *)
(* passed a probe of its present connection, a policy served was stored and *)
(* audio replayed is the text, voice and style asked for, and is not paid   *)
(* twice (ReadyIsTested, ServedWasStored, SpokenAsAsked, ReplayIsFree).     *)
CachesTruthful ==
    /\ RegistryTypeOK /\ ReadyIsTested
    /\ ConfigTypeOK /\ ServedWasStored
    /\ SpokenAsAsked /\ ReplayIsFree
=============================================================================
