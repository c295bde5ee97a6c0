------------------------------- MODULE Voice -------------------------------
(***************************************************************************)
(* Read-aloud.  A client asks which voice a skill speaks in and later asks *)
(* for a text to be spoken; the answer comes from an audio cache shared by *)
(* every process or from the speech provider, which is paid per call.  The *)
(* skill's voice is edited meanwhile.                                      *)
(*                                                                         *)
(* protocols/voice_routes.py, voice/cache.py, voice/registry.py,           *)
(* voice/cost.py, voice/providers/gcp_tts.py                               *)
(***************************************************************************)
EXTENDS Naturals, FiniteSets, Store

CONSTANTS
    Speakers,       \* clients, one request each at a time
    Texts,          \* what is read aloud
    Personas,       \* the voices a skill may be given
    EnvProvider,    \* VOICE_TTS_PROVIDER, or None
    MaxSpoken,      \* requests in a behaviour
    MaxVoiceEdits   \* edits of the skill's voice in a behaviour

ASSUME VoiceAssumption == {MaxSpoken, MaxVoiceEdits} \subseteq Nat

VARIABLES
    persona,        \* the skill's voice as stored, or None
    audioBucket,    \* VOICE_TTS_CACHE_BUCKET is set
    audioStore,     \* the bucket: [key, audio] objects, one per key
    kept,           \* requests whose audio has been written to the bucket
    told,           \* speaker -> [voice, lang] as /config answered, or None
    speech,         \* speaker -> [at, req, audio, known, cost], or None
    spokenCount, voiceEdits

voiceVars == <<persona, audioBucket, audioStore, kept, told, speech, spokenCount, voiceEdits>>

\* DEFAULT_VOICE.
PlatformVoice == [provider |-> "chirp3hd", voice |-> "aitana", lang |-> "es"]

Or(x, y) == IF x = None THEN y ELSE x

(***************************************************************************)
(* Resolution.                                                             *)
(***************************************************************************)

\* skill.persona.voice fills what it sets and the platform's voice the rest.
ResolveVoice(p) ==
    IF p = None
    THEN [provider |-> PlatformVoice.provider, voice |-> PlatformVoice.voice,
          lang |-> PlatformVoice.lang, rate |-> 1, enabled |-> TRUE, prompt |-> None]
    ELSE [provider |-> Or(p.provider, PlatformVoice.provider),
          voice |-> Or(p.voice, PlatformVoice.voice), lang |-> Or(p.lang, PlatformVoice.lang),
          rate |-> Or(p.rate, 1), enabled |-> p.enabled, prompt |-> p.prompt]

\* The provider's name: the override, else the environment, else the default tier.
ResolveName(override) == Or(override, Or(EnvProvider, "chirp3hd"))

\* browser and the supported gcp tiers exist; any other name raises ValueError.
Tiers == {"standard", "wavenet", "neural2", "chirp3hd", "gemini"}
BuildTts(name) == IF name \in Tiers \cup {"browser"} THEN name ELSE None
GetTts(override) == BuildTts(ResolveName(override))

(***************************************************************************)
(* The provider.                                                           *)
(***************************************************************************)

\* es and en become es-ES and en-US; full forms pass through.
NormalizeLang(lang) == IF lang = "es" THEN "es-ES" ELSE IF lang = "en" THEN "en-US" ELSE lang

\* A Cloud voice name begins with its language; a Gemini voice is a bare name.
DeriveLangFromVoice(voice) ==
    IF voice = "aitana" THEN "es-ES" ELSE IF voice = "emma" THEN "en-US" ELSE None

\* What the provider is asked to speak.  The voice's language wins over the
\* caller's; Gemini takes the style prompt and no rate, the others a rate and
\* no prompt.
SynthesisInput(req) ==
    IF req.provider = "gemini"
    THEN [tier |-> req.provider, lang |-> NormalizeLang(req.lang), voice |-> req.voice,
          rate |-> None, prompt |-> req.prompt, text |-> req.text]
    ELSE [tier |-> req.provider,
          lang |-> Or(DeriveLangFromVoice(req.voice), NormalizeLang(req.lang)), voice |-> req.voice,
          rate |-> req.rate, prompt |-> None, text |-> req.text]

\* USD per million characters.
TtsCost(provider) ==
    IF provider \in {"standard", "wavenet"} THEN 4
    ELSE IF provider = "neural2" THEN 16
    ELSE IF provider \in {"chirp3hd", "gemini"} THEN 30 ELSE 0

(***************************************************************************)
(* The cache.                                                              *)
(***************************************************************************)

(* Faulty variant of CacheKey: the style prompt is left out of the key.     *)
CacheKeyNoPrompt(req) ==
    [provider |-> req.provider, voice |-> <<req.voice, None>>, lang |-> req.lang,
     rate |-> req.rate, text |-> req.text]

\* The style prompt is folded, hashed, into the key's voice.
CacheKey(req) ==
    [provider |-> req.provider, voice |-> <<req.voice, req.prompt>>, lang |-> req.lang,
     rate |-> req.rate, text |-> req.text]

StoredAt(key) == {o \in audioStore : o.key = key}

\* A write replaces the object of the key.
WriteSync(req, audio) ==
    (audioStore \ StoredAt(CacheKey(req))) \cup {[key |-> CacheKey(req), audio |-> audio]}

(***************************************************************************)
(* The routes.                                                             *)
(***************************************************************************)

VoiceInit ==
    /\ persona \in Personas \cup {None}
    /\ audioBucket \in BOOLEAN
    /\ audioStore = {} /\ kept = {}
    /\ told = [s \in Speakers |-> None]
    /\ speech = [s \in Speakers |-> None]
    /\ spokenCount = 0 /\ voiceEdits = 0

Silent(s) ==
    IF speech[s] = None THEN TRUE ELSE speech[s].at \in {"answered", "refused", "failed", "browser"}

\* GET /config: the resolved voice; an unknown provider is an unhandled error.
GetConfig(s) ==
    /\ Silent(s)
    /\ LET rv == ResolveVoice(persona)
       IN /\ GetTts(rv.provider) # None
          /\ told' = [told EXCEPT ![s] = [voice |-> rv.voice, lang |-> rv.lang]]
    /\ UNCHANGED <<persona, audioBucket, audioStore, kept, speech, spokenCount, voiceEdits>>

\* What the provider and the cache are asked for: the caller's voice and
\* language when it sends them, the rest from the skill as it is now.
SpokenRequest(s, text, sends) ==
    LET rv == ResolveVoice(persona)
        body == IF sends /\ told[s] # None THEN told[s] ELSE [voice |-> None, lang |-> None]
    IN [text |-> text, provider |-> GetTts(rv.provider), voice |-> Or(body.voice, rv.voice),
        lang |-> Or(body.lang, rv.lang), rate |-> rv.rate, prompt |-> rv.prompt]

\* POST /tts/synthesize: a disabled voice is 403, an unknown provider an
\* unhandled error, and browser tells the client to speak itself.
Synthesize(s, text, sends) ==
    /\ Silent(s) /\ spokenCount < MaxSpoken
    /\ spokenCount' = spokenCount + 1
    /\ LET rv == ResolveVoice(persona)
           req == SpokenRequest(s, text, sends)
           at == IF ~rv.enabled THEN "refused"
                 ELSE IF req.provider = None THEN "failed"
                 ELSE IF req.provider = "browser" THEN "browser"
                 ELSE IF audioBucket THEN "lookup" ELSE "calling"
       IN speech' = [speech EXCEPT ![s] =
                        [at |-> at, req |-> req, audio |-> None, cost |-> 0,
                         known |-> req \in kept]]
    /\ UNCHANGED <<persona, audioBucket, audioStore, kept, told, voiceEdits>>

\* A hit is answered at no cost; NotFound is a miss; any other error is the caller's.
LookupSync(s) ==
    /\ speech[s] # None /\ speech[s].at = "lookup"
    /\ \/ /\ StoredAt(CacheKey(speech[s].req)) # {}
          /\ \E o \in StoredAt(CacheKey(speech[s].req)) :
                speech' = [speech EXCEPT ![s].at = "answered", ![s].audio = o.audio]
       \/ /\ StoredAt(CacheKey(speech[s].req)) = {}
          /\ speech' = [speech EXCEPT ![s].at = "calling"]
       \/ speech' = [speech EXCEPT ![s].at = "failed"]
    /\ UNCHANGED <<persona, audioBucket, audioStore, kept, told, spokenCount, voiceEdits>>

\* The provider speaks, or fails (503).
ProviderSynthesizes(s) ==
    /\ speech[s] # None /\ speech[s].at = "calling"
    /\ \/ speech' = [speech EXCEPT ![s].at = IF audioBucket THEN "writing" ELSE "answered",
                                   ![s].audio = SynthesisInput(speech[s].req),
                                   ![s].cost = TtsCost(speech[s].req.provider)]
       \/ speech' = [speech EXCEPT ![s].at = "failed"]
    /\ UNCHANGED <<persona, audioBucket, audioStore, kept, told, spokenCount, voiceEdits>>

\* Best effort: a failed write changes nothing the caller sees.
CacheWrite(s) ==
    /\ speech[s] # None /\ speech[s].at = "writing"
    /\ speech' = [speech EXCEPT ![s].at = "answered"]
    /\ \/ /\ audioStore' = WriteSync(speech[s].req, speech[s].audio)
          /\ kept' = kept \cup {speech[s].req}
       \/ UNCHANGED <<audioStore, kept>>
    /\ UNCHANGED <<persona, audioBucket, told, spokenCount, voiceEdits>>

\* The skill's owner gives it another voice, or none.
EditPersona(p) ==
    /\ voiceEdits < MaxVoiceEdits /\ p # persona
    /\ voiceEdits' = voiceEdits + 1
    /\ persona' = p
    /\ UNCHANGED <<audioBucket, audioStore, kept, told, speech, spokenCount>>

VoiceNext ==
    \/ \E s \in Speakers :
          \/ GetConfig(s) \/ LookupSync(s) \/ ProviderSynthesizes(s) \/ CacheWrite(s)
          \/ \E text \in Texts, sends \in BOOLEAN : Synthesize(s, text, sends)
    \/ \E p \in Personas \cup {None} : EditPersona(p)

VoiceSpec == VoiceInit /\ [][VoiceNext]_voiceVars

(***************************************************************************)
(* Properties.                                                             *)
(***************************************************************************)

\* Whatever was edited or cached before, the audio answered is the one the
\* provider would speak for this request ("Any change to any input
\* invalidates the cache").
SpokenAsAsked ==
    \A s \in Speakers :
        (speech[s] # None /\ speech[s].at = "answered") =>
            speech[s].audio = SynthesisInput(speech[s].req)

\* "a message read aloud twice (user replays it later) costs zero provider
\* dollars on the second listen": what was stored before the request began
\* is never paid for again.
ReplayIsFree ==
    \A s \in Speakers :
        (speech[s] # None /\ speech[s].known) => speech[s].cost = 0
=============================================================================
