---------------------------- MODULE ResilientLlm ----------------------------
(***************************************************************************)
(* Model calls with retries and fallbacks, over provider health that all   *)
(* calls of a process share:                                               *)
(*   - backend/adk/resilient_llm.py, ResilientLlm.generate_content_async,  *)
(*     the streaming call of an agent's turn ("agent" calls);              *)
(*   - backend/tools/resilient_genai.py, generate_content_resilient, the   *)
(*     one-shot call a tool makes ("tool" calls: no health, no stream);    *)
(*   - sanitize_cross_provider_tool_history, which every attempt of a call *)
(*     runs on the request before it goes to another provider;             *)
(*   - backend/adk/model_errors.py, classify, which both ask what to do.   *)
(*                                                                         *)
(* A call runs on the event loop: between two awaits it is one step, so    *)
(* giving up on a member and walking past benched ones is one step, while  *)
(* other calls run during a request, a streamed response or a backoff.     *)
(***************************************************************************)
EXTENDS Integers, Sequences, FiniteSets

CONSTANTS
    AgentCalls,     \* model calls through ResilientLlm
    ToolCalls,      \* model calls through generate_content_resilient
    ChainProviders, \* the provider of each member of the agents' chain
    RungCount,      \* length of the tools' Gemini chain
    MaxRetries,     \* max_retries_per_model
    Threshold,      \* COOLDOWN_THRESHOLD
    ToolNames,      \* names of tools
    MaxNative,      \* provider-made identifiers are 1..MaxNative
    MaxParts        \* bound: parts of a history

ASSUME LlmAssumption ==
    /\ AgentCalls \cap ToolCalls = {}
    /\ Len(ChainProviders) \in Nat \ {0} /\ RungCount \in Nat \ {0}
    /\ MaxRetries \in Nat /\ Threshold \in Nat \ {0}
    /\ MaxNative \in Nat /\ MaxParts \in Nat

VARIABLES
    stage,      \* where a call is: new, calling, backoff, done, failed, gone
    member,     \* the position in the chain it is at
    attempt,    \* retries made on that member
    visible,    \* the current attempt has passed visible output on
    failures,   \* _provider_health: consecutive failures of a provider
    benched,    \* _provider_health: now is before benched_until
    answers,    \* history: the attempts of a call that showed output
    raised,     \* history: the class the call gave up with
    notices,    \* history: the member the last MODEL_FALLBACK led to
    original,   \* history: the request before the first attempt
    contents    \* llm_request.contents

llmVars == <<stage, member, attempt, visible, failures, benched, answers, raised, notices>>
historyVars == <<original, contents>>

LlmCalls == AgentCalls \cup ToolCalls
LlmProviders == {ChainProviders[i] : i \in 1..Len(ChainProviders)}
Length(c) == IF c \in AgentCalls THEN Len(ChainProviders) ELSE RungCount
NoClass == [transient |-> FALSE, fallbackable |-> FALSE, code |-> "none"]
-----------------------------------------------------------------------------
(* What an exception of a provider's library amounts to: its HTTP status,   *)
(* with the 4xx whose text speaks of a usage cap told apart, "server" for   *)
(* 5xx, timeouts and connection errors, "opaque" for a foreign type.        *)
Kinds == {"429", "401", "4xx", "4xx cap", "server", "opaque"}

(* An exception is its __cause__ chain, outermost first.                    *)
Exceptions == [1..1 -> Kinds] \cup [1..2 -> Kinds]

(* _classify_status.                                                        *)
ClassifyStatus(kind) ==
    CASE kind = "429"     -> [transient |-> TRUE, fallbackable |-> TRUE, code |-> "RATE_LIMITED"]
      [] kind = "401"     -> [transient |-> FALSE, fallbackable |-> TRUE, code |-> "AUTH_FAILED"]
      [] kind = "4xx cap" -> [transient |-> FALSE, fallbackable |-> TRUE, code |-> "UNAVAILABLE"]
      [] kind = "4xx"     -> [transient |-> FALSE, fallbackable |-> FALSE, code |-> "REQUEST_INVALID"]
      [] kind = "server"  -> [transient |-> TRUE, fallbackable |-> TRUE, code |-> "UNAVAILABLE"]

(* classify: the first cause a library is known to raise decides; nothing   *)
(* known is worth the next member but no retry.                             *)
Classify(exc) ==
    LET known == {i \in DOMAIN exc : exc[i] # "opaque"}
    IN  IF known = {}
        THEN [transient |-> FALSE, fallbackable |-> TRUE, code |-> "UNAVAILABLE"]
        ELSE ClassifyStatus(exc[CHOOSE i \in known : \A j \in known : i <= j])
-----------------------------------------------------------------------------
LlmInit ==
    /\ stage = [c \in LlmCalls |-> "new"]
    /\ member = [c \in LlmCalls |-> 1]
    /\ attempt = [c \in LlmCalls |-> 0]
    /\ visible = [c \in LlmCalls |-> FALSE]
    /\ failures = [p \in LlmProviders |-> 0]
    /\ benched = [p \in LlmProviders |-> FALSE]
    /\ answers = [c \in LlmCalls |-> {}]
    /\ raised = [c \in LlmCalls |-> NoClass]
    /\ notices = [c \in LlmCalls |-> 1]

ProviderOf(c) == ChainProviders[member[c]]

(* _record_failure and _record_success; tools keep no health.               *)
RecordFailure(c) ==
    IF c \in ToolCalls THEN UNCHANGED <<failures, benched>>
    ELSE LET p == ProviderOf(c)
         IN  /\ failures' = [failures EXCEPT ![p] = @ + 1]
             /\ benched' = [benched EXCEPT ![p] = @ \/ failures[p] + 1 >= Threshold]

RecordSuccess(c) ==
    IF c \in ToolCalls THEN UNCHANGED <<failures, benched>>
    ELSE LET p == ProviderOf(c)
         IN  /\ failures' = [failures EXCEPT ![p] = 0]
             /\ benched' = [benched EXCEPT ![p] = FALSE]

(* Faulty variant of Landing: the last member is skipped like any other.    *)
LandingPastLast(c, from, bench) ==
    IF c \in ToolCalls THEN from
    ELSE LET open == {i \in from..Length(c) : ~bench[ChainProviders[i]]}
         IN  IF open = {} THEN Length(c) + 1 ELSE CHOOSE i \in open : \A j \in open : i <= j

(* Where the walk down the chain stops: benched members are skipped, but    *)
(* never the last one.                                                      *)
Landing(c, from, bench) ==
    IF c \in ToolCalls THEN from
    ELSE LET open == {i \in from..Length(c) : i = Length(c) \/ ~bench[ChainProviders[i]]}
         IN  CHOOSE i \in open : \A j \in open : i <= j

(* Start calling the member the walk from a position leads to, or give up   *)
(* past the end of the chain. Every member passed over is announced.        *)
CallFrom(c, from, bench, lastClass) ==
    LET i == Landing(c, from, bench)
    IN  /\ notices' = [notices EXCEPT ![c] = i]
        /\ attempt' = [attempt EXCEPT ![c] = 0]
        /\ visible' = [visible EXCEPT ![c] = FALSE]
        /\ IF i <= Length(c)
           THEN /\ member' = [member EXCEPT ![c] = i]
                /\ stage' = [stage EXCEPT ![c] = "calling"]
                /\ UNCHANGED raised
           ELSE /\ stage' = [stage EXCEPT ![c] = "failed"]
                /\ raised' = [raised EXCEPT ![c] = lastClass]
                /\ UNCHANGED member

(* The call enters the loop over the chain.                                 *)
StartCall(c) ==
    /\ stage[c] = "new"
    /\ CallFrom(c, 1, benched, NoClass)
    /\ UNCHANGED <<failures, benched, answers>>

(* A streamed response passes through; _has_visible_output tells answers    *)
(* from thoughts.                                                           *)
PassResponse(c, hasVisible) ==
    /\ c \in AgentCalls /\ stage[c] = "calling"
    /\ visible' = [visible EXCEPT ![c] = @ \/ hasVisible]
    /\ answers' = IF hasVisible
                  THEN [answers EXCEPT ![c] = @ \cup {<<member[c], attempt[c]>>}] ELSE answers
    /\ UNCHANGED <<stage, member, attempt, failures, benched, raised, notices>>

CallSucceeds(c) ==
    /\ stage[c] = "calling"
    /\ RecordSuccess(c)
    /\ stage' = [stage EXCEPT ![c] = "done"]
    /\ answers' = IF c \in ToolCalls
                  THEN [answers EXCEPT ![c] = {<<member[c], attempt[c]>>}] ELSE answers
    /\ UNCHANGED <<member, attempt, visible, raised, notices>>

GiveUp(c, class) ==
    /\ stage' = [stage EXCEPT ![c] = "failed"]
    /\ raised' = [raised EXCEPT ![c] = class]
    /\ UNCHANGED <<member, attempt, visible, notices>>

Retry(c) ==
    /\ stage' = [stage EXCEPT ![c] = "backoff"]
    /\ attempt' = [attempt EXCEPT ![c] = @ + 1]
    /\ visible' = [visible EXCEPT ![c] = FALSE]
    /\ UNCHANGED <<member, raised, notices, failures, benched>>

(* Faulty variant of OnError: visible output does not stop the retries.     *)
OnErrorForgetsOutput(c, class) ==
    IF class.transient /\ attempt[c] < MaxRetries THEN Retry(c)
    ELSE IF class.fallbackable /\ member[c] < Length(c)
    THEN RecordFailure(c) /\ CallFrom(c, member[c] + 1, benched', class)
    ELSE RecordFailure(c) /\ GiveUp(c, class)

(* The except clause: fail typed once output was seen, else retry, else     *)
(* fall back, else raise.                                                   *)
OnError(c, class) ==
    IF visible[c] THEN RecordFailure(c) /\ GiveUp(c, class)
    ELSE IF class.transient /\ attempt[c] < MaxRetries THEN Retry(c)
    ELSE IF class.fallbackable /\ member[c] < Length(c)
    THEN RecordFailure(c) /\ CallFrom(c, member[c] + 1, benched', class)
    ELSE /\ IF class.fallbackable THEN RecordFailure(c)
            ELSE UNCHANGED <<failures, benched>>
         /\ GiveUp(c, class)

CallRaises(c, exc) ==
    /\ stage[c] = "calling"
    /\ OnError(c, Classify(exc))
    /\ UNCHANGED answers

(* _async_sleep ends: the next attempt on the same member.                  *)
BackoffEnds(c) ==
    /\ stage[c] = "backoff"
    /\ stage' = [stage EXCEPT ![c] = "calling"]
    /\ UNCHANGED <<member, attempt, visible, failures, benched, answers, raised, notices>>

(* The turn is cancelled or its generator closed: not an Exception, so      *)
(* nothing is recorded.                                                     *)
CallCancelled(c) ==
    /\ stage[c] \in {"calling", "backoff"}
    /\ stage' = [stage EXCEPT ![c] = "gone"]
    /\ UNCHANGED <<member, attempt, visible, failures, benched, answers, raised, notices>>

(* benched_until passes: the provider may be tried again, its count stays.  *)
CooldownEnds(p) ==
    /\ benched[p]
    /\ benched' = [benched EXCEPT ![p] = FALSE]
    /\ UNCHANGED <<stage, member, attempt, visible, failures, answers, raised, notices>>

LlmNext ==
    \/ \E c \in LlmCalls :
        \/ StartCall(c) \/ CallSucceeds(c) \/ BackoffEnds(c) \/ CallCancelled(c)
        \/ \E v \in BOOLEAN : PassResponse(c, v)
        \/ \E exc \in Exceptions : CallRaises(c, exc)
    \/ \E p \in LlmProviders : CooldownEnds(p)

LlmSpec == LlmInit /\ [][LlmNext]_llmVars
-----------------------------------------------------------------------------
(* Tool histories. A part is a tool call, a tool response or something      *)
(* else; grouping into contents does not matter, since calls and responses  *)
(* are matched in the order of the whole history. Identifiers are numbers:  *)
(* 0 is a missing one (Gemini), 1..MaxNative come from a provider, and the  *)
(* sanitizer makes up MaxNative + 1 + n for "call_n".                       *)
Parts == [kind : {"call", "response"}, name : ToolNames, id : 0..MaxNative]
            \cup {[kind |-> "text", name |-> "none", id |-> 0]}

CallsOf(h) == {i \in DOMAIN h : h[i].kind = "call"}
ResponsesOf(h) == {i \in DOMAIN h : h[i].kind = "response"}

(* Histories as the session has them: a provider does not reuse an          *)
(* identifier of its own for two calls.                                     *)
Histories == {h \in UNION {[1..n -> Parts] : n \in 0..MaxParts} :
    \A i, j \in CallsOf(h) : (h[i].id = h[j].id /\ h[i].id # 0) => i = j}
-----------------------------------------------------------------------------
FullyIdentified(h) == \A i \in CallsOf(h) \cup ResponsesOf(h) : h[i].id # 0

Made(counter) == MaxNative + 1 + counter

(* One part: a call gets an identifier if it has none and waits for its     *)
(* response; a response takes the oldest waiting call of its name; one that *)
(* answers nothing is dropped.                                              *)
SanitizePart(s, part) ==
    CASE part.kind = "call" ->
            LET id == IF part.id = 0 THEN Made(s.counter) ELSE part.id
            IN  [kept |-> Append(s.kept, [part EXCEPT !.id = id]), counter |-> s.counter + 1,
                 pending |-> [s.pending EXCEPT ![part.name] = Append(@, id)]]
      [] part.kind = "response" /\ s.pending[part.name] # <<>> ->
            [kept |-> Append(s.kept, [part EXCEPT !.id = Head(s.pending[part.name])]), counter |-> s.counter,
             pending |-> [s.pending EXCEPT ![part.name] = Tail(@)]]
      [] part.kind = "response" /\ s.pending[part.name] = <<>> -> s
      [] OTHER -> [s EXCEPT !.kept = Append(@, part)]

(* The parts are walked once, in order; what is walked so far is kept,      *)
(* counter and pending of s[n].                                             *)
Unsanitized == [kept |-> <<>>, counter |-> 0, pending |-> [n \in ToolNames |-> <<>>]]

(* Faulty variant of Sanitized: a response keeps the oldest call waiting.   *)
SanitizedNotPopped(h) ==
    LET keep(s, part) == [SanitizePart(s, part) EXCEPT !.pending =
                            IF part.kind = "response" THEN s.pending ELSE @]
        s[n \in 0..Len(h)] == IF n = 0 THEN Unsanitized ELSE keep(s[n - 1], h[n])
    IN  IF FullyIdentified(h) THEN h ELSE s[Len(h)].kept

(* sanitize_cross_provider_tool_history.                                    *)
Sanitized(h) ==
    LET s[n \in 0..Len(h)] == IF n = 0 THEN Unsanitized ELSE SanitizePart(s[n - 1], h[n])
    IN  IF FullyIdentified(h) THEN h ELSE s[Len(h)].kept

HistoryInit == original \in Histories /\ contents = original

(* An attempt on a member of the chain.                                     *)
SanitizeRequest == contents' = Sanitized(contents) /\ UNCHANGED original

HistoryNext == SanitizeRequest
HistorySpec == HistoryInit /\ [][HistoryNext]_historyVars
-----------------------------------------------------------------------------
LlmTypeOK ==
    /\ stage \in [LlmCalls -> {"new", "calling", "backoff", "done", "failed", "gone"}]
    /\ \A c \in LlmCalls : member[c] \in 1..Length(c) /\ attempt[c] \in 0..MaxRetries
    /\ visible \in [LlmCalls -> BOOLEAN] /\ benched \in [LlmProviders -> BOOLEAN]
    /\ failures \in [LlmProviders -> Nat]

(* Only one attempt of a call ever shows answer output, whatever fails and   *)
(* whoever is retried or fallen back to: generate_content_async never        *)
(* duplicates text or tool calls that have reached the user.                 *)
AnsweredOnce == \A c \in LlmCalls : Cardinality(answers[c]) <= 1

(* A call that failed without showing output either met an error no other    *)
(* member could help with or has called the last member: a bench that other  *)
(* calls filled never costs it the answer, and the class it raises is one it *)
(* really met (the "all providers benched" raise is unreachable).            *)
GaveUpForCause == \A c \in LlmCalls : stage[c] = "failed" =>
    /\ raised[c] # NoClass
    /\ (answers[c] = {} /\ raised[c].fallbackable) => member[c] = Length(c)

(* Every response answers an earlier call of its name, no two the same one,  *)
(* and every call has an identifier of its own: what Anthropic and OpenAI    *)
(* require of a history that a Gemini fallback left without identifiers.     *)
Matched(h) ==
    /\ FullyIdentified(h)
    /\ \A i, j \in CallsOf(h) : h[i].id = h[j].id => i = j
    /\ \A i, j \in ResponsesOf(h) : h[i].id = h[j].id => i = j
    /\ \A i \in ResponsesOf(h) : \E j \in CallsOf(h) :
            j < i /\ h[j].id = h[i].id /\ h[j].name = h[i].name

(* Once an attempt has rewritten a history it is valid for every provider,   *)
(* and later attempts of the same call leave it alone, whatever mix of       *)
(* providers produced it.                                                    *)
RewrittenIsValid == contents # original => Matched(contents) /\ Sanitized(contents) = contents
=============================================================================
