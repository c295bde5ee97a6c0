---------------------------- MODULE ContractTools ----------------------------
(***************************************************************************)
(* The contract tools of an agent and the caches they share:               *)
(*   backend/tools/extract_ppa_clauses.py    clauses of one contract,      *)
(*   backend/tools/compare_ppa_contracts.py  the differences of two,       *)
(*   backend/tools/map_ppa_obligations.py    obligations of one.           *)
(*                                                                         *)
(* Extractions and comparisons are cached in the session's app: state;     *)
(* mappings there, in a dictionary of the process and in a durable         *)
(* collection.  A tool suspends at each await (a document load, a model    *)
(* call, the durable tier), and other calls run in between.  A mapping     *)
(* looks for a filled form among the surfaces of the turn before all else. *)
(*                                                                         *)
(* A result names what it was computed for: [kind, docs, scope, anchor],   *)
(* whether it is a refusal, and for a refusal the number of the form it    *)
(* comes with.  What the model finds in a contract, and how it becomes a   *)
(* payload, is the second machine of this module; the two share no state.  *)
(***************************************************************************)
EXTENDS Integers, Sequences, FiniteSets, Store

CONSTANTS
    Contracts,      \* document identities (doc_id or gs_url)
    Blank,          \* contracts that are templates: their mapping is refused
    Scopes,         \* requested clause subsets other than "all of them"
    Anchors,        \* effective dates a user may confirm
    ToolSessions,   \* chat sessions
    ToolCalls,      \* calls in flight at once
    CacheTtl,       \* _RESULT_CACHE_TTL
    MaxToolCalls,   \* bound: calls made
    MaxHours        \* bound: the clock

ASSUME ToolsAssumption ==
    /\ Blank \subseteq Contracts
    /\ CacheTtl \in Nat /\ MaxToolCalls \in Nat /\ MaxHours \in Nat

VARIABLES
    calls,          \* calls in flight: what is asked, where it stands
    made,           \* calls made so far
    appState,       \* app:emitted:... keys of a session's state
    processCache,   \* _RESULT_CACHE
    durableCache,   \* obligation_result_cache
    elicitSeq,      \* _oblig_elicit_seq of a session
    formsFilled,    \* the contracts whose filled form a session's client shows
    hours,          \* the clock
    answers         \* history: what the calls returned

toolVars == <<calls, made, appState, processCache, durableCache, elicitSeq, formsFilled, hours, answers>>

Idle == [at |-> "idle"]

ToolsInit ==
    /\ calls = [c \in ToolCalls |-> Idle]
    /\ made = 0
    /\ appState = [s \in ToolSessions |-> <<>>]
    /\ processCache = <<>>
    /\ durableCache = <<>>
    /\ elicitSeq = [s \in ToolSessions |-> 0]
    /\ formsFilled = [s \in ToolSessions |-> {}]
    /\ hours = 0
    /\ answers = {}
-----------------------------------------------------------------------------
(* Keys. The variant is part of the key, in reads as in writes.             *)

(* Faulty variant of CacheVariantSuffix: the scope is left out of the keys. *)
NoVariant(scope) == None

CacheVariantSuffix(scope) == scope

ClauseCacheKey(doc, scope) == <<"ppa_clauses", <<doc>>, CacheVariantSuffix(scope)>>
ComparisonKey(docs, scope) == <<"ppa_comparison", docs, CacheVariantSuffix(scope)>>
ObligationCacheKey(doc, anchor) == <<"ppa_obligations", <<doc>>, anchor>>

Result(kind, docs, scope, anchor) ==
    [kind |-> kind, docs |-> docs, scope |-> scope, anchor |-> anchor, form |-> 0]

Cached(cache, key) == key \in DOMAIN cache
Alive(cache, key) == Cached(cache, key) /\ hours <= cache[key].expires
Entry(r) == [value |-> r, expires |-> hours + CacheTtl]
Kept(cache, key, value) == [k \in DOMAIN cache \cup {key} |-> IF k = key THEN value ELSE cache[k]]
-----------------------------------------------------------------------------
Session(c) == calls[c].session
Asked(c) == calls[c].asked
MapKey(c) == ObligationCacheKey(Asked(c).docs[1], Asked(c).anchor)

(* A call returns: an answer for the session, or an error envelope. values  *)
(* is the contract whose form the answer was built from, none for a mapping.*)
Returns(c, r) ==
    /\ calls' = [calls EXCEPT ![c] = Idle]
    /\ answers' = answers \cup {[session |-> Session(c), asked |-> Asked(c), got |-> r,
                                 call |-> calls[c].number, values |-> {}]}

Fails(c) == calls' = [calls EXCEPT ![c] = Idle] /\ UNCHANGED answers

(* While extracting, at names the step the extraction returns to.           *)
Goes(c, at) == calls' = [calls EXCEPT ![c].at = at] /\ UNCHANGED answers

(* Faulty variant of RestampElicitSeq: a cached refusal keeps its number.   *)
ServedAsCached(s, r) == r

(* _next_elicit_seq; a cached refusal is served with a number of its own.   *)
RestampElicitSeq(s, r) == IF r.form # 0 THEN [r EXCEPT !.form = elicitSeq[s] + 1] ELSE r
CountsForm(s, r) == elicitSeq' = IF r.form # 0 THEN [elicitSeq EXCEPT ![s] = @ + 1] ELSE elicitSeq

ToolRequests ==
    [tool: {"extract"}, docs: {<<d>> : d \in Contracts}, scope: Scopes \cup {None}, anchor: {None},
     refresh: {FALSE}]
    \cup [tool: {"compare"}, docs: {<<d, e>> : d, e \in Contracts}, scope: Scopes \cup {None}, anchor: {None},
          refresh: {FALSE}]
    \cup [tool: {"map"}, docs: {<<d>> : d \in Contracts}, scope: {None}, anchor: Anchors \cup {None},
          refresh: BOOLEAN]

(* The arguments are checked before anything is read; a call whose          *)
(* arguments are refused leaves no trace. A mapping goes on to the tiers     *)
(* when no surface of the turn holds a filled form.                         *)
Call(c, s, q) ==
    /\ calls[c] = Idle /\ made < MaxToolCalls
    /\ q.tool = "map" => formsFilled[s] = {}
    /\ made' = made + 1
    /\ calls' = [calls EXCEPT ![c] =
                    [at |-> CASE q.tool = "extract" -> "extract_1"
                              [] q.tool = "compare" -> "compare"
                              [] q.tool = "map" /\ q.refresh -> "extract_1"
                              [] OTHER -> "process_tier",
                     session |-> s, asked |-> q, number |-> made + 1]]
    /\ UNCHANGED <<appState, processCache, durableCache, elicitSeq, formsFilled, hours, answers>>
-----------------------------------------------------------------------------
(* extract_ppa_clauses, which compare and map call too. extract_1 and       *)
(* extract_2 are the contract whose turn it is.                             *)
Which(c) == IF calls[c].at \in {"extract_2", "load_2", "clauses_2"} THEN 2 ELSE 1
ExtractKey(c) == ClauseCacheKey(Asked(c).docs[Which(c)], Asked(c).scope)
Extracted(c) == Result("clauses", <<Asked(c).docs[Which(c)]>>, Asked(c).scope, None)

(* What the caller of the extraction does with it.                          *)
AfterExtraction(c, r) ==
    CASE Asked(c).tool = "extract" -> Returns(c, r)
      [] Asked(c).tool = "compare" -> Goes(c, IF Which(c) = 1 THEN "extract_2" ELSE "differences")
      [] Asked(c).tool = "map"     -> Goes(c, "blocks")

(* A cached extraction is validated, and made anew when it does not parse.  *)
ExtractFromState(c) ==
    /\ calls[c].at \in {"extract_1", "extract_2"}
    /\ \/ /\ Cached(appState[Session(c)], ExtractKey(c))
          /\ AfterExtraction(c, appState[Session(c)][ExtractKey(c)])
       \/ ~Cached(appState[Session(c)], ExtractKey(c)) /\ Goes(c, IF Which(c) = 1 THEN "load_1" ELSE "load_2")
    /\ UNCHANGED <<made, appState, processCache, durableCache, elicitSeq, formsFilled, hours>>

(* The document is loaded, or parsed on the fly.                            *)
LoadBlocks(c) ==
    /\ calls[c].at \in {"load_1", "load_2"}
    /\ \/ Goes(c, IF Which(c) = 1 THEN "clauses_1" ELSE "clauses_2")
       \/ Fails(c)                  \* not found, unsupported, unparsed, no blocks
    /\ UNCHANGED <<made, appState, processCache, durableCache, elicitSeq, formsFilled, hours>>

(* The model's clauses, capped and cut to the subset, are cached.           *)
RunClauseExtraction(c) ==
    /\ calls[c].at \in {"clauses_1", "clauses_2"}
    /\ \/ /\ appState' = [appState EXCEPT ![Session(c)] = Kept(@, ExtractKey(c), Extracted(c))]
          /\ AfterExtraction(c, Extracted(c))
       \/ Fails(c) /\ UNCHANGED appState        \* the call or its validation
    /\ UNCHANGED <<made, processCache, durableCache, elicitSeq, formsFilled, hours>>
-----------------------------------------------------------------------------
(* compare_ppa_contracts.                                                   *)
CompareKey(c) == ComparisonKey(Asked(c).docs, Asked(c).scope)

CompareFromState(c) ==
    /\ calls[c].at = "compare"
    /\ IF Cached(appState[Session(c)], CompareKey(c))
       THEN Returns(c, appState[Session(c)][CompareKey(c)])
       ELSE Goes(c, "extract_1")
    /\ UNCHANGED <<made, appState, processCache, durableCache, elicitSeq, formsFilled, hours>>

RunComparison(c) ==
    /\ calls[c].at = "differences"
    /\ \/ LET r == Result("comparison", Asked(c).docs, Asked(c).scope, None)
          IN  /\ appState' = [appState EXCEPT ![Session(c)] = Kept(@, CompareKey(c), r)]
              /\ Returns(c, r)
       \/ Fails(c) /\ UNCHANGED appState
    /\ UNCHANGED <<made, processCache, durableCache, elicitSeq, formsFilled, hours>>
-----------------------------------------------------------------------------
(* map_ppa_obligations. An entry past its time is dropped from the          *)
(* process's tier, and skipped in the durable one.                          *)
ServeCached(c, r) == Returns(c, RestampElicitSeq(Session(c), r)) /\ CountsForm(Session(c), r)

ResultCacheGet(c) ==
    /\ calls[c].at = "process_tier"
    /\ IF Alive(processCache, MapKey(c))
       THEN ServeCached(c, processCache[MapKey(c)].value) /\ UNCHANGED processCache
       ELSE /\ Goes(c, "durable_tier")
            /\ processCache' = [k \in DOMAIN processCache \ {MapKey(c)} |-> processCache[k]]
            /\ UNCHANGED elicitSeq
    /\ UNCHANGED <<made, appState, durableCache, formsFilled, hours>>

(* The session's own entry is looked up once the durable tier has missed.   *)
StateTier(c) ==
    IF Cached(appState[Session(c)], MapKey(c))
    THEN Returns(c, appState[Session(c)][MapKey(c)])
    ELSE Goes(c, "extract_1")

(* A read that fails is a miss; a hit warms the process's tier.             *)
FirestoreCacheGet(c) ==
    /\ calls[c].at = "durable_tier"
    /\ \/ /\ Alive(durableCache, MapKey(c))
          /\ ServeCached(c, durableCache[MapKey(c)].value)
          /\ processCache' = Kept(processCache, MapKey(c), Entry(durableCache[MapKey(c)].value))
       \/ StateTier(c) /\ UNCHANGED <<processCache, elicitSeq>>
    /\ UNCHANGED <<made, appState, durableCache, formsFilled, hours>>

(* The mapping reads the whole document again.                              *)
MapLoadsBlocks(c) ==
    /\ calls[c].at = "blocks"
    /\ Goes(c, "mapping") \/ Fails(c)
    /\ UNCHANGED <<made, appState, processCache, durableCache, elicitSeq, formsFilled, hours>>

Mapped(c) == Result("obligations", Asked(c).docs, None, Asked(c).anchor)

(* A template without a date is refused with a form; both a mapping and a   *)
(* refusal enter the process's tier at once.                                *)
RunObligationMapping(c) ==
    /\ calls[c].at = "mapping"
    /\ \/ LET refused == Asked(c).docs[1] \in Blank
              r == IF refused THEN [Mapped(c) EXCEPT !.form = elicitSeq[Session(c)] + 1] ELSE Mapped(c)
          IN  /\ CountsForm(Session(c), r)
              /\ processCache' = Kept(processCache, MapKey(c), Entry(r))
              /\ calls' = [calls EXCEPT ![c] = [result |-> r, at |-> "durable_write", session |-> Session(c),
                                                asked |-> Asked(c), number |-> @.number]]
              /\ UNCHANGED answers
       \/ Fails(c) /\ UNCHANGED <<processCache, elicitSeq>>     \* model, schema or wire error
    /\ UNCHANGED <<made, appState, durableCache, formsFilled, hours>>

(* The durable write is best effort; only a mapping enters the session.     *)
FirestoreCacheSet(c) ==
    /\ calls[c].at = "durable_write"
    /\ \/ durableCache' = Kept(durableCache, MapKey(c), Entry(calls[c].result))
       \/ UNCHANGED durableCache
    /\ appState' = IF calls[c].result.form = 0
                   THEN [appState EXCEPT ![Session(c)] = Kept(@, MapKey(c), calls[c].result)]
                   ELSE appState
    /\ Returns(c, calls[c].result)
    /\ UNCHANGED <<made, processCache, elicitSeq, formsFilled, hours>>

(* A form a session was sent is filled by its user; its values then ride on *)
(* every later turn, until the client has closed the surface.               *)
FillContractForm(s) ==
    /\ \E a \in answers : /\ a.session = s /\ a.got.form # 0
                          /\ formsFilled' = [formsFilled EXCEPT ![s] = @ \cup {a.got.docs}]
    /\ UNCHANGED <<calls, made, appState, processCache, durableCache, elicitSeq, hours, answers>>

CloseContractForms(s) ==
    /\ formsFilled[s] # {} /\ formsFilled' = [formsFilled EXCEPT ![s] = {}]
    /\ UNCHANGED <<calls, made, appState, processCache, durableCache, elicitSeq, hours, answers>>

(* _resolve_assumptions: the values of a filled form, whichever contract it *)
(* was made for, else those of the assumptions argument.                    *)
ValuesInReach(s, q) == IF formsFilled[s] # {} THEN formsFilled[s] ELSE {q.docs}

(* Values are at hand: the analysis completes from them and is dated by     *)
(* them, with no tier read or written whatever else is asked, or the form   *)
(* comes back under a new number (one whose values are no JSON object comes *)
(* back unnumbered).                                                        *)
AnswerFromValues(c, s, q) ==
    /\ calls[c] = Idle /\ made < MaxToolCalls
    /\ q.tool = "map"
    /\ made' = made + 1
    /\ \E about \in ValuesInReach(s, q), r \in
            {Result("obligations", q.docs, None, date) : date \in Anchors}
            \cup {[Result("obligations", q.docs, None, q.anchor) EXCEPT !.form = elicitSeq[s] + 1]} :
          /\ CountsForm(s, r)
          /\ answers' = answers \cup {[session |-> s, asked |-> q, got |-> r, call |-> made + 1, values |-> {about}]}
    /\ UNCHANGED <<calls, appState, processCache, durableCache, formsFilled, hours>>
-----------------------------------------------------------------------------
(* Time passes; the process is replaced by a cold one between its calls.    *)
HourPasses ==
    /\ hours < MaxHours
    /\ hours' = hours + 1
    /\ UNCHANGED <<calls, made, appState, processCache, durableCache, elicitSeq, formsFilled, answers>>

ColdStart ==
    /\ processCache # <<>> /\ \A c \in ToolCalls : calls[c] = Idle
    /\ processCache' = <<>>
    /\ UNCHANGED <<calls, made, appState, durableCache, elicitSeq, formsFilled, hours, answers>>

ToolsNext ==
    \/ \E c \in ToolCalls :
          \/ \E s \in ToolSessions : \E q \in ToolRequests : Call(c, s, q) \/ AnswerFromValues(c, s, q)
          \/ ExtractFromState(c) \/ LoadBlocks(c) \/ RunClauseExtraction(c)
          \/ CompareFromState(c) \/ RunComparison(c)
          \/ ResultCacheGet(c) \/ FirestoreCacheGet(c) \/ MapLoadsBlocks(c)
          \/ RunObligationMapping(c) \/ FirestoreCacheSet(c)
    \/ \E s \in ToolSessions : FillContractForm(s) \/ CloseContractForms(s)
    \/ HourPasses \/ ColdStart

ToolsSpec == ToolsInit /\ [][ToolsNext]_toolVars
-----------------------------------------------------------------------------
(* Whichever tier an answer comes from, it answers the question asked: the *)
(* same contracts in the same order, the same clause subset and the same   *)
(* anchor date.  A scoped or anchored run neither serves nor poisons the   *)
(* full entry ("CORRECTNESS INVARIANT" of cache_variant_suffix), and an    *)
(* answer built from a form, which is dated by the form and not by the     *)
(* question, is never served to a question of its own kind afterwards.     *)
AnswersTheQuestion ==
    \A a \in answers :
        /\ a.got.docs = a.asked.docs /\ a.got.scope = a.asked.scope
        /\ a.values = {} => a.got.anchor = a.asked.anchor

(* Forms append: in one session two answers that come with a form never    *)
(* share its number, though one refusal is served from the caches to many  *)
(* calls and sessions, so that no submitted form is replaced.              *)
FormsAppend ==
    \A a, b \in answers :
        a.session = b.session /\ a.got.form # 0 /\ a.got.form = b.got.form => a.call = b.call

(***************************************************************************)
(* From a mapper's calendar-form answer to the payload of the obligation   *)
(* engine: _assemble_payload, build_payload_from_assumptions and day_offset *)
(* of backend/tools/map_ppa_obligations.py, the validators and the review  *)
(* overlay of backend/tools/schemas/ppa_obligations.py.                    *)
(*                                                                         *)
(* The mapper is a model: its answer is any mapping, which the actions     *)
(* Mapper... build up item by item.  A date is a day number; Unreadable is *)
(* text that is no ISO date, None a blank.  A breach reference             *)
(* "<id>-delivery" stands as its obligation id, an ill-formed one as None. *)
(***************************************************************************)
CONSTANTS
    MaxDay,         \* bound: calendar days 0..MaxDay
    ObligationIds,  \* ids the mapper gives obligations
    EventKinds,     \* kinds of events the mapper reports
    ClauseNames,    \* clauses an extraction may populate
    StatedKnobs,    \* policy knobs a contract or a reviewer names
    Amounts,        \* prices, knob values and capacities
    MaxItems,       \* bound: items of the mapper's answer
    MaxReviews      \* bound: review overlays applied

ASSUME PayloadAssumption ==
    /\ MaxDay \in Nat /\ MaxItems \in Nat /\ MaxReviews \in Nat
    /\ Amounts \subseteq Int
    /\ None \notin [needsDate : BOOLEAN, unmapped : SUBSET ClauseNames]
    /\ EventKinds \subseteq {"deliver", "pay", "amend_price", "force_majeure", "notice", "waive", "terminate"}

VARIABLES
    mapping,        \* the ObligationMapping so far
    populated,      \* clauses the extraction populated
    anchor,         \* the caller's effective_date, or None
    payload,        \* None, a refusal, a rejection, or the payload
    reviews         \* overlays applied so far

payloadVars == <<mapping, populated, anchor, payload, reviews>>

Unreadable == -1
CalendarDays == 0..MaxDay

POLICY_KNOBS == {"penPerDay", "penCap", "payWithin", "cureDays", "ratePct", "ratePeriod"}
DEFAULT_POLICY == [penPerDay |-> 500, penCap |-> 25000, payWithin |-> 30,
                   cureDays |-> 30, ratePct |-> 1, ratePeriod |-> 30]
KnobMinimum == [k \in POLICY_KNOBS |-> IF k = "ratePeriod" THEN 1 ELSE 0]

PayloadInit ==
    /\ anchor \in CalendarDays \cup {None}
    /\ populated \in SUBSET ClauseNames
    /\ \E date \in CalendarDays \cup {None, Unreadable} :
          mapping = [effective |-> date, obligations |-> <<>>, events |-> <<>>,
                     knobs |-> [k \in POLICY_KNOBS |-> None], mapped |-> {}, unmapped |-> {}]
    /\ payload = None
    /\ reviews = 0
-----------------------------------------------------------------------------
(* The mapper's answer (external).                                          *)
Items == Len(mapping.obligations) + Len(mapping.events) + Cardinality(mapping.mapped)
            + Cardinality(mapping.unmapped) + Cardinality({k \in POLICY_KNOBS : mapping.knobs[k] # None})

Mapper(change) ==
    /\ payload = None /\ Items < MaxItems
    /\ mapping' = change
    /\ UNCHANGED <<populated, anchor, payload, reviews>>

MapperObligation ==
    \E id \in ObligationIds, date \in CalendarDays \cup {Unreadable}, price \in Amounts :
        Mapper([mapping EXCEPT !.obligations = Append(@, [id |-> id, date |-> date, price |-> price])])

MapperEvent ==
    \E kind \in EventKinds, date \in CalendarDays, ref \in ObligationIds \cup {None},
       until \in CalendarDays \cup {None} :
        /\ kind # "force_majeure" => until = None
        /\ Mapper([mapping EXCEPT !.events =
                        Append(@, [kind |-> kind, date |-> date, ref |-> ref, until |-> until])])

MapperKnob ==
    \E k \in StatedKnobs, v \in Amounts : Mapper([mapping EXCEPT !.knobs[k] = v])

MapperClause ==
    \E c \in ClauseNames :
        \/ Mapper([mapping EXCEPT !.mapped = @ \cup {c}])
        \/ Mapper([mapping EXCEPT !.unmapped = @ \cup {c}])
-----------------------------------------------------------------------------
(* day_offset refuses what it cannot read and what predates day 0.          *)
Offset(date, effective) == date - effective
Expressible(date, effective) == date # Unreadable /\ Offset(date, effective) >= 0

(* The anchor: what the caller gave, else what the mapper read.             *)
Effective == IF anchor # None THEN anchor ELSE mapping.effective
EffectiveSource == IF anchor # None THEN "provided" ELSE "extracted"

EventExpressible(e, effective) ==
    /\ Expressible(e.date, effective)
    /\ e.kind = "force_majeure" => e.until # None /\ Expressible(e.until, effective)

(* The MappingErrors, in the order they are raised.                         *)
Refusal ==
    IF Effective = None THEN [needsDate |-> TRUE, unmapped |-> {}]
    ELSE IF Effective = Unreadable THEN [needsDate |-> FALSE, unmapped |-> {}]
    ELSE IF mapping.obligations = <<>> THEN [needsDate |-> FALSE, unmapped |-> mapping.unmapped]
    ELSE IF \/ \E i \in DOMAIN mapping.obligations : ~Expressible(mapping.obligations[i].date, Effective)
            \/ \E i \in DOMAIN mapping.events : ~EventExpressible(mapping.events[i], Effective)
    THEN [needsDate |-> FALSE, unmapped |-> {}]
    ELSE None

WireObligations(effective) ==
    [i \in DOMAIN mapping.obligations |->
        [id |-> mapping.obligations[i].id,
         deadline |-> Offset(mapping.obligations[i].date, effective),
         price |-> mapping.obligations[i].price]]

(* A window travels in amt and hi, its event has no reference; the new      *)
(* amount of a price change is left out.                                    *)
WireEvent(e, effective) ==
    LET day == Offset(e.date, effective)
    IN  IF e.kind = "force_majeure"
        THEN [kind |-> e.kind, day |-> day, ref |-> None,
              amt |-> day, hi |-> Offset(e.until, effective)]
        ELSE [kind |-> e.kind, day |-> day, ref |-> e.ref, amt |-> 0, hi |-> 0]

(* Faulty variant of Before: events of one day are reversed.                *)
BeforeUnstable(es, i, j) == es[i].day < es[j].day \/ (es[i].day = es[j].day /\ i >= j)

(* The sort is stable: same-day events keep the mapper's order.             *)
Before(es, i, j) == es[i].day < es[j].day \/ (es[i].day = es[j].day /\ i <= j)

Position(es, j) == Cardinality({i \in DOMAIN es : Before(es, i, j)})

SortedByDay(es) == [p \in DOMAIN es |-> es[CHOOSE j \in DOMAIN es : Position(es, j) = p]]

WireEvents(effective) ==
    SortedByDay([i \in DOMAIN mapping.events |-> WireEvent(mapping.events[i], effective)])

KnobValue(k) == IF mapping.knobs[k] # None THEN mapping.knobs[k] ELSE DEFAULT_POLICY[k]
KnobSource(k) == IF mapping.knobs[k] # None THEN "extracted" ELSE "default"

(* Faulty variant of Unmapped: clauses nobody accounts for go unflagged.    *)
UnflaggedUnmapped == mapping.unmapped

(* What the mapper accounts for nowhere is flagged as not modelled.         *)
Unmapped == mapping.unmapped \cup (populated \ (mapping.mapped \cup mapping.unmapped))

(* The validators of WireObligation, WireEvent, WirePolicy and              *)
(* PpaObligationPayload.                                                    *)
EventValid(e) ==
    /\ e.kind # "force_majeure" => e.ref # None
    /\ e.kind = "force_majeure" => e.hi >= e.amt /\ e.amt = e.day

CrossReferencesValid(p) ==
    LET known == {p.obligations[i].id : i \in DOMAIN p.obligations}
    IN  /\ Cardinality(known) = Len(p.obligations)
        /\ \A i \in DOMAIN p.events :
              p.events[i].kind \notin {"force_majeure", "terminate"} => p.events[i].ref \in known
        /\ \A i \in 1..(Len(p.events) - 1) : p.events[i].day <= p.events[i + 1].day
        /\ DOMAIN p.prices \subseteq known

WireValid(p) ==
    /\ \A i \in DOMAIN p.obligations : p.obligations[i].deadline >= 0 /\ p.obligations[i].price >= 0
    /\ \A i \in DOMAIN p.events : EventValid(p.events[i])
    /\ \A k \in POLICY_KNOBS : p.policy[k] >= KnobMinimum[k]
    /\ CrossReferencesValid(p)

Rejected == [kind |-> "rejected"]
Validated(p) == IF WireValid(p) THEN p ELSE Rejected

(* _assemble_payload.                                                       *)
Assembled ==
    Validated([kind |-> "payload", effective |-> Effective, source |-> EffectiveSource,
               obligations |-> WireObligations(Effective), events |-> WireEvents(Effective),
               policy |-> [k \in POLICY_KNOBS |-> KnobValue(k)],
               sources |-> [k \in POLICY_KNOBS |-> KnobSource(k)],
               prices |-> <<>>, unmapped |-> Unmapped, mapped |-> mapping.mapped])

AssemblePayload ==
    /\ payload = None
    /\ payload' = IF Refusal # None THEN [kind |-> "refused", refusal |-> Refusal] ELSE Assembled
    /\ UNCHANGED <<mapping, populated, anchor, reviews>>
-----------------------------------------------------------------------------
(* The values of the elicitation form: the four required fields and the     *)
(* payment window, which has a default of its own.                          *)
DELAY_LD_EUR_PER_MW_DAY == 150
BusinessDaysToCalendar(n) == (n * 7 + 4) \div 5

Forms == [effective_date: CalendarDays \cup {None, Unreadable}, cod_date: CalendarDays \cup {None},
          contract_capacity_mw: Amounts \cup {None}, contract_price: Amounts,
          pay_within_days: Amounts \cup {None}]

(* Every way a form is turned down: a required field is missing or          *)
(* unreadable, a number is under its minimum, the milestone predates day 0. *)
FormReadable(f) ==
    /\ f.effective_date \notin {None, Unreadable} /\ f.cod_date # None
    /\ f.contract_capacity_mw # None /\ f.contract_capacity_mw >= 1
    /\ f.contract_price >= 0
    /\ f.pay_within_days # None => f.pay_within_days >= 0
    /\ Expressible(f.cod_date, f.effective_date)

FromAssumptions(f) ==
    Validated([kind |-> "payload", effective |-> f.effective_date, source |-> "provided",
               obligations |-> <<[id |-> "COD", deadline |-> Offset(f.cod_date, f.effective_date),
                                  price |-> f.contract_price]>>,
               events |-> <<>>,
               policy |-> [DEFAULT_POLICY EXCEPT
                             !.penPerDay = DELAY_LD_EUR_PER_MW_DAY * f.contract_capacity_mw,
                             !.payWithin = IF f.pay_within_days # None THEN f.pay_within_days
                                           ELSE BusinessDaysToCalendar(DEFAULT_POLICY.payWithin)],
               sources |-> [k \in POLICY_KNOBS |-> "reviewed"],
               prices |-> [id \in {"COD"} |-> "reviewed"], unmapped |-> {}, mapped |-> {}])

(* A form is sent before any extraction or mapping is made.                 *)
BuildPayloadFromAssumptions ==
    /\ payload = None /\ Items = 0
    /\ \E f \in Forms :
          payload' = IF FormReadable(f) THEN FromAssumptions(f)
                     ELSE [kind |-> "refused", refusal |-> [needsDate |-> FALSE, unmapped |-> {}]]
    /\ UNCHANGED <<mapping, populated, anchor, reviews>>
-----------------------------------------------------------------------------

(* Faulty variant of ReviewedKnob: the provenance is left as it was.        *)
ReviewedKnobKeepsSource(p, k, v) == [p EXCEPT !.policy[k] = v]

(* apply_reviewed_settings: the named knobs and prices are overridden and   *)
(* only their provenance changes; an unknown name fails the whole overlay.  *)
ReviewedKnob(p, k, v) == [p EXCEPT !.policy[k] = v, !.sources[k] = "reviewed"]

ReviewedPrice(p, id, v) ==
    [p EXCEPT !.obligations = [i \in DOMAIN @ |-> IF @[i].id = id THEN [@[i] EXCEPT !.price = v] ELSE @[i]],
              !.prices = [o \in DOMAIN @ \cup {id} |-> IF o = id THEN "reviewed" ELSE @[o]]]

(* The outcome replaces the payload only when it validates.                 *)
ApplyReviewedSettings ==
    /\ payload # None /\ payload.kind = "payload" /\ reviews < MaxReviews
    /\ \E v \in Amounts :
          LET next == {ReviewedKnob(payload, k, v) : k \in StatedKnobs}
                        \cup {ReviewedPrice(payload, payload.obligations[i].id, v) : i \in DOMAIN payload.obligations}
          IN  \E p \in next : payload' = IF WireValid(p) THEN p ELSE payload
    /\ reviews' = reviews + 1
    /\ UNCHANGED <<mapping, populated, anchor>>
-----------------------------------------------------------------------------
PayloadNext ==
    \/ MapperObligation \/ MapperEvent \/ MapperKnob \/ MapperClause
    \/ AssemblePayload \/ BuildPayloadFromAssumptions \/ ApplyReviewedSettings

PayloadSpec == PayloadInit /\ [][PayloadNext]_payloadVars
-----------------------------------------------------------------------------
IsPayload == payload # None /\ payload.kind = "payload"

(* The engine, which does not sort, is given the contract's own calendar:  *)
(* each of the mapper's events has a place of its own in the payload,      *)
(* counted from day 0, an earlier one before a later one, those of a day   *)
(* in the order the mapper reported them, and none is lost ("notice        *)
(* arrival order grounds termination").                                    *)
Earlier(i, j) ==
    \/ mapping.events[i].date < mapping.events[j].date
    \/ mapping.events[i].date = mapping.events[j].date /\ i < j

TimelineKept ==
    IsPayload =>
        /\ DOMAIN payload.events = DOMAIN mapping.events
        /\ \E place \in [DOMAIN mapping.events -> DOMAIN payload.events] :
              \A i \in DOMAIN place :
                  /\ payload.events[place[i]].kind = mapping.events[i].kind
                  /\ payload.events[place[i]].day + payload.effective = mapping.events[i].date
                  /\ \A j \in DOMAIN place : Earlier(i, j) => place[i] < place[j]

(* Nothing is dropped silently and nothing is dressed up: whatever the     *)
(* mapper forgot, a payload made from a document lists every clause of the *)
(* extraction as mapped or as unmapped, and through every later review a   *)
(* knob marked "extracted" has the value the contract states and one       *)
(* marked "default" the engine's baseline.                                 *)
PayloadHonest ==
    IsPayload =>
        /\ mapping.obligations # <<>> => populated \subseteq payload.mapped \cup payload.unmapped
        /\ \A k \in POLICY_KNOBS :
              /\ payload.sources[k] = "extracted" => payload.policy[k] = mapping.knobs[k]
              /\ payload.sources[k] = "default" => payload.policy[k] = DEFAULT_POLICY[k]
=============================================================================
