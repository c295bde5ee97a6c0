# Formal models of the AI protocol platform

TLA+ specifications of the platform's backend and of the chat client: how a turn
is streamed, what surrounds a model call, how surfaces and conversations are
kept, who may do what, and how documents, skills and files are stored. TLC
checks them on small instances; TLAPS proves the safety properties of the turn
path, the model layer, surfaces, sessions, access and most of the stores for every value
of the constants.

## 1. The system

A browser, a messaging channel or a peer agent sends a message. The backend
authenticates it, builds an agent tree for the skill (or the Root Agent) under
the platform's policy, runs it over a chain of model providers within a budget,
and streams AG-UI events back. Tools read documents and external servers and
render A2UI surfaces; clicking on a surface starts another run. Sessions,
documents, skills and configuration live in stores that several server
processes share.

| Component | Module | State | Hard behaviour | What makes it correct |
|---|---|---|---|---|
| Event generator `adk/agui.py`, tracker queue `observability/timing.py` | `AguiStream`, `RunContract` | in-flight pull, typed-error slot, flags, queue | adapter, callbacks and timer interleave; duplicate terminals; disconnects | one terminal, last, of the right kind; marks in order; the loop ends |
| Chat and surface-action routes, redaction | `TurnStream` | gates, response frames, names of calls | exceptions anywhere; results ahead of their start | a turn ends; privileged results are withheld |
| Chat client `useSkillAgent.ts` | `SkillAgentClient` | React state and refs of all turns | overlapping turns, cut streams, dead transports, retry | spinner honest and temporary; a cut turn is reported |
| Surface-action admission, claims | `SurfaceAction` | claims, last action | double clicks, retries, crashes, re-renders | a confirmation runs at most once |
| Budget `budget/` | `Budget` | spend, holds, consultations | parallel calls, roll-over, lost calls | spend is what calls cost; the cap holds |
| Resilient calls `adk/resilient_llm.py`, `tools/resilient_genai.py`, `model_errors.py` | `ResilientLlm` | provider health of the process, call in flight, history | cooldowns started by other turns; failure after visible output | output from one attempt; gives up only for cause; the rewritten history is valid |
| Model registry and probes `config/`, `admin/model_*` | `ModelRegistry` | providers, models, settings, readiness | an edit during a probe or an agent build | what is offered as ready was tested as it stands |
| Platform configuration | `PlatformConfig` | document, cache and last good copy per process | store failures, restarts, merging writers | no policy is served that was never stored |
| Voice `protocols/voice_routes.py`, `voice/` | `Voice` | persona, audio cache | persona edited between resolve and speak | audio is what was asked for; a replay is not paid |
| Surface state, task plans, elicitation | `SurfaceState` | session state, turn snapshots, deltas | the browser and a turn write the same keys | the submitted form is read; positions and status survive |
| Tool pipeline `adk/callbacks.py` and context modules | `ToolPipeline` | events, artifacts, requests | a save that fails, parallel calls, paging | results whole, attachments in place |
| Agent-drawn surfaces `adk/a2ui.py` | `AuthoredSurfaces` | stash, client data, snapshot | patches over older snapshots | a reload rebuilds the layout |
| Contract tools `tools/*ppa*` | `ContractTools` | three cache tiers, forms, overlays | calls that differ in scope, anchor and session share caches | the answer is to the question asked |
| Session index `db/chat_sessions.py`, `skill_processor.py`, `sessions_route.py` | `SessionIndex` | index row, tabs, selection, event log | field-wise writes of several requests | a turn is given exactly the tabs shown as included |
| Search, lists, reports | `SessionQueries` | rows, cursors, revisions | rows move between pages | no row skipped or repeated; revisions linear |
| History views and trace reconcile | `SessionQueries` | event log | identifiers missing | a result is shown with its own call |
| Compaction | `Compaction` | event log, summaries, queue | duplicate delivery, a second pass against a live one | no event falls out of the model's sight |
| Channels `channels/` | `Channels` | identities, placeholder, reply buffer | a send fails in mid-reply | the reply arrives whole |
| Agent factory, handoff | `AgentFactory` | agent tree, confirmation card | declarations change between build and handoff | no silent handoff beyond the floor; the Root policy is a ceiling |
| Root policy, agent cache, permissions | `RootPolicy` | policy, cache, trigger sets | a cached agent outlives its policy | every call is authorised when it runs |
| Accounts and identity providers `auth/` | `Identity` | accounts, login transactions, key set | rotation, disabled accounts, crossed logins | only live accounts; a login completes its own transaction |
| Groups `auth/` group codes and limiter | `GroupAccess` | codes, tokens, buckets per process | restarts, store failures | codes survive; the limiter keeps its bound |
| A2A and MCP endpoints `protocols/` | `PeerProtocols` | tasks, files, server registry | registry edited during a call | tasks are their owner's; files accounted for |
| Repositories `db/repositories/` | `DocumentStore`, `DocumentContract` | rows, locks, pages | concurrent merges and creates, three backends | acknowledged updates are kept (PostgreSQL, Firestore) |
| User stores `adk/user_*`, memory | `UserStores` | sessions, artifacts, memory rows | a replacement cut off half way | a caller gets its own rows only |
| Seeding `admin/platform_seed.py`, `scripts/seed_*` | `PlatformSeed` | platform documents | overlapping and dying seeds | a completed seed is the release |
| Skill directory, agent cards | `SkillDirectory` | rows, caches, registry | stale caches, slug races | nothing private is served |
| Documents `tools/documents/` | `DocumentFiles`, `DocumentParsing` | row, binary, counters, blocks | a request breaks off at any store call; delete against re-parse | a binary has a row; a pending row has a reason; no text is lost |
| Object storage | `ObjectStore` | objects by chunk | a writer dies, an object is replaced while read | a download is one whole upload |
| Buckets | `Buckets` | buckets, folders, access | bucket edited while a folder is written | a folder's own access governs it |
| Thumbnails | `DocumentParsing` | LRU cache, semaphore, PDFium lock | one thread per request, no lock on the cache | PDFium never runs twice at once |
| Renderers, other tools, reports, CLI, fixtures, views | none | | formatting, prompts or read-only | listed in PROJECT.json with the reason |

How they interact: the generator is called by both routes, the routes write its
events to the wire, the client reads the wire. The budget callback raises inside
the agent's run and leaves a typed error in a slot of the generator. The
resilient model is the agent's model; the registry and the configuration decide
its chain when the agent is built. The claim, the surfaces and the index row
are documents of the shared stores. Compaction runs in the turn, in a task
endpoint and from the administration.

## 2. Modules

### The turn path

`AguiStream` models one run of `stream_agui_events`. `pc` names its suspension points;
`pending` is the shielded `anext` task; `stageEvents` the tracker's queue;
`buffered` is `buffered_pre_agent`; `out` everything yielded. `SilenceTick`,
`Forward`, `Flush`, `Drain`, `Terminate`, `DropLate`, `Finish` and `Disconnect` are the
branches of the loop; `Mark`, `EmitSurface` and `RecordRunError` are what callbacks
of the running agent do meanwhile; `SourceEvent` and `SourceEnd` are the adapter
(`ag_ui_adk`, external). Surfaces are delivered both ways the code provides for: by
the adapter, where they count as output, and through the tracker, where the
generator does not see them; `owed` records that the adapter has still to deliver
the start of the tool call a tracker-delivered surface came from. The adapter may
end with a `TimeoutError` (`TimedOut`): with heartbeats on, the handler around the
timed wait takes it for silence at every further pull, so `SilenceTick` repeats.

`RunContract` is the abstract promise of a run: output while open, closed once,
`finished` only if something was shown, `empty` only if nothing was (the client
re-runs an `EMPTY_RUN` by itself, so a wrong one repeats side effects).
`AguiStream!ContractHolds` is the refinement.

`TurnStream` extends `AguiStream` with the two routes. `Stream` composes a step of the
generator with the filter of its route (`Guarded`: redaction; `Recovered`: text
recovery before a `RUN_FINISHED`); `Translate`, `Tear` and `RecoveryFails` are the
exception paths; `Reject` and `OpenStream` the gates.

`SkillAgentClient` is `useSkillAgent` over `HttpAgent` (external). React state and refs are
shared by all turns as in the hook. `StreamEnd` is `onRunFinalized` followed by the rest of
`sendMessage` (retry or `finally`), one task of the event loop. `net` and `dead` are the
transport; `runs`, `fate`, `told`, `shared` are history read by properties only.

`SurfaceAction` is the admission of submissions: gates, artifact read, claim, write, run, with
crashes (`Lose`) and re-rendering (`Render`) anywhere between.

### The components around it

One module each, as in the table. A request that awaits or calls a store between
reading and writing is as many steps as it has such points, with what it read
kept in the request; a handler that runs without one is a single action. The
data is what the properties tell apart: a document is a record of the few fields
that matter, a text a length or a set of marks, a provider's answer one of its
error classes. Backends that behave differently (`DocumentStore`, `ObjectStore`,
`Identity`, `SkillDirectory`) are one module with the backend chosen at the start.
`Store` declares `None`, what a read of an absent document returns. Three modules hold a
second machine beside their first: `SessionQueries` ends with the views a reloaded
conversation is rebuilt from, `ContractTools` with the obligations payload its tools render, and
`DocumentParsing` with thumbnails, which share the parser's PDFium lock.

`AgentFactory` writes the recursion of `create_agent` as a function of how many more agents fit on the
stack of callers (`StackedAgents`): the code refuses a skill that is on the stack already, so the
number of ids bounds its depth. `running` is the path of transfers from the root to the agent that answers:
`Offered` is what ADK lets that agent transfer to, its sub-agents, its parent and its peers, and
`HandoffPolicy` the callback that sits before it.

`ContractTools` keeps the forms a session's user has filled (`formsFilled`), which the client sends with every turn until
it closes them: `AnswerFromValues` is the branch that reads them ahead of every cache. `UserStores` chooses the
three backends as the code does (`MemoryBackendName` and its like); only `PostgresMemoryService` compares the user it is given
with the request's, the in-memory and the Vertex service are ADK's own, returned unwrapped. In `DocumentFiles` a
request may break off at any call (`RequestBreaks`, `UploadAbandoned`), the write of a failure status included; `cutShort` remembers the
uploads that did so before a status was stored.

`DocumentContract` is the abstract specification of a repository: a create
succeeds only if the document is absent, and every acknowledged increment or
union is in the document. `DocumentStore!ContractKept` shows that each step of the
PostgreSQL and Firestore repositories, locks and reads included, is a step of it
or leaves its state alone. The memory repository promises less: it serves one
process of tests and local work and takes no lock.

### Composition for TLC

`MCModels`, `MCSurfaces`, `MCConversations`, `MCAccess` and `MCStores` each put a group of
components side by side. The components of a group share no variable, so
checking their product would only repeat each one's states: the variable
`part`, chosen at the start, says which of them the behaviour is one of, and the
others rest in an initial state. The constants `ModelParts`, `SurfaceParts` and so on
name the components included. A property of a group is the conjunction of its
components' properties, named in its comment, and every one of those has a faulty variant
beside the code it speaks of: an operator, marked by a comment, that is part of no specification and
breaks that property when it takes the place of its original. `TurnStream` is
a composition in the stronger sense, in which both parts step.

### External behaviour assumed

* `ag_ui_adk`: the first event is `RUN_STARTED` or an error; terminals may be repeated
  and followed by more events; its queue is first in, first out, so `RUN_FINISHED`
  does not overtake the start of a call the run made; it may raise or stop anywhere.
* `@ag-ui/client` `HttpAgent` 0.0.52: `runAgent` may be called while another run is open;
  `RUN_ERROR` completes the stream and `runAgent` resolves after `onRunFinalized`;
  `abortRun` aborts the latest run.
* The session service merges the delta of an appended event key by key.
* PostgreSQL rows are locked by `FOR UPDATE`; Firestore transforms and creates are
  atomic; S3 and GCS make an upload visible at once, a local rename is atomic.
* Model, speech and identity providers may answer, fail in each error class, or not answer.

## 3. Runs

Eight runs must hold. The first three check liveness under fairness too; the
others are about safety.

| Run | Bounds | Properties |
|---|---|---|
| `agui_stream` | 4 adapter events, 2 tracker events, 1 tick, 1 call | `TypeOK`, `TerminalLast`, `BlockedTurnSaysWhy`, `StageOrder`, `GeneratorCloses`, `ContractHolds` |
| `turn_stream` | 3 events, 1 tracker event, 1 tick, a visible and a privileged call | `WireClosed`, `PrivilegedWithheld`, `TurnEnds` |
| `client` | 2 turns, each with one tool call and its retries | `ClientTypeOK`, `SpinnerHasRun`, `CutTurnIsTold`, `SpinnerClears`, `ToolSuccessIsEarned` |
| `models` | budget: 2 slots, 3 calls, 2 periods, costs 1, 2, 4, cap 6, soft 4; llm: 2 agent calls on a chain of two, 1 tool call on two rungs, 1 retry, bench after 2 failures; histories of 4 parts; registry: 1 provider, 1 model, 2 workers, 5 edits; configuration: 2 processes, 2 threads, 2 writes; voice: 2 clients, 3 requests, 1 edit | `SpendIsLedger`, `CapHolds`, `ModelCallsSound`, `CachesTruthful` |
| `surfaces` | action: 3 submissions, 1 surface, 1 request id; state: 3 turns, 1 client request, 2 forms, 2 renders; pipe: 2 tool calls, 2 attachments, 2 requests; authored: 4 draws in 3 turns; tools: 1 contract, 2 sessions, 2 calls; payload: 3 mapper items, 1 review | `ActionTypeOK`, `ConfirmedOnce`, `RetryRunsOnce`, `TraceIsClaimed`, `SurfacesKept`, `PipelineWhole`, `ContractsSound`, `PositionKept` |
| `conversations` | index: 2 clients, 2 requests, 1 fault; queries: 4 rows in pages of 1, 1 move, 3 saves by 2 editors; views: 5 parts of 2 tools; compaction: 4 events, 3 compactions, 2 workers; channels: 4 channels, 1 delivery of 3 events, messages of 2 characters, 2 tries | `SelectionConsistent`, `HistoryHonest`, `NothingForgotten`, `RepliesWhole`, `RevisionsKept` |
| `access` | factory: 3 skills in several variants, 1 edit; policy: 2 policies, cache of 1, 2 edits; identity: 2 accounts, 2 logins, 4 operations, 2 keys; groups: 2 processes, 1 code, bucket of 2, 3 ticks, 5 operations, 1 fault; peers: 2 principals, 2 requests, 1 proxied call, 3 operations | `AccountsSound`, `PeersServed`, `ScopesKept`, `NothingUnauthorized` |
| `stores` | repository: 2 documents, 2 callers, 5 operations, pages of 1; users: 2 users, 5 operations; seed: 3 templates (1 unreadable, 1 durable), a listing of 3, 3 seeds of 2 releases, 1 edit; directory: 2 requests, 1 write; parsing: files of 4 units, limits 3 and 4; files: 2 requests, 3 operations; objects: 2 writers, 1 reader, 2 chunks, 3 uploads; buckets: 2 requests, 4 operations; thumbnails: 2 views, 1 parser, cache and semaphore of 1 | `RowsKept`, `SeedConverges`, `CatalogueSound`, `BytesWhole`, `ContractKept` |

The bounds are the least at which the cases in question happen. Four events are
a start, one body event, a terminal and something late; two tracker events are
the least that can be out of order; two turns are the least that share refs; a
third submission lets a duplicate meet both a form and a retry; cost 4 twice
exceeds the cap and 1 + 1 does not reach the soft limit. Two agent calls and a
threshold of two let one call bench the other's provider; a chain of two has a
last member that must be tried. Three compactions with two workers let a second
pass, delivered twice, meet a live one. Two chunks are the least that can be
torn; a cache and a semaphore of one are always full. A reply of three events is longer than a message, so it is cut. Three seeds of two
releases let one die, one repair and one be newer. The large runs have between
one and two million states each. Deadlock is not checked: every component may
legitimately stop (a closed generator, an idle client, settled requests, a
bound reached).

What the conjunctions say:

* `ModelCallsSound`: at most one attempt of a call shows output (`AnsweredOnce`); a call that
  fails met an error nobody could help with or has asked the last member
  (`GaveUpForCause`); a rewritten history is valid for every provider and is not rewritten again (`RewrittenIsValid`).
* `CachesTruthful`: `ReadyIsTested`, `ServedWasStored`, `SpokenAsAsked`, `ReplayIsFree`.
* `SurfacesKept`: `SubmittedFormIsRead`, `StatusIsReported`, `ReplayKeepsLayout`. `PositionKept` is the
  action property beside it: no write moves a stored surface.
* `PipelineWhole`: `RenderedWhole`, `PointerResolves`, `AttachmentsInPlace`, `PagesCoverDocument`.
* `ContractsSound`: `AnswersTheQuestion`, `FormsAppend`, `TimelineKept`, `PayloadHonest`.
* `HistoryHonest`: `SearchComplete`, `TraceTruthful`, `ResultsHonest`.
* `AccountsSound`: `AgentIsTheTurns`, `LoginBound`, `RefreshIsFresh`, `CodesSurvive`, `RateBounded`.
* `NothingUnauthorized`: `CallStep`, `ForwardStep`, `VerifyStep`, action properties about the
  moment of use; `ScopesKept`: `HandoffStep`, `CeilingStep`; `PeersServed`: `TasksOwned`, `FilesAccounted`.
* `RowsKept`: `PagesWhole`, `OnlyOwnRows`, `MemoryIsSnapshot`; `CatalogueSound`: `PendingIsExplained`,
  `BinariesHaveRows`, `EffectiveIsOwn`, `SharedOnly`; `BytesWhole`: `ReadsWhole`, `NothingPruned`,
  `ParsedWhole`, `SectionWhole`, `PdfiumAlone`.

Type invariants of the components stand in the conjunction of their group.

### Where the code departs from what it says

Four runs end in a counterexample (PROJECT.json, findings):

* `client_never_silent`: a turn cut before `RUN_STARTED` is judged by the previous turn's refs and shows nothing.
* `files_reach_agent`: a file a peer sends to an existing A2A session is stored, but the
  state delta that should announce it is not attached to the event's actions.
* `replay_keeps_agent_data`: after an `updateDataModel` and an `updateComponents` in one turn, a
  reload shows the client's data from before the turn.
* `heartbeat_is_silence`: a `TimeoutError` raised by the adapter is caught by the handler of the timed wait, and the pull that
  raised it is never replaced: heartbeats without end, or a busy loop after a terminal, and the generator never closes.

Four more show in the models; no run is spent on them:

* `map_ppa_obligations` takes any filled form of the session before it looks at a cache, so the
  form of one contract completes the analysis of another, whatever date or refresh was asked for.
* The handoff policy (`agent.py:663-669`) answers for the delegates of its own agent only, and ADK offers parent and peers
  too: a delegate at floor `auto` transfers to a peer at floor `confirm` without a card, and its stub answers.
* When the write of an upload's result, or of its failure, raises, or the request is cancelled or dies, the
  row stays pending (`upload.py:261-284`, `routes.py:286-311`): the page polls it as being parsed and offers no
  re-parse, though `upload.py:80` says that no upload waits without a worker.
* The memory and PostgreSQL repositories (`_document_ops.py:15`) compare the dotted filter `accessControl.type`
  with a top-level key, so the marketplace is empty there.

### Exceptions the properties make

`CutTurnIsTold` and `ToolSuccessIsEarned` speak of turns that ran alone: overlapping turns share
the refs, and the code makes no promise for them. `WireClosed` excepts a source that raised
after its terminal; `GeneratorCloses` and `TurnEnds` a source that ends with a `TimeoutError` (the run `heartbeat_is_silence`).
`AnswersTheQuestion` binds the anchor only of answers that no form was at hand for; `HandoffStep` speaks of transfers down the
tree, those to a parent or a peer are steps of the model too (above). `OnlyOwnRows` and `MemoryIsSnapshot` speak of memory in PostgreSQL:
the in-memory service, the default without `MEMORY_BACKEND` and an agent engine, and the Vertex service, the default with one, are in the model, but nothing in the
code compares the user they are given with the request's. `PendingIsExplained` admits a pending row whose upload was cut short (above). `ConfirmedOnce` and `RetryRunsOnce` except surfaces
re-rendered as another kind of artifact, since the key of the claim depends on it.
`CapHolds` needs calls that cost no more than projected; the enforcer settles
overruns afterwards. `SeedConverges` excepts seeds that overlap and `BinariesHaveRows` a delete
that overlaps the document's own upload; `StatusIsReported` a turn cut between its
report and its append; `RepliesWhole` a reply one of whose sends was lost.
`SurfacesKept` and `PositionKept` speak of a session whose turns run one after another (`Overlap = FALSE`):
a client keeps its composer closed while a turn runs, but nothing on the server stops a second tab, and with `Overlap = TRUE`
TLC finds two turns that create one surface over each other. `ReadsWhole` speaks of downloads through the local and S3 adapters; GCS reads a
live object in ranges. `SearchComplete` promises rows that did not move; the list of
conversations promises less (below). `StageOrder` speaks of marks, not of the heartbeat that may precede `RUN_STARTED`.
`SeedConverges` needs the platform's skills to fit into the one page its listing asks for (`SeedLimit`, 200 in the code): beyond
it a seed would create again what it did not see.

### Seen while modelling

Stronger statements that were tried with TLC and do not hold, or facts met on
the way, for readers who are about to change the code:

* Streaming: a silence tick yields a heartbeat ahead of `RUN_STARTED`; the action route adds a
  `RUN_ERROR` when the source raises after its terminal; a message sent during another's retry
  resets the shared retry counter; a blocked call keeps its budget hold until the period ends.
* Models: an agent build that races a registry edit can mix two states of the registry in its chain;
  deleting a provider while a model is being saved leaves a model without one; two
  administrators' updates of different fields can lose one, since each writes the whole merged document;
  the voice route always passes a provider, so `VOICE_TTS_PROVIDER` is never consulted; an unknown voice provider raises outside the route's `try`.
* Surfaces: a re-render and a client edit of one surface, and two actions' `lastAction`, are
  last-writer-wins; two calls of one tool in a turn share an artifact name, so the first pointer loads the
  second result; `app:emitted:*` left from an earlier run suppresses an extraction.
* Contract tools: caches are keyed by the document's identity, not its content, and
  `refresh` does not pass the extraction cache; a durable hit gives the process tier a new lifetime.
* Conversations: two deliveries of one second pass that overlap may both append a summary; the list of all
  conversations pages over rows that turns move, and can miss a moved one.
* Access: the cache key of the plain Root Agent contains a fresh timestamp, so its cache never hits;
  a document id minted by the A2A file path is refused by the document injector.
* Stores: the thumbnail cache's lookup and its move-to-end may race with an eviction (`KeyError`);
  the bucket thumbnail key has no version; concurrent creations may take the same slug or create two corpora; overlapping
  seeds may leave two skills of one template; `delete_bucket` says "Owner or admin only" and
  requires the owner; CSV places count the rows that are left after filtering; a section is matched by substring.

### Fairness

The event loop resumes a generator whose awaited task is done: weak fairness of
its steps. The adapter eventually answers a pull (providers time out). The
browser fires armed timers and resolves finished streams; a live stream comes to
its terminal or end, which the server owes it and, after a `TimeoutError` of the adapter, does not deliver; a dead one may stay dead. Nothing is assumed of users,
marks, heartbeats, disconnects or crashes. The other modules state no fairness and
claim no liveness: their requests may stop at any step, as after a crash.

## 4. Proofs

All for arbitrary constants under the named assumptions of the modules; none relies
on the bounds of the runs. Every inductive invariant was checked by TLC on the
runs' instances before it was proved. Where a property is not inductive, this is
what was missing.

### The turn path (`AguiStreamProofs`, `SkillAgentClientProofs`)

* `TerminalLast` is not inductive by itself, since the generator decides by flags.
  `StreamInv` adds that `terminalEventYielded` holds exactly when a terminal is on `out`,
  that `producedOutput` implies an answer on `out`, and, in `AnswerAccounted`, that
  while the run is open an answer shown or queued was counted, is in flight, or its
  call is owed; with `PhaseAgrees` (no `RUN_FINISHED` in flight while owed) this makes an
  `EMPTY_RUN` truthful. From it: `TerminalIsLast`, `BlockedIsTyped` and the refinement
  `ImplementsContract`, where every step is a stutter, a `Show` or a `Close` of the contract.
* `StagesInOrder`: each queue a stage mark passes through holds consecutive numbers, the buffer the lowest
  and the tracker's queue the highest, and what left them stands on `out` (`OrderInv`).
* `TurnInv` puts the routes around it: before the gates nothing is written and nothing
  has run (`Untouched`), a terminal on an open wire is its last frame and the generator knows
  it (`OpenWire`), and every call the redaction knows by name was announced
  (`NamesSeen`). Hence `WireIsClosed` and `ResultsAreWithheld`.
* Client: for a turn in flight that never overlapped another, the refs
  speak of that turn (`RefsSpeakOf`, `AloneInv`); this is what `CutIsTold` and `ToolsAreHonest`
  rest on. `SpinnerIsHonest` holds for overlapping turns too.

### Model calls (`ModelProofs`)

* Budget: while a slot's model works on a call, the closure's consultation is that call, its
  hold is the ledger's entry and no other slot works on it (`InFlight`), so `Record` releases what
  `consult` charged. Sums over calls are a recursive function, characterised by `IsSum`.
* Resilient calls: what a call has shown it showed in the attempt it is at, and it only moves to
  another attempt before it shows any (`CallSound`). That no bench costs a call its answer
  rests on the last member being tried whatever its health.
* Tool histories: the walk of the sanitizer over the first `n` parts (`WalkSound`): every call kept has an
  identifier of its own, taken from the history or made up beyond the counter; what
  waits is a kept call without a response. That a rewritten history is left alone follows from its being
  fully identified. `RewriteIsValid` holds for histories of any length.
* Registry, configuration, voice: a recorded probe that passed was live in the
  configuration of its fingerprint (`PassedIsLive`); every copy of the policy a process holds, or a
  request is about to cache, was stored (`ConfigInv`); an object in the audio bucket is what its key asks for (`VoiceInv`).

### Surfaces (`SurfaceProofs`)

* Admission: every submission past its claim left its key in `claims`, and no
  two hold the same key (`ClaimInv`); hence `FormRunsOnce`, `RetrySafe`, `LosersLeaveNoTrace`.
* Session state: a running turn holds every entry that is stored at the place it is stored at,
  so does a request that will write one back, and a plan is what the turn's delta or else the store has (`HoldsEntries`,
  `PostsEntry`, `HoldsPlans`). `PlaceIsKept`, `FormsAndStatus` and `SurfacesAreKept` assume `~Overlap`, as the
  run does: with overlapping turns the first is false (section 3).
* Authored surfaces: the stored messages replay to the layout on screen (`Alike`), step by step of `Processed`.
* Contract tools: what stands in a cache tier is what its key names, also while forms are filled and answered past it; a call has made what it was asked, and every form
  that is out, or about to go out, has a number of its own (`ToolsInv`). Payload: the events are the mapper's in
  calendar order through a bijection (`TimelineKept`), and a knob's source stays true through reviews.
* Tool pipeline: each call goes through its states with its own tool and result, pushed at most once; a batch of calls is answered next to it;
  what a page has read is a prefix of the document (`PushesFollow`, `EventsFollow`, `PagesFollow`).

### Conversations (`ConversationProofs`)

* `SelectionAgrees`: there is a row whenever a request is past the point where it saw one, and a patch
  writes selection and tabs together or neither (`ClientsHold`).
* `RevisionsAreKept`: an editor was opened on a revision that is there, so a conflicting save fails.
* `SearchIsComplete`: what a search still waits to look at stands in descending order and a row can only have moved up since (`Waits`);
  what it has shown lies above everything it waits for (`Passed`); a listed row that did not move is
  shown, waiting or below the cursor (`Reached`). Positions are distinct, so a page has one order.
* `TraceIsTruthful`: a response answers an earlier call of its tool, alone, under the call's identifier or under none (`LogHolds`). A response
  without an identifier goes to the first call left over; comparing the ranks of leftover calls and queued
  responses (`RanksCount`, `RankedFirst`) shows that as many calls end green as answers came and that none is paired with an earlier response.
* `NothingIsForgotten`: whatever claims a range of events, a stored summary or one being written, was derived from all of
  it (`SummaryInv`). A superseded summary's claim lies within the claim that supersedes it.
* `RepliesAreWhole`: during a run the posts are surfaces and the words are in the text collected so far (`Collecting`); on the
  way out, what is shown and what is still to be sent make up the reply (`Outgoing`). Cutting a text loses blanks
  only (`Alike`), whatever the limit, and each piece fits.
* `HistoryIsHonest` and `ConversationsAreKept` put these into the composed system.

### Access (`AccessProofs`)

* Root policy: a cached agent's key is the key of the turn it was built for, and the permission enforcer reads the policy,
  the account and the server list when it is called (`PolicyInv`); hence `CallsAreAuthorized`, however old the agent.
* Groups: a code that was handed out is stored or still held by whoever created it, and every copy a process caches
  is the stored record (`GroupInv`); a bucket is refilled up to its capacity only.
* Identity: a login holds the transaction it began, and a key set being fetched is at least as new as the fetch
  (`IdentityInv`).
* Peers: a task a request is about to save carries the scope it was dispatched under, and of a message's parts those behind the
  cursor are kept, stored or reported (`PeerInv`).
* Agent trees: what a list becomes is followed entry by entry. A delegate that is reached was named by a
  rule that some declaration gives (`RulesReach`, `AutoIsDeclared`), a wired one is a stub or, at the floor `auto`, the agent made
  of its skill behind one caller more (`DelegatesAreWired`, `SubIs`). `HandoffStep` follows two levels down (`HandoffTree`); that whoever
  answers stands in the tree needs the path of transfers to be a branch of it, up, down and sideways (`RootedBy`, `RootedEnds`), in trees closed under `auto` (`TreesClosed`). Under the
  Root Agent a composed skill has no delegates of its own and no tools but the policy's and the factory's (`RootTree`).

### Stores (`StoreProofs`)

* Repository: a caller between its read and its write holds the row lock and what it read is the row (with PostgreSQL), so
  each step is a step of `DocumentContract` or leaves it alone: `ContractIsKept`, and as a refinement `RepositoryRefines`.
* Paging: the scan order holds each stored document once (`ScanOf`), so descending order has one outcome (`SortedRows`), a page begins
  right after the cursor (`PageFollows`), and the pages read of a resting collection join to its first rows (`Stands`, `PageJoins`);
  the last page is the one shorter than the limit, and then nothing is missing or read twice (`PagesAreWhole`).
* Seeds: as long as seeds have not overlapped there is one seeder; the rows of the templates it still has to do are those it
  listed, and those it has done have one row each (`OneSeeder`, `OneEach`, `Follows`).
* Users: a row of the platform's own stores carries in its key the user it was written for, and a replacement that is alone knows what it has
  written so far (`RowsOwned`, `ReplacementFollows`); the other memory services touch memory only (`ElsewhereKeeps`).
* Documents: an upload that stored its result left no pending row, only a delete takes its row away (`UploadRows`), a delete racing an upload is on record, one about to
  remove a row has removed the binary, and a library reference is never uploaded (`ParsedOnce`, `DeletesMarked`, `RowsLast`, `ReferencesApart`).
* Directory: every copy of a skill, in a cache, a card, a registry or a request in flight, has the
  visibility it had at a time the clock and `publicAt` still remember; a slug names one skill, by a pigeonhole argument over the tried suffixes.
* Objects: an upload in flight holds a prefix of one version, its temporary file keeps its directory; versions in flight differ.
* Parsing: the places of the filled units ascend and an ascending sequence over a set is unique (`InOrderIs`, `OneOrder`); the blocks
  of every format cut that sequence (`AllRead`), the tables of a CSV after every `RowsPerTable` rows (`LastRows`), and cuts join to the
  whole (`CutsJoin`). A section is the cut from its heading to the next one (`SectionIsCut`, `CutIsSection`). Hence
  `FilesAreParsedWhole` and, with objects and PDFium, `BytesAreWhole`.
* Thumbnails: the lock's holder is the thread inside PDFium, for any number of threads.

### Composition and assumptions

A behaviour of a composed specification is a behaviour of each of its parts, since
parts share no variable (`SurfacesInParts`, `StoresInParts` and the like), so the properties of the
runs (`SurfacesAreKept`, `HistoryIsHonest`, `RowsAreKept`, `BytesAreWhole`, `AccessScopesKept` and the others) follow from those of the components. The assumptions on constants are what the code
gives: bounds are naturals; `None` is no document, row, request, job or message; a collection is finite; attachments are a list without
duplicates, which `validate_selection` ensures; templates fit into one page of the listing; every tool mapping names its tools; threads that render are not threads that parse.

### Only model-checked

* Liveness (`GeneratorCloses`, `TurnEnds`, `SpinnerClears`): needs fairness and `ENABLED`.
* The eight properties that runs refute.

Every invariant and every safety action property of a run that must hold is stated by a theorem. What recursion over data
computes (flattened lists, the letters of a text, sums over calls) is characterised for all
inputs: its solution exists and is unique by induction for a set of numbers (`UpTo`, `RecursionExists`).

## 5. Not modelled, and the plan

Data (texts, payloads, prompts, prices), formatting, logs and metrics are
abstracted away everywhere. Left out as components: the A2UI renderers and the
other agent tools (formatting and prompts around one call, no state), the usage
and analytics reports (read-only), the fixtures and smoke scripts, the command
line client and the frontend's views. `tidyingUp` of the client is modelled but has no
property: a summary that fails leaves the notice on screen until the thread changes. Tokens without
a `kid` (`oidc.py:286-311`: the only candidate key, or none) are not modelled; every token names its key.

Next, in this order:

1. `WireToClient`: `TurnStream` composed with `SkillAgentClient`, so that what the client
   assumes of the wire is what the routes produce.
2. Turns of one session that overlap (`Overlap = TRUE`): what the server would have to check for `PositionKept` to hold.
