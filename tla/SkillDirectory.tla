--------------------------- MODULE SkillDirectory ---------------------------
(***************************************************************************)
(* The skill catalogue: rows in the document store, a 60 s cache of rows   *)
(* in every process, and the two discovery surfaces derived from the       *)
(* public rows, the A2A agent card (cached per time bucket) and the MCP    *)
(* tool registry (rebuilt after every mutation).  Requests of several      *)
(* processes interleave at every store access.                             *)
(*                                                                         *)
(* skills/skill_config.py, skills/routes.py, skills/slugify.py,            *)
(* skills/visibility.py, protocols/a2a.py, protocols/mcp_server.py         *)
(***************************************************************************)
EXTENDS Integers, Sequences, FiniteSets, SequencesExt, Store

CONSTANTS
    Processes,      \* server processes
    Requests,       \* requests that may be in flight together
    Owners,         \* signed-in users
    PlatformUser,   \* the owner of platform skills
    PlatformAdmin,  \* a user that holds the platform admin tag
    Slugs,          \* slugs a client may ask for
    Backend,        \* "firestore", "postgres" or "memory"
    SkillTtl,       \* ticks in the 60 s of both caches
    MaxSkillTicks,  \* ticks in a behaviour
    MaxSkillWrites  \* mutating requests in a behaviour

SkillIds == 0 .. MaxSkillWrites          \* 0 exists at the start; a create draws a fresh id
Peer == "mcp-caller"                    \* the synthetic caller of MCP invocations
Asks == {<<>>, <<"a2a-v0.2", "unheard-of">>}    \* X-A2A-Extensions of a request

\* A row of the catalogue, a cached one, and a request under way.
SkillDoc == [owner : Owners \cup {PlatformUser}, public : BOOLEAN,
             slug : {None} \cup (Slugs \X (1 .. Cardinality(SkillIds) + 2))]
CachedSkill == [at : Nat, doc : SkillDoc]
SkillJob ==
    [op : {"get", "fork", "update", "delete", "invoke", "create", "card"},
     at : {"fill", "have", "insert", "save", "remove", "list", "sync", "reread", "refill", "card"},
     proc : Processes, user : Owners \cup {Peer}, skill : SkillIds \cup {-1},
     doc : SkillDoc \cup {None}, listing : SUBSET SkillIds, asked : Asks]

ASSUME DirectoryAssumption ==
    /\ SkillTtl \in Nat \ {0} /\ MaxSkillTicks \in Nat /\ MaxSkillWrites \in Nat
    /\ Backend \in {"firestore", "postgres", "memory"}
    /\ PlatformUser \notin Owners /\ PlatformAdmin \in Owners
    /\ None \notin SkillDoc \cup CachedSkill \cup SkillJob

VARIABLES
    skillDocs,   \* the skills collection: id -> None or [owner, slug, public]
    skillCache,  \* per process, id -> None or [at, doc]
    cardCache,   \* per process, the cards built: [bucket, exts, skills]
    mcpTools,    \* per process, the skills registered as MCP tools
    job,         \* request -> None or its progress
    served,      \* the answer the last step gave, or None: [others, asked, exts], where
                 \* others are the skills in it that the caller does not own
    skillClock,  \* ticks so far
    writes,      \* mutating requests so far
    publicAt     \* history: the last tick at which each skill was public, or -1

directoryVars == <<skillDocs, skillCache, cardCache, mcpTools, job, served, skillClock,
                   writes, publicAt>>

Extensions == <<"a2ui-v0.9", "a2ui-basic-catalog-v0.9", "a2ui-inline-pattern",
                "a2ui-decoupled-pattern", "a2a-v0.2", "mcp-apps-v1", "adk-workflow-v1">>

(***************************************************************************)
(* Reading the store.                                                      *)
(***************************************************************************)

\* The repository's own filters look a field up by its whole name, so a
\* nested one ("accessControl.type") is found by Firestore alone.
MatchesFilters(doc) == Backend = "firestore" /\ doc.public

\* list_marketplace: the public skills.
ListMarketplace == {s \in SkillIds : skillDocs[s] # None /\ MatchesFilters(skillDocs[s])}

CanAccessSkill(user, doc) == doc.public \/ doc.owner = user
VisibleConfigs(user) ==
    {s \in SkillIds : skillDocs[s] # None /\ CanAccessSkill(user, skillDocs[s])}

\* Editing: a platform skill takes the platform admin, any other its owner (or
\* a skill admin, which the platform admin is).
MayEdit(user, doc) ==
    user = PlatformAdmin \/ (doc.owner # PlatformUser /\ doc.owner = user)

SlugTaken(owner, slug, self) ==
    \E s \in {u \in SkillIds : u # self} : /\ skillDocs[s] # None
                                 /\ skillDocs[s].owner = owner /\ skillDocs[s].slug = slug

\* unique_slug: the base, or the first numbered suffix that is free.
UniqueSlug(owner, base, self) ==
    IF ~SlugTaken(owner, <<base, 1>>, self) THEN <<base, 1>>
    ELSE <<base, CHOOSE n \in 2 .. Cardinality(SkillIds) + 2 :
                     /\ ~SlugTaken(owner, <<base, n>>, self)
                     /\ \A k \in 2 .. n - 1 : SlugTaken(owner, <<base, k>>, self)>>

(***************************************************************************)
(* The caches of a process.                                                *)
(***************************************************************************)

(* Faulty variant of Lapsed: a row in the cache is served for ever.         *)
LapsedNever(entry, now) == FALSE

\* A row is served for SkillTtl ticks; one that has lapsed is dropped as the
\* clock moves, which no reader can tell from dropping it when it is read.
Lapsed(entry, now) == entry # None /\ now - entry.at >= SkillTtl
CacheGet(p, s) == IF skillCache[p][s] = None THEN None ELSE skillCache[p][s].doc

CacheSet(p, s, doc) ==
    skillCache' = [skillCache EXCEPT ![p][s] = [at |-> skillClock, doc |-> doc]]

TimeBucket == skillClock \div SkillTtl
NegotiateExtensions(asked) ==
    IF asked = <<>> THEN Extensions
    ELSE SelectSeq(asked, LAMBDA e : e \in ToSet(Extensions))
CachedCard(p, exts) ==
    {c \in cardCache[p] : c.bucket = TimeBucket /\ c.exts = exts}

\* A mutation drops the row and every card of its own process.
CacheInvalidate(p, s) ==
    /\ skillCache' = [skillCache EXCEPT ![p][s] = None]
    /\ cardCache' = [cardCache EXCEPT ![p] = {}]

(***************************************************************************)
(* Requests.  A job is at one of the steps                                 *)
(*   fill     a row was read from the store and is about to be cached      *)
(*   have     the row is at hand                                           *)
(*   insert, save, remove   the write is next                              *)
(*   list     the tool registry is about to be rebuilt                     *)
(*   sync     the public skills were listed for the registry               *)
(*   reread, refill   an update reads its row back and caches it           *)
(*   card     the public skills were listed for a card                     *)
(***************************************************************************)

Job(op, p, user, s, doc, at) ==
    [op |-> op, proc |-> p, user |-> user, skill |-> s, doc |-> doc, at |-> at,
     listing |-> {}, asked |-> <<>>]
Start(r, j) == job[r] = None /\ job' = [job EXCEPT ![r] = j]
At(r, steps) == job[r] # None /\ job[r].at \in steps
Go(r, step) == job' = [job EXCEPT ![r].at = step]
Drop(r) == job' = [job EXCEPT ![r] = None]
Answer(others) == served' = [others |-> others, asked |-> <<>>, exts |-> <<>>]
Silent == served' = None
Write(docs) ==
    /\ skillDocs' = docs
    /\ publicAt' = [s \in SkillIds |->
           IF docs[s] # None /\ docs[s].public THEN skillClock ELSE publicAt[s]]

\* get_skill for a route, a stream or an MCP call: the cached row, or a store
\* read that is cached in a later step.  A missing skill is a 404.
GetSkill(r, op, p, user, s) ==
    /\ op \in {"get", "fork", "update", "delete"} => user \in Owners
    /\ op = "invoke" => user = Peer
    /\ op \in {"update", "delete"} => writes < MaxSkillWrites
    /\ \/ /\ CacheGet(p, s) # None
          /\ Start(r, Job(op, p, user, s, CacheGet(p, s), "have"))
       \/ /\ CacheGet(p, s) = None /\ skillDocs[s] # None
          /\ Start(r, Job(op, p, user, s, skillDocs[s], "fill"))
    /\ writes' = IF op \in {"update", "delete"} THEN writes + 1 ELSE writes
    /\ Silent /\ UNCHANGED <<skillDocs, skillCache, cardCache, mcpTools, skillClock, publicAt>>

\* An MCP tool call runs its skill as the synthetic caller; the tool exists as
\* long as the process has it registered.
InvokeTool(r, p, s) == s \in mcpTools[p] /\ GetSkill(r, "invoke", p, Peer, s)

\* A slug resolves in the caller's namespace, then in the platform's; the row
\* found is cached as well.
ResolveSkillRef(r, p, user, slug) ==
    /\ user \in Owners
    /\ \E owner \in {user, PlatformUser}, s \in SkillIds :
           /\ owner = PlatformUser => ~SlugTaken(user, <<slug, 1>>, -1)
           /\ skillDocs[s] # None /\ skillDocs[s].owner = owner
           /\ skillDocs[s].slug = <<slug, 1>>
           /\ Start(r, Job("get", p, user, s, skillDocs[s], "fill"))
    /\ Silent
    /\ UNCHANGED <<skillDocs, skillCache, cardCache, mcpTools, skillClock, writes, publicAt>>

FillCache(r) ==
    /\ At(r, {"fill"})
    /\ CacheSet(job[r].proc, job[r].skill, job[r].doc)
    /\ Go(r, "have")
    /\ Silent /\ UNCHANGED <<skillDocs, cardCache, mcpTools, skillClock, writes, publicAt>>

\* The reads: the skill route, the effective-access report and a stream or
\* MCP call all serve a visible skill and 404 the rest.
ServeSkill(r) ==
    /\ At(r, {"have"}) /\ job[r].op \in {"get", "invoke"}
    /\ IF CanAccessSkill(job[r].user, job[r].doc)
       THEN Answer(IF job[r].doc.owner = job[r].user THEN {} ELSE {job[r].skill}) ELSE Silent
    /\ Drop(r)
    /\ UNCHANGED <<skillDocs, skillCache, cardCache, mcpTools, skillClock, writes, publicAt>>

\* GET /api/skills and the marketplace read the store directly.
ListSkills(user) ==
    /\ Answer({s \in VisibleConfigs(user) : skillDocs[s].owner # user})
    /\ UNCHANGED <<skillDocs, skillCache, cardCache, mcpTools, job, skillClock, writes, publicAt>>

ListMarketplaceRoute ==
    /\ Answer(ListMarketplace)
    /\ UNCHANGED <<skillDocs, skillCache, cardCache, mcpTools, job, skillClock, writes, publicAt>>

(***************************************************************************)
(* Mutations.                                                              *)
(***************************************************************************)

\* POST: the slug is chosen by a query; the insert is a later step.
CreateSkill(r, p, user, slug, public) ==
    /\ user \in Owners /\ writes < MaxSkillWrites
    /\ Start(r, Job("create", p, user, writes + 1,
                    [owner |-> user, slug |-> UniqueSlug(user, slug, -1), public |-> public],
                    "insert"))
    /\ writes' = writes + 1
    /\ Silent /\ UNCHANGED <<skillDocs, skillCache, cardCache, mcpTools, skillClock, publicAt>>

\* A fork is a private copy without a slug.
ForkSkill(r) ==
    /\ At(r, {"have"}) /\ job[r].op = "fork" /\ writes < MaxSkillWrites
    /\ \/ /\ ~CanAccessSkill(job[r].user, job[r].doc) /\ Drop(r) /\ UNCHANGED writes
       \/ /\ CanAccessSkill(job[r].user, job[r].doc)
          /\ job' = [job EXCEPT ![r] = Job("create", job[r].proc, job[r].user, writes + 1,
                         [owner |-> job[r].user, slug |-> None, public |-> FALSE], "insert")]
          /\ writes' = writes + 1
    /\ Silent /\ UNCHANGED <<skillDocs, skillCache, cardCache, mcpTools, skillClock, publicAt>>

InsertSkill(r) ==
    /\ At(r, {"insert"})
    /\ Write([skillDocs EXCEPT ![job[r].skill] = job[r].doc])
    /\ CacheSet(job[r].proc, job[r].skill, job[r].doc)
    /\ cardCache' = [cardCache EXCEPT ![job[r].proc] = {}]
    /\ Go(r, "list")
    /\ Silent /\ UNCHANGED <<mcpTools, skillClock, writes>>

\* PUT: refused when invisible or not editable, or when another skill of the
\* owner has the slug; otherwise the requested fields are about to be saved.
UpdateSkill(r, slug, public) ==
    /\ At(r, {"have"}) /\ job[r].op = "update"
    /\ LET doc == job[r].doc
           refused == \/ ~CanAccessSkill(job[r].user, doc) \/ ~MayEdit(job[r].user, doc)
                      \/ slug # None /\ SlugTaken(doc.owner, <<slug, 1>>, job[r].skill)
       IN IF refused THEN Drop(r)
          ELSE job' = [job EXCEPT ![r].at = "save",
                           ![r].doc = [owner |-> doc.owner, public |-> public,
                                       slug |-> IF slug = None THEN None ELSE <<slug, 1>>]]
    /\ Silent
    /\ UNCHANGED <<skillDocs, skillCache, cardCache, mcpTools, skillClock, writes, publicAt>>

\* The write merges the requested fields (a slug only when one was given).  A
\* row deleted meanwhile makes the update raise.
SaveSkill(r) ==
    /\ At(r, {"save"})
    /\ LET s == job[r].skill IN
       \/ /\ skillDocs[s] = None /\ Drop(r)
          /\ UNCHANGED <<skillDocs, skillCache, cardCache, publicAt>>
       \/ /\ skillDocs[s] # None
          /\ Write([skillDocs EXCEPT ![s].public = job[r].doc.public,
                        ![s].slug = IF job[r].doc.slug = None THEN @ ELSE job[r].doc.slug])
          /\ CacheInvalidate(job[r].proc, s)
          /\ Go(r, "list")
    /\ Silent /\ UNCHANGED <<mcpTools, skillClock, writes>>

DeleteSkill(r) ==
    /\ At(r, {"have"}) /\ job[r].op = "delete"
    /\ IF CanAccessSkill(job[r].user, job[r].doc) /\ MayEdit(job[r].user, job[r].doc)
       THEN Go(r, "remove") ELSE Drop(r)
    /\ Silent
    /\ UNCHANGED <<skillDocs, skillCache, cardCache, mcpTools, skillClock, writes, publicAt>>

RemoveSkill(r) ==
    /\ At(r, {"remove"})
    /\ Write([skillDocs EXCEPT ![job[r].skill] = None])
    /\ CacheInvalidate(job[r].proc, job[r].skill)
    /\ Go(r, "list")
    /\ Silent /\ UNCHANGED <<mcpTools, skillClock, writes>>

\* rebuild_tools: list, then make the registry match the list.  A failed
\* listing leaves the registry as it is.
RebuildTools(r) ==
    /\ \/ /\ At(r, {"list"})
          /\ \/ job' = [job EXCEPT ![r].at = "sync", ![r].listing = ListMarketplace]
             \/ Go(r, "reread")
          /\ UNCHANGED mcpTools
       \/ /\ At(r, {"sync"})
          /\ mcpTools' = [mcpTools EXCEPT ![job[r].proc] = job[r].listing]
          /\ Go(r, "reread")
    /\ Silent /\ UNCHANGED <<skillDocs, skillCache, cardCache, skillClock, writes, publicAt>>

\* An update reads its row back and caches it; other mutations are done.
ReadBack(r) ==
    /\ \/ /\ At(r, {"reread"})
          /\ IF job[r].op = "update" /\ skillDocs[job[r].skill] # None
             THEN job' = [job EXCEPT ![r].at = "refill", ![r].doc = skillDocs[job[r].skill]]
             ELSE Drop(r)
          /\ UNCHANGED skillCache
       \/ /\ At(r, {"refill"})
          /\ CacheSet(job[r].proc, job[r].skill, job[r].doc)
          /\ Drop(r)
    /\ Silent /\ UNCHANGED <<skillDocs, cardCache, mcpTools, skillClock, writes, publicAt>>

(***************************************************************************)
(* The agent card.                                                         *)
(***************************************************************************)

AnswerCard(asked, skills, exts) ==
    served' = [others |-> skills, asked |-> asked, exts |-> exts]

\* A card of this bucket and these extensions is served from the cache; a miss
\* lists the public skills (none when the query fails).
AgentCard(r, p, asked) ==
    /\ job[r] = None
    /\ LET exts == NegotiateExtensions(asked)
           hit == CachedCard(p, exts)
       IN \/ /\ hit # {}
             /\ \E c \in hit : AnswerCard(asked, c.skills, c.exts)
             /\ UNCHANGED job
          \/ /\ hit = {}
             /\ \E listing \in {ListMarketplace, {}} :
                    job' = [job EXCEPT ![r] = [Job("card", p, Peer, -1, None, "card")
                                               EXCEPT !.listing = listing, !.asked = asked]]
             /\ Silent
    /\ UNCHANGED <<skillDocs, skillCache, cardCache, mcpTools, skillClock, writes, publicAt>>

\* The card is stored after it is built, whatever was cleared in between; a
\* card stored meanwhile under the same key stays.
BuildCard(r) ==
    /\ At(r, {"card"})
    /\ LET exts == NegotiateExtensions(job[r].asked)
           card == [bucket |-> TimeBucket, exts |-> exts, skills |-> job[r].listing]
       IN /\ cardCache' = [cardCache EXCEPT ![job[r].proc] =
                               IF CachedCard(job[r].proc, exts) # {} THEN @ ELSE @ \cup {card}]
          /\ AnswerCard(job[r].asked, card.skills, exts)
    /\ Drop(r)
    /\ UNCHANGED <<skillDocs, skillCache, mcpTools, skillClock, writes, publicAt>>

\* Requests are short against a tick, so none is in flight when one passes.
SkillTick ==
    /\ skillClock < MaxSkillTicks /\ \A r \in Requests : job[r] = None
    /\ skillClock' = skillClock + 1
    /\ publicAt' = [s \in SkillIds |->
           IF skillDocs[s] # None /\ skillDocs[s].public THEN skillClock + 1 ELSE publicAt[s]]
    /\ skillCache' = [p \in Processes |-> [s \in SkillIds |->
           IF Lapsed(skillCache[p][s], skillClock + 1) THEN None ELSE skillCache[p][s]]]
    /\ cardCache' = [p \in Processes |->
           {c \in cardCache[p] : c.bucket = (skillClock + 1) \div SkillTtl}]
    /\ Silent
    /\ UNCHANGED <<skillDocs, mcpTools, job, writes>>

DirectoryInit ==
    \E owner \in {PlatformUser, PlatformAdmin} :
        /\ skillDocs = [t \in SkillIds |->
               IF t = 0 THEN [owner |-> owner, slug |-> None, public |-> TRUE] ELSE None]
        /\ skillCache = [p \in Processes |-> [t \in SkillIds |-> None]]
        /\ cardCache = [p \in Processes |-> {}]
        /\ mcpTools = [p \in Processes |-> ListMarketplace]
        /\ job = [r \in Requests |-> None] /\ served = None
        /\ skillClock = 0 /\ writes = 0
        /\ publicAt = [t \in SkillIds |-> IF t = 0 THEN 0 ELSE -1]

DirectoryNext ==
    \/ \E r \in Requests, p \in Processes, s \in SkillIds :
           \/ \E user \in Owners, op \in {"get", "fork", "update", "delete"} :
                  GetSkill(r, op, p, user, s)
           \/ InvokeTool(r, p, s)
    \/ \E r \in Requests, p \in Processes, user \in Owners, slug \in Slugs :
           \/ ResolveSkillRef(r, p, user, slug)
           \/ \E public \in BOOLEAN : CreateSkill(r, p, user, slug, public)
    \/ \E r \in Requests :
           \/ FillCache(r) \/ ServeSkill(r) \/ ForkSkill(r) \/ InsertSkill(r)
           \/ \E slug \in Slugs \cup {None}, public \in BOOLEAN : UpdateSkill(r, slug, public)
           \/ SaveSkill(r) \/ DeleteSkill(r) \/ RemoveSkill(r)
           \/ RebuildTools(r) \/ ReadBack(r) \/ BuildCard(r)
           \/ \E p \in Processes, asked \in Asks : AgentCard(r, p, asked)
    \/ \E user \in Owners : ListSkills(user)
    \/ ListMarketplaceRoute
    \/ SkillTick

DirectorySpec == DirectoryInit /\ [][DirectoryNext]_directoryVars

(***************************************************************************)
(* Properties.                                                             *)
(***************************************************************************)

\* Every document, cached or stored, belongs to somebody, and the caches,
\* registries and in-flight requests of all processes range over known skills.
DirectoryTypeOK ==
    /\ skillDocs \in [SkillIds -> SkillDoc \cup {None}]
    /\ skillCache \in [Processes -> [SkillIds -> CachedSkill \cup {None}]]
    /\ mcpTools \in [Processes -> SUBSET SkillIds]
    /\ job \in [Requests -> SkillJob \cup {None}]
    /\ skillClock \in 0 .. MaxSkillTicks /\ writes \in 0 .. MaxSkillWrites
    /\ publicAt \in [SkillIds -> -1 .. skillClock]

\* Whatever is served to somebody who does not own it (a skill, a list, an MCP
\* answer, an agent card) was shared within the cache lifetime, across all
\* processes and interleavings; and a card carries exactly the extensions that
\* its own request negotiated.
SharedOnly ==
    served # None =>
        /\ \A s \in served.others : publicAt[s] >= 0 /\ skillClock - publicAt[s] < SkillTtl
        /\ served.exts # <<>> => served.exts = NegotiateExtensions(served.asked)
=============================================================================
