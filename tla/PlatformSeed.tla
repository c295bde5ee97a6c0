---------------------------- MODULE PlatformSeed ----------------------------
(***************************************************************************)
(* Seeding: the platform's skills from the templates of a release, the     *)
(* wildcard tool permission, the registry of MCP servers.  Seeds run from  *)
(* the deploy hook and from an operator's shell; they write document by    *)
(* document, may die half way and are run again, and administrators edit   *)
(* the same documents.                                                     *)
(*                                                                         *)
(* admin/platform_seed.py, admin/routes.py, scripts/seed_skills.py,        *)
(* scripts/seed_mcp_servers.py, scripts/seed_tool_permissions.py,          *)
(* scripts/cleanup_legacy_platform_seeds.py                                *)
(***************************************************************************)
EXTENDS Naturals, FiniteSets, Store

CONSTANTS
    Templates,      \* template names
    Unparseable,    \* the templates whose SKILL.md does not parse
    Demos,          \* the templates that are demo skills
    IncludeDemos,   \* _INCLUDE_DEMO_SKILLS
    SeedLimit,      \* most rows a listing of an owner's skills returns
    Durable,        \* the templates with a platform skill managed_by "firestore"
    Seeders,        \* runs of the seeder that may overlap
    Registrars,     \* runs of the MCP seed script that may overlap
    MaxSeeds,       \* seeds and script runs in a behaviour
    MaxReleases,    \* releases in a behaviour
    MaxSeedEdits    \* edits by administrators in a behaviour

\* The templates, and the skills kept beside them, fit in one listing.
ASSUME SeedAssumption ==
    /\ {SeedLimit, MaxSeeds, MaxReleases, MaxSeedEdits} \subseteq Nat
    /\ Templates # {} /\ Durable \subseteq Templates
    /\ IsFiniteSet(Templates) /\ Cardinality(Templates) <= SeedLimit

VARIABLES
    platformRows,   \* skills: [id, name, owner, managed, body, slug] records; body 0 is no release's
    rowIds,         \* ids given out
    release,        \* the deployed release, whose number its templates carry
    grants,         \* tool_permissions: document -> None or [tools, by]
    serverRows,     \* mcp_servers: [map, toolbox, maps], None or [url, scope]
    seeders,        \* seeder -> None or [at, dry, body, seen, todo, failed]
    registrar,      \* registrar -> None or [at, to]
    overlapped,     \* two seeds have run at once, or an administrator edited under one
    seedCount, seedEdits

seedVars == <<platformRows, rowIds, release, grants, serverRows, seeders, registrar, overlapped,
              seedCount, seedEdits>>

GrantIds == {"*", "one", "domain", "user"}
Owned(owner) == {r \in platformRows : r.owner = owner}

SeedInit ==
    /\ platformRows = {[id |-> <<"kept", n>>, name |-> n, owner |-> "platform", managed |-> "firestore",
                        body |-> 0, slug |-> TRUE] : n \in Durable}
                      \cup {[id |-> <<"old", n>>, name |-> n, owner |-> "previous", managed |-> "template",
                             body |-> 0, slug |-> FALSE] : n \in {CHOOSE n \in Templates : TRUE}}
    /\ rowIds = 0 /\ release = 1
    /\ grants = [g \in GrantIds |-> None]
    /\ serverRows \in [map : {None, [url |-> "deployed", scope |-> None]}, toolbox : {None}, maps : {None}]
    /\ seeders = [s \in Seeders |-> None]
    /\ registrar = [o \in Registrars |-> None]
    /\ overlapped = FALSE
    /\ seedCount = 0 /\ seedEdits = 0

(***************************************************************************)
(* The platform seeder.                                                    *)
(***************************************************************************)

\* The owner's email: configured, the local default, or (None) a refusal to seed.
ResolveOwnerEmail(email, localMode) ==
    IF email # None THEN email ELSE IF localMode THEN "platform@localhost" ELSE None

\* A template parses into the body of its release, or raises.
ParseTemplate(n, body) == IF n \in Unparseable THEN None ELSE body
Offered == IF IncludeDemos THEN Templates ELSE Templates \ Demos

SeederAt(s, at) == seeders[s] # None /\ seeders[s].at = at
Goes(s, at) == seeders' = [seeders EXCEPT ![s].at = at]
Alone(s) == \A o \in Seeders \ {s} : seeders[o] = None

SeedBegins(s, email, localMode, dry) ==
    /\ seeders[s] = None /\ seedCount < MaxSeeds
    /\ ResolveOwnerEmail(email, localMode) # None
    /\ seeders' = [seeders EXCEPT ![s] = [at |-> "wildcard", dry |-> dry, body |-> release,
                                          seen |-> {}, todo |-> {}, failed |-> {}]]
    /\ seedCount' = seedCount + 1
    /\ overlapped' = (overlapped \/ ~Alone(s))
    /\ UNCHANGED <<platformRows, rowIds, release, grants, serverRows, registrar, seedEdits>>

\* The wildcard permission is written when there is none.
EnsureWildcard(s) ==
    /\ SeederAt(s, "wildcard")
    /\ Goes(s, IF grants["*"] = None /\ ~seeders[s].dry THEN "grant" ELSE "purge")
    /\ UNCHANGED <<platformRows, rowIds, release, grants, serverRows, registrar, overlapped,
                   seedCount, seedEdits>>

GrantWildcard(s) ==
    /\ SeederAt(s, "grant")
    /\ grants' = [grants EXCEPT !["*"] = [tools |-> "all", by |-> "platform_seed"]]
    /\ Goes(s, "purge")
    /\ UNCHANGED <<platformRows, rowIds, release, serverRows, registrar, overlapped, seedCount, seedEdits>>

\* Skills of previous platform owners (fewer than SeedLimit) are deleted one by one.
PurgeStaleOwnerSkills(s) ==
    /\ SeederAt(s, "purge")
    /\ IF Owned("previous") = {} \/ seeders[s].dry
       THEN Goes(s, "list") /\ UNCHANGED platformRows
       ELSE \E r \in Owned("previous") : platformRows' = platformRows \ {r} /\ UNCHANGED seeders
    /\ UNCHANGED <<rowIds, release, grants, serverRows, registrar, overlapped, seedCount, seedEdits>>

\* An owner's skills, or SeedLimit of them, in the order of no field.
Listed(owner) ==
    {page \in SUBSET Owned(owner) :
        IF Cardinality(Owned(owner)) <= SeedLimit THEN page = Owned(owner)
        ELSE Cardinality(page) = SeedLimit}

\* The platform's skills are listed once, and every template is decided by that list.
ExistingPlatformSkills(s) ==
    /\ SeederAt(s, "list")
    /\ \E page \in Listed("platform") :
          seeders' = [seeders EXCEPT ![s].at = "each", ![s].seen = page, ![s].todo = Offered]
    /\ UNCHANGED <<platformRows, rowIds, release, grants, serverRows, registrar, overlapped,
                   seedCount, seedEdits>>

Next1(s, n, failed) ==
    seeders' = [seeders EXCEPT ![s].todo = @ \ {n}, ![s].failed = @ \cup (IF failed THEN {n} ELSE {})]
Known(s, n) == {r \in seeders[s].seen : r.name = n}

\* A template that does not parse is reported and skipped.
TemplateFails(s, n) ==
    /\ SeederAt(s, "each") /\ n \in seeders[s].todo
    /\ ParseTemplate(n, seeders[s].body) = None
    /\ Next1(s, n, TRUE)
    /\ UNCHANGED <<platformRows, rowIds, release, grants, serverRows, registrar, overlapped,
                   seedCount, seedEdits>>

\* A skill the platform's own editors manage is left alone.
PreserveDurable(s, n) ==
    /\ SeederAt(s, "each") /\ n \in seeders[s].todo /\ n \notin Unparseable
    /\ \E r \in Known(s, n) : r.managed = "firestore"
    /\ Next1(s, n, FALSE)
    /\ UNCHANGED <<platformRows, rowIds, release, grants, serverRows, registrar, overlapped,
                   seedCount, seedEdits>>

\* update_skill writes the row of that id, if it is still there; a slug is
\* added where there is none.
Refreshed(r, body) == [r EXCEPT !.body = body, !.managed = "template", !.slug = TRUE]

\* A known skill is refreshed from its template, or the update fails.
RefreshSkill(s, n) ==
    /\ SeederAt(s, "each") /\ n \in seeders[s].todo /\ n \notin Unparseable
    /\ \E r \in Known(s, n) :
          /\ r.managed # "firestore"
          /\ \/ /\ ~seeders[s].dry
                /\ platformRows' = {IF q.id = r.id THEN Refreshed(q, seeders[s].body) ELSE q : q \in platformRows}
                /\ Next1(s, n, FALSE)
             \/ seeders[s].dry /\ Next1(s, n, FALSE) /\ UNCHANGED platformRows
             \/ Next1(s, n, TRUE) /\ UNCHANGED platformRows
    /\ UNCHANGED <<rowIds, release, grants, serverRows, registrar, overlapped, seedCount, seedEdits>>

(* Faulty variant of CreateSeeded: the list of rows is not consulted.       *)
CreateSeededAlways(s, n) ==
    /\ SeederAt(s, "each") /\ n \in seeders[s].todo /\ n \notin Unparseable
    /\ ~seeders[s].dry
    /\ platformRows' = platformRows \cup
             {[id |-> <<"new", rowIds>>, name |-> n, owner |-> "platform", managed |-> "template",
               body |-> seeders[s].body, slug |-> TRUE]}
    /\ rowIds' = rowIds + 1
    /\ Next1(s, n, FALSE)
    /\ UNCHANGED <<release, grants, serverRows, registrar, overlapped, seedCount, seedEdits>>

\* A name the list does not have is created, with a new id, or the create fails.
CreateSeeded(s, n) ==
    /\ SeederAt(s, "each") /\ n \in seeders[s].todo /\ n \notin Unparseable
    /\ Known(s, n) = {}
    /\ \/ /\ ~seeders[s].dry
          /\ platformRows' = platformRows \cup
                 {[id |-> <<"new", rowIds>>, name |-> n, owner |-> "platform", managed |-> "template",
                   body |-> seeders[s].body, slug |-> TRUE]}
          /\ rowIds' = rowIds + 1
          /\ Next1(s, n, FALSE)
       \/ seeders[s].dry /\ Next1(s, n, FALSE) /\ UNCHANGED <<platformRows, rowIds>>
       \/ Next1(s, n, TRUE) /\ UNCHANGED <<platformRows, rowIds>>
    /\ UNCHANGED <<release, grants, serverRows, registrar, overlapped, seedCount, seedEdits>>

SeedReports(s) ==
    /\ SeederAt(s, "each") /\ seeders[s].todo = {}
    /\ Goes(s, "done")
    /\ UNCHANGED <<platformRows, rowIds, release, grants, serverRows, registrar, overlapped,
                   seedCount, seedEdits>>

\* The summary is returned; or the process is killed, or the deploy step times out, before that.
SeedGone(s) ==
    /\ seeders[s] # None
    /\ seeders' = [seeders EXCEPT ![s] = None]
    /\ UNCHANGED <<platformRows, rowIds, release, grants, serverRows, registrar, overlapped,
                   seedCount, seedEdits>>

\* The clean-up script deletes the template-named skills of other owners.
CleanupLegacy ==
    /\ \E r \in platformRows : r.owner # "platform"
    /\ platformRows' = {r \in platformRows : r.owner = "platform" \/ r.name \notin Templates}
    /\ UNCHANGED <<rowIds, release, grants, serverRows, seeders, registrar, overlapped, seedCount, seedEdits>>

(***************************************************************************)
(* The scripts.                                                            *)
(***************************************************************************)

\* A shell whose project is another environment's is refused; an unset one is pinned.
PinProject(expected, current) == IF current \in {None, expected} THEN expected ELSE None

\* The documents a run of the permission script writes.
BuildDocs(one, explicit, domain, wildcard, email) ==
    (IF one THEN {<<"one", IF explicit THEN "listed" ELSE "all">>} ELSE {})
    \cup (IF domain THEN {<<"domain", "all">>} ELSE {})
    \cup (IF wildcard THEN {<<"*", "default">>} ELSE {})
    \cup (IF email THEN {<<"user", "all">>} ELSE {})

\* Every document is replaced, not merged.
SeedToolPermissions(docs, dry, current) ==
    /\ PinProject("target", current) # None
    /\ seedCount < MaxSeeds /\ docs # {}
    /\ seedCount' = seedCount + 1
    /\ grants' = [g \in GrantIds |->
            IF ~dry /\ (\E d \in docs : d[1] = g)
            THEN [tools |-> (CHOOSE d \in docs : d[1] = g)[2], by |-> "script"]
            ELSE grants[g]]
    /\ UNCHANGED <<platformRows, rowIds, release, serverRows, seeders, registrar, overlapped, seedEdits>>

\* Without a URL an existing entry keeps the one it has, and only gains a
\* scope; the local default is for a first seed.
SeedExtAppsMap(o, url) ==
    LET seen == serverRows.map
    IN registrar' = [registrar EXCEPT ![o] =
        IF url = None /\ seen # None
        THEN IF seen.scope # None THEN [at |-> "toolbox", to |-> None]
             ELSE [at |-> "write", to |-> [seen EXCEPT !.scope = "platform"]]
        ELSE [at |-> "write", to |-> [url |-> IF url = None THEN "local" ELSE url, scope |-> "platform"]]]

\* A run of the script; --dry-run, which writes nothing, is left out.
RegistrarReads(o, url, current) ==
    /\ registrar[o] = None /\ seedCount < MaxSeeds
    /\ PinProject("target", current) # None
    /\ SeedExtAppsMap(o, url)
    /\ seedCount' = seedCount + 1
    /\ UNCHANGED <<platformRows, rowIds, release, grants, serverRows, seeders, overlapped, seedEdits>>

RegistrarWrites(o) ==
    /\ registrar[o] # None /\ registrar[o].at = "write"
    /\ serverRows' = [serverRows EXCEPT !.map = registrar[o].to]
    /\ registrar' = [registrar EXCEPT ![o] = [at |-> "toolbox", to |-> None]]
    /\ UNCHANGED <<platformRows, rowIds, release, grants, seeders, overlapped, seedCount, seedEdits>>

\* The Toolbox rows are loopback in every environment.
SeedToolbox(o) ==
    /\ registrar[o] # None /\ registrar[o].at = "toolbox"
    /\ serverRows' = [serverRows EXCEPT !.toolbox = [url |-> "loopback", scope |-> "platform"]]
    /\ registrar' = [registrar EXCEPT ![o].at = "maps"]
    /\ UNCHANGED <<platformRows, rowIds, release, grants, seeders, overlapped, seedCount, seedEdits>>

\* The maps row is Google's, the same everywhere, and is written last.
SeedMapsGrounding(o) ==
    /\ registrar[o] # None /\ registrar[o].at = "maps"
    /\ serverRows' = [serverRows EXCEPT !.maps = [url |-> "google", scope |-> "platform"]]
    /\ registrar' = [registrar EXCEPT ![o] = None]
    /\ UNCHANGED <<platformRows, rowIds, release, grants, seeders, overlapped, seedCount, seedEdits>>

(***************************************************************************)
(* Administrators and releases.                                            *)
(***************************************************************************)

\* A platform administrator edits or deletes a platform skill that templates manage.
AdminEdits(r) ==
    /\ seedEdits < MaxSeedEdits /\ r.managed = "template"
    /\ seedEdits' = seedEdits + 1
    /\ platformRows' \in {platformRows \ {r}, (platformRows \ {r}) \cup {[r EXCEPT !.body = 0]}}
    /\ overlapped' = (overlapped \/ \E s \in Seeders : seeders[s] # None)
    /\ UNCHANGED <<rowIds, release, grants, serverRows, seeders, registrar, seedCount>>

\* A release brings new templates; seeds of the previous one may still be running.
Deploy ==
    /\ release < MaxReleases
    /\ release' = release + 1
    /\ UNCHANGED <<platformRows, rowIds, grants, serverRows, seeders, registrar, overlapped,
                   seedCount, seedEdits>>

SeedNext ==
    \/ \E s \in Seeders :
          \/ \E email \in {None, "set"}, localMode, dry \in BOOLEAN : SeedBegins(s, email, localMode, dry)
          \/ EnsureWildcard(s) \/ GrantWildcard(s) \/ PurgeStaleOwnerSkills(s) \/ ExistingPlatformSkills(s)
          \/ \E n \in Templates :
                TemplateFails(s, n) \/ PreserveDurable(s, n) \/ RefreshSkill(s, n) \/ CreateSeeded(s, n)
          \/ SeedReports(s) \/ SeedGone(s)
    \/ CleanupLegacy
    \/ \E one, explicit, domain, wildcard, email, dry \in BOOLEAN, current \in {None, "other"} :
          SeedToolPermissions(BuildDocs(one, explicit, domain, wildcard, email), dry, current)
    \/ \E o \in Registrars :
          \/ \E url \in {None, "deployed", "local"}, current \in {None, "target", "other"} :
                RegistrarReads(o, url, current)
          \/ RegistrarWrites(o) \/ SeedToolbox(o) \/ SeedMapsGrounding(o)
    \/ \E r \in Owned("platform") : AdminEdits(r)
    \/ Deploy

SeedSpec == SeedInit /\ [][SeedNext]_seedVars

(***************************************************************************)
(* Properties.                                                             *)
(***************************************************************************)

\* A seed that has reported, whatever died or failed before it, leaves every
\* offered template with the platform skill of its release, or the durable
\* one, and no second copy; unless seeds or edits overlapped.
SeedConverges ==
    \A s \in Seeders :
        (seeders[s] # None /\ seeders[s].at = "done" /\ ~seeders[s].dry /\ ~overlapped) =>
            \A n \in Offered \ seeders[s].failed :
                \E r \in Owned("platform") :
                    /\ {q \in Owned("platform") : q.name = n} = {r}
                    /\ r.managed = "firestore" \/ r.body = seeders[s].body
=============================================================================
