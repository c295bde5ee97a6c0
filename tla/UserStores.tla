----------------------------- MODULE UserStores -----------------------------
(***************************************************************************)
(* The per-user stores behind the agent runtime: sessions, artifacts and   *)
(* long-term memory.  Each call names a user; the stores decide by the     *)
(* identity in the request's context, which an access check may widen to   *)
(* the owner of one shared resource for the length of a block.  A memory   *)
(* replacement is many store calls and may be cut off by a crash.          *)
(*                                                                         *)
(* observability/user_context.py, adk/user_session_service.py,             *)
(* adk/user_artifact_service.py, adk/artifact_backend.py, adk/session.py,  *)
(* adk/postgres_memory.py                                                  *)
(***************************************************************************)
EXTENDS Integers, FiniteSets, Store

CONSTANTS
    StoreUsers,      \* users
    Apps,            \* ADK application names
    Threads,         \* session ids; every user may use each of them
    Files,           \* artifact names
    StoredEvents,    \* events with content that a session may hold
    MaxUserOps       \* operations in a behaviour

ASSUME UserStoreAssumption == MaxUserOps \in Nat /\ None \notin StoreUsers

VARIABLES
    context,        \* the request: None or [user, resource]
    sharedWith,     \* owner -> users that may read the owner's sessions
    sessionRows,    \* stored sessions: [app, user, id, writer]
    artifactRows,   \* stored artifacts: [app, user, name, writer]
    artifactStore,  \* "memory", "local" or "gcs"
    sessionStore,   \* "memory", "postgres" or "vertex"
    memoryStore,    \* "memory", "postgres" or "vertex"
    memoryRows,     \* memory: [coll, thread, event, writer]
    replacing,      \* a replacement: None or [coll, thread, drop, add, whole, alone, writer]
    stored,         \* history: what the last replacement that ran alone was given, or None
    returned,       \* what the last call returned: None or [store, writers] of its rows
    userOps         \* operations so far

userVars == <<context, sharedWith, sessionRows, artifactRows, artifactStore, sessionStore,
              memoryStore, memoryRows, replacing, stored, returned, userOps>>

(***************************************************************************)
(* Backend selection.                                                      *)
(***************************************************************************)

ArtifactBackendName(explicit, object, bucket) ==
    IF explicit # "" THEN explicit
    ELSE IF object \in {"local", "gcs"} THEN object
    ELSE IF bucket THEN "gcs" ELSE "memory"

\* The deprecated local override counts only without an explicit setting; the
\* memory backend is resolved by the same rule from a setting of its own.
SessionBackendName(explicit, localMemory, engine) ==
    IF explicit # "" THEN explicit
    ELSE IF localMemory \/ ~engine THEN "memory" ELSE "vertex"

MemoryBackendName(explicit, localMemory, engine) ==
    SessionBackendName(explicit, localMemory, engine)

\* Only the in-memory session service forgets its rows with the process.
GetSessionService(backend) == IF backend = "memory" THEN {} ELSE sessionRows

(***************************************************************************)
(* The request's identity.                                                 *)
(***************************************************************************)

GetResourceUserId ==
    IF context = None THEN None
    ELSE IF context.resource # None THEN context.resource ELSE context.user

\* A call for another user than the one in the context raises.
RequireResourceUser(claimed) == GetResourceUserId # None /\ GetResourceUserId = claimed

Op == userOps < MaxUserOps /\ userOps' = userOps + 1
StoresKept == UNCHANGED <<sessionRows, artifactRows, memoryRows>>
Rest == UNCHANGED <<artifactStore, sessionStore, memoryStore, sharedWith>>
Returns(store, rows) == returned' = [store |-> store, writers |-> {r.writer : r \in rows}]

SetUserContext(user) ==
    /\ context = None /\ Op /\ context' = [user |-> user, resource |-> None]
    /\ returned' = None /\ StoresKept /\ Rest /\ UNCHANGED <<replacing, stored>>

RequestEnds ==
    /\ context # None /\ context' = None /\ returned' = None
    /\ StoresKept /\ Rest /\ UNCHANGED <<replacing, stored, userOps>>

\* "Select an owner only after a resource-specific ACL check succeeds."
AuthorizedResourceUser(owner) ==
    /\ context # None /\ Op /\ returned' = None
    /\ \/ context.resource = None /\ context.user \in sharedWith[owner]
          /\ context' = [context EXCEPT !.resource = owner]
       \/ context.resource = owner /\ context' = [context EXCEPT !.resource = None]
    /\ StoresKept /\ Rest /\ UNCHANGED <<replacing, stored>>

\* An owner shares or unshares; running blocks are not affected.
ChangeSharing(owner, users) ==
    /\ Op /\ owner \notin users /\ sharedWith' = [sharedWith EXCEPT ![owner] = users]
    /\ returned' = None /\ StoresKept
    /\ UNCHANGED <<context, artifactStore, sessionStore, memoryStore, replacing, stored>>

(***************************************************************************)
(* Sessions: the app name is prefixed with a digest of the resource user.  *)
(***************************************************************************)

App(app) == <<GetResourceUserId, app>>
Sessions(app, claimed) == {s \in sessionRows : s.app = App(app) /\ s.user = claimed}

\* Creating an existing session id changes nothing of it.
CreateSession(app, claimed, id) ==
    /\ Op /\ RequireResourceUser(claimed)
    /\ sessionRows' = sessionRows \cup
           (IF \E s \in Sessions(app, claimed) : s.id = id THEN {}
            ELSE {[app |-> App(app), user |-> claimed, id |-> id,
                   writer |-> GetResourceUserId]})
    /\ returned' = None /\ Rest
    /\ UNCHANGED <<context, artifactRows, memoryRows, replacing, stored>>

GetSession(app, claimed, id) ==
    /\ Op /\ RequireResourceUser(claimed)
    /\ Returns("sessions", {s \in Sessions(app, claimed) : s.id = id})
    /\ StoresKept /\ Rest /\ UNCHANGED <<context, replacing, stored>>

ListSessions(app, claimed) ==
    /\ Op /\ RequireResourceUser(claimed)
    /\ Returns("sessions", Sessions(app, claimed))
    /\ StoresKept /\ Rest /\ UNCHANGED <<context, replacing, stored>>

DeleteSession(app, claimed, id) ==
    /\ Op /\ RequireResourceUser(claimed)
    /\ sessionRows' = {s \in sessionRows : ~(s \in Sessions(app, claimed) /\ s.id = id)}
    /\ returned' = None /\ Rest
    /\ UNCHANGED <<context, artifactRows, memoryRows, replacing, stored>>

(***************************************************************************)
(* Artifacts: app and user are both prefixed with the digest; the file     *)
(* backend looks at the user alone.                                        *)
(***************************************************************************)

ArtifactScope(app, claimed) ==
    [app |-> <<GetResourceUserId, app>>, user |-> <<GetResourceUserId, claimed>>]
Artifacts(app, claimed) ==
    {a \in artifactRows : /\ a.user = ArtifactScope(app, claimed).user
                          /\ artifactStore # "local" => a.app = ArtifactScope(app, claimed).app}

SaveUserArtifact(app, claimed, name) ==
    /\ Op /\ RequireResourceUser(claimed)
    /\ artifactRows' = artifactRows \cup
           {[app |-> ArtifactScope(app, claimed).app, user |-> ArtifactScope(app, claimed).user,
             name |-> name, writer |-> GetResourceUserId]}
    /\ returned' = None /\ Rest
    /\ UNCHANGED <<context, sessionRows, memoryRows, replacing, stored>>

LoadUserArtifact(app, claimed, name) ==
    /\ Op /\ RequireResourceUser(claimed)
    /\ Returns("artifacts", {a \in Artifacts(app, claimed) : a.name = name})
    /\ StoresKept /\ Rest /\ UNCHANGED <<context, replacing, stored>>

ListArtifactKeys(app, claimed) ==
    /\ Op /\ RequireResourceUser(claimed)
    /\ Returns("artifacts", Artifacts(app, claimed))
    /\ StoresKept /\ Rest /\ UNCHANGED <<context, replacing, stored>>

DeleteUserArtifact(app, claimed, name) ==
    /\ Op /\ RequireResourceUser(claimed)
    /\ artifactRows' = {a \in artifactRows : ~(a \in Artifacts(app, claimed) /\ a.name = name)}
    /\ returned' = None /\ Rest
    /\ UNCHANGED <<context, sessionRows, memoryRows, replacing, stored>>

(***************************************************************************)
(* Memory: one collection per app and user. The platform's own PostgreSQL  *)
(* service asks for the request's identity; the services of ADK that serve *)
(* the other backends, in memory or remote, are used as they are and take  *)
(* the user they are given.                                                *)
(***************************************************************************)

(* Faulty variant of ScopeCollection: the user claimed is trusted.          *)
ScopeCollectionUnchecked(app, claimed) == <<app, claimed>>

ScopeCollection(app, claimed) ==
    IF memoryStore = "postgres" /\ ~RequireResourceUser(claimed) THEN None ELSE <<app, claimed>>

(* Faulty variant of StaleRows: a replacement deletes nothing.              *)
StaleRowsNone(coll, thread) == {}

StaleRows(coll, thread) == {m \in memoryRows : m.coll = coll /\ m.thread = thread}
MemoryOf(coll, thread) == {m \in memoryRows : m.coll = coll /\ m.thread = thread}

MemoryRows(coll, thread, events) ==
    {[coll |-> coll, thread |-> thread, event |-> e, writer |-> GetResourceUserId] : e \in events}

\* A replacement lists the session's rows; it will delete them one by one and
\* then write the events of its snapshot.
ReplaceBegins(app, claimed, thread, snapshot) ==
    /\ Op /\ memoryStore = "postgres"
    /\ replacing = None /\ ScopeCollection(app, claimed) # None
    /\ replacing' = [coll |-> ScopeCollection(app, claimed), thread |-> thread,
                     drop |-> StaleRows(ScopeCollection(app, claimed), thread),
                     add |-> snapshot, whole |-> snapshot, alone |-> TRUE,
                     writer |-> GetResourceUserId]
    /\ stored' = None /\ returned' = None /\ StoresKept /\ Rest /\ UNCHANGED context

\* The in-memory service replaces a session at once; the remote one derives
\* memories of its own from what it is sent.
AddSessionElsewhere(app, claimed, thread, snapshot) ==
    /\ Op /\ memoryStore # "postgres"
    /\ LET coll == ScopeCollection(app, claimed)
           new == MemoryRows(coll, thread, snapshot)
       IN IF memoryStore = "memory" THEN memoryRows' = (memoryRows \ MemoryOf(coll, thread)) \cup new
          ELSE \E some \in SUBSET new : memoryRows' = memoryRows \cup some
    /\ stored' = None /\ returned' = None /\ Rest
    /\ UNCHANGED <<context, sessionRows, artifactRows, replacing>>

ReplaceStep ==
    /\ replacing # None
    /\ \/ \E m \in replacing.drop :
              /\ memoryRows' = memoryRows \ {m}
              /\ replacing' = [replacing EXCEPT !.drop = @ \ {m}]
              /\ UNCHANGED stored
       \/ /\ replacing.drop = {}
          /\ \E e \in replacing.add :
                 /\ memoryRows' = memoryRows \cup
                        {[coll |-> replacing.coll, thread |-> replacing.thread, event |-> e,
                          writer |-> replacing.writer]}
                 /\ replacing' = [replacing EXCEPT !.add = @ \ {e}]
          /\ UNCHANGED stored
       \/ /\ replacing.drop = {} /\ replacing.add = {} /\ replacing' = None
          /\ stored' = IF replacing.alone
                       THEN [coll |-> replacing.coll, thread |-> replacing.thread,
                             events |-> replacing.whole] ELSE None
          /\ UNCHANGED memoryRows
    /\ returned' = None /\ Rest
    /\ UNCHANGED <<context, sessionRows, artifactRows, userOps>>

\* The process dies, in the middle of a replacement or of a request, and a new
\* one builds its services.
ProcessRestarts ==
    /\ Op /\ replacing' = None /\ stored' = None /\ returned' = None /\ context' = None
    /\ sessionRows' = GetSessionService(sessionStore)
    /\ artifactRows' = IF artifactStore = "memory" THEN {} ELSE artifactRows
    /\ memoryRows' = IF memoryStore = "memory" THEN {} ELSE memoryRows
    /\ Rest

\* Appending events upserts one row each; a concurrent replacement is then no
\* longer alone, and what was stored is no longer all there is.
AddEvents(app, claimed, thread, event) ==
    /\ Op /\ ScopeCollection(app, claimed) # None
    /\ memoryRows' = memoryRows \cup MemoryRows(ScopeCollection(app, claimed), thread, {event})
    /\ replacing' = IF replacing = None THEN None ELSE [replacing EXCEPT !.alone = FALSE]
    /\ stored' = None /\ returned' = None /\ Rest
    /\ UNCHANGED <<context, sessionRows, artifactRows>>

SearchMemory(app, claimed, query) ==
    /\ Op /\ ScopeCollection(app, claimed) # None
    /\ Returns("memory", {m \in memoryRows :
                             m.coll = ScopeCollection(app, claimed) /\ m.event \in query})
    /\ StoresKept /\ Rest /\ UNCHANGED <<context, replacing, stored>>

UserInit ==
    /\ context = None /\ sharedWith = [u \in StoreUsers |-> {}]
    /\ sessionRows = {} /\ artifactRows = {} /\ memoryRows = {}
    /\ artifactStore \in {ArtifactBackendName(explicit, object, bucket) :
                            explicit \in {"", "memory"}, object \in {"", "local"}, bucket \in BOOLEAN}
    /\ \E localMemory, engine \in BOOLEAN, sessions, memory \in {"", "postgres"} :
          /\ sessionStore = SessionBackendName(sessions, localMemory, engine)
          /\ memoryStore = MemoryBackendName(memory, localMemory, engine)
    /\ replacing = None /\ stored = None /\ returned = None /\ userOps = 0

UserNext ==
    \/ \E u \in StoreUsers :
           \/ SetUserContext(u) \/ AuthorizedResourceUser(u)
           \/ \E users \in SUBSET StoreUsers : ChangeSharing(u, users)
    \/ RequestEnds
    \/ \E u \in StoreUsers, app \in Apps :
           \/ ListSessions(app, u) \/ ListArtifactKeys(app, u)
           \/ \E id \in Threads : CreateSession(app, u, id) \/ GetSession(app, u, id)
                                  \/ DeleteSession(app, u, id)
           \/ \E f \in Files : SaveUserArtifact(app, u, f) \/ LoadUserArtifact(app, u, f)
                               \/ DeleteUserArtifact(app, u, f)
           \/ \E id \in Threads, snapshot \in SUBSET StoredEvents :
                  ReplaceBegins(app, u, id, snapshot) \/ AddSessionElsewhere(app, u, id, snapshot)
           \/ \E id \in Threads, e \in StoredEvents : AddEvents(app, u, id, e)
           \/ \E query \in SUBSET StoredEvents : SearchMemory(app, u, query)
    \/ ReplaceStep \/ ProcessRestarts

UserSpec == UserInit /\ [][UserNext]_userVars

(***************************************************************************)
(* Properties.                                                             *)
(***************************************************************************)

\* Whatever user a call names, the sessions and artifacts it returns, and the
\* memories where PostgreSQL keeps them, were written for the request's own
\* user, or, inside a block that an access check opened, for the owner that the
\* block selected. Of ADK's own memory services this is not claimed: nothing
\* compares the user they are given with the request's.
OnlyOwnRows ==
    returned # None /\ (returned.store = "memory" => memoryStore = "postgres")
        => context # None /\ returned.writers \subseteq {GetResourceUserId}

\* After a replacement in PostgreSQL that nothing disturbed, the session's memory is
\* exactly its snapshot, whatever earlier replacements were cut off half way.
MemoryIsSnapshot ==
    stored # None => {m.event : m \in MemoryOf(stored.coll, stored.thread)} = stored.events
=============================================================================
