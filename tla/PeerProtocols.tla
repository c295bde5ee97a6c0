--------------------------- MODULE PeerProtocols ---------------------------
(***************************************************************************)
(* The endpoints other programs call.  A2A: peer agents send messages with *)
(* files to a context; an interceptor takes the files out of the message,  *)
(* stores them as artifacts and announces them in the session's state      *)
(* before the agent runs.  MCP: a proxy forwards JSON-RPC requests to a    *)
(* registered server, and administrators edit and diagnose the registry    *)
(* while requests are under way.                                           *)
(*                                                                         *)
(* protocols/a2a_invocation.py, protocols/a2a_task_store.py,               *)
(* protocols/file_extraction.py, protocols/mcp_proxy.py,                   *)
(* admin/mcp_servers_routes.py, tools/mcp/diagnostics.py                   *)
(***************************************************************************)
EXTENDS Integers, Sequences, FiniteSets, Store

CONSTANTS
    Principals,     \* authenticated peers
    A2aContexts,    \* A2A context ids, used as session ids
    TaskIds,        \* A2A task ids
    A2aMessages,    \* messages: sequences of parts
    PeerRequests,   \* concurrent A2A requests
    McpServers,     \* ids of registered MCP servers
    McpTools,       \* tool names
    ProxyCalls,     \* concurrent proxy calls
    MaxPeerOps,     \* requests, edits and diagnoses in a behaviour
    MaxFileSize     \* decoded size limit of one file

MessagePart == [shape : {"text", "bytes", "uri", "odd"}, mime : {"", "pdf", "other"}, size : Nat,
                scheme : {"", "https", "gs", "ftp"}, decodes : BOOLEAN]

ASSUME PeerAssumption ==
    MaxPeerOps \in Nat /\ MaxFileSize \in Nat /\ A2aMessages \subseteq Seq(MessagePart)

VARIABLES
    a2aAuth,        \* A2A_INVOCATION_REQUIRE_AUTH
    fileInput,      \* ENABLE_A2A_FILE_INPUT
    tasks,          \* the task store: [owner, id, by]
    taskSeen,       \* history: the last task read, None or [peer, by]
    a2aSessions,    \* <<user, context>> -> None or the session's document_ids
    minted,         \* document ids minted so far
    peerReq,        \* request -> None or its progress
    mcpDocs,        \* server -> None or [enabled, url, headers, resolves]
    bindings,       \* the Root policy: servers bound for the caller
    deniedTools,    \* tools the Root policy denies the caller
    reviewer,       \* "none", "approves", "blocks" or "crashes"
    proxyCall,      \* call -> None or its progress
    upserting,      \* an admin write between its read and its write: None or a record
    diagnosis,      \* what the last diagnosis reported: None or [ok, category, warnings]
    peerOps         \* operations so far

taskVars == <<a2aAuth, fileInput, tasks, taskSeen>>
fileVars == <<a2aSessions, minted, peerReq>>
mcpVars == <<mcpDocs, bindings, deniedTools, reviewer, proxyCall, upserting, diagnosis>>
peerVars == <<taskVars, fileVars, mcpVars, peerOps>>

PeerOp == peerOps < MaxPeerOps /\ peerOps' = peerOps + 1

(***************************************************************************)
(* A2A: authentication and the task store.                                 *)
(***************************************************************************)

\* A peer with no principal is a caller the middleware let through unchecked.
Dispatch(peer) == a2aAuth => peer # None

(* Faulty variant of A2aOwnerScope: every principal shares one scope.       *)
SharedScope(peer) == "a2a:unauthenticated"

A2aOwnerScope(peer) == IF peer # None THEN peer ELSE "a2a:unauthenticated"

SaveTask(peer, id) ==
    /\ PeerOp /\ Dispatch(peer)
    /\ tasks' = {t \in tasks : ~(t.owner = A2aOwnerScope(peer) /\ t.id = id)}
                    \cup {[owner |-> A2aOwnerScope(peer), id |-> id, by |-> peer]}
    /\ taskSeen' = None /\ UNCHANGED <<a2aAuth, fileInput, fileVars, mcpVars>>

GetTask(peer, id) ==
    /\ PeerOp /\ Dispatch(peer)
    /\ \E t \in tasks : /\ t.owner = A2aOwnerScope(peer) /\ t.id = id
                        /\ taskSeen' = [peer |-> peer, by |-> t.by]
    /\ UNCHANGED <<a2aAuth, fileInput, tasks, fileVars, mcpVars>>

DeleteTask(peer, id) ==
    /\ PeerOp /\ Dispatch(peer)
    /\ tasks' = {t \in tasks : ~(t.owner = A2aOwnerScope(peer) /\ t.id = id)}
    /\ taskSeen' = None /\ UNCHANGED <<a2aAuth, fileInput, fileVars, mcpVars>>

(***************************************************************************)
(* A2A: the file interceptor.                                              *)
(***************************************************************************)

\* The session and artifact key: the principal, else one made of the context.
DeriveUserId(peer, ctx) == IF peer # None THEN peer ELSE ctx

ValidateFileWithBytes(f) == f.mime # "other" /\ f.size <= MaxFileSize
ValidateFileWithUri(f) == f.scheme \in {"https", "gs"} /\ f.mime # "other"

SendMessage(r, peer, ctx, message) ==
    /\ PeerOp /\ Dispatch(peer) /\ peerReq[r] = None
    /\ peerReq' = [peerReq EXCEPT ![r] =
           [peer |-> peer, ctx |-> ctx, message |-> message, kept |-> <<>>, rest |-> message,
            saved |-> <<>>, rejected |-> 0, read |-> None,
            step |-> IF fileInput THEN "parts" ELSE "run"]]
    /\ UNCHANGED <<taskVars, mcpVars, a2aSessions, minted>>

Advance(r, step) == peerReq' = [peerReq EXCEPT ![r].step = step]

\* One part of the message.  A file is rejected, stored under a new id, or (of
\* an unknown shape) left in the message; an artifact that cannot be stored,
\* as for a caller with no user, fails the request.
SaveAsArtifact(r, part) ==
    /\ part.shape \in {"bytes", "uri"}
    /\ IF part.shape = "uri" THEN ValidateFileWithUri(part)
       ELSE ValidateFileWithBytes(part) /\ part.decodes
    /\ IF peerReq[r].peer = None
       THEN Advance(r, "failed") /\ UNCHANGED minted
       ELSE /\ minted' = minted + 1
            /\ peerReq' = [peerReq EXCEPT ![r].saved = Append(@, minted + 1), ![r].rest = Tail(@)]
RejectUri(r, part) ==
    /\ part.shape = "uri" /\ ~ValidateFileWithUri(part)
    /\ peerReq' = [peerReq EXCEPT ![r].rejected = @ + 1, ![r].rest = Tail(@)]
    /\ UNCHANGED minted

(* Faulty variant of RejectBytes: undecodable bytes go unreported.          *)
RejectBytesQuietly(r, part) ==
    /\ part.shape = "bytes" /\ ~(ValidateFileWithBytes(part) /\ part.decodes)
    /\ peerReq' = [peerReq EXCEPT ![r].rejected = @ + (IF part.decodes THEN 1 ELSE 0),
                               ![r].rest = Tail(@)]
    /\ UNCHANGED minted

RejectBytes(r, part) ==
    /\ part.shape = "bytes" /\ ~(ValidateFileWithBytes(part) /\ part.decodes)
    /\ peerReq' = [peerReq EXCEPT ![r].rejected = @ + 1, ![r].rest = Tail(@)]
    /\ UNCHANGED minted

KeepPart(r, part) ==
    /\ part.shape \notin {"bytes", "uri"}
    /\ peerReq' = [peerReq EXCEPT ![r].kept = Append(@, part), ![r].rest = Tail(@)]
    /\ UNCHANGED minted

BeforeAgent(r) ==
    /\ peerReq[r] # None /\ peerReq[r].step = "parts" /\ peerReq[r].rest # <<>>
    /\ LET part == Head(peerReq[r].rest)
       IN SaveAsArtifact(r, part) \/ RejectUri(r, part) \/ RejectBytes(r, part) \/ KeepPart(r, part)
    /\ UNCHANGED <<taskVars, mcpVars, a2aSessions, peerOps>>

\* The message is replaced; its session is read if there are ids to announce.
PartsDone(r) ==
    /\ peerReq[r] # None /\ peerReq[r].step = "parts" /\ peerReq[r].rest = <<>>
    /\ LET req == peerReq[r]
           session == a2aSessions[<<DeriveUserId(req.peer, req.ctx), req.ctx>>]
       IN peerReq' = IF req.saved = <<>> THEN [peerReq EXCEPT ![r].step = "run"]
                     ELSE [peerReq EXCEPT ![r].step = "inject", ![r].read = session]
    /\ UNCHANGED <<taskVars, mcpVars, a2aSessions, minted, peerOps>>

\* A session that was not there is created with the ids; the creation fails if
\* another message created it meanwhile.  For a session that was there the event
\* is built with a state_delta of its own, which the Event type does not have:
\* the error is logged and nothing is announced.
InjectDocumentIds(r) ==
    /\ peerReq[r] # None /\ peerReq[r].step = "inject"
    /\ LET req == peerReq[r]
           key == <<DeriveUserId(req.peer, req.ctx), req.ctx>>
           ids == {req.saved[i] : i \in DOMAIN req.saved}
       IN /\ a2aSessions' = IF req.read = None /\ a2aSessions[key] = None
                            THEN [a2aSessions EXCEPT ![key] = ids] ELSE a2aSessions
          /\ Advance(r, "run")
    /\ UNCHANGED <<taskVars, mcpVars, minted, peerOps>>

\* The runner finds or creates the session.  The attachment injector accepts
\* only parsed documents of the user, which no minted id is: a session that
\* announces one fails the run.
RunPeerAgent(r) ==
    /\ peerReq[r] # None /\ peerReq[r].step = "run"
    /\ LET key == <<DeriveUserId(peerReq[r].peer, peerReq[r].ctx), peerReq[r].ctx>>
           fails == peerReq[r].peer = None \/ a2aSessions[key] \notin {None, {}}
       IN /\ Advance(r, IF fails THEN "failed" ELSE "answered")
          /\ a2aSessions' = IF peerReq[r].peer # None /\ a2aSessions[key] = None
                            THEN [a2aSessions EXCEPT ![key] = {}] ELSE a2aSessions
    /\ UNCHANGED <<taskVars, mcpVars, minted, peerOps>>

PeerAnswered(r) ==
    /\ peerReq[r] # None /\ peerReq[r].step \in {"answered", "failed"}
    /\ peerReq' = [peerReq EXCEPT ![r] = None]
    /\ UNCHANGED <<taskVars, mcpVars, a2aSessions, minted, peerOps>>

(***************************************************************************)
(* MCP: the proxy.                                                         *)
(***************************************************************************)

McpConfigEnabled(s) == mcpDocs[s] # None /\ mcpDocs[s].enabled
UserCanUseServer(s) == s \in bindings
McpToolPermitted(s, tool) == s \in bindings /\ tool \notin deniedTools

\* The checks before the body is read; a refusal carries its status.
ForwardGate(s) ==
    IF ~McpConfigEnabled(s) THEN 404
    ELSE IF ~UserCanUseServer(s) THEN 403
    ELSE IF ~mcpDocs[s].url THEN 502
    ELSE IF mcpDocs[s].headers # {} /\ ~mcpDocs[s].resolves THEN 503 ELSE 200

ProxyBegins(q, s, rpc) ==
    /\ PeerOp /\ proxyCall[q] = None
    /\ proxyCall' = [proxyCall EXCEPT ![q] =
           [server |-> s, rpc |-> rpc, html |-> FALSE, status |-> ForwardGate(s),
            step |-> IF ForwardGate(s) = 200 THEN "body" ELSE "done"]]
    /\ UNCHANGED <<taskVars, fileVars, mcpDocs, bindings, deniedTools, reviewer, upserting, diagnosis>>

(* Faulty variant of ForwardStatus: the policy of now is not consulted.     *)
ForwardedUnchecked(q) ==
    IF proxyCall[q].rpc.method = "garbled" THEN 400 ELSE 200

\* The body is parsed and a tool call checked against the policy of now.
ForwardStatus(q) ==
    LET rpc == proxyCall[q].rpc
    IN IF rpc.method = "garbled" THEN 400
       ELSE IF rpc.method = "tools/call" /\ ~McpToolPermitted(proxyCall[q].server, rpc.tool)
       THEN 403 ELSE 200

ForwardBody(q) ==
    /\ proxyCall[q] # None /\ proxyCall[q].step = "body"
    /\ proxyCall' = [proxyCall EXCEPT ![q].status = ForwardStatus(q),
                                      ![q].step = IF ForwardStatus(q) = 200 THEN "upstream"
                                                  ELSE "done"]
    /\ UNCHANGED <<taskVars, fileVars, mcpDocs, bindings, deniedTools, reviewer, upserting,
                   diagnosis, peerOps>>

\* The upstream server times out, cannot be reached, fails, or answers.
UpstreamAnswers(q, status, html) ==
    /\ proxyCall[q] # None /\ proxyCall[q].step = "upstream"
    /\ proxyCall' = [proxyCall EXCEPT ![q].status = status, ![q].html = html,
                                      ![q].step = IF status = 200 THEN "review" ELSE "done"]
    /\ UNCHANGED <<taskVars, fileVars, mcpDocs, bindings, deniedTools, reviewer, upserting,
                   diagnosis, peerOps>>

\* Only HTML that a resources/read returned is reviewed; a reviewer that
\* crashes lets the answer through.
Reviewed(q) == reviewer # "none" /\ proxyCall[q].html /\ proxyCall[q].rpc.method = "resources/read"
MaybeReviewArtefact(q) ==
    /\ proxyCall[q] # None /\ proxyCall[q].step = "review"
    /\ proxyCall' = [proxyCall EXCEPT ![q].step = "done",
                                      ![q].status = IF Reviewed(q) /\ reviewer = "blocks"
                                                    THEN 403 ELSE 200]
    /\ UNCHANGED <<taskVars, fileVars, mcpDocs, bindings, deniedTools, reviewer, upserting,
                   diagnosis, peerOps>>

ProxyDone(q) ==
    /\ proxyCall[q] # None /\ proxyCall[q].step = "done"
    /\ proxyCall' = [proxyCall EXCEPT ![q] = None]
    /\ UNCHANGED <<taskVars, fileVars, mcpDocs, bindings, deniedTools, reviewer, upserting,
                   diagnosis, peerOps>>

(***************************************************************************)
(* MCP: the registry.                                                      *)
(***************************************************************************)

\* The policy of the caller changes.
RebindServers(servers, denied) ==
    /\ PeerOp /\ bindings' = servers /\ deniedTools' = denied
    /\ UNCHANGED <<taskVars, fileVars, mcpDocs, reviewer, proxyCall, upserting, diagnosis>>

\* An upsert reads the row, keeps credentials the request leaves out, and
\* replaces the row; another administrator may write in between.
UpsertReads(s, enabled, headers) ==
    /\ PeerOp /\ upserting = None
    /\ upserting' = [server |-> s, enabled |-> enabled, given |-> headers,
                     kept |-> IF mcpDocs[s] = None THEN {} ELSE mcpDocs[s].headers]
    /\ UNCHANGED <<taskVars, fileVars, mcpDocs, bindings, deniedTools, reviewer, proxyCall, diagnosis>>

UpsertMcpServer ==
    /\ upserting # None /\ upserting' = None
    /\ \E resolves \in BOOLEAN :
           mcpDocs' = [mcpDocs EXCEPT ![upserting.server] =
               [enabled |-> upserting.enabled, url |-> TRUE, resolves |-> resolves,
                headers |-> IF upserting.given = None THEN upserting.kept ELSE upserting.given]]
    /\ UNCHANGED <<taskVars, fileVars, bindings, deniedTools, reviewer, proxyCall, diagnosis, peerOps>>

DeleteMcpServer(s) ==
    /\ PeerOp /\ mcpDocs[s] # None /\ mcpDocs' = [mcpDocs EXCEPT ![s] = None]
    /\ UNCHANGED <<taskVars, fileVars, bindings, deniedTools, reviewer, proxyCall, upserting, diagnosis>>

\* What an exception tree is taken for; the order of the tests decides.
ClassifyException(faults) ==
    IF "validation" \in faults THEN "schema"
    ELSE IF "forbidden" \in faults THEN "authentication"
    ELSE IF faults \cap {"timeout", "connect"} # {} THEN "network" ELSE "protocol"

\* A session needs a URL and resolvable header secrets.
DiagnosticSession(s) == mcpDocs[s].url /\ (mcpDocs[s].headers = {} \/ mcpDocs[s].resolves)

Failure(category) == [ok |-> FALSE, category |-> category, warnings |-> {}]

CheckMcpServer(s, faults) ==
    IF ~DiagnosticSession(s) THEN Failure("configuration")
    ELSE IF faults # {} THEN Failure(ClassifyException(faults))
    ELSE [ok |-> TRUE, category |-> None, warnings |-> {}]

\* Resources and prompts are optional: their failures are warnings, unless the
\* time limit of the whole discovery is what ends them.
DiscoverMcpServer(s, faults, optional) ==
    IF CheckMcpServer(s, faults).ok /\ \A c \in DOMAIN optional : "deadline" \notin optional[c]
    THEN [ok |-> TRUE, category |-> None,
          warnings |-> {<<c, ClassifyException(optional[c])>> :
                            c \in {d \in DOMAIN optional : optional[d] # {}}}]
    ELSE IF CheckMcpServer(s, faults).ok THEN Failure("network")
    ELSE CheckMcpServer(s, faults)

Faults == {{}, {"validation"}, {"forbidden"}, {"timeout"}, {"connect"}, {"other"},
           {"validation", "forbidden"}}
HealthMcpServer(s) ==
    /\ PeerOp /\ mcpDocs[s] # None
    /\ \E faults \in Faults : diagnosis' = CheckMcpServer(s, faults)
    /\ UNCHANGED <<taskVars, fileVars, mcpDocs, bindings, deniedTools, reviewer, proxyCall, upserting>>
DiscoverCapabilities(s) ==
    /\ PeerOp /\ mcpDocs[s] # None
    /\ \E faults \in Faults, optional \in [{"resources", "prompts"} -> {{}, {"other"}, {"deadline"}}] :
           diagnosis' = DiscoverMcpServer(s, faults, optional)
    /\ UNCHANGED <<taskVars, fileVars, mcpDocs, bindings, deniedTools, reviewer, proxyCall, upserting>>

Rpcs == {[method |-> m, tool |-> None] : m \in {"garbled", "resources/read"}}
            \cup {[method |-> "tools/call", tool |-> t] : t \in McpTools}

PeerInit ==
    /\ a2aAuth \in BOOLEAN /\ fileInput \in BOOLEAN /\ tasks = {} /\ taskSeen = None
    /\ a2aSessions = [k \in (Principals \cup A2aContexts) \X A2aContexts |-> None]
    /\ minted = 0 /\ peerReq = [r \in PeerRequests |-> None]
    /\ mcpDocs = [s \in McpServers |-> None]
    /\ bindings = McpServers /\ deniedTools = {}
    /\ reviewer \in {"none", "approves", "blocks", "crashes"}
    /\ proxyCall = [q \in ProxyCalls |-> None] /\ upserting = None /\ diagnosis = None
    /\ peerOps = 0

A2aNext ==
    \/ \E p \in Principals \cup {None} :
           \/ \E id \in TaskIds : SaveTask(p, id) \/ GetTask(p, id) \/ DeleteTask(p, id)
           \/ \E r \in PeerRequests, ctx \in A2aContexts, m \in A2aMessages :
                  SendMessage(r, p, ctx, m)
    \/ \E r \in PeerRequests : BeforeAgent(r) \/ PartsDone(r) \/ InjectDocumentIds(r)
                               \/ RunPeerAgent(r) \/ PeerAnswered(r)

McpNext ==
    \/ \E q \in ProxyCalls :
           \/ \E s \in McpServers, rpc \in Rpcs : ProxyBegins(q, s, rpc)
           \/ ForwardBody(q) \/ MaybeReviewArtefact(q) \/ ProxyDone(q)
           \/ \E status \in {200, 502, 504}, html \in BOOLEAN : UpstreamAnswers(q, status, html)
    \/ \E servers \in {{}, McpServers}, denied \in {{}, McpTools} : RebindServers(servers, denied)
    \/ \E s \in McpServers :
           \/ \E enabled \in BOOLEAN, headers \in {None, {}, {"key"}} : UpsertReads(s, enabled, headers)
           \/ DeleteMcpServer(s) \/ HealthMcpServer(s) \/ DiscoverCapabilities(s)
    \/ UpsertMcpServer

PeerNext == A2aNext \/ McpNext

PeerSpec == PeerInit /\ [][PeerNext]_peerVars

(***************************************************************************)
(* Properties.                                                             *)
(***************************************************************************)

\* Where authentication is required a peer reads only tasks it saved itself,
\* although peers choose their task ids freely.
TasksOwned == a2aAuth /\ taskSeen # None => taskSeen.peer = taskSeen.by

\* When the agent is about to run, every file of the message has been stored
\* or is counted in the note about rejected files, and no stored or rejected
\* file is still in the message for the model to read directly.
FilesAccounted ==
    \A r \in PeerRequests :
        fileInput /\ peerReq[r] # None /\ peerReq[r].step = "run" =>
            LET req == peerReq[r]
                Files == {i \in DOMAIN req.message : req.message[i].shape \in {"bytes", "uri"}}
            IN /\ Len(req.saved) + req.rejected = Cardinality(Files)
               /\ \A i \in DOMAIN req.kept : req.kept[i].shape \notin {"bytes", "uri"}

\* A tool call is forwarded only if the policy permits it at that moment, also
\* when the policy changed while the body was being read.
ForwardStep ==
    \A q \in ProxyCalls :
        proxyCall[q] # None /\ proxyCall'[q] # None
        /\ proxyCall[q].step = "body" /\ proxyCall'[q].step = "upstream"
        /\ proxyCall[q].rpc.method = "tools/call" =>
            McpToolPermitted(proxyCall[q].server, proxyCall[q].rpc.tool)
ToolCallsPermitted == [][ForwardStep]_peerVars

\* Every stored file of a message is announced in the session's state by the
\* time the agent runs.
FilesReachAgent ==
    \A r \in PeerRequests :
        peerReq[r] # None /\ peerReq[r].step = "run" =>
            \A i \in DOMAIN peerReq[r].saved :
                /\ a2aSessions[<<peerReq[r].peer, peerReq[r].ctx>>] # None
                /\ peerReq[r].saved[i] \in a2aSessions[<<peerReq[r].peer, peerReq[r].ctx>>]
=============================================================================
