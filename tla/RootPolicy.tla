----------------------------- MODULE RootPolicy -----------------------------
(***************************************************************************)
(* Authorization of Root Agent turns over time: the policy is read when a  *)
(* turn starts, the built agent is cached under a key, and every tool call *)
(* is authorized again while administrators edit the policy, disable the   *)
(* account or change knowledge sources.                                    *)
(*                                                                         *)
(* auth/capability_access.py, adk/agent_cache.py, adk/callbacks.py (the    *)
(* permission enforcer), agents/capabilities.py, agents/knowledge.py,      *)
(* auth/permissions.py, db/user_profiles.py, channels/_skill_invoke.py     *)
(***************************************************************************)
EXTENDS Integers, Sequences, FiniteSets, SequencesExt, Store

CONSTANTS
    PolicyDocs,    \* Root Agent configurations an administrator may save
    OwnedSkills,   \* skills the user owns
    SharedSkills,  \* skills other people own; they become private or public
    Servers,       \* MCP servers
    Sources,       \* knowledge source ids
    TagSets,       \* group tags the account may carry
    CacheMax,      \* entries the agent cache keeps
    PolicyTtl,     \* ticks a cached agent or permission lives
    MaxPolicyEdits \* edits and clock ticks in a behaviour

PolicyFields == {"skills", "deniedSkills", "mcp", "tools", "denied", "knowledge", "a2ui"}

ASSUME PolicyAssumption ==
    /\ CacheMax \in Nat \ {0} /\ PolicyTtl \in Nat \ {0} /\ MaxPolicyEdits \in Nat
    /\ \A doc \in PolicyDocs : doc = [f \in PolicyFields |-> doc[f]]

VARIABLES
    policyDoc,     \* the Root Agent configuration in force
    accountRow,    \* the auth_users row: [disabled, tags]
    openSkills,    \* shared skills that are public now
    skillVersion,  \* updatedAt of each stored skill
    serverOn,      \* MCP servers that are enabled and open to the user
    profileSkills, \* skills of the personal profile
    sourceRows,    \* knowledge sources: None or [mine, public, ready]
    agentCache,    \* <<[key, at, agent], ...>>, least recently used first
    permRow,       \* the tool_permissions row of background invocations
    permCache,     \* cached tool permissions: None or [at, allowed]
    policyClock,   \* edits and ticks so far
    turn,          \* the running turn, or None
    lastCall       \* what the last authorized call did, or None

policyVars == <<policyDoc, accountRow, openSkills, skillVersion, serverOn, profileSkills,
                sourceRows, agentCache, permRow, permCache, policyClock, turn, lastCall>>
adminVars == <<policyDoc, accountRow, openSkills, skillVersion, serverOn, profileSkills,
               sourceRows, permRow>>

ControlTools == {"transfer_to_agent", "load_skill"}
LightingTools == {"load_skill", "find", "read", "grep", "sql_retrieve_examples",
                  "sql_service_health", "sql_query_readonly"}
DocumentTools == {"read_attached_document", "get_document_content"}

(***************************************************************************)
(* The caller's policy.                                                    *)
(***************************************************************************)

\* Account status and tags are read again; a disabled account has no policy.
RefreshAuthorization == ~accountRow.disabled
AccessContext == [tags |-> accountRow.tags]
Readable(s) == s \in OwnedSkills \cup openSkills

\* Skills: bound ones, and owned ones of the profile, that are accessible and
\* not denied. Servers: bound ones that are enabled for the user.
AuthorizedRoot ==
    [policyDoc EXCEPT
        !.skills = {s \in @ \cup (profileSkills \cap OwnedSkills) :
                        s \notin policyDoc.deniedSkills /\ Readable(s)},
        !.mcp = @ \cap serverOn]

\* No reference, or the Root Agent's own, is the plain Root Agent; anything
\* else must be on the caller's list.
ResolveRootCapability(policy, ref) ==
    IF ref = "root-agent" THEN ref
    ELSE IF ref \in policy.skills /\ Readable(ref) /\ ref \notin policy.deniedSkills
    THEN ref ELSE None

(***************************************************************************)
(* The agent cache.                                                        *)
(***************************************************************************)

(* Faulty variant of AgentKey: the caller's policy is left out of the key.  *)
AgentKeyNoScope(skill, access, policy) ==
    [skill |-> skill, access |-> access,
     version |-> IF skill = "root-agent" THEN policyClock ELSE skillVersion[skill]]

\* The scope is a digest of the caller's whole policy. The plain Root Agent's
\* configuration is made afresh, so its updatedAt is the time of the request.
AgentKey(skill, access, policy) ==
    [skill |-> skill, access |-> access, scope |-> policy,
     version |-> IF skill = "root-agent" THEN policyClock ELSE skillVersion[skill]]

Fresh(entry) == policyClock - entry.at < PolicyTtl
Hit(key) == {i \in DOMAIN agentCache : agentCache[i].key = key /\ Fresh(agentCache[i])}
Kept(key) == {i \in DOMAIN agentCache : agentCache[i].key = key}
Without(key) == IF Kept(key) = {} THEN agentCache
                ELSE RemoveAt(agentCache, CHOOSE i \in Kept(key) : TRUE)
Newest(cache) == IF Len(cache) > CacheMax
                 THEN SubSeq(cache, Len(cache) - CacheMax + 1, Len(cache)) ELSE cache

\* A hit moves to the end; a miss builds, stores and evicts. A build that
\* raises stores nothing.
GetOrBuild(key, agent) ==
    LET kept == IF Hit(key) # {} THEN agentCache[CHOOSE i \in Hit(key) : TRUE]
                ELSE [key |-> key, at |-> policyClock, agent |-> agent]
    IN /\ agentCache' = Newest(Append(Without(key), kept))
       /\ turn' = [agent |-> kept.agent, policy |-> agent.policy, access |-> agent.access,
                   skill |-> agent.skill, version |-> agent.version, docs |-> agent.docs,
                   trigger |-> agent.trigger, loaded |-> {}]

\* A turn: policy, capability, agent. The trigger is a lighting follow-up
\* bound to one SQL server; docs says whether an attachment is selected.
StreamRootAgent(ref, trigger, docs) ==
    /\ turn = None
    /\ RefreshAuthorization
    /\ LET policy == AuthorizedRoot
           skill == ResolveRootCapability(policy, ref)
           key == AgentKey(skill, AccessContext, policy)
       IN /\ skill # None
          /\ \/ GetOrBuild(key, [skill |-> skill, policy |-> policy, access |-> AccessContext,
                                 version |-> key.version, docs |-> docs, trigger |-> trigger])
             \/ /\ Hit(key) = {} /\ policy.mcp # {}
                /\ UNCHANGED <<agentCache, turn>>
    /\ lastCall' = None
    /\ UNCHANGED <<adminVars, permCache, policyClock>>

TurnDone ==
    /\ turn # None /\ turn' = None /\ lastCall' = None
    /\ UNCHANGED <<adminVars, agentCache, permCache, policyClock>>

(***************************************************************************)
(* The permission enforcer.                                                *)
(***************************************************************************)

\* An MCP tool runs when its server is still in the caller's policy and the
\* tool is not denied.
McpCallAllowed(server, tool) ==
    /\ server \in AuthorizedRoot.mcp
    /\ tool \notin policyDoc.denied /\ "*" \notin policyDoc.denied

\* Any other tool of a Root Agent must be bound now: listed, a control tool,
\* the knowledge search of a policy with knowledge, the attachment reader of
\* a turn with attachments, or an interaction tool.
RootToolBound(tool) ==
    \/ tool \in AuthorizedRoot.tools \cup ControlTools
    \/ tool = "search_agent_knowledge" /\ policyDoc.knowledge # {}
    \/ tool = "read_attached_document" /\ turn.docs
    \/ tool = "request_confirmation" /\ policyDoc.a2ui
RootToolBoundAtBuild(tool) ==
    \/ tool \in turn.agent.policy.tools \cup ControlTools
    \/ tool = "search_agent_knowledge" /\ turn.agent.policy.knowledge # {}
    \/ tool = "read_attached_document" /\ turn.docs
    \/ tool = "request_confirmation" /\ turn.agent.policy.a2ui

(* Faulty variant of PermissionEnforcer: the answer of build time is used.  *)
EnforcerBuildTime(tool, server) ==
    /\ ~accountRow.disabled
    /\ IF server # None THEN McpCallAllowed(server, tool)
       ELSE RootToolBoundAtBuild(tool) /\ {tool, "*"} \cap turn.agent.policy.denied = {}
    /\ turn.trigger # None =>
          tool \in LightingTools /\ (tool = "sql_query_readonly" => server = turn.trigger)

PermissionEnforcer(tool, server) ==
    /\ RefreshAuthorization
    /\ IF server # None THEN McpCallAllowed(server, tool)
       ELSE RootToolBound(tool) /\ {tool, "*"} \cap policyDoc.denied = {}
    /\ turn.trigger # None =>
          tool \in LightingTools /\ (tool = "sql_query_readonly" => server = turn.trigger)

\* Attachment tools take only documents selected in this turn.
DocumentArgsAllowed(tool, selected) == tool \in DocumentTools => turn.docs /\ selected

CallTool(tool, server, selected) ==
    /\ turn # None
    /\ tool \notin {"load_skill", "search_agent_knowledge"}
    /\ server # None => server \in turn.agent.policy.mcp
    /\ lastCall' = [tool |-> tool, server |-> server,
                    ran |-> PermissionEnforcer(tool, server) /\ DocumentArgsAllowed(tool, selected),
                    found |-> {}]
    /\ UNCHANGED <<adminVars, agentCache, permCache, policyClock, turn>>

\* load_skill resolves the reference under the policy of the moment.
LoadSkill(ref) ==
    /\ turn # None
    /\ PermissionEnforcer("load_skill", None)
    /\ LET skill == ResolveRootCapability(AuthorizedRoot, ref)
           ok == skill \notin {None, "root-agent"}
       IN /\ turn' = IF ok THEN [turn EXCEPT !.loaded = @ \cup {skill}] ELSE turn
          /\ lastCall' = [tool |-> "load_skill", server |-> None, ran |-> ok, found |-> {}]
    /\ UNCHANGED <<adminVars, agentCache, permCache, policyClock>>

(***************************************************************************)
(* Tool permissions of background invocations, cached per tool.            *)
(***************************************************************************)
DocAllows(row, tool) == tool \notin row.denied /\ {tool, "*"} \cap row.tools # {}

CanUseTool(tool) ==
    IF permCache # None /\ policyClock - permCache.at < PolicyTtl THEN permCache.allowed
    ELSE permRow # None /\ DocAllows(permRow, tool)

BackgroundCall(tool) ==
    /\ permCache' = IF permRow = None \/ (permCache # None /\ policyClock - permCache.at < PolicyTtl)
                    THEN permCache
                    ELSE [at |-> policyClock, allowed |-> CanUseTool(tool)]
    /\ lastCall' = None
    /\ UNCHANGED <<adminVars, agentCache, policyClock, turn>>

(***************************************************************************)
(* Knowledge sources.                                                      *)
(***************************************************************************)
SourceFor(id) ==
    IF sourceRows[id] # None /\ (sourceRows[id].mine \/ sourceRows[id].public)
    THEN sourceRows[id] ELSE None

\* Grants are checked again on every call; a source that is gone, closed to
\* the caller or without a parsed document of its owner contributes nothing.
SearchSources(ids) == {id \in ids : SourceFor(id) # None /\ SourceFor(id).ready}

\* The tool of a built agent searches the sources bound when it was built.
SearchAgentKnowledge ==
    /\ turn # None
    /\ PermissionEnforcer("search_agent_knowledge", None)
    /\ turn.agent.policy.knowledge # {}
    /\ lastCall' = [tool |-> "search_agent_knowledge", server |-> None, ran |-> TRUE,
                    found |-> SearchSources(turn.agent.policy.knowledge)]
    /\ UNCHANGED <<adminVars, agentCache, permCache, policyClock, turn>>

\* The console's preview searches what is bound now.
PreviewSearch ==
    /\ RefreshAuthorization
    /\ lastCall' = [tool |-> "preview", server |-> None, ran |-> TRUE,
                    found |-> SearchSources(policyDoc.knowledge)]
    /\ UNCHANGED <<adminVars, agentCache, permCache, policyClock, turn>>

Edit == policyClock < MaxPolicyEdits /\ policyClock' = policyClock + 1
        /\ lastCall' = None /\ UNCHANGED <<agentCache, permCache, turn>>
Rest == <<policyDoc, accountRow, openSkills, skillVersion, serverOn, profileSkills, permRow>>

\* Only a parsed document of the caller's becomes a source.
CreateSource(id) ==
    /\ Edit /\ sourceRows[id] = None
    /\ \E public \in BOOLEAN :
          sourceRows' = [sourceRows EXCEPT ![id] = [mine |-> TRUE, public |-> public, ready |-> TRUE]]
    /\ UNCHANGED Rest

EditSource(id) ==
    /\ Edit /\ sourceRows[id] # None
    /\ sourceRows' = [sourceRows EXCEPT ![id].public = ~@]
    /\ UNCHANGED Rest

RemoveSource(id) ==
    /\ Edit /\ sourceRows[id] # None
    /\ sourceRows' = [sourceRows EXCEPT ![id] = None]
    /\ UNCHANGED Rest

\* Its document is deleted or parsed again.
SourceDocumentChanges(id) ==
    /\ Edit /\ sourceRows[id] # None
    /\ sourceRows' = [sourceRows EXCEPT ![id].ready = ~@]
    /\ UNCHANGED Rest

\* A profile may list owned skills only.
SaveUserProfile ==
    /\ Edit /\ profileSkills' \in SUBSET OwnedSkills
    /\ UNCHANGED <<policyDoc, accountRow, openSkills, skillVersion, serverOn, sourceRows, permRow>>

SavePolicy ==
    /\ Edit /\ policyDoc' \in PolicyDocs \ {policyDoc}
    /\ UNCHANGED <<accountRow, openSkills, skillVersion, serverOn, profileSkills, sourceRows, permRow>>

EditAccount ==
    /\ Edit /\ accountRow' \in [disabled : BOOLEAN, tags : TagSets]
    /\ UNCHANGED <<policyDoc, openSkills, skillVersion, serverOn, profileSkills, sourceRows, permRow>>

EditSkill(s) ==
    /\ Edit /\ skillVersion' = [skillVersion EXCEPT ![s] = policyClock + 1]
    /\ openSkills' \in {openSkills, openSkills \cup ({s} \cap SharedSkills), openSkills \ {s}}
    /\ UNCHANGED <<policyDoc, accountRow, serverOn, profileSkills, sourceRows, permRow>>

ToggleServer(s) ==
    /\ Edit /\ serverOn' = IF s \in serverOn THEN serverOn \ {s} ELSE serverOn \cup {s}
    /\ UNCHANGED <<policyDoc, accountRow, openSkills, skillVersion, profileSkills, sourceRows, permRow>>

EditPermissions ==
    /\ Edit /\ permRow' \in {None, [tools |-> {"*"}, denied |-> {}],
                             [tools |-> {"*"}, denied |-> {"find"}]} \ {permRow}
    /\ UNCHANGED <<policyDoc, accountRow, openSkills, skillVersion, serverOn, profileSkills, sourceRows>>

TimePasses == Edit /\ UNCHANGED adminVars

PolicyInit ==
    /\ policyDoc \in PolicyDocs
    /\ accountRow = [disabled |-> FALSE, tags |-> CHOOSE t \in TagSets : TRUE]
    /\ openSkills = SharedSkills
    /\ skillVersion = [s \in OwnedSkills \cup SharedSkills |-> 0]
    /\ serverOn = Servers /\ profileSkills = {} /\ permRow = None /\ permCache = None
    /\ sourceRows = [id \in Sources |-> [mine |-> FALSE, public |-> TRUE, ready |-> TRUE]]
    /\ agentCache = <<>> /\ policyClock = 0 /\ turn = None /\ lastCall = None

PolicyNext ==
    \/ \E ref \in {"root-agent"} \cup OwnedSkills \cup SharedSkills,
          trigger \in {None} \cup Servers, docs \in BOOLEAN : StreamRootAgent(ref, trigger, docs)
    \/ TurnDone
    \/ \E tool \in {"find", "read_attached_document", "request_confirmation"} :
          \E selected \in BOOLEAN : CallTool(tool, None, selected)
    \/ \E server \in Servers : CallTool("sql_query_readonly", server, TRUE)
    \/ \E s \in OwnedSkills \cup SharedSkills : LoadSkill(s) \/ EditSkill(s)
    \/ SearchAgentKnowledge \/ PreviewSearch
    \/ BackgroundCall("find")
    \/ \E id \in Sources : CreateSource(id) \/ EditSource(id) \/ RemoveSource(id)
                           \/ SourceDocumentChanges(id)
    \/ SaveUserProfile \/ SavePolicy \/ EditAccount \/ EditPermissions \/ TimePasses
    \/ \E s \in Servers : ToggleServer(s)

PolicySpec == PolicyInit /\ [][PolicyNext]_policyVars

(***************************************************************************)
(* Properties.                                                             *)
(***************************************************************************)

PolicyTypeOK ==
    /\ policyDoc \in PolicyDocs /\ openSkills \subseteq SharedSkills
    /\ profileSkills \subseteq OwnedSkills /\ serverOn \subseteq Servers
    /\ policyClock \in 0 .. MaxPolicyEdits /\ Len(agentCache) <= CacheMax

\* The agent that serves a turn was built for exactly that turn's caller
\* access, policy and skill version, whether it came from the cache or not
\* (agent_cache.py: "the key fully determines correctness").
AgentIsTheTurns ==
    turn # None =>
        /\ turn.agent.policy = turn.policy /\ turn.agent.access = turn.access
        /\ turn.agent.skill = turn.skill /\ turn.agent.version = turn.version

\* A tool runs only under the policy, the account and the server list of the
\* moment of the call, although the agent was built, perhaps by another
\* request, under earlier ones.
CallStep ==
    lastCall' # None /\ lastCall'.ran /\ lastCall' # lastCall =>
        /\ ~accountRow.disabled
        /\ lastCall'.tool # "preview" => {lastCall'.tool, "*"} \cap policyDoc.denied = {}
        /\ lastCall'.server # None => lastCall'.server \in policyDoc.mcp \cap serverOn
        /\ lastCall'.tool = "find" => "find" \in policyDoc.tools
        /\ lastCall'.tool = "request_confirmation" =>
                 policyDoc.a2ui \/ "request_confirmation" \in policyDoc.tools
        /\ \A id \in lastCall'.found : sourceRows[id] # None
CallsAuthorized == [][CallStep]_lastCall
=============================================================================
