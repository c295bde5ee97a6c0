------------------------------ MODULE MCAccess ------------------------------
(* Who may do what, for TLC: how agents are built and hand over, the Root   *)
(* Agent policy, identity providers, workshop groups and peer protocols.    *)
(* They share no state, so a behaviour is one of any one of them (part)     *)
(* while the others rest in an initial state.                               *)
EXTENDS AgentFactory, RootPolicy, Identity, GroupAccess, PeerProtocols

CONSTANT AccessParts

VARIABLE part

NoDelegation == [enabled |-> FALSE, mode |-> "auto", allow |-> <<>>, maxDepth |-> 1, discoverJobs |-> FALSE]
Skill(id, slug) ==
    [id |-> id, owner |-> "platform", slug |-> slug, public |-> TRUE, tools |-> {"list_documents"},
     mcp |-> {}, model |-> "gemini", thinkingModel |-> None, thinking |-> "low", subSkills |-> <<>>,
     job |-> FALSE, jobFloor |-> "confirm", delegation |-> NoDelegation, artifacts |-> TRUE,
     a2ui |-> FALSE, confirmation |-> TRUE, knowledge |-> {}, datastore |-> FALSE, root |-> FALSE,
     budget |-> FALSE]
Allow(ref, floor) == [ref |-> ref, floor |-> floor, fields |-> "valid"]
Delegating(mode, allow, depth, discover) ==
    [enabled |-> TRUE, mode |-> mode, allow |-> allow, maxDepth |-> depth, discoverJobs |-> discover]

Doors ==
    {[Skill("u1", "door") EXCEPT !.delegation = Delegating(m, a, 1, d)] :
        m \in {"auto", "suggest"}, d \in BOOLEAN,
        a \in {<<Allow("expert", "block"), Allow("u3", "block")>>,
               <<Allow("u2", "confirm_with_fields"), Allow("expert", "auto")>>}}
    \cup {[Skill("u1", "door") EXCEPT !.subSkills = <<"u2", "expert">>, !.thinkingModel = "claude"]}
Experts ==
    {Skill("u2", "expert"), [Skill("u2", "expert") EXCEPT !.job = TRUE, !.jobFloor = "auto"],
     [Skill("u2", "expert") EXCEPT !.delegation = Delegating("auto", <<Allow("u3", "block")>>, 2, TRUE)],
     [Skill("u2", "expert") EXCEPT !.tools = {"code_execution"}]}
Namesakes ==
    {[Skill("u3", "expert") EXCEPT !.public = FALSE],
     [Skill("u3", "expert") EXCEPT !.owner = "visitor", !.tools = {"google_search", "bogus"}],
     [Skill("u3", "expert") EXCEPT !.tools = {"code_execution", "ai_search"}]}
MCVariants == ("u1" :> Doors) @@ ("u2" :> Experts) @@ ("u3" :> Namesakes)

Root(tools, mcp, specialists) ==
    [skills |-> {"u1", "u2", "u3"}, tools |-> tools, mcp |-> mcp, specialists |-> specialists,
     model |-> "gemini", a2ui |-> TRUE, knowledge |-> {}, budget |-> FALSE]
MCPolicies == {Root({"update_task_plan"}, {"s1"}, <<"u2", "u3">>), Root({}, {}, <<"u2">>)}

McpDoc(secret) == [enabled |-> TRUE, url |-> TRUE, secret |-> secret]
MCMcpDocs == "s1" :> {McpDoc(TRUE), None, McpDoc(FALSE)}

PolicyDoc(tools, denied, knowledge) ==
    [skills |-> {"k1", "k2"}, deniedSkills |-> {}, mcp |-> {"s1"}, tools |-> tools,
     denied |-> denied, knowledge |-> knowledge, a2ui |-> TRUE]
MCPolicyDocs ==
    {PolicyDoc({"find"}, {}, {"n1"}),
     [PolicyDoc({}, {"sql_query_readonly"}, {}) EXCEPT !.deniedSkills = {"k1"}, !.a2ui = FALSE]}

Part(shape, mime, size, scheme, decodes) ==
    [shape |-> shape, mime |-> mime, size |-> size, scheme |-> scheme, decodes |-> decodes]
MCA2aMessages ==
    {<<Part("text", "", 0, "", TRUE), Part("bytes", "pdf", 1, "", TRUE)>>,
     <<Part("bytes", "other", 1, "", TRUE), Part("uri", "pdf", 0, "https", TRUE)>>,
     <<Part("bytes", "pdf", 2, "", TRUE), Part("uri", "pdf", 0, "ftp", TRUE)>>,
     <<Part("bytes", "pdf", 1, "", FALSE), Part("odd", "", 0, "", TRUE)>>}

AccessInit ==
    /\ part \in AccessParts
    /\ IF part = "factory" THEN FactoryInit
       ELSE /\ skillRows = <<>> /\ rootDoc = None /\ mcpRows = <<>> /\ skillEdits = 0
            /\ built = None /\ running = <<>> /\ confirmCard = None /\ consented = {}
    /\ PolicyInit /\ (part # "policy" => policyDoc = CHOOSE d \in PolicyDocs : TRUE)
    /\ IdentityInit /\ (part # "identity" => provider = AuthBackend("", FALSE))
    /\ GroupInit
    /\ PeerInit /\ (part # "a2a" => a2aAuth /\ fileInput) /\ (part # "mcp" => reviewer = "none")

AccessNext ==
    \/ part = "factory" /\ FactoryNext
       /\ UNCHANGED <<part, policyVars, identityVars, groupVars, peerVars>>
    \/ part = "policy" /\ PolicyNext
       /\ UNCHANGED <<part, factoryVars, identityVars, groupVars, peerVars>>
    \/ part = "identity" /\ IdentityNext
       /\ UNCHANGED <<part, factoryVars, policyVars, groupVars, peerVars>>
    \/ part = "groups" /\ GroupNext
       /\ UNCHANGED <<part, factoryVars, policyVars, identityVars, peerVars>>
    \/ part = "a2a" /\ A2aNext
       /\ UNCHANGED <<part, factoryVars, policyVars, identityVars, groupVars>>
    \/ part = "mcp" /\ McpNext
       /\ UNCHANGED <<part, factoryVars, policyVars, identityVars, groupVars>>

AccessSpec ==
    /\ AccessInit
    /\ [][AccessNext]_<<part, factoryVars, policyVars, identityVars, groupVars, peerVars>>
-----------------------------------------------------------------------------
(* An agent tree never reaches beyond its declarations: outside the Root    *)
(* Agent a delegate is built to answer, and handed down to without a card,  *)
(* only where its floor says so, under it nothing exceeds the Root policy   *)
(* (HandoffsDeclared, RootCeiling).                                         *)
ScopesKept == [][HandoffStep /\ CeilingStep]_factoryVars

(* What runs is authorised at the moment it runs, not when it was asked     *)
(* for: tools by the policy, the account and the server list, proxied tool  *)
(* calls by the binding, and sessions by a live account (CallsAuthorized,   *)
(* ToolCallsPermitted, OnlyLiveAccounts).                                   *)
NothingUnauthorized ==
    [][CallStep /\ ForwardStep /\ VerifyStep]_<<policyVars, peerVars, identityVars>>

(* Caches of identity and policy are never mixed up: a cached agent is the  *)
(* one the turn asked for, a login completes its own transaction, a key is  *)
(* unknown only to fresh keys, a group code survives restarts and the join  *)
(* limiter keeps its bound (AgentIsTheTurns, LoginBound, RefreshIsFresh,    *)
(* CodesSurvive, RateBounded).                                              *)
AccountsSound ==
    PolicyTypeOK /\ AgentIsTheTurns /\ LoginBound /\ RefreshIsFresh /\ CodesSurvive /\ RateBounded

(* A peer gets what is its own: it reads only tasks it saved, and each file *)
(* it sends is stored or reported as rejected (TasksOwned, FilesAccounted). *)
PeersServed == TasksOwned /\ FilesAccounted
=============================================================================
