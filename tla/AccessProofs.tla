---------------------------- MODULE AccessProofs ----------------------------
(***************************************************************************)
(* Proofs about who may do what: Root Agent turns under a changing policy, *)
(* identity providers, workshop groups, peer protocols, the agents a       *)
(* factory makes, and their composition in MCAccess, for any users,        *)
(* processes, requests, documents and bounds.                              *)
(***************************************************************************)
EXTENDS MCAccess, NumberLemmas, FiniteSetTheorems, SequenceTheorems, TLAPS

(* The agent cache: the key of an entry is the key of the turn its agent    *)
(* was built for.                                                           *)
KeyOf(agent) == [skill |-> agent.skill, access |-> agent.access, scope |-> agent.policy,
                 version |-> agent.version]

TurnFields == {"agent", "policy", "access", "skill", "version", "docs", "trigger", "loaded"}

PolicyInv ==
    /\ PolicyTypeOK /\ AgentIsTheTurns
    /\ \E S : agentCache \in Seq(S) /\ \A e \in S : e.key = KeyOf(e.agent)
    /\ turn # None => turn = [f \in TurnFields |-> turn[f]]

LEMMA PolicyStarts == PolicyInit => PolicyInv
<1> SUFFICES ASSUME PolicyInit PROVE PolicyInv
  OBVIOUS
<1>1. agentCache \in Seq({}) /\ Len(agentCache) = 0
  BY DEF PolicyInit
<1>2. \E S : agentCache \in Seq(S) /\ \A e \in S : e.key = KeyOf(e.agent)
  BY <1>1
<1>3. PolicyTypeOK
  BY <1>1, PolicyAssumption DEF PolicyInit, PolicyTypeOK
<1>4. turn = None
  BY DEF PolicyInit
<1> QED
  BY <1>2, <1>3, <1>4, Zenon DEF PolicyInv, AgentIsTheTurns

(* What a turn gets from the cache was built for the same key, and the      *)
(* cache keeps its bound.                                                   *)
LEMMA TurnGetsItsAgent ==
    ASSUME PolicyInv, NEW skill, NEW policy, NEW access, NEW docs, NEW trigger,
           GetOrBuild(AgentKey(skill, access, policy),
                      [skill |-> skill, policy |-> policy, access |-> access,
                       version |-> AgentKey(skill, access, policy).version,
                       docs |-> docs, trigger |-> trigger])
    PROVE  /\ \E S : agentCache' \in Seq(S) /\ \A e \in S : e.key = KeyOf(e.agent)
           /\ Len(agentCache') <= CacheMax
           /\ turn' = [f \in TurnFields |-> turn'[f]]
           /\ AgentIsTheTurns'
<1> DEFINE key == AgentKey(skill, access, policy)
           agent == [skill |-> skill, policy |-> policy, access |-> access,
                     version |-> key.version, docs |-> docs, trigger |-> trigger]
           kept == IF Hit(key) # {} THEN agentCache[CHOOSE i \in Hit(key) : TRUE]
                   ELSE [key |-> key, at |-> policyClock, agent |-> agent]
<1>1. PICK S : agentCache \in Seq(S) /\ \A e \in S : e.key = KeyOf(e.agent)
  BY DEF PolicyInv
<1>2. key = KeyOf(agent) /\ key.skill = skill /\ key.access = access /\ key.scope = policy
  BY DEF AgentKey, KeyOf
<1>3. kept.key = key /\ kept.key = KeyOf(kept.agent)
  <2>1. CASE Hit(key) # {}
    <3>1. PICK i \in Hit(key) : kept = agentCache[i]
      BY <2>1
    <3>2. i \in DOMAIN agentCache /\ kept.key = key
      BY <3>1 DEF Hit
    <3> QED
      BY <1>1, <3>1, <3>2
  <2>2. CASE Hit(key) = {}
    BY <2>2, <1>2
  <2> QED
    BY <2>1, <2>2
<1>4. /\ agentCache' = Newest(Append(Without(key), kept))
      /\ turn' = [agent |-> kept.agent, policy |-> agent.policy, access |-> agent.access,
                  skill |-> agent.skill, version |-> agent.version, docs |-> agent.docs,
                  trigger |-> agent.trigger, loaded |-> {}]
  BY DEF GetOrBuild
<1> HIDE DEF kept, key
<1>5. Without(key) \in Seq(S)
  <2>1. CASE Kept(key) = {}
    BY <1>1, <2>1 DEF Without
  <2>2. ASSUME NEW i \in Kept(key), Without(key) = RemoveAt(agentCache, i) PROVE Without(key) \in Seq(S)
    <3>1. i \in 1 .. Len(agentCache) /\ Len(agentCache) \in Nat
      BY <1>1 DEF Kept
    <3>2. SubSeq(agentCache, 1, i - 1) \in Seq(S) /\ SubSeq(agentCache, i + 1, Len(agentCache)) \in Seq(S)
      BY <1>1, <3>1
    <3> QED
      BY <2>2, <3>2 DEF RemoveAt
  <2> QED
    BY <2>1, <2>2 DEF Without
<1> DEFINE T == S \cup {kept}
<1>6. Append(Without(key), kept) \in Seq(T)
  BY <1>5
<1>7. agentCache' \in Seq(T) /\ Len(agentCache') <= CacheMax
  <2> DEFINE cache == Append(Without(key), kept)
  <2> HIDE DEF cache
  <2>1. cache \in Seq(T) /\ CacheMax \in Nat \ {0} /\ agentCache' = Newest(cache)
    BY <1>4, <1>6, PolicyAssumption DEF cache
  <2>2. CASE Len(cache) > CacheMax
    <3>1. agentCache' = SubSeq(cache, Len(cache) - CacheMax + 1, Len(cache))
      BY <2>1, <2>2 DEF Newest
    <3>2. Len(cache) \in Nat /\ Len(cache) - CacheMax + 1 \in 1 .. Len(cache)
      BY <2>1, <2>2
    <3> HIDE DEF T
    <3> QED
      BY <2>1, <3>1, <3>2
  <2>3. CASE ~(Len(cache) > CacheMax)
    <3> HIDE DEF T
    <3> QED
      BY <2>1, <2>3 DEF Newest
  <2> QED
    BY <2>2, <2>3
<1>8. \A e \in T : e.key = KeyOf(e.agent)
  BY <1>1, <1>3
<1>9. KeyOf(kept.agent) = KeyOf(agent)
  BY <1>2, <1>3
<1>10. turn'.agent = kept.agent /\ turn'.policy = policy /\ turn'.access = access
       /\ turn'.skill = skill /\ turn'.version = agent.version
  BY <1>4
<1>11. AgentIsTheTurns'
  BY <1>9, <1>10 DEF KeyOf, AgentIsTheTurns
<1>12. turn' = [f \in TurnFields |-> turn'[f]]
  BY <1>4 DEF TurnFields
<1> QED
  BY <1>7, <1>8, <1>11, <1>12

LEMMA PolicyStep ==
    ASSUME PolicyInv, [PolicyNext]_policyVars
    PROVE  PolicyInv'
<1> USE DEF PolicyInv, PolicyTypeOK
<1>0. \A doc \in PolicyDocs : doc = [f \in PolicyFields |-> doc[f]]
  BY PolicyAssumption
<1>1. ASSUME NEW ref, NEW trigger, NEW docs, StreamRootAgent(ref, trigger, docs) PROVE PolicyInv'
  <2>1. UNCHANGED <<adminVars, policyClock>>
    BY <1>1 DEF StreamRootAgent
  <2>2. CASE UNCHANGED <<agentCache, turn>>
    BY <2>1, <2>2 DEF adminVars, AgentIsTheTurns
  <2> DEFINE policy == AuthorizedRoot
             skill == ResolveRootCapability(policy, ref)
             key == AgentKey(skill, AccessContext, policy)
  <2>3. CASE GetOrBuild(key, [skill |-> skill, policy |-> policy, access |-> AccessContext,
                              version |-> key.version, docs |-> docs, trigger |-> trigger])
    <3> HIDE DEF policy, skill
    <3> QED
      BY <2>1, <2>3, TurnGetsItsAgent DEF adminVars
  <2> QED
    BY <1>1, <2>2, <2>3 DEF StreamRootAgent
<1>2. CASE TurnDone
  BY <1>2 DEF TurnDone, adminVars, AgentIsTheTurns
<1>3. ASSUME UNCHANGED <<adminVars, agentCache, turn, policyClock>> PROVE PolicyInv'
  BY <1>3 DEF adminVars, AgentIsTheTurns
<1>4. ASSUME NEW ref, LoadSkill(ref) PROVE PolicyInv'
  <2>1. UNCHANGED <<adminVars, agentCache, policyClock>> /\ turn # None
    BY <1>4 DEF LoadSkill
  <2>2. turn' = turn \/ \E x : turn' = [turn EXCEPT !.loaded = x]
    BY <1>4 DEF LoadSkill
  <2>3. turn = [f \in TurnFields |-> turn[f]]
    BY <2>1
  <2>4. AgentIsTheTurns' /\ turn' = [f \in TurnFields |-> turn'[f]]
    BY <2>1, <2>2, <2>3 DEF AgentIsTheTurns, TurnFields
  <2> QED
    BY <2>1, <2>4 DEF adminVars
<1>5. ASSUME Edit, policyDoc' \in PolicyDocs, openSkills' \subseteq SharedSkills,
             profileSkills' \subseteq OwnedSkills, serverOn' \subseteq Servers
      PROVE  PolicyInv'
  BY <1>5, PolicyAssumption DEF Edit, AgentIsTheTurns
<1>6. CASE UNCHANGED policyVars
  BY <1>3, <1>6 DEF policyVars, adminVars
<1>7. ASSUME NEW tool, NEW server, NEW selected, CallTool(tool, server, selected) PROVE PolicyInv'
  BY <1>3, <1>7 DEF CallTool
<1>8. ASSUME NEW tool, BackgroundCall(tool) PROVE PolicyInv'
  BY <1>3, <1>8 DEF BackgroundCall
<1>9. CASE SearchAgentKnowledge \/ PreviewSearch
  BY <1>3, <1>9 DEF SearchAgentKnowledge, PreviewSearch
<1>10. ASSUME NEW s, EditSkill(s) PROVE PolicyInv'
  BY <1>5, <1>10 DEF EditSkill
<1>11. ASSUME NEW id, CreateSource(id) \/ EditSource(id) \/ RemoveSource(id) \/ SourceDocumentChanges(id)
       PROVE  PolicyInv'
  BY <1>5, <1>11 DEF CreateSource, EditSource, RemoveSource, SourceDocumentChanges, Rest
<1>12. CASE SaveUserProfile \/ SavePolicy \/ EditAccount \/ EditPermissions \/ TimePasses
  BY <1>5, <1>12 DEF SaveUserProfile, SavePolicy, EditAccount, EditPermissions, TimePasses, adminVars
<1>13. ASSUME NEW s \in Servers, ToggleServer(s) PROVE PolicyInv'
  BY <1>5, <1>13 DEF ToggleServer
<1> QED
  BY <1>1, <1>2, <1>4, <1>6, <1>7, <1>8, <1>9, <1>10, <1>11, <1>12, <1>13, Zenon DEF PolicyNext

(* What a call did was decided by the policy, the account and the servers   *)
(* of that moment.                                                          *)
LEMMA CallNext ==
    ASSUME PolicyInv, [PolicyNext]_policyVars
    PROVE  CallStep
<1> SUFFICES ASSUME lastCall' # None, lastCall'.ran, lastCall' # lastCall PROVE CallStep
  BY DEF CallStep
<1>0. policyDoc = [f \in PolicyFields |-> policyDoc[f]]
  BY PolicyAssumption DEF PolicyInv, PolicyTypeOK
<1>1. AuthorizedRoot.mcp = policyDoc.mcp \cap serverOn /\ AuthorizedRoot.tools = policyDoc.tools
  BY <1>0 DEF AuthorizedRoot, PolicyFields
<1>2. ASSUME NEW tool, NEW server, NEW selected, CallTool(tool, server, selected),
             server = None \/ tool = "sql_query_readonly"
      PROVE  CallStep
  <2>1. /\ lastCall'.tool = tool /\ lastCall'.server = server /\ lastCall'.found = {}
        /\ lastCall'.ran = (PermissionEnforcer(tool, server) /\ DocumentArgsAllowed(tool, selected))
    BY <1>2 DEF CallTool
  <2>2. PermissionEnforcer(tool, server)
    BY <2>1
  <2>3. CASE server # None
    <3>1. ~accountRow.disabled /\ server \in policyDoc.mcp \cap serverOn /\ {tool, "*"} \cap policyDoc.denied = {}
      BY <1>1, <2>2, <2>3 DEF PermissionEnforcer, RefreshAuthorization, McpCallAllowed
    <3>2. tool = "sql_query_readonly"
      BY <1>2, <2>3
    <3> QED
      BY <2>1, <3>1, <3>2 DEF CallStep
  <2>4. CASE server = None
    BY <1>1, <2>1, <2>2, <2>4 DEF PermissionEnforcer, RefreshAuthorization, RootToolBound, ControlTools, CallStep
  <2> QED
    BY <2>3, <2>4
<1>3. ASSUME NEW ref, LoadSkill(ref) PROVE CallStep
  <2>1. lastCall'.tool = "load_skill" /\ lastCall'.server = None /\ lastCall'.found = {}
    BY <1>3 DEF LoadSkill
  <2>2. PermissionEnforcer("load_skill", None)
    BY <1>3 DEF LoadSkill
  <2> QED
    BY <2>1, <2>2 DEF PermissionEnforcer, RefreshAuthorization, CallStep
<1>4. CASE SearchAgentKnowledge
  BY <1>4 DEF SearchAgentKnowledge, PermissionEnforcer, RefreshAuthorization, SearchSources, SourceFor, CallStep
<1>5. CASE PreviewSearch
  BY <1>5 DEF PreviewSearch, RefreshAuthorization, SearchSources, SourceFor, CallStep
<1>6. \/ \E tool, server, selected : /\ CallTool(tool, server, selected)
                                     /\ server = None \/ tool = "sql_query_readonly"
      \/ \E ref : LoadSkill(ref)
      \/ SearchAgentKnowledge \/ PreviewSearch \/ lastCall' = None \/ lastCall' = lastCall
  <2>1. ASSUME NEW id, CreateSource(id) \/ EditSource(id) \/ RemoveSource(id) \/ SourceDocumentChanges(id)
        PROVE  lastCall' = None
    BY <2>1 DEF CreateSource, EditSource, RemoveSource, SourceDocumentChanges, Edit
  <2>2. ASSUME SaveUserProfile \/ SavePolicy \/ EditAccount \/ EditPermissions \/ TimePasses
        PROVE  lastCall' = None
    BY <2>2 DEF SaveUserProfile, SavePolicy, EditAccount, EditPermissions, TimePasses, Edit
  <2>3. ASSUME NEW s, ToggleServer(s) \/ EditSkill(s) PROVE lastCall' = None
    BY <2>3 DEF ToggleServer, EditSkill, Edit
  <2>4. ASSUME NEW ref, NEW trigger, NEW docs, StreamRootAgent(ref, trigger, docs) PROVE lastCall' = None
    BY <2>4 DEF StreamRootAgent
  <2>5. ASSUME NEW tool, BackgroundCall(tool) PROVE lastCall' = None
    BY <2>5 DEF BackgroundCall
  <2>6. ASSUME TurnDone PROVE lastCall' = None
    BY <2>6 DEF TurnDone
  <2>7. ASSUME UNCHANGED policyVars PROVE lastCall' = lastCall
    BY <2>7 DEF policyVars
  <2> QED
    BY <2>1, <2>2, <2>3, <2>4, <2>5, <2>6, <2>7, Zenon DEF PolicyNext
<1> QED
  BY <1>2, <1>3, <1>4, <1>5, <1>6

\* The agent that serves a turn was built for that turn's access, policy and
\* version, and every call is authorized by the policy of its moment, for any
\* policies, skills, servers and cache size.
THEOREM CallsAreAuthorized == PolicySpec => []PolicyTypeOK /\ []AgentIsTheTurns /\ CallsAuthorized
<1>1. PolicyInv /\ [PolicyNext]_policyVars => PolicyInv' /\ [CallStep]_lastCall
  BY PolicyStep, CallNext
<1>2. PolicyInv => PolicyTypeOK /\ AgentIsTheTurns
  BY DEF PolicyInv
<1> QED
  BY <1>1, <1>2, PolicyStarts, PTL DEF PolicySpec, CallsAuthorized
-----------------------------------------------------------------------------
(* Groups: what a process knows agrees with the documents, except for       *)
(* groups that were revoked; and what the limiter let through is paid for   *)
(* by the capacity and the time that has passed.                            *)
Bucket == [tokens : 0 .. Capacity * TokenTicks, at : Nat]

GroupState ==
    /\ groupDocs \in [GroupCodes -> GroupDoc \cup {None}]
    /\ groupCache \in [GroupProcesses -> [GroupCodes -> GroupRecord \cup {None}]]
    /\ revokedHere \in [GroupProcesses -> SUBSET GroupCodes]
    /\ handedOut \subseteq GroupCodes /\ revokedBy \subseteq GroupCodes /\ groupClock \in Nat

TokensNameGroups == \A t \in joinTokens : t.code \in GroupCodes

DocsKept ==
    /\ \A p \in GroupProcesses : revokedHere[p] \subseteq revokedBy
    /\ \A g \in GroupCodes :
          /\ g \in handedOut => groupDocs[g] # None
          /\ groupDocs[g] # None /\ groupDocs[g].revoked => g \in revokedBy
          /\ g \notin revokedBy =>
                \A p \in GroupProcesses :
                    groupCache[p][g] # None => /\ groupDocs[g] # None
                                               /\ groupCache[p][g].expires = groupDocs[g].expires

BucketPays(p) ==
    LET n == Len(attempts[p])
    IN IF bucket[p] = None THEN attempts[p] = <<>>
       ELSE /\ bucket[p] \in Bucket /\ bucket[p].at <= groupClock
            /\ \A i \in 1 .. n :
                  /\ attempts[p][i] <= bucket[p].at
                  /\ (n - i + 1) * TokenTicks + bucket[p].tokens
                        <= Capacity * TokenTicks + (bucket[p].at - attempts[p][i])
            /\ \A i, j \in 1 .. n :
                  i <= j => (j - i + 1 - Capacity) * TokenTicks <= attempts[p][j] - attempts[p][i]

LimiterInv ==
    /\ attempts \in [GroupProcesses -> Seq(Nat)] /\ DOMAIN bucket = GroupProcesses
    /\ \A p \in GroupProcesses : BucketPays(p)

GroupInv == GroupState /\ DocsKept /\ LimiterInv /\ TokensNameGroups

LEMMA GroupStarts == GroupInit => GroupInv
<1> SUFFICES ASSUME GroupInit PROVE GroupInv
  OBVIOUS
<1>1. GroupState /\ DocsKept
  BY DEF GroupInit, GroupState, DocsKept
<1>2. LimiterInv
  BY DEF GroupInit, LimiterInv, BucketPays
<1> QED
  BY <1>1, <1>2 DEF GroupInv, GroupInit, TokensNameGroups

(* Looking a group up tells a process what the document says.               *)
LEMMA LookupKeeps ==
    ASSUME GroupState, DocsKept, NEW p \in GroupProcesses, NEW g \in GroupCodes, NEW read,
           groupCache' = Cached(p, g, read), revokedHere' = Learned(p, g, read) \/ revokedHere' = revokedHere,
           UNCHANGED <<groupDocs, handedOut, revokedBy>>, groupClock' = groupClock
    PROVE  (GroupState /\ DocsKept)'
<1> USE DEF GroupState
<1>1. ASSUME groupDocs[g] # None
      PROVE  RecordOf(g) \in GroupRecord /\ RecordOf(g).expires = groupDocs[g].expires
             /\ groupDocs[g].revoked \in BOOLEAN
  BY <1>1 DEF RecordOf, GroupRecord, GroupDoc
<1>2. GetGroup(p, g, read) \in GroupRecord \cup {None}
  BY <1>1 DEF GetGroup, LoadGroup
<1>3. groupCache' = [groupCache EXCEPT ![p][g] = GetGroup(p, g, read)]
  BY DEF Cached
<1>4. revokedHere' \in [GroupProcesses -> SUBSET GroupCodes] /\ \A q \in GroupProcesses : revokedHere'[q] \subseteq revokedBy
  <2>1. revokedHere' = revokedHere \/ (revokedHere' = [revokedHere EXCEPT ![p] = @ \cup {g}] /\ g \in revokedBy)
    BY DEF Learned, DocsKept
  <2> QED
    BY <2>1 DEF DocsKept
<1>5. GroupState'
  <2>1. [groupCache[p] EXCEPT ![g] = GetGroup(p, g, read)] \in [GroupCodes -> GroupRecord \cup {None}]
    BY <1>2
  <2>2. groupCache' = [groupCache EXCEPT ![p] = [groupCache[p] EXCEPT ![g] = GetGroup(p, g, read)]]
    BY <1>3
  <2>3. groupCache' \in [GroupProcesses -> [GroupCodes -> GroupRecord \cup {None}]]
    BY <2>1, <2>2
  <2> QED
    BY <1>4, <2>3
<1>6. ASSUME NEW h \in GroupCodes, h \notin revokedBy, NEW q \in GroupProcesses, groupCache'[q][h] # None
      PROVE  groupDocs[h] # None /\ groupCache'[q][h].expires = groupDocs[h].expires
  <2>1. CASE q = p /\ h = g
    <3>1. groupCache'[q][h] = GetGroup(p, g, read)
      BY <1>3, <2>1
    <3>2. GetGroup(p, g, read) = groupCache[p][g] \/ (GetGroup(p, g, read) = RecordOf(g) /\ groupDocs[g] # None)
      BY <3>1, <1>6 DEF GetGroup, LoadGroup
    <3> QED
      BY <1>1, <1>6, <2>1, <3>1, <3>2 DEF DocsKept
  <2>2. CASE ~(q = p /\ h = g)
    <3>1. groupCache'[q][h] = groupCache[q][h]
      BY <1>3, <2>2
    <3> QED
      BY <1>6, <3>1 DEF DocsKept
  <2> QED
    BY <2>1, <2>2
<1>7. DocsKept'
  BY <1>4, <1>6 DEF DocsKept
<1> QED
  BY <1>5, <1>7

LEMMA CreateKeepsDocs ==
    ASSUME GroupState, DocsKept, NEW p \in GroupProcesses, NEW g \in GroupCodes, NEW u \in Creators,
           CreateGroup(p, u, g)
    PROVE  (GroupState /\ DocsKept)'
<1> USE DEF GroupState
<1>1. UNCHANGED <<revokedHere, revokedBy, groupClock>> /\ groupDocs[g] = None
  BY DEF CreateGroup, CodeExists
<1>2. CASE UNCHANGED <<groupDocs, groupCache, handedOut>>
  BY <1>1, <1>2 DEF DocsKept
<1> DEFINE doc == [creator |-> u, expires |-> groupClock + GroupLife, revoked |-> FALSE]
           record == [creator |-> u, expires |-> groupClock + GroupLife]
<1>3. CASE /\ groupDocs' = [groupDocs EXCEPT ![g] = doc]
           /\ groupCache' = [groupCache EXCEPT ![p][g] = record] /\ handedOut' = handedOut \cup {g}
  <2>1. doc \in GroupDoc /\ record \in GroupRecord /\ doc # None /\ record.expires = doc.expires /\ ~doc.revoked
    <3>1. groupClock + GroupLife \in Nat
      BY GroupAssumption
    <3>2. doc \in GroupDoc /\ record \in GroupRecord
      BY <3>1 DEF GroupDoc, GroupRecord
    <3>3. doc # None
      <4> HIDE DEF doc, record
      <4> QED
        BY <3>2, GroupAssumption
    <3> QED
      BY <3>2, <3>3
  <2> HIDE DEF doc, record
  <2>2. GroupState'
    <3>1. [groupCache[p] EXCEPT ![g] = record] \in [GroupCodes -> GroupRecord \cup {None}]
      BY <2>1
    <3>2. groupCache' = [groupCache EXCEPT ![p] = [groupCache[p] EXCEPT ![g] = record]]
      BY <1>3
    <3>3. groupCache' \in [GroupProcesses -> [GroupCodes -> GroupRecord \cup {None}]]
      BY <3>1, <3>2
    <3>4. groupDocs' \in [GroupCodes -> GroupDoc \cup {None}] /\ handedOut' \subseteq GroupCodes
      BY <1>3, <2>1
    <3> QED
      BY <1>1, <3>3, <3>4
  <2>3. ASSUME NEW h \in GroupCodes
        PROVE  /\ h \in handedOut' => groupDocs'[h] # None
               /\ groupDocs'[h] # None /\ groupDocs'[h].revoked => h \in revokedBy
    BY <1>3, <2>1 DEF DocsKept
  <2>4. ASSUME NEW h \in GroupCodes, h \notin revokedBy, NEW q \in GroupProcesses, groupCache'[q][h] # None
        PROVE  groupDocs'[h] # None /\ groupCache'[q][h].expires = groupDocs'[h].expires
    <3>1. CASE q = p /\ h = g
      BY <1>3, <2>1, <3>1
    <3>2. CASE h = g /\ q # p
      <4>1. groupCache'[q][h] = groupCache[q][h]
        BY <1>3, <3>2
      <4> QED
        BY <1>1, <2>4, <3>2, <4>1 DEF DocsKept
    <3>3. CASE h # g
      <4>1. groupCache'[q][h] = groupCache[q][h] /\ groupDocs'[h] = groupDocs[h]
        BY <1>3, <3>3
      <4> QED
        BY <2>4, <4>1 DEF DocsKept
    <3> QED
      BY <3>1, <3>2, <3>3
  <2>5. DocsKept'
    BY <1>1, <2>3, <2>4 DEF DocsKept
  <2> QED
    BY <2>2, <2>5
<1> QED
  BY <1>2, <1>3 DEF CreateGroup, PersistGroup

LEMMA DeleteKeepsDocs ==
    ASSUME GroupState, DocsKept, NEW p \in GroupProcesses, NEW g \in GroupCodes, NEW u, NEW read,
           DeleteGroup(p, u, g, read)
    PROVE  (GroupState /\ DocsKept)'
<1>1. UNCHANGED <<handedOut, groupClock>>
  BY DEF DeleteGroup
<1>2. CASE /\ groupCache' = Cached(p, g, read)
           /\ revokedHere' = Learned(p, g, read) \/ revokedHere' = revokedHere
           /\ UNCHANGED <<groupDocs, revokedBy>>
  BY <1>1, <1>2, LookupKeeps
<1>3. CASE /\ groupCache' = [groupCache EXCEPT ![p][g] = None]
           /\ revokedHere' = [revokedHere EXCEPT ![p] = @ \cup {g}]
           /\ revokedBy' = revokedBy \cup {g} /\ MarkRevoked(g)
  <2> USE DEF GroupState
  <2>1. \/ groupDocs' = groupDocs
        \/ groupDocs' = [groupDocs EXCEPT ![g].revoked = TRUE] /\ groupDocs[g] # None
    BY <1>3 DEF MarkRevoked
  <2>2. /\ groupDocs' \in [GroupCodes -> GroupDoc \cup {None}]
        /\ \A h \in GroupCodes : h # g => groupDocs'[h] = groupDocs[h]
        /\ groupDocs[g] # None => groupDocs'[g] # None
    <3>1. CASE groupDocs' = groupDocs
      BY <3>1
    <3>2. CASE groupDocs' = [groupDocs EXCEPT ![g].revoked = TRUE] /\ groupDocs[g] # None
      <4>1. [groupDocs[g] EXCEPT !.revoked = TRUE] \in GroupDoc
        BY <3>2 DEF GroupDoc
      <4>2. groupDocs' = [groupDocs EXCEPT ![g] = [groupDocs[g] EXCEPT !.revoked = TRUE]]
        BY <3>2
      <4> QED
        BY <4>1, <4>2, GroupAssumption
    <3> QED
      BY <2>1, <3>1, <3>2
  <2>3. GroupState'
    BY <1>1, <1>3, <2>2
  <2>4. \A q \in GroupProcesses : revokedHere'[q] \subseteq revokedBy'
    BY <1>3 DEF DocsKept
  <2>5. ASSUME NEW h \in GroupCodes
        PROVE  /\ h \in handedOut' => groupDocs'[h] # None
               /\ groupDocs'[h] # None /\ groupDocs'[h].revoked => h \in revokedBy'
               /\ h \notin revokedBy' =>
                    \A q \in GroupProcesses :
                        groupCache'[q][h] # None => /\ groupDocs'[h] # None
                                                    /\ groupCache'[q][h].expires = groupDocs'[h].expires
    <3>1. CASE h = g
      BY <1>1, <1>3, <2>2, <3>1 DEF DocsKept
    <3>2. CASE h # g
      <4>1. groupDocs'[h] = groupDocs[h] /\ \A q \in GroupProcesses : groupCache'[q][h] = groupCache[q][h]
        BY <1>3, <2>2, <3>2
      <4> QED
        BY <1>1, <1>3, <4>1 DEF DocsKept
    <3> QED
      BY <3>1, <3>2
  <2> QED
    BY <2>3, <2>4, <2>5 DEF DocsKept
<1>4. CASE GetGroup(p, g, read) = None \/ GetGroup(p, g, read).creator # u
  <2>1. /\ groupCache' = Cached(p, g, read)
        /\ revokedHere' = Learned(p, g, read) \/ revokedHere' = revokedHere
        /\ UNCHANGED <<groupDocs, revokedBy>>
    BY <1>4, Zenon DEF DeleteGroup
  <2> QED
    BY <1>2, <2>1
<1>5. CASE ~(GetGroup(p, g, read) = None \/ GetGroup(p, g, read).creator # u)
  BY <1>3, <1>5 DEF DeleteGroup
<1> QED
  BY <1>4, <1>5

(* The arithmetic of the limiter: T ticks make a token, a full bucket holds  *)
(* C of them.                                                               *)
LEMMA TokenTimes ==
    ASSUME NEW C \in Nat \ {0}, NEW T \in Nat \ {0}, NEW m \in Int
    PROVE  /\ (m + 1) * T = m * T + T /\ (m - C) * T = m * T - C * T
           /\ (m + 1 - C) * T = m * T + T - C * T
           /\ m * T \in Int /\ C * T \in Nat /\ T <= C * T /\ 1 * T = T
OBVIOUS

(* An attempt that is let through pays with a token it has.                 *)
LEMMA AttemptPays ==
    ASSUME LimiterInv, GroupState, NEW p \in GroupProcesses, CheckRate(p), groupClock' = groupClock
    PROVE  LimiterInv'
<1> DEFINE K == Capacity * TokenTicks
           R == Refilled(p)
           n == Len(attempts[p])
           spent == IF Allowed(p) THEN TokenTicks ELSE 0
<1>0. TokenTicks \in Nat \ {0} /\ Capacity \in Nat \ {0} /\ K \in Nat /\ groupClock \in Nat
  <2>1. TokenTicks \in Nat \ {0} /\ Capacity \in Nat \ {0}
    BY GroupAssumption
  <2> QED
    BY <2>1, TokenTimes DEF GroupState
<1>1. BucketPays(p) /\ attempts[p] \in Seq(Nat) /\ n \in Nat
  BY DEF LimiterInv
<1> HIDE DEF K
<1>2. /\ R \in 0 .. K
      /\ \A i \in 1 .. n : /\ attempts[p][i] \in Nat /\ attempts[p][i] <= groupClock
                           /\ (n - i + 1) * TokenTicks + R <= K + (groupClock - attempts[p][i])
  <2>1. CASE bucket[p] = None
    <3>1. attempts[p] = <<>> /\ R = K
      BY <1>1, <2>1 DEF Refilled, BucketPays, K
    <3>2. n = 0 /\ 1 .. n = {}
      BY <3>1
    <3> QED
      BY <1>0, <3>1, <3>2
  <2>2. CASE bucket[p] # None
    <3>1. bucket[p].tokens \in 0 .. K /\ bucket[p].at \in 0 .. groupClock
      BY <1>0, <1>1, <2>2 DEF BucketPays, Bucket, K
    <3>2. R \in 0 .. K /\ R <= bucket[p].tokens + (groupClock - bucket[p].at)
      BY <1>0, <2>2, <3>1 DEF Refilled, K
    <3>3. ASSUME NEW i \in 1 .. n
          PROVE  /\ attempts[p][i] \in Nat /\ attempts[p][i] <= groupClock
                 /\ (n - i + 1) * TokenTicks + R <= K + (groupClock - attempts[p][i])
      <4>1. /\ attempts[p][i] \in Nat /\ attempts[p][i] <= bucket[p].at
            /\ (n - i + 1) * TokenTicks + bucket[p].tokens <= K + (bucket[p].at - attempts[p][i])
        <5>1. attempts[p][i] \in Nat
          BY <1>1
        <5>2. /\ attempts[p][i] <= bucket[p].at
              /\ (n - i + 1) * TokenTicks + bucket[p].tokens <= K + (bucket[p].at - attempts[p][i])
          BY <1>1, <2>2, ZenonT(30) DEF BucketPays, K
        <5> QED
          BY <5>1, <5>2
      <4>2. (n - i + 1) * TokenTicks \in Int
        <5>1. n - i + 1 \in Int
          BY <1>1
        <5> QED
          BY <1>0, <5>1, TokenTimes
      <4>3. R \in Int /\ K \in Int /\ bucket[p].at \in Int /\ bucket[p].tokens \in Int
        BY <1>0, <3>1, <3>2
      <4>4. (n - i + 1) * TokenTicks + R <= K + (groupClock - attempts[p][i])
        <5> DEFINE z == (n - i + 1) * TokenTicks
        <5>1. z \in Int /\ z + bucket[p].tokens <= K + (bucket[p].at - attempts[p][i])
          BY <4>1, <4>2
        <5> HIDE DEF z, R, n
        <5>2. z + R <= K + (groupClock - attempts[p][i])
          BY <1>0, <3>1, <3>2, <4>1, <4>3, <5>1
        <5> QED
          BY <5>2 DEF z
      <4>5. attempts[p][i] \in Nat /\ attempts[p][i] <= groupClock
        <5>1. attempts[p][i] \in Nat /\ attempts[p][i] <= bucket[p].at
          BY <4>1
        <5>2. groupClock \in Nat /\ bucket[p].at \in Nat /\ bucket[p].at <= groupClock
          BY <1>0, <3>1
        <5> HIDE DEF R, n, spent
        <5> QED
          BY <5>1, <5>2
      <4> QED
        BY <4>4, <4>5
    <3> QED
      BY <3>2, <3>3
  <2> QED
    BY <2>1, <2>2
<1>3. /\ attempts' = IF Allowed(p) THEN [attempts EXCEPT ![p] = Append(@, groupClock)] ELSE attempts
      /\ bucket' = [bucket EXCEPT ![p] = [tokens |-> R - spent, at |-> groupClock]]
      /\ R - spent \in 0 .. K
  BY <1>0, <1>2 DEF CheckRate, Allowed
<1>4. ASSUME NEW q \in GroupProcesses, q # p PROVE BucketPays(q)'
  <2>1. bucket'[q] = bucket[q] /\ attempts'[q] = attempts[q] /\ BucketPays(q)
    BY <1>3, <1>4 DEF LimiterInv
  <2> QED
    BY <2>1 DEF BucketPays
<1>5. attempts' \in [GroupProcesses -> Seq(Nat)] /\ DOMAIN bucket' = GroupProcesses
  BY <1>0, <1>3 DEF LimiterInv
<1>6. \A i, j \in 1 .. n :
         i <= j => (j - i + 1 - Capacity) * TokenTicks <= attempts[p][j] - attempts[p][i]
  BY <1>1 DEF BucketPays
<1>7. bucket'[p] = [tokens |-> R - spent, at |-> groupClock]
  BY <1>3 DEF LimiterInv
<1> DEFINE m == Len(attempts'[p])
<1>8. ASSUME \A i \in 1 .. m :
                 /\ attempts'[p][i] <= groupClock
                 /\ (m - i + 1) * TokenTicks + (R - spent) <= K + (groupClock - attempts'[p][i]),
             \A i, j \in 1 .. m :
                 i <= j => (j - i + 1 - Capacity) * TokenTicks <= attempts'[p][j] - attempts'[p][i]
      PROVE  BucketPays(p)'
  <2>1. bucket'[p] \in Bucket /\ bucket'[p].at = groupClock /\ bucket'[p].tokens = R - spent
    BY <1>0, <1>3, <1>7 DEF Bucket, K
  <2> HIDE DEF R, spent
  <2>2. bucket'[p].at <= groupClock'
    BY <1>0, <2>1
  <2>3. bucket'[p] # None
    <3>1. Bucket \subseteq [tokens : Nat, at : Nat]
      BY <1>0 DEF Bucket, K
    <3> QED
      BY <2>1, <3>1, GroupAssumption
  <2> QED
    BY <1>8, <2>1, <2>2, <2>3 DEF BucketPays, K
<1>9. ASSUME ~Allowed(p) PROVE BucketPays(p)'
  <2>1. attempts'[p] = attempts[p] /\ spent = 0 /\ R - spent = R
    BY <1>2, <1>3, <1>9
  <2> HIDE DEF R, spent
  <2> QED
    BY <1>1, <1>2, <1>6, <1>8, <2>1
<1>10. ASSUME Allowed(p) PROVE BucketPays(p)'
  <2>1. attempts'[p] = Append(attempts[p], groupClock) /\ spent = TokenTicks /\ TokenTicks <= R
    BY <1>1, <1>3, <1>10 DEF Allowed, LimiterInv
  <2>2. /\ Len(attempts'[p]) = n + 1 /\ attempts'[p][n + 1] = groupClock
        /\ \A i \in 1 .. n : attempts'[p][i] = attempts[p][i]
    BY <1>0, <1>1, <2>1
  <2>m. m = n + 1
    BY <2>2
  <2> HIDE DEF R, spent, n, m
  <2>3. ASSUME NEW i \in 1 .. n + 1
        PROVE  /\ attempts'[p][i] <= groupClock
               /\ (n + 1 - i + 1) * TokenTicks + (R - spent) <= K + (groupClock - attempts'[p][i])
    <3>1. CASE i = n + 1
      <4>1. n + 1 - i + 1 = 1 /\ 1 * TokenTicks = TokenTicks
        BY <1>0, <1>1, <3>1, TokenTimes
      <4>2. attempts'[p][i] = groupClock
        BY <2>2, <3>1
      <4> QED
        BY <1>0, <1>2, <2>1, <4>1, <4>2
    <3>2. CASE i \in 1 .. n
      <4>1. n - i + 1 \in Int /\ n + 1 - i + 1 = (n - i + 1) + 1
        BY <1>1, <3>2
      <4>2. /\ (n + 1 - i + 1) * TokenTicks = (n - i + 1) * TokenTicks + TokenTicks
            /\ (n - i + 1) * TokenTicks \in Int
        BY <1>0, <4>1, TokenTimes
      <4>3. /\ attempts'[p][i] = attempts[p][i] /\ attempts[p][i] \in Nat /\ attempts[p][i] <= groupClock
            /\ (n - i + 1) * TokenTicks + R <= K + (groupClock - attempts[p][i])
        BY <1>2, <2>2, <3>2
      <4> DEFINE z == (n - i + 1) * TokenTicks
                 y == (n + 1 - i + 1) * TokenTicks
      <4>4. y = z + TokenTicks /\ z \in Int /\ z + R <= K + (groupClock - attempts[p][i])
        BY <4>2, <4>3
      <4> HIDE DEF z, y
      <4>5. y + (R - spent) <= K + (groupClock - attempts[p][i])
        BY <1>0, <1>2, <2>1, <4>3, <4>4
      <4> QED
        BY <4>3, <4>5 DEF y
    <3> QED
      BY <1>1, <3>1, <3>2
  <2>4. ASSUME NEW i \in 1 .. n + 1, NEW j \in 1 .. n + 1, i <= j
        PROVE  (j - i + 1 - Capacity) * TokenTicks <= attempts'[p][j] - attempts'[p][i]
    <3>1. CASE j \in 1 .. n
      <4>1. i \in 1 .. n
        BY <1>1, <2>4, <3>1
      <4> QED
        BY <1>6, <2>2, <2>4, <3>1, <4>1
    <3>2. CASE j = n + 1 /\ i = n + 1
      <4>1. j - i + 1 - Capacity = 0 + 1 - Capacity
        BY <1>0, <1>1, <3>2
      <4>2. (0 + 1 - Capacity) * TokenTicks = 0 * TokenTicks + TokenTicks - Capacity * TokenTicks
            /\ 0 * TokenTicks = 0 /\ TokenTicks <= Capacity * TokenTicks /\ Capacity * TokenTicks \in Nat
        BY <1>0, TokenTimes
      <4>3. attempts'[p][j] - attempts'[p][i] = 0
        BY <1>0, <2>2, <3>2
      <4> QED
        BY <1>0, <4>1, <4>2, <4>3
    <3>3. CASE j = n + 1 /\ i \in 1 .. n
      <4>1. n - i + 1 \in Int /\ j - i + 1 - Capacity = (n - i + 1) + 1 - Capacity
        BY <1>0, <1>1, <3>3
      <4>2. /\ (j - i + 1 - Capacity) * TokenTicks = (n - i + 1) * TokenTicks + TokenTicks - K
            /\ (n - i + 1) * TokenTicks \in Int
        BY <1>0, <4>1, TokenTimes DEF K
      <4>3. /\ attempts'[p][i] = attempts[p][i] /\ attempts[p][i] \in Nat /\ attempts'[p][j] = groupClock
            /\ (n - i + 1) * TokenTicks + R <= K + (groupClock - attempts[p][i])
        BY <1>2, <2>2, <3>3
      <4> DEFINE z == (n - i + 1) * TokenTicks
                 y == (j - i + 1 - Capacity) * TokenTicks
      <4>4. y = z + TokenTicks - K /\ z \in Int /\ z + R <= K + (groupClock - attempts[p][i])
        BY <4>2, <4>3
      <4> HIDE DEF z, y
      <4>5. y <= groupClock - attempts[p][i]
        BY <1>0, <1>2, <2>1, <4>3, <4>4, SMTT(60)
      <4> QED
        BY <4>3, <4>5 DEF y
    <3> QED
      BY <1>1, <2>4, <3>1, <3>2, <3>3
  <2>5. \A i \in 1 .. m :
           /\ attempts'[p][i] <= groupClock
           /\ (m - i + 1) * TokenTicks + (R - spent) <= K + (groupClock - attempts'[p][i])
    <3> SUFFICES ASSUME NEW i \in 1 .. m
                 PROVE  /\ attempts'[p][i] <= groupClock
                        /\ (m - i + 1) * TokenTicks + (R - spent) <= K + (groupClock - attempts'[p][i])
      OBVIOUS
    <3>1. i \in 1 .. n + 1
      BY <2>m, Zenon
    <3>2. m - i + 1 = n + 1 - i + 1
      BY <1>1, <2>m, <3>1
    <3>3. (m - i + 1) * TokenTicks = (n + 1 - i + 1) * TokenTicks
      BY <3>2, Zenon
    <3> QED
      BY <2>3, <3>1, <3>3, Zenon
  <2>6. \A i, j \in 1 .. m :
           i <= j => (j - i + 1 - Capacity) * TokenTicks <= attempts'[p][j] - attempts'[p][i]
    BY <2>m, <2>4, Zenon
  <2> QED
    BY <1>8, <2>5, <2>6
<1> QED
  BY <1>4, <1>5, <1>9, <1>10 DEF LimiterInv

(* A refused or unrelated request leaves the limiter alone, and time may    *)
(* pass.                                                                    *)
LEMMA LimiterRests ==
    ASSUME LimiterInv, GroupState, UNCHANGED <<bucket, attempts>>, groupClock' \in {groupClock, groupClock + 1}
    PROVE  LimiterInv'
<1>1. ASSUME NEW p \in GroupProcesses PROVE BucketPays(p)'
  <2>1. BucketPays(p) /\ bucket'[p] = bucket[p] /\ attempts'[p] = attempts[p]
    BY DEF LimiterInv
  <2>2. bucket[p] # None => bucket[p].at <= groupClock'
    <3>1. ASSUME bucket[p] # None PROVE bucket[p].at \in Nat /\ bucket[p].at <= groupClock
      BY <2>1, <3>1 DEF BucketPays, Bucket
    <3> QED
      BY <3>1 DEF GroupState
  <2> QED
    BY <2>1, <2>2 DEF BucketPays
<1> QED
  BY <1>1 DEF LimiterInv

LEMMA GroupStep ==
    ASSUME GroupInv, [GroupNext]_groupVars
    PROVE  GroupInv'
<1> DEFINE KnownInv == GroupState /\ DocsKept /\ LimiterInv
<1>0. GroupState /\ DocsKept /\ LimiterInv /\ TokensNameGroups
  BY DEF GroupInv
<1>1. ASSUME NEW p \in GroupProcesses, NEW g \in GroupCodes, NEW read \in BOOLEAN, JoinGroup(p, g, read) PROVE KnownInv'
  <2>1. CheckRate(p) /\ UNCHANGED <<groupDocs, handedOut, revokedBy, groupClock>>
    BY <1>1 DEF JoinGroup
  <2>2. \/ groupCache' = Cached(p, g, read) /\ revokedHere' = Learned(p, g, read)
        \/ UNCHANGED <<groupCache, revokedHere>>
    BY <1>1, Zenon DEF JoinGroup
  <2>3. (GroupState /\ DocsKept)'
    <3>1. CASE groupCache' = Cached(p, g, read) /\ revokedHere' = Learned(p, g, read)
      BY <1>0, <2>1, <3>1, LookupKeeps
    <3>2. CASE UNCHANGED <<groupCache, revokedHere>>
      BY <1>0, <2>1, <3>2 DEF GroupState, DocsKept
    <3> QED
      BY <2>2, <3>1, <3>2
  <2> QED
    BY <1>0, <2>1, <2>3, AttemptPays 
<1>2. ASSUME NEW p \in GroupProcesses, NEW g \in GroupCodes, NEW read \in BOOLEAN, GroupMetadata(p, g, read) PROVE KnownInv'
  <2>1. groupCache' = Cached(p, g, read) /\ revokedHere' = Learned(p, g, read)
        /\ UNCHANGED <<groupDocs, handedOut, revokedBy, groupClock, bucket, attempts>>
    BY <1>2 DEF GroupMetadata
  <2> QED
    BY <1>0, <2>1, LookupKeeps, LimiterRests 
<1>3. ASSUME NEW p \in GroupProcesses, NEW g \in GroupCodes, NEW u \in Creators, CreateGroup(p, u, g) PROVE KnownInv'
  <2>1. UNCHANGED <<bucket, attempts, groupClock>>
    BY <1>3 DEF CreateGroup
  <2> QED
    BY <1>0, <1>3, <2>1, CreateKeepsDocs, LimiterRests 
<1>4. ASSUME NEW p \in GroupProcesses, NEW g \in GroupCodes, NEW u \in Creators, NEW read \in BOOLEAN, DeleteGroup(p, u, g, read) PROVE KnownInv'
  <2>1. UNCHANGED <<bucket, attempts, groupClock>>
    BY <1>4 DEF DeleteGroup
  <2> QED
    BY <1>0, <1>4, <2>1, DeleteKeepsDocs, LimiterRests 
<1>5. ASSUME NEW p \in GroupProcesses, NEW token \in joinTokens, NEW read \in BOOLEAN,
             VerifyGroupToken(p, token, read)
      PROVE  KnownInv'
  <2>0. token.code \in GroupCodes
    BY <1>0 DEF TokensNameGroups
  <2>1. UNCHANGED <<groupDocs, handedOut, revokedBy, groupClock, bucket, attempts>>
    BY <1>5 DEF VerifyGroupToken
  <2>2. \/ groupCache' = Cached(p, token.code, read) /\ revokedHere' = Learned(p, token.code, read)
        \/ UNCHANGED <<groupCache, revokedHere>>
    BY <1>5, Zenon DEF VerifyGroupToken
  <2>3. (GroupState /\ DocsKept)'
    <3>1. CASE groupCache' = Cached(p, token.code, read) /\ revokedHere' = Learned(p, token.code, read)
      BY <1>0, <2>0, <2>1, <3>1, LookupKeeps
    <3>2. CASE UNCHANGED <<groupCache, revokedHere>>
      BY <1>0, <2>1, <3>2 DEF GroupState, DocsKept
    <3> QED
      BY <2>2, <3>1, <3>2
  <2> QED
    BY <1>0, <2>1, <2>3, LimiterRests 
<1>6. ASSUME NEW p \in GroupProcesses, GroupProcessRestarts(p) PROVE KnownInv'
  <2>1. /\ groupCache' = [groupCache EXCEPT ![p] = [g \in GroupCodes |-> None]]
        /\ revokedHere' = [revokedHere EXCEPT ![p] = {}]
        /\ bucket' = [bucket EXCEPT ![p] = None] /\ attempts' = [attempts EXCEPT ![p] = <<>>]
        /\ UNCHANGED <<groupDocs, handedOut, revokedBy, groupClock>>
    BY <1>6 DEF GroupProcessRestarts
  <2>2. (GroupState /\ DocsKept)'
    BY <1>0, <2>1 DEF GroupState, DocsKept
  <2>3. attempts' \in [GroupProcesses -> Seq(Nat)] /\ DOMAIN bucket' = GroupProcesses
    BY <1>0, <2>1 DEF LimiterInv
  <2>4. ASSUME NEW q \in GroupProcesses PROVE BucketPays(q)'
    <3>1. CASE q = p
      BY <1>0, <2>1, <3>1 DEF LimiterInv, BucketPays
    <3>2. CASE q # p
      <4>1. BucketPays(q) /\ bucket'[q] = bucket[q] /\ attempts'[q] = attempts[q]
        BY <1>0, <2>1, <3>2 DEF LimiterInv
      <4> QED
        BY <2>1, <4>1 DEF BucketPays
    <3> QED
      BY <3>1, <3>2
  <2> QED
    BY <2>2, <2>3, <2>4 DEF LimiterInv
<1>7. ASSUME GroupTick PROVE KnownInv'
  <2>1. groupClock' = groupClock + 1 /\ groupClock' \in Nat
        /\ UNCHANGED <<groupDocs, groupCache, revokedHere, bucket, attempts, handedOut, revokedBy>>
    BY <1>0, <1>7 DEF GroupTick, GroupState
  <2>2. (GroupState /\ DocsKept)'
    BY <1>0, <2>1 DEF GroupState, DocsKept
  <2> QED
    BY <1>0, <2>1, <2>2, LimiterRests 
<1>8. ASSUME UNCHANGED groupVars PROVE KnownInv'
  <2>1. UNCHANGED <<groupClock, groupDocs, groupCache, revokedHere, bucket, attempts, handedOut, revokedBy>>
    BY <1>8 DEF groupVars
  <2>2. (GroupState /\ DocsKept)'
    BY <1>0, <2>1 DEF GroupState, DocsKept
  <2> QED
    BY <1>0, <2>1, <2>2, LimiterRests 
<1>9. KnownInv'
  <2> HIDE DEF KnownInv
  <2> QED
    BY <1>1, <1>2, <1>3, <1>4, <1>5, <1>6, <1>7, <1>8, Zenon DEF GroupNext
<1>10. TokensNameGroups'
  <2>1. ASSUME NEW p \in GroupProcesses, NEW g \in GroupCodes, NEW read \in BOOLEAN, JoinGroup(p, g, read) PROVE TokensNameGroups'
    BY <1>0, <2>1 DEF JoinGroup, TokensNameGroups
  <2>2. ASSUME joinTokens' = joinTokens PROVE TokensNameGroups'
    BY <1>0, <2>2 DEF TokensNameGroups
  <2>3. \/ joinTokens' = joinTokens
        \/ \E p \in GroupProcesses, g \in GroupCodes, read \in BOOLEAN : JoinGroup(p, g, read)
    BY DEF GroupNext, groupVars, GroupMetadata, CreateGroup, DeleteGroup, VerifyGroupToken,
           GroupProcessRestarts, GroupTick
  <2> QED
    BY <2>1, <2>2, <2>3
<1> QED
  BY <1>9, <1>10 DEF GroupInv

LEMMA GroupHolds == GroupInv => CodesSurvive /\ RateBounded
<1>1. ASSUME GroupInv, NEW g \in handedOut \ revokedBy, NEW p \in GroupProcesses
      PROVE  groupDocs[g] # None /\ GetGroup(p, g, TRUE) # None /\ GetGroup(p, g, TRUE).expires = groupDocs[g].expires
  <2>1. g \in GroupCodes /\ groupDocs[g] # None /\ ~groupDocs[g].revoked /\ g \notin revokedHere[p]
    BY <1>1 DEF GroupInv, GroupState, DocsKept
  <2>2. groupDocs[g] \in GroupDoc
    BY <1>1, <2>1 DEF GroupInv, GroupState
  <2>3. RecordOf(g) # None /\ RecordOf(g).expires = groupDocs[g].expires
    <3>1. RecordOf(g) \in GroupRecord
      BY <2>2 DEF RecordOf, GroupDoc, GroupRecord
    <3> QED
      BY <3>1, GroupAssumption DEF RecordOf
  <2>4. groupCache[p][g] # None => groupCache[p][g].expires = groupDocs[g].expires
    BY <1>1, <2>1 DEF GroupInv, DocsKept
  <2> QED
    BY <2>1, <2>3, <2>4 DEF GetGroup, LoadGroup
<1>2. ASSUME GroupInv, NEW p \in GroupProcesses, NEW i \in 1 .. MaxGroupOps, NEW j \in 1 .. MaxGroupOps,
             i <= j, j <= Len(attempts[p])
      PROVE  (j - i + 1 - Capacity) * TokenTicks <= attempts[p][j] - attempts[p][i]
  <2>1. BucketPays(p) /\ Len(attempts[p]) \in Nat
    BY <1>2 DEF GroupInv, LimiterInv
  <2>2. i \in 1 .. Len(attempts[p]) /\ j \in 1 .. Len(attempts[p])
    BY <1>2, <2>1, GroupAssumption
  <2>3. bucket[p] # None
    BY <2>1, <2>2 DEF BucketPays
  <2> QED
    BY <1>2, <2>1, <2>2, <2>3 DEF BucketPays
<1> QED
  BY <1>1, <1>2 DEF CodesSurvive, RateBounded

\* A code that was returned works in every process until it expires or is
\* revoked, whatever fails or restarts, and no address gets more join attempts
\* through than the bucket and the passing of time allow, for any capacity,
\* refill rate and number of processes.
THEOREM CodesSurviveAndRatesHold == GroupSpec => [](CodesSurvive /\ RateBounded)
<1> QED
  BY GroupStarts, GroupStep, GroupHolds, PTL DEF GroupSpec
-----------------------------------------------------------------------------
(* OpenID Connect requests and the key set they share. A request that has   *)
(* missed its key knows that whoever loads keys now will have it, because   *)
(* the keys of a load are fetched under the lock, while nothing is cached.  *)
OidcSteps == {"keys", "loading", "select", "unknown", "claims", "done", "refused", "exchange"}
OidcProgress == [email : Emails, kid : Nat, nonce : Nat \cup {None}, expected : Nat \cup {None},
                 step : OidcSteps, looked : Nat, refreshed : BOOLEAN, good : BOOLEAN]

OidcState ==
    /\ oidcReq \in [OidcRequests -> OidcProgress \cup {None}]
    /\ published \in Nat /\ jwks \in Nat \cup {None} /\ jwksLock \in OidcRequests \cup {None}
    /\ transactions \subseteq [state : Nat, nonce : Nat, late : BOOLEAN] /\ nonces \in Nat

Good(r) == oidcReq[r] # None /\ oidcReq[r].good
Loading(r) == Running(r, "loading")
Missed(r) == oidcReq[r].refreshed \/ (oidcReq[r].step = "select" /\ oidcReq[r].looked < oidcReq[r].kid)

LoadsAlone == \A r \in OidcRequests : Loading(r) => jwksLock = r /\ jwks = None
LoadsFollow ==
    \A r, s \in OidcRequests : Good(r) /\ Missed(r) /\ Loading(s) => oidcReq[r].kid <= oidcReq[s].looked
GoodFinds ==
    \A r \in OidcRequests :
        Good(r) =>
            /\ oidcReq[r].kid <= published
            /\ oidcReq[r].step = "loading" => oidcReq[r].kid <= oidcReq[r].looked
            /\ oidcReq[r].refreshed => jwks = None \/ oidcReq[r].kid <= jwks
            /\ oidcReq[r].refreshed /\ oidcReq[r].step = "select" => oidcReq[r].kid <= oidcReq[r].looked

keyVars == <<published, jwks, jwksLock, oidcReq, transactions, nonces>>

OidcInv == OidcState /\ LoadsAlone /\ LoadsFollow /\ GoodFinds /\ RefreshIsFresh /\ LoginBound

(* A request is moved to a new state of progress: what the others and the   *)
(* key set must satisfy for it.                                             *)
LEMMA RequestMoves ==
    ASSUME OidcInv, NEW r \in OidcRequests, NEW q \in OidcProgress,
           oidcReq' = [oidcReq EXCEPT ![r] = q],
           published' = published, jwksLock' \in OidcRequests \cup {None}, jwks' \in Nat \cup {None},
           transactions' \subseteq [state : Nat, nonce : Nat, late : BOOLEAN], nonces' \in Nat,
           \A s \in OidcRequests \ {r} : Loading(s) => jwksLock' = s /\ jwks' = None,
           jwks' # None => \A s \in OidcRequests : Good(s) /\ oidcReq[s].refreshed /\ s # r => oidcReq[s].kid <= jwks',
           q.step = "loading" =>
               /\ jwksLock' = r /\ jwks' = None
               /\ \A s \in OidcRequests \ {r} : Good(s) /\ Missed(s) => oidcReq[s].kid <= q.looked,
           q.good =>
               /\ q.kid <= published
               /\ q.step = "loading" => q.kid <= q.looked
               /\ q.refreshed => jwks' = None \/ q.kid <= jwks'
               /\ q.refreshed /\ q.step = "select" => q.kid <= q.looked
               /\ q.step # "unknown"
               /\ q.refreshed \/ (q.step = "select" /\ q.looked < q.kid) =>
                     \A s \in OidcRequests \ {r} : Loading(s) => q.kid <= oidcReq[s].looked,
           q.step = "done" /\ q.expected # None => q.nonce = q.expected
    PROVE  OidcInv'
<1> USE DEF OidcInv
<1>1. oidcReq'[r] = q /\ \A s \in OidcRequests \ {r} : oidcReq'[s] = oidcReq[s]
  BY DEF OidcState
<1>2. OidcState'
  BY DEF OidcState
<1>3. \A s \in OidcRequests \ {r} : /\ Loading(s)' <=> Loading(s)
                                    /\ Good(s)' <=> Good(s)
                                    /\ Missed(s)' <=> Missed(s)
  BY <1>1 DEF Loading, Running, Good, Missed
<1>4. /\ Loading(r)' => q.step = "loading"
      /\ Good(r)' => q.good
      /\ Missed(r)' <=> q.refreshed \/ (q.step = "select" /\ q.looked < q.kid)
  BY <1>1 DEF Loading, Running, Good, Missed
<1>5. LoadsAlone'
  BY <1>3, <1>4 DEF LoadsAlone
<1>6. LoadsFollow'
  <2> SUFFICES ASSUME NEW s \in OidcRequests, NEW l \in OidcRequests, Good(s)', Missed(s)', Loading(l)'
               PROVE  oidcReq'[s].kid <= oidcReq'[l].looked
    BY DEF LoadsFollow
  <2>1. CASE s # r /\ l # r
    BY <1>1, <1>3, <2>1 DEF LoadsFollow
  <2>2. CASE s = r /\ l # r
    BY <1>1, <1>3, <1>4, <2>2
  <2>3. CASE s # r /\ l = r
    BY <1>1, <1>3, <1>4, <2>3
  <2>4. CASE s = r /\ l = r
    BY <1>1, <1>4, <2>4
  <2> QED
    BY <2>1, <2>2, <2>3, <2>4
<1>7. GoodFinds'
  <2> SUFFICES ASSUME NEW s \in OidcRequests, Good(s)'
               PROVE  /\ oidcReq'[s].kid <= published'
                      /\ oidcReq'[s].step = "loading" => oidcReq'[s].kid <= oidcReq'[s].looked
                      /\ oidcReq'[s].refreshed => jwks' = None \/ oidcReq'[s].kid <= jwks'
                      /\ oidcReq'[s].refreshed /\ oidcReq'[s].step = "select" => oidcReq'[s].kid <= oidcReq'[s].looked
    BY DEF GoodFinds
  <2>1. CASE s = r
    BY <1>1, <1>4, <2>1
  <2>2. CASE s # r
    <3>1. Good(s) /\ oidcReq'[s] = oidcReq[s]
      BY <1>1, <1>3, <2>2
    <3> QED
      BY <2>2, <3>1 DEF GoodFinds
  <2> QED
    BY <2>1, <2>2
<1>8. RefreshIsFresh' /\ LoginBound'
  BY <1>1 DEF RefreshIsFresh, LoginBound, Good
<1> QED
  BY <1>2, <1>5, <1>6, <1>7, <1>8

(* A request ends, or only the cache lapses or a key is published.          *)
LEMMA RequestEnds ==
    ASSUME OidcInv, NEW r \in OidcRequests, oidcReq' = [oidcReq EXCEPT ![r] = None],
           UNCHANGED <<published, jwks, transactions, nonces>>,
           jwksLock' = jwksLock \/ (jwksLock' = None /\ Loading(r))
    PROVE  OidcInv'
<1> USE DEF OidcInv
<1>1. oidcReq'[r] = None /\ \A s \in OidcRequests \ {r} : oidcReq'[s] = oidcReq[s]
  BY DEF OidcState
<1>2. \A s \in OidcRequests : /\ Loading(s)' => Loading(s) /\ s # r /\ oidcReq'[s] = oidcReq[s]
                              /\ Good(s)' => Good(s) /\ s # r /\ oidcReq'[s] = oidcReq[s]
                              /\ s # r => (Missed(s)' <=> Missed(s))
  BY <1>1 DEF Loading, Running, Good, Missed
<1>3. OidcState'
  BY DEF OidcState
<1>4. LoadsAlone'
  BY <1>2 DEF LoadsAlone
<1>5. LoadsFollow'
  BY <1>2 DEF LoadsFollow
<1>6. GoodFinds'
  BY <1>2 DEF GoodFinds
<1>7. RefreshIsFresh' /\ LoginBound'
  BY <1>1 DEF RefreshIsFresh, LoginBound
<1> QED
  BY <1>3, <1>4, <1>5, <1>6, <1>7

LEMMA KeysChange ==
    ASSUME OidcInv, oidcReq' = oidcReq, jwksLock' = jwksLock, published' \in {published, published + 1},
           jwks' \in {jwks, None}, transactions' \subseteq [state : Nat, nonce : Nat, late : BOOLEAN], nonces' \in Nat
    PROVE  OidcInv'
<1> USE DEF OidcInv
<1>1. OidcState' /\ published <= published'
  BY DEF OidcState
<1>2. \A s \in OidcRequests : (Loading(s)' <=> Loading(s)) /\ (Good(s)' <=> Good(s)) /\ (Missed(s)' <=> Missed(s))
  BY DEF Loading, Running, Good, Missed
<1>3. LoadsAlone' /\ LoadsFollow'
  BY <1>2 DEF LoadsAlone, LoadsFollow
<1>4. GoodFinds'
  <2> SUFFICES ASSUME NEW s \in OidcRequests, Good(s)'
               PROVE  /\ oidcReq'[s].kid <= published'
                      /\ oidcReq'[s].step = "loading" => oidcReq'[s].kid <= oidcReq'[s].looked
                      /\ oidcReq'[s].refreshed => jwks' = None \/ oidcReq'[s].kid <= jwks'
                      /\ oidcReq'[s].refreshed /\ oidcReq'[s].step = "select" => oidcReq'[s].kid <= oidcReq'[s].looked
    BY DEF GoodFinds
  <2>1. Good(s) /\ oidcReq[s] \in OidcProgress
    BY <1>2 DEF Good, OidcState
  <2>2. oidcReq[s].kid \in Nat /\ published \in Nat /\ published' \in Nat
    BY <2>1 DEF OidcProgress, OidcState
  <2> QED
    BY <1>1, <2>1, <2>2 DEF GoodFinds
<1>5. RefreshIsFresh' /\ LoginBound'
  BY DEF RefreshIsFresh, LoginBound
<1> QED
  BY <1>1, <1>3, <1>4, <1>5

(* What the checks of a request are made of.                                *)
LEMMA RunningRequest ==
    ASSUME OidcInv, NEW r \in OidcRequests, NEW step, Running(r, step)
    PROVE  oidcReq[r] \in OidcProgress /\ oidcReq[r] # None /\ oidcReq[r].step = step
BY DEF OidcInv, OidcState, Running

LEMMA OthersFacts ==
    ASSUME OidcInv, NEW r \in OidcRequests
    PROVE  /\ \A s \in OidcRequests \ {r} : Loading(s) => jwksLock = s /\ jwks = None
           /\ jwks # None => \A s \in OidcRequests :
                                Good(s) /\ oidcReq[s].refreshed /\ s # r => oidcReq[s].kid <= jwks
BY DEF OidcInv, LoadsAlone, GoodFinds

LEMMA KeysArrive ==
    ASSUME OidcInv, NEW r \in OidcRequests, JwksArrives(r) \/ CachedJwks(r)
    PROVE  OidcInv'
<1>1. CASE CachedJwks(r)
  <2> DEFINE q == [oidcReq[r] EXCEPT !.step = "select", !.looked = jwks]
  <2>1. oidcReq[r] \in OidcProgress /\ oidcReq[r] # None /\ oidcReq[r].step = "keys" /\ jwks \in Nat /\ jwks # None
    BY <1>1, RunningRequest DEF CachedJwks, OidcInv, OidcState
  <2>2. q \in OidcProgress /\ q.step = "select" /\ q.looked = jwks
        /\ q.kid = oidcReq[r].kid /\ q.refreshed = oidcReq[r].refreshed /\ q.good = oidcReq[r].good
    BY <2>1 DEF OidcProgress, OidcSteps
  <2>3. /\ oidcReq' = [oidcReq EXCEPT ![r] = q]
        /\ UNCHANGED <<published, jwks, jwksLock, transactions, nonces>>
    BY <1>1 DEF CachedJwks
  <2>4. \A s \in OidcRequests : ~Loading(s)
    BY <2>1 DEF OidcInv, LoadsAlone
  <2>5. oidcReq[r].good => oidcReq[r].kid <= published /\ (oidcReq[r].refreshed => oidcReq[r].kid <= jwks)
    BY <2>1 DEF OidcInv, GoodFinds, Good
  <2> HIDE DEF q
  <2> QED
    BY <2>1, <2>2, <2>3, <2>4, <2>5, OthersFacts, RequestMoves DEF OidcInv, OidcState
<1>2. CASE JwksArrives(r)
  <2> DEFINE q == [oidcReq[r] EXCEPT !.step = "select"]
  <2>1. oidcReq[r] \in OidcProgress /\ oidcReq[r] # None /\ oidcReq[r].step = "loading" /\ Loading(r)
    BY <1>2, RunningRequest DEF JwksArrives, Loading
  <2>2. q \in OidcProgress /\ q.step = "select" /\ q.looked = oidcReq[r].looked
        /\ q.kid = oidcReq[r].kid /\ q.refreshed = oidcReq[r].refreshed /\ q.good = oidcReq[r].good
        /\ q.looked \in Nat
    BY <2>1 DEF OidcProgress, OidcSteps
  <2>3. /\ oidcReq' = [oidcReq EXCEPT ![r] = q] /\ jwks' = q.looked /\ jwksLock' = None
        /\ UNCHANGED <<published, transactions, nonces>>
    BY <1>2, <2>2 DEF JwksArrives, Progress
  <2>4. \A s \in OidcRequests \ {r} : ~Loading(s)
    BY <2>1 DEF OidcInv, LoadsAlone
  <2>5. oidcReq[r].good => oidcReq[r].kid <= published /\ oidcReq[r].kid <= q.looked
    BY <2>1, <2>2 DEF OidcInv, GoodFinds, Good
  <2>6. \A s \in OidcRequests : Good(s) /\ oidcReq[s].refreshed => oidcReq[s].kid <= q.looked
    BY <2>1, <2>2 DEF OidcInv, LoadsFollow, Missed
  <2> HIDE DEF q
  <2> QED
    BY <2>2, <2>3, <2>4, <2>5, <2>6, RequestMoves DEF OidcInv, OidcState
<1> QED
  BY <1>1, <1>2

LEMMA KeysAreFetched ==
    ASSUME OidcInv, NEW r \in OidcRequests, LoadJwks(r)
    PROVE  OidcInv'
<1> DEFINE q == [oidcReq[r] EXCEPT !.step = "loading", !.looked = published]
<1>1. oidcReq[r] \in OidcProgress /\ oidcReq[r] # None /\ oidcReq[r].step = "keys" /\ published \in Nat
  BY RunningRequest DEF LoadJwks, OidcInv, OidcState
<1>2. q \in OidcProgress /\ q.step = "loading" /\ q.looked = published
      /\ q.kid = oidcReq[r].kid /\ q.refreshed = oidcReq[r].refreshed /\ q.good = oidcReq[r].good
  BY <1>1 DEF OidcProgress, OidcSteps
<1>3. /\ oidcReq' = [oidcReq EXCEPT ![r] = q] /\ jwksLock' = r /\ jwks = None /\ jwksLock = None
      /\ UNCHANGED <<published, jwks, transactions, nonces>>
  BY DEF LoadJwks
<1>4. \A s \in OidcRequests : ~Loading(s)
  BY <1>3, IdentityAssumption DEF OidcInv, LoadsAlone
<1>5. \A s \in OidcRequests : Good(s) => oidcReq[s].kid <= published
  BY DEF OidcInv, GoodFinds
<1>6. oidcReq[r].good => oidcReq[r].kid <= published
  BY <1>1, <1>5 DEF Good
<1> HIDE DEF q
<1> QED
  BY <1>1, <1>2, <1>3, <1>4, <1>5, <1>6, RequestMoves DEF OidcInv, OidcState

LEMMA KeyIsSelected ==
    ASSUME OidcInv, NEW r \in OidcRequests, SelectJwk(r)
    PROVE  OidcInv'
<1>1. oidcReq[r] \in OidcProgress /\ oidcReq[r] # None /\ oidcReq[r].step = "select"
  BY RunningRequest DEF SelectJwk
<1>2. UNCHANGED <<published, jwksLock, transactions, nonces>>
  BY DEF SelectJwk
<1>3. oidcReq[r].kid \in Nat /\ oidcReq[r].looked \in Nat
  BY <1>1 DEF OidcProgress
<1>4. oidcReq[r].good =>
         /\ oidcReq[r].kid <= published
         /\ oidcReq[r].refreshed => jwks = None \/ oidcReq[r].kid <= jwks
         /\ oidcReq[r].refreshed => oidcReq[r].kid <= oidcReq[r].looked
  BY <1>1 DEF OidcInv, GoodFinds, Good
<1>5. oidcReq[r].good /\ Missed(r) =>
         \A s \in OidcRequests \ {r} : Loading(s) => oidcReq[r].kid <= oidcReq[s].looked
  BY <1>1 DEF OidcInv, LoadsFollow, Good
<1>6. ASSUME NEW step \in {"claims", "unknown"}, oidcReq' = [oidcReq EXCEPT ![r].step = step], jwks' = jwks,
             step = "unknown" => ~oidcReq[r].good
      PROVE  OidcInv'
  <2> DEFINE q == [oidcReq[r] EXCEPT !.step = step]
  <2>1. q \in OidcProgress /\ q.step = step /\ q.kid = oidcReq[r].kid /\ q.looked = oidcReq[r].looked
        /\ q.refreshed = oidcReq[r].refreshed /\ q.good = oidcReq[r].good
    BY <1>1, <1>6 DEF OidcProgress, OidcSteps
  <2>2. oidcReq' = [oidcReq EXCEPT ![r] = q]
    BY <1>6
  <2> HIDE DEF q
  <2> QED
    BY <1>2, <1>4, <1>5, <1>6, <2>1, <2>2, OthersFacts, RequestMoves DEF OidcInv, OidcState, Missed
<1>7. ASSUME ~(oidcReq[r].kid <= oidcReq[r].looked), jwks' = None,
             oidcReq' = [oidcReq EXCEPT ![r].step = "keys", ![r].refreshed = TRUE]
      PROVE  OidcInv'
  <2> DEFINE q == [oidcReq[r] EXCEPT !.step = "keys", !.refreshed = TRUE]
  <2>1. q \in OidcProgress /\ q.step = "keys" /\ q.kid = oidcReq[r].kid /\ q.looked = oidcReq[r].looked
        /\ q.good = oidcReq[r].good
    BY <1>1 DEF OidcProgress, OidcSteps
  <2>2. oidcReq' = [oidcReq EXCEPT ![r] = q]
    BY <1>7
  <2>3. Missed(r)
    BY <1>1, <1>3, <1>7 DEF Missed
  <2>4. /\ jwksLock' \in OidcRequests \cup {None} /\ jwks' \in Nat \cup {None}
        /\ transactions' \subseteq [state : Nat, nonce : Nat, late : BOOLEAN] /\ nonces' \in Nat
    BY <1>2, <1>7 DEF OidcInv, OidcState
  <2>5. \A s \in OidcRequests \ {r} : Loading(s) => jwksLock' = s /\ jwks' = None
    BY <1>2, <1>7, OthersFacts
  <2>6. q.good => /\ q.kid <= published
                  /\ \A s \in OidcRequests \ {r} : Loading(s) => q.kid <= oidcReq[s].looked
    BY <1>4, <1>5, <2>1, <2>3
  <2> HIDE DEF q
  <2> QED
    BY <1>2, <1>7, <2>1, <2>2, <2>4, <2>5, <2>6, RequestMoves
<1>8. CASE oidcReq[r].kid <= oidcReq[r].looked
  BY <1>6, <1>8 DEF SelectJwk, Progress
<1>9. CASE ~(oidcReq[r].kid <= oidcReq[r].looked) /\ ~oidcReq[r].refreshed
  BY <1>7, <1>9 DEF SelectJwk
<1>10. CASE ~(oidcReq[r].kid <= oidcReq[r].looked) /\ oidcReq[r].refreshed
  <2>1. ~oidcReq[r].good
    BY <1>4, <1>10
  <2> QED
    BY <1>6, <1>10, <2>1 DEF SelectJwk, Progress
<1> QED
  BY <1>8, <1>9, <1>10

(* A request between keys and answer: its step alone changes.               *)
LEMMA RequestGoesOn ==
    ASSUME OidcInv, NEW r \in OidcRequests, NEW step \in {"done", "refused", "keys"},
           oidcReq[r] # None, oidcReq[r].step \in {"claims", "exchange"},
           oidcReq' = [oidcReq EXCEPT ![r].step = step],
           UNCHANGED <<published, jwks, jwksLock, transactions, nonces>>,
           step = "done" /\ oidcReq[r].expected # None => oidcReq[r].nonce = oidcReq[r].expected
    PROVE  OidcInv'
<1> DEFINE q == [oidcReq[r] EXCEPT !.step = step]
<1>1. oidcReq[r] \in OidcProgress
  BY DEF OidcInv, OidcState
<1>2. q \in OidcProgress /\ q.step = step /\ q.kid = oidcReq[r].kid /\ q.looked = oidcReq[r].looked
      /\ q.refreshed = oidcReq[r].refreshed /\ q.good = oidcReq[r].good
      /\ q.expected = oidcReq[r].expected /\ q.nonce = oidcReq[r].nonce
  BY <1>1 DEF OidcProgress, OidcSteps
<1>3. oidcReq' = [oidcReq EXCEPT ![r] = q]
  OBVIOUS
<1>4. oidcReq[r].good =>
         /\ oidcReq[r].kid <= published
         /\ oidcReq[r].refreshed => jwks = None \/ oidcReq[r].kid <= jwks
         /\ oidcReq[r].refreshed =>
               \A s \in OidcRequests \ {r} : Loading(s) => oidcReq[r].kid <= oidcReq[s].looked
  BY DEF OidcInv, GoodFinds, Good, LoadsFollow, Missed
<1>5. /\ jwksLock' \in OidcRequests \cup {None} /\ jwks' \in Nat \cup {None}
      /\ transactions' \subseteq [state : Nat, nonce : Nat, late : BOOLEAN] /\ nonces' \in Nat
  BY DEF OidcInv, OidcState
<1>6. /\ \A s \in OidcRequests \ {r} : Loading(s) => jwksLock' = s /\ jwks' = None
      /\ jwks' # None => \A s \in OidcRequests :
                            Good(s) /\ oidcReq[s].refreshed /\ s # r => oidcReq[s].kid <= jwks'
  BY OthersFacts
<1>7. q.good =>
         /\ q.kid <= published
         /\ q.refreshed => jwks' = None \/ q.kid <= jwks'
         /\ q.refreshed => \A s \in OidcRequests \ {r} : Loading(s) => q.kid <= oidcReq[s].looked
  BY <1>2, <1>4
<1>8. q.step = "done" /\ q.expected # None => q.nonce = q.expected
  BY <1>2
<1> HIDE DEF q
<1> QED
  BY <1>2, <1>3, <1>5, <1>6, <1>7, <1>8, RequestMoves

LEMMA RequestBegins ==
    ASSUME OidcInv, NEW r \in OidcRequests, NEW q \in OidcProgress, oidcReq' = [oidcReq EXCEPT ![r] = q],
           q.step \in {"keys", "refused", "exchange"}, ~q.refreshed, q.good => q.kid <= published,
           UNCHANGED <<published, jwks, jwksLock, nonces>>, transactions' \subseteq transactions
    PROVE  OidcInv'
BY OthersFacts, RequestMoves DEF OidcInv, OidcState

LEMMA OidcStep ==
    ASSUME OidcInv, OidcNext \/ UNCHANGED keyVars
    PROVE  OidcInv'
<1> DEFINE Transaction == [state : Nat, nonce : Nat, late : BOOLEAN]
<1>0. /\ published \in Nat /\ nonces \in Nat /\ transactions \subseteq Transaction
      /\ oidcReq \in [OidcRequests -> OidcProgress \cup {None}]
  BY DEF OidcInv, OidcState
<1>1. CASE ProviderRotates
  BY <1>0, <1>1, KeysChange DEF ProviderRotates
<1>2. CASE JwksLapses
  BY <1>0, <1>2, KeysChange DEF JwksLapses
<1>3. CASE CreateOidcAuthorizationRequest
  <2>1. nonces + 1 \in Nat /\ [state |-> nonces + 1, nonce |-> nonces + 1, late |-> FALSE] \in Transaction
    BY <1>0
  <2>2. nonces' \in Nat /\ transactions' \subseteq Transaction
    BY <1>0, <1>3, <2>1 DEF CreateOidcAuthorizationRequest
  <2> QED
    BY <1>3, <2>2, KeysChange DEF CreateOidcAuthorizationRequest
<1>4. ASSUME NEW x \in transactions, TransactionLapses(x) PROVE OidcInv'
  <2>1. [x EXCEPT !.late = TRUE] \in Transaction
    BY <1>0
  <2>2. transactions' \subseteq Transaction
    BY <1>0, <1>4, <2>1 DEF TransactionLapses
  <2> QED
    BY <1>0, <1>4, <2>2, KeysChange DEF TransactionLapses
<1>5. ASSUME NEW r \in OidcRequests, NEW e \in Emails, NEW kid \in 1 .. MaxKeys, VerifyOidcToken(r, e, kid)
      PROVE  OidcInv'
  <2> DEFINE q == [email |-> e, kid |-> kid, nonce |-> None, expected |-> None, step |-> "keys",
                   looked |-> 0, refreshed |-> FALSE, good |-> kid <= published]
  <2>1. q \in OidcProgress /\ q.step = "keys" /\ ~q.refreshed /\ q.kid = kid /\ q.good = (kid <= published)
    <3>1. kid \in Nat /\ (kid <= published) \in BOOLEAN
      BY IdentityAssumption
    <3> QED
      BY <3>1 DEF OidcProgress, OidcSteps
  <2>2. oidcReq' = [oidcReq EXCEPT ![r] = q] /\ UNCHANGED <<published, jwks, jwksLock, nonces, transactions>>
    BY <1>5 DEF VerifyOidcToken
  <2> HIDE DEF q
  <2> QED
    BY <2>1, <2>2, RequestBegins
<1>6. ASSUME NEW r \in OidcRequests, NEW x \in transactions, NEW e \in Emails, NEW code \in 1 .. nonces,
             ConsumeOidcTransaction(r, x, e, code)
      PROVE  OidcInv'
  <2> DEFINE q == [email |-> e, kid |-> published, nonce |-> code, expected |-> x.nonce,
                   step |-> IF x.late THEN "refused" ELSE "exchange",
                   looked |-> 0, refreshed |-> FALSE, good |-> TRUE]
  <2>1. q \in OidcProgress /\ q.step \in {"refused", "exchange"} /\ ~q.refreshed /\ q.kid = published
    <3>1. code \in Nat /\ x.nonce \in Nat
      BY <1>0
    <3> QED
      BY <1>0, <3>1 DEF OidcProgress, OidcSteps
  <2>2. /\ oidcReq' = [oidcReq EXCEPT ![r] = q] /\ UNCHANGED <<published, jwks, jwksLock, nonces>>
        /\ transactions' \subseteq transactions
    BY <1>6 DEF ConsumeOidcTransaction
  <2>3. q.good => q.kid <= published
    BY <1>0, <2>1
  <2> HIDE DEF q
  <2> QED
    BY <2>1, <2>2, <2>3, RequestBegins
<1>7. ASSUME NEW r \in OidcRequests, NEW ok, ExchangeAuthorizationCode(r, ok) PROVE OidcInv'
  <2>1. oidcReq[r] # None /\ oidcReq[r].step = "exchange"
        /\ \E step \in {"keys", "refused"} : oidcReq' = [oidcReq EXCEPT ![r].step = step]
    BY <1>7 DEF ExchangeAuthorizationCode, Running, Progress
  <2>2. UNCHANGED <<published, jwks, jwksLock, transactions, nonces>>
    BY <1>7 DEF ExchangeAuthorizationCode
  <2> QED
    BY <2>1, <2>2, RequestGoesOn
<1>8. ASSUME NEW r \in OidcRequests, DecodeOidcToken(r) PROVE OidcInv'
  <2> DEFINE step == IF Claims(r) = "refused" THEN "refused" ELSE "done"
  <2>1. oidcReq[r] # None /\ oidcReq[r].step = "claims" /\ oidcReq' = [oidcReq EXCEPT ![r].step = step]
    BY <1>8 DEF DecodeOidcToken, Running, Progress
  <2>2. UNCHANGED <<published, jwks, jwksLock, transactions, nonces>>
    BY <1>8 DEF DecodeOidcToken
  <2>3. step = "done" /\ oidcReq[r].expected # None => oidcReq[r].nonce = oidcReq[r].expected
    BY DEF Claims
  <2>4. step \in {"done", "refused"}
    OBVIOUS
  <2> HIDE DEF step
  <2> QED
    BY <2>1, <2>2, <2>3, <2>4, RequestGoesOn
<1>9. ASSUME NEW r \in OidcRequests, JwksFails(r) \/ OidcAnswered(r) PROVE OidcInv'
  BY <1>9, RequestEnds DEF JwksFails, OidcAnswered, Loading
<1>10. CASE UNCHANGED keyVars
  BY <1>0, <1>10, KeysChange DEF keyVars
<1> QED
  BY <1>1, <1>2, <1>3, <1>4, <1>5, <1>6, <1>7, <1>8, <1>9, <1>10, KeysArrive, KeysAreFetched, KeyIsSelected,
     Zenon DEF OidcNext

LEMMA OidcStarts == IdentityInit => OidcInv
<1> SUFFICES ASSUME IdentityInit PROVE OidcInv
  OBVIOUS
<1>1. \A r \in OidcRequests : oidcReq[r] = None
  BY DEF IdentityInit
<1>2. OidcState
  BY DEF IdentityInit, OidcState
<1>3. LoadsAlone /\ LoadsFollow /\ GoodFinds /\ RefreshIsFresh /\ LoginBound
  BY <1>1 DEF LoadsAlone, LoadsFollow, GoodFinds, RefreshIsFresh, LoginBound, Loading, Running, Good
<1> QED
  BY <1>2, <1>3 DEF OidcInv

(* Whoever a verification returned is a live account until an administrator *)
(* changes the record, which discards the answer.                           *)
IdentityInv == OidcInv /\ DOMAIN accounts = Emails /\ (verified \in Emails => Live(verified))

(* A step that answers a verification answers with a live account or with   *)
(* none; any other step leaves the accounts or the answer behind.           *)
LEMMA VerifyNext ==
    ASSUME IdentityInv, [IdentityNext]_identityVars
    PROVE  VerifyStep /\ DOMAIN accounts' = Emails /\ (verified' \in Emails => Live(verified)')
<1> DEFINE Fine == /\ verified' \in Emails => Live(verified') /\ Live(verified)'
                   /\ DOMAIN accounts' = Emails
<1>0. DOMAIN accounts = Emails /\ (verified \in Emails => Live(verified))
  BY DEF IdentityInv
<1>1. ASSUME UNCHANGED <<accounts, verified>> PROVE Fine
  BY <1>0, <1>1 DEF Live
<1>2. ASSUME UNCHANGED accounts, NEW e, verified' \in {e, "refused"}, verified' = e => Live(e) PROVE Fine
  BY <1>0, <1>2, IdentityAssumption DEF Live
<1>3. ASSUME verified' \notin Emails, DOMAIN accounts' = Emails PROVE Fine
  BY <1>3
<1>4. ASSUME NEW e \in Emails, CreateLocalUser(e) PROVE Fine
  <2>1. verified' = verified /\ accounts[e] = None /\ DOMAIN accounts' = Emails
        /\ \A f \in Emails \ {e} : accounts'[f] = accounts[f]
    BY <1>0, <1>4 DEF CreateLocalUser
  <2> QED
    BY <1>0, <2>1 DEF Live
<1>5. ASSUME NEW e \in Emails, LinkOidcSubject(e) PROVE Fine
  BY <1>1, <1>5 DEF LinkOidcSubject, localVars
<1>6. ASSUME NEW e, NEW pw, AuthenticateCredentials(e, pw) PROVE Fine
  BY <1>1, <1>6 DEF AuthenticateCredentials
<1>7. ASSUME NEW e, NEW kind, BeginAccountEdit(e, kind) PROVE Fine
  BY <1>1, <1>7 DEF BeginAccountEdit
<1>8. ASSUME IssueAccessToken \/ FirebaseCacheLapses PROVE Fine
  BY <1>1, <1>8 DEF IssueAccessToken, FirebaseCacheLapses
<1>9. ASSUME ApplyAccountEdit \/ ResetPassword PROVE Fine
  <2>1. verified' = None /\ DOMAIN accounts' = DOMAIN accounts
    BY <1>9 DEF ApplyAccountEdit, ResetPassword
  <2> QED
    BY <1>0, <1>3, <2>1, IdentityAssumption
<1>10. ASSUME NEW keep, RotateSigningKey(keep) PROVE Fine
  BY <1>0, <1>3, <1>10, IdentityAssumption DEF RotateSigningKey
<1>11. ASSUME NEW token, GetCurrentUserLocalJwt(token) PROVE Fine
  BY <1>2, <1>11 DEF GetCurrentUserLocalJwt, UserFromToken
<1>12. ASSUME NEW token, GetCurrentUserLocalMode(token) PROVE Fine
  BY <1>0, <1>3, <1>12, IdentityAssumption DEF GetCurrentUserLocalMode
<1>13. ASSUME NEW ok, FirebaseGetCurrentUser(ok) \/ ResolveUserByUid(ok) PROVE Fine
  BY <1>0, <1>3, <1>13, IdentityAssumption DEF FirebaseGetCurrentUser, ResolveUserByUid
<1>14. CASE AccountNext
  <2> HIDE DEF Fine
  <2>1. Fine
    BY <1>4, <1>5, <1>6, <1>7, <1>8, <1>9, <1>10, <1>11, <1>12, <1>13, <1>14, Zenon DEF AccountNext
  <2> QED
    BY <2>1 DEF Fine, VerifyStep
<1>15. ASSUME NEW r, DecodeOidcToken(r) PROVE Fine
  <2>1. verified' = Claims(r) /\ UNCHANGED accounts
    BY <1>15 DEF DecodeOidcToken
  <2>2. Claims(r) \in {oidcReq[r].email, "refused"} /\ (Claims(r) = oidcReq[r].email => Claims(r) = "refused" \/ Live(oidcReq[r].email))
    BY DEF Claims, LocalUserFromSubject
  <2>3. CASE Claims(r) = "refused"
    BY <1>0, <1>3, <2>1, <2>3, IdentityAssumption
  <2>4. CASE Claims(r) # "refused"
    BY <1>2, <2>1, <2>2, <2>4
  <2> QED
    BY <2>3, <2>4
<1>16. ASSUME NEW r, JwksFails(r) PROVE Fine
  BY <1>0, <1>3, <1>16, IdentityAssumption DEF JwksFails
<1>17. ASSUME NEW r, SelectJwk(r) PROVE Fine
  <2>1. UNCHANGED accounts /\ verified' \in {verified, "refused"}
    BY <1>17 DEF SelectJwk
  <2> QED
    BY <1>0, <2>1, IdentityAssumption DEF Live
<1>18. CASE OidcNext
  <2> HIDE DEF Fine
  <2>1. ASSUME ProviderRotates \/ JwksLapses \/ CreateOidcAuthorizationRequest PROVE Fine
    BY <1>1, <2>1 DEF ProviderRotates, JwksLapses, CreateOidcAuthorizationRequest, localVars
  <2>2. ASSUME NEW x, TransactionLapses(x) PROVE Fine
    BY <1>1, <2>2 DEF TransactionLapses, localVars
  <2>3. ASSUME NEW r, NEW e, NEW kid, VerifyOidcToken(r, e, kid) PROVE Fine
    BY <1>1, <2>3 DEF VerifyOidcToken, localVars
  <2>4. ASSUME NEW r, NEW x, NEW e, NEW code, ConsumeOidcTransaction(r, x, e, code) PROVE Fine
    BY <1>1, <2>4 DEF ConsumeOidcTransaction, localVars
  <2>5. ASSUME NEW r, NEW ok, ExchangeAuthorizationCode(r, ok) PROVE Fine
    BY <1>1, <2>5 DEF ExchangeAuthorizationCode, localVars
  <2>6. ASSUME NEW r, CachedJwks(r) \/ LoadJwks(r) \/ JwksArrives(r) \/ OidcAnswered(r) PROVE Fine
    BY <1>1, <2>6 DEF CachedJwks, LoadJwks, JwksArrives, OidcAnswered, localVars
  <2>7. Fine
    BY <2>1, <2>2, <2>3, <2>4, <2>5, <2>6, <1>15, <1>16, <1>17, <1>18, Zenon DEF OidcNext
  <2> QED
    BY <2>7 DEF Fine, VerifyStep
<1>19. CASE UNCHANGED identityVars
  <2>1. Fine
    BY <1>1, <1>19 DEF identityVars, localVars
  <2> QED
    BY <2>1 DEF VerifyStep
<1> QED
  BY <1>14, <1>18, <1>19 DEF IdentityNext

LEMMA IdentityStep ==
    ASSUME IdentityInv, [IdentityNext]_identityVars
    PROVE  IdentityInv'
<1>1. OidcNext \/ UNCHANGED keyVars
  <2>1. ASSUME NEW e, LinkOidcSubject(e) PROVE UNCHANGED keyVars
    BY <2>1 DEF LinkOidcSubject, keyVars
  <2>2. ASSUME NEW e, NEW k, CreateLocalUser(e) \/ AuthenticateCredentials(e, k) \/ BeginAccountEdit(e, k)
        PROVE  UNCHANGED keyVars
    BY <2>2 DEF CreateLocalUser, AuthenticateCredentials, BeginAccountEdit, keyVars, oidcVars
  <2>3. ASSUME IssueAccessToken \/ ApplyAccountEdit \/ ResetPassword \/ FirebaseCacheLapses
        PROVE  UNCHANGED keyVars
    BY <2>3 DEF IssueAccessToken, ApplyAccountEdit, ResetPassword, FirebaseCacheLapses, keyVars, oidcVars
  <2>4. ASSUME NEW k, \/ RotateSigningKey(k) \/ GetCurrentUserLocalJwt(k) \/ GetCurrentUserLocalMode(k)
                      \/ FirebaseGetCurrentUser(k) \/ ResolveUserByUid(k)
        PROVE  UNCHANGED keyVars
    BY <2>4 DEF RotateSigningKey, GetCurrentUserLocalJwt, GetCurrentUserLocalMode, FirebaseGetCurrentUser,
                ResolveUserByUid, keyVars, oidcVars
  <2>5. ASSUME AccountNext PROVE UNCHANGED keyVars
    BY <2>1, <2>2, <2>3, <2>4, <2>5, Zenon DEF AccountNext
  <2>6. ASSUME UNCHANGED identityVars PROVE UNCHANGED keyVars
    BY <2>6 DEF identityVars, oidcVars, keyVars
  <2> QED
    BY <2>5, <2>6 DEF IdentityNext
<1>2. OidcInv'
  BY <1>1, OidcStep DEF IdentityInv
<1> QED
  BY <1>2, VerifyNext DEF IdentityInv

LEMMA IdentityStarts == IdentityInit => IdentityInv
<1> SUFFICES ASSUME IdentityInit PROVE IdentityInv
  OBVIOUS
<1>1. DOMAIN accounts = Emails /\ verified \notin Emails
  BY IdentityAssumption DEF IdentityInit
<1> QED
  BY <1>1, OidcStarts DEF IdentityInv

\* However administrators edit accounts, keys rotate and requests share the
\* key cache: a verification returns live accounts only, a completed browser
\* login belongs to the transaction it consumed, and no token signed with a
\* published key is refused for an unknown one; for any accounts, requests
\* and number of keys.
THEOREM OnlyTheAccountItself == IdentitySpec => OnlyLiveAccounts /\ [](LoginBound /\ RefreshIsFresh)
<1>1. IdentityInv /\ [IdentityNext]_identityVars => IdentityInv' /\ [VerifyStep]_identityVars
  BY IdentityStep, VerifyNext
<1>2. IdentityInv => LoginBound /\ RefreshIsFresh
  BY DEF IdentityInv, OidcInv
<1> QED
  BY <1>1, <1>2, IdentityStarts, PTL DEF IdentitySpec, OnlyLiveAccounts
-----------------------------------------------------------------------------
(* Peers: where authentication is required the scope of a task is the peer  *)
(* that saved it; the files among the parts that were handled are stored or *)
(* rejected, and none of them was kept.                                     *)
FileShapes == {"bytes", "uri"}
FilesUpTo(message, k) == {i \in 1 .. k : message[i].shape \in FileShapes}
PeerFields == {"peer", "ctx", "message", "kept", "rest", "saved", "rejected", "read", "step"}

Handled(q, k) ==
    /\ Len(q.rest) = Len(q.message) - k /\ \A i \in 1 .. Len(q.rest) : q.rest[i] = q.message[k + i]
    /\ Len(q.saved) + q.rejected = Cardinality(FilesUpTo(q.message, k))
Typed(q) ==
    /\ DOMAIN q = PeerFields
    /\ q.message \in Seq(MessagePart) /\ q.kept \in Seq(MessagePart) /\ q.rest \in Seq(MessagePart)
    /\ q.saved \in Seq(Nat) /\ q.rejected \in Nat
Accounted(q) ==
    /\ Typed(q)
    /\ \A i \in DOMAIN q.kept : q.kept[i].shape \notin FileShapes
    /\ q.step = "parts" => \E k \in 0 .. Len(q.message) : Handled(q, k)
    /\ q.step \in {"inject", "run"} => Handled(q, Len(q.message))

CallFields == {"server", "rpc", "html", "status", "step"}

PeerInv ==
    /\ a2aAuth => \A t \in tasks : t.by # None /\ t.owner = t.by
    /\ TasksOwned
    /\ minted \in Nat /\ DOMAIN peerReq = PeerRequests
    /\ fileInput => \A r \in PeerRequests : peerReq[r] # None => Accounted(peerReq[r])
    /\ DOMAIN proxyCall = ProxyCalls
    /\ \A q \in ProxyCalls : proxyCall[q] # None => DOMAIN proxyCall[q] = CallFields

LEMMA PeerStarts == PeerInit => PeerInv
BY DEF PeerInit, PeerInv, TasksOwned

(* One part more is handled.                                                *)
LEMMA OneFileMore ==
    ASSUME NEW message \in Seq(MessagePart), NEW k \in Nat, k < Len(message)
    PROVE  /\ Cardinality(FilesUpTo(message, k)) \in Nat
           /\ Cardinality(FilesUpTo(message, k + 1)) =
                 Cardinality(FilesUpTo(message, k)) + (IF message[k + 1].shape \in FileShapes THEN 1 ELSE 0)
<1>1. IsFiniteSet(FilesUpTo(message, k))
  <2>1. IsFiniteSet(1 .. k)
    BY FS_Interval
  <2>2. FilesUpTo(message, k) \subseteq 1 .. k
    BY DEF FilesUpTo
  <2> QED
    BY <2>1, <2>2, FS_Subset
<1>2. Cardinality(FilesUpTo(message, k)) \in Nat
  BY <1>1, FS_CardinalityType
<1>3. CASE message[k + 1].shape \in FileShapes
  <2>1. FilesUpTo(message, k + 1) = FilesUpTo(message, k) \cup {k + 1}
    BY <1>3 DEF FilesUpTo
  <2>2. k + 1 \notin FilesUpTo(message, k)
    BY DEF FilesUpTo
  <2>3. Cardinality(FilesUpTo(message, k + 1)) = Cardinality(FilesUpTo(message, k)) + 1
    BY <1>1, <2>1, <2>2, FS_AddElement
  <2> QED
    BY <1>2, <1>3, <2>3
<1>4. CASE message[k + 1].shape \notin FileShapes
  <2>1. FilesUpTo(message, k + 1) = FilesUpTo(message, k)
    BY <1>4 DEF FilesUpTo
  <2> QED
    BY <1>2, <1>4, <2>1
<1> QED
  BY <1>2, <1>3, <1>4

LEMMA PartIsHandled ==
    ASSUME NEW q, NEW new, Accounted(q), q.step = "parts", q.rest # <<>>, Typed(new),
           new.message = q.message, new.rest = Tail(q.rest), new.step = "parts",
           Len(new.saved) + new.rejected =
               Len(q.saved) + q.rejected + (IF Head(q.rest).shape \in FileShapes THEN 1 ELSE 0),
           new.kept = q.kept \/ (new.kept = Append(q.kept, Head(q.rest)) /\ Head(q.rest).shape \notin FileShapes)
    PROVE  Accounted(new)
<1> DEFINE m == q.message
<1>1. PICK k \in 0 .. Len(m) : Handled(q, k)
  BY DEF Accounted
<1>2. /\ m \in Seq(MessagePart) /\ Len(m) \in Nat /\ q.rest \in Seq(MessagePart)
      /\ Len(q.rest) = Len(m) - k /\ \A i \in 1 .. Len(q.rest) : q.rest[i] = m[k + i]
  BY <1>1 DEF Accounted, Typed, Handled
<1>3. k < Len(m) /\ Len(q.rest) \in Nat \ {0}
  <2> HIDE DEF m
  <2> QED
    BY <1>2
<1>4. /\ k + 1 \in 0 .. Len(m) /\ Head(q.rest) = m[k + 1]
      /\ Len(Tail(q.rest)) = Len(m) - (k + 1)
      /\ \A i \in 1 .. Len(Tail(q.rest)) : Tail(q.rest)[i] = m[k + 1 + i]
  <2> HIDE DEF m
  <2>1. Head(q.rest) = q.rest[1] /\ Len(Tail(q.rest)) = Len(q.rest) - 1
        /\ \A i \in 1 .. Len(Tail(q.rest)) : Tail(q.rest)[i] = q.rest[i + 1]
    BY <1>2, <1>3
  <2>2. \A i \in 1 .. Len(Tail(q.rest)) : i + 1 \in 1 .. Len(q.rest) /\ k + (i + 1) = k + 1 + i
    BY <1>3, <2>1
  <2> QED
    BY <1>2, <1>3, <2>1, <2>2
<1>5. Handled(new, k + 1)
  <2>1. k \in Nat /\ k + 1 + 1 = k + 2
    BY <1>2
  <2>2. Len(new.saved) + new.rejected = Cardinality(FilesUpTo(m, k + 1))
    BY <1>1, <1>2, <1>3, <1>4, <2>1, OneFileMore DEF Handled
  <2> QED
    BY <1>4, <2>2 DEF Handled
<1>6. \A i \in DOMAIN new.kept : new.kept[i].shape \notin FileShapes
  <2>1. q.kept \in Seq(MessagePart) /\ Head(q.rest) \in MessagePart
    <3>1. m[k + 1] \in MessagePart
      BY <1>2, <1>3
    <3> QED
      BY <1>4, <3>1 DEF Accounted, Typed
  <2>2. \A i \in DOMAIN q.kept : q.kept[i].shape \notin FileShapes
    BY DEF Accounted
  <2>3. CASE new.kept = q.kept
    BY <2>2, <2>3
  <2>4. CASE new.kept = Append(q.kept, Head(q.rest)) /\ Head(q.rest).shape \notin FileShapes
    <3> DEFINE h == Head(q.rest)
    <3> HIDE DEF h
    <3>1. new.kept = Append(q.kept, h) /\ h.shape \notin FileShapes /\ h \in MessagePart
      BY <2>1, <2>4 DEF h
    <3> QED
      BY <2>1, <2>2, <3>1
  <2> QED
    BY <2>3, <2>4
<1> QED
  BY <1>4, <1>5, <1>6 DEF Accounted

(* A request that moves on keeps the others' accounts.                      *)
LEMMA PeerMoves ==
    ASSUME PeerInv, NEW r \in PeerRequests, NEW new, peerReq' = [peerReq EXCEPT ![r] = new],
           fileInput => Accounted(new), minted' \in Nat,
           UNCHANGED <<a2aAuth, fileInput, tasks, taskSeen, proxyCall>>
    PROVE  PeerInv'
<1>1. peerReq'[r] = new /\ \A s \in PeerRequests \ {r} : peerReq'[s] = peerReq[s]
  BY DEF PeerInv
<1> QED
  BY <1>1 DEF PeerInv, TasksOwned

(* One part of a message: whatever becomes of it, it is accounted for.      *)
LEMMA PartsAreHandled ==
    ASSUME PeerInv, NEW r \in PeerRequests, BeforeAgent(r)
    PROVE  PeerInv'
<1> DEFINE q == peerReq[r]
           piece == Head(q.rest)
<1>1. q # None /\ q.step = "parts" /\ q.rest # <<>>
  BY DEF BeforeAgent
<1>2. SaveAsArtifact(r, piece) \/ RejectUri(r, piece) \/ RejectBytes(r, piece) \/ KeepPart(r, piece)
  BY DEF BeforeAgent
<1>3. UNCHANGED <<a2aAuth, fileInput, tasks, taskSeen, proxyCall>>
  BY DEF BeforeAgent, taskVars, mcpVars
<1>4. CASE fileInput
  <2>1. Accounted(q)
    BY <1>1, <1>4 DEF PeerInv
  <2>2. /\ DOMAIN q = PeerFields /\ q.rest \in Seq(MessagePart) /\ q.kept \in Seq(MessagePart)
        /\ q.saved \in Seq(Nat) /\ q.rejected \in Nat /\ q.message \in Seq(MessagePart)
    BY <2>1 DEF Accounted, Typed
  <2>3. piece \in MessagePart /\ Tail(q.rest) \in Seq(MessagePart)
    BY <1>1, <2>2
  <2>4. minted \in Nat
    BY DEF PeerInv
  <2>5. ASSUME peerReq' = [peerReq EXCEPT ![r].step = "failed"], minted' = minted PROVE PeerInv'
    <3> DEFINE new == [q EXCEPT !.step = "failed"]
    <3>1. Accounted(new)
      BY <2>1 DEF Accounted, Typed, PeerFields, Handled
    <3>2. peerReq' = [peerReq EXCEPT ![r] = new]
      BY <2>5
    <3> HIDE DEF new
    <3> QED
      BY <1>3, <2>4, <2>5, <3>1, <3>2, PeerMoves
  <2>6. ASSUME peerReq' = [peerReq EXCEPT ![r].saved = Append(@, minted + 1), ![r].rest = Tail(@)],
               minted' = minted + 1, piece.shape \in FileShapes
        PROVE  PeerInv'
    <3> DEFINE new == [q EXCEPT !.saved = Append(@, minted + 1), !.rest = Tail(@)]
    <3>1. /\ DOMAIN new = PeerFields /\ new.message = q.message /\ new.kept = q.kept /\ new.step = q.step
          /\ new.rest = Tail(q.rest) /\ new.saved = Append(q.saved, minted + 1) /\ new.rejected = q.rejected
      BY <2>2 DEF PeerFields
    <3>2. new.saved \in Seq(Nat) /\ Len(new.saved) = Len(q.saved) + 1
      BY <2>2, <2>4, <3>1
    <3>3. peerReq' = [peerReq EXCEPT ![r] = new]
      BY <2>6
    <3> HIDE DEF new, q
    <3>4. Typed(new)
      BY <2>2, <2>3, <3>1, <3>2 DEF Typed
    <3>5. Len(new.saved) + new.rejected = Len(q.saved) + q.rejected + (IF piece.shape \in FileShapes THEN 1 ELSE 0)
      BY <2>2, <2>6, <3>1, <3>2
    <3>6. Accounted(new)
      BY <1>1, <2>1, <3>1, <3>4, <3>5, PartIsHandled
    <3>7. minted' \in Nat
      BY <2>4, <2>6
    <3> QED
      BY <1>3, <3>3, <3>6, <3>7, PeerMoves
  <2>7. ASSUME peerReq' = [peerReq EXCEPT ![r].rejected = @ + 1, ![r].rest = Tail(@)],
               minted' = minted, piece.shape \in FileShapes
        PROVE  PeerInv'
    <3> DEFINE new == [q EXCEPT !.rejected = @ + 1, !.rest = Tail(@)]
    <3>1. /\ DOMAIN new = PeerFields /\ new.message = q.message /\ new.kept = q.kept /\ new.step = q.step
          /\ new.rest = Tail(q.rest) /\ new.saved = q.saved /\ new.rejected = q.rejected + 1
      BY <2>2 DEF PeerFields
    <3>3. peerReq' = [peerReq EXCEPT ![r] = new]
      BY <2>7
    <3> HIDE DEF new, q
    <3>4. Typed(new)
      BY <2>2, <2>3, <3>1 DEF Typed
    <3>5. Len(new.saved) + new.rejected = Len(q.saved) + q.rejected + (IF piece.shape \in FileShapes THEN 1 ELSE 0)
      BY <2>2, <2>7, <3>1, SMTT(60)
    <3>6. Accounted(new)
      BY <1>1, <2>1, <3>1, <3>4, <3>5, PartIsHandled
    <3> QED
      BY <1>3, <2>4, <2>7, <3>3, <3>6, PeerMoves
  <2>8. ASSUME peerReq' = [peerReq EXCEPT ![r].kept = Append(@, piece), ![r].rest = Tail(@)],
               minted' = minted, piece.shape \notin FileShapes
        PROVE  PeerInv'
    <3> DEFINE new == [q EXCEPT !.kept = Append(@, piece), !.rest = Tail(@)]
    <3>1. /\ DOMAIN new = PeerFields /\ new.message = q.message /\ new.kept = Append(q.kept, piece)
          /\ new.step = q.step /\ new.rest = Tail(q.rest) /\ new.saved = q.saved /\ new.rejected = q.rejected
      BY <2>2 DEF PeerFields
    <3>2. new.kept \in Seq(MessagePart)
      BY <2>2, <2>3, <3>1
    <3>3. peerReq' = [peerReq EXCEPT ![r] = new]
      BY <2>8
    <3> HIDE DEF new, q
    <3>4. Typed(new)
      BY <2>2, <2>3, <3>1, <3>2 DEF Typed
    <3>5. Len(new.saved) + new.rejected = Len(q.saved) + q.rejected + (IF piece.shape \in FileShapes THEN 1 ELSE 0)
      BY <2>2, <2>8, <3>1
    <3>6. Accounted(new)
      BY <1>1, <2>1, <2>8, <3>1, <3>4, <3>5, PartIsHandled
    <3> QED
      BY <1>3, <2>4, <2>8, <3>3, <3>6, PeerMoves
  <2>9. CASE SaveAsArtifact(r, piece)
    <3> HIDE DEF piece
    <3> QED
      BY <2>5, <2>6, <2>9 DEF SaveAsArtifact, Advance, FileShapes
  <2>10. CASE RejectUri(r, piece) \/ RejectBytes(r, piece)
    <3> HIDE DEF piece
    <3> QED
      BY <2>7, <2>10 DEF RejectUri, RejectBytes, FileShapes
  <2>11. CASE KeepPart(r, piece)
    <3> HIDE DEF piece
    <3> QED
      BY <2>8, <2>11 DEF KeepPart, FileShapes
  <2> QED
    BY <1>2, <2>9, <2>10, <2>11
<1>5. CASE ~fileInput
  <2>1. minted' \in {minted, minted + 1} /\ DOMAIN peerReq' = DOMAIN peerReq
    BY <1>2 DEF SaveAsArtifact, RejectUri, RejectBytes, KeepPart, Advance
  <2> QED
    BY <1>3, <1>5, <2>1 DEF PeerInv, TasksOwned
<1> QED
  BY <1>4, <1>5

(* A message that arrives has handled nothing; one whose parts are all      *)
(* handled has handled every piece.                                          *)
LEMMA MessageArrives ==
    ASSUME PeerInv, NEW r \in PeerRequests, NEW p, NEW ctx, NEW message \in A2aMessages,
           SendMessage(r, p, ctx, message)
    PROVE  PeerInv'
<1> DEFINE new == [peer |-> p, ctx |-> ctx, message |-> message, kept |-> <<>>, rest |-> message,
                   saved |-> <<>>, rejected |-> 0, read |-> None,
                   step |-> IF fileInput THEN "parts" ELSE "run"]
<1>1. message \in Seq(MessagePart) /\ Len(message) \in Nat
  BY PeerAssumption
<1>2. Typed(new)
  BY <1>1 DEF Typed, PeerFields
<1>3. Handled(new, 0)
  <2>1. FilesUpTo(message, 0) = {}
    BY DEF FilesUpTo
  <2>2. Cardinality(FilesUpTo(message, 0)) = 0
    BY <2>1, FS_EmptySet
  <2>3. \A i \in 1 .. Len(message) : message[i] = message[0 + i]
    BY <1>1
  <2> QED
    BY <1>1, <2>2, <2>3 DEF Handled
<1>4. fileInput => Accounted(new)
  BY <1>1, <1>2, <1>3 DEF Accounted
<1>5. peerReq' = [peerReq EXCEPT ![r] = new]
  BY DEF SendMessage
<1>6. minted' \in Nat /\ UNCHANGED <<a2aAuth, fileInput, tasks, taskSeen, proxyCall>>
  BY DEF SendMessage, taskVars, mcpVars, PeerInv
<1> HIDE DEF new
<1> QED
  BY <1>4, <1>5, <1>6, PeerMoves

LEMMA AccountsKept ==
    ASSUME NEW q, NEW new, Accounted(q), q.step = "parts" => q.rest = <<>>,
           q.step \in {"parts", "inject"}, DOMAIN new = DOMAIN q,
           \A f \in PeerFields \ {"step", "read"} : new[f] = q[f], new.step # "parts"
    PROVE  Accounted(new)
<1>1. Handled(q, Len(q.message))
  <2>1. CASE q.step = "inject"
    BY <2>1 DEF Accounted
  <2>2. ASSUME q.step = "parts" PROVE Handled(q, Len(q.message))
    <3>1. PICK k \in 0 .. Len(q.message) : Handled(q, k)
      BY <2>2 DEF Accounted
    <3>2. Len(q.rest) = 0 /\ Len(q.rest) = Len(q.message) - k /\ Len(q.message) \in Nat
      BY <2>2, <3>1 DEF Handled, Accounted, Typed
    <3>3. k = Len(q.message)
      BY <3>2
    <3> QED
      BY <3>1, <3>3
  <2> QED
    BY <2>1, <2>2
<1>2. /\ DOMAIN new = PeerFields /\ new.message = q.message /\ new.kept = q.kept
      /\ new.rest = q.rest /\ new.saved = q.saved /\ new.rejected = q.rejected
  BY DEF PeerFields, Accounted, Typed
<1> QED
  BY <1>1, <1>2 DEF Accounted, Typed, Handled

LEMMA MessageGoesOn ==
    ASSUME PeerInv, NEW r \in PeerRequests, PartsDone(r) \/ InjectDocumentIds(r)
    PROVE  PeerInv'
<1> DEFINE q == peerReq[r]
<1>1. minted' \in Nat /\ UNCHANGED <<a2aAuth, fileInput, tasks, taskSeen, proxyCall>>
  BY DEF PartsDone, InjectDocumentIds, taskVars, mcpVars, PeerInv
<1>2. /\ q # None /\ q.step \in {"parts", "inject"} /\ (q.step = "parts" => q.rest = <<>>)
  BY DEF PartsDone, InjectDocumentIds
<1>3. fileInput => Accounted(q) /\ DOMAIN q = PeerFields
  BY <1>2 DEF PeerInv, Accounted, Typed
<1>4. ASSUME peerReq' = [peerReq EXCEPT ![r].step = "run"] PROVE PeerInv'
  <2> DEFINE new == [q EXCEPT !.step = "run"]
  <2>1. peerReq' = [peerReq EXCEPT ![r] = new]
    BY <1>4
  <2>2. fileInput => DOMAIN new = DOMAIN q /\ \A f \in PeerFields \ {"step", "read"} : new[f] = q[f]
    BY <1>3
  <2>3. fileInput => new.step = "run"
    BY <1>3 DEF PeerFields
  <2> HIDE DEF new, q
  <2>4. fileInput => Accounted(new)
    BY <1>2, <1>3, <2>2, <2>3, AccountsKept
  <2> QED
    BY <1>1, <2>1, <2>4, PeerMoves
<1>5. ASSUME NEW session, peerReq' = [peerReq EXCEPT ![r].step = "inject", ![r].read = session]
      PROVE  PeerInv'
  <2> DEFINE new == [q EXCEPT !.step = "inject", !.read = session]
  <2>1. peerReq' = [peerReq EXCEPT ![r] = new]
    BY <1>5
  <2>2. fileInput => DOMAIN new = DOMAIN q /\ \A f \in PeerFields \ {"step", "read"} : new[f] = q[f]
    BY <1>3
  <2>3. fileInput => new.step = "inject"
    BY <1>3 DEF PeerFields
  <2> HIDE DEF new, q
  <2>4. fileInput => Accounted(new)
    BY <1>2, <1>3, <2>2, <2>3, AccountsKept
  <2> QED
    BY <1>1, <2>1, <2>4, PeerMoves
<1>6. CASE PartsDone(r)
  <2>1. CASE q.saved = <<>>
    BY <1>4, <1>6, <2>1 DEF PartsDone
  <2>2. CASE q.saved # <<>>
    BY <1>5, <1>6, <2>2 DEF PartsDone
  <2> QED
    BY <2>1, <2>2
<1>7. CASE InjectDocumentIds(r)
  BY <1>4, <1>7 DEF InjectDocumentIds, Advance
<1> QED
  BY <1>6, <1>7

LEMMA AgentAnswers ==
    ASSUME PeerInv, NEW r \in PeerRequests, RunPeerAgent(r) \/ PeerAnswered(r)
    PROVE  PeerInv'
<1> DEFINE q == peerReq[r]
<1>1. minted' \in Nat /\ UNCHANGED <<a2aAuth, fileInput, tasks, taskSeen, proxyCall>>
  BY DEF RunPeerAgent, PeerAnswered, taskVars, mcpVars, PeerInv
<1>2. CASE PeerAnswered(r)
  BY <1>1, <1>2 DEF PeerAnswered, PeerInv, TasksOwned
<1>3. CASE RunPeerAgent(r)
  <2>1. PICK s \in {"failed", "answered"} : peerReq' = [peerReq EXCEPT ![r] = [q EXCEPT !.step = s]]
    BY <1>3 DEF RunPeerAgent, Advance
  <2> DEFINE new == [q EXCEPT !.step = s]
  <2>2. fileInput => Accounted(new)
    <3>1. fileInput => Accounted(q)
      BY <1>3 DEF RunPeerAgent, PeerInv
    <3> QED
      BY <3>1 DEF Accounted, Typed, PeerFields, Handled
  <2>3. peerReq' = [peerReq EXCEPT ![r] = new]
    BY <2>1
  <2> HIDE DEF new
  <2> QED
    BY <1>1, <2>2, <2>3, PeerMoves
<1> QED
  BY <1>2, <1>3

LEMMA TasksStayOwned ==
    ASSUME PeerInv, NEW p \in Principals \cup {None}, NEW id,
           SaveTask(p, id) \/ GetTask(p, id) \/ DeleteTask(p, id)
    PROVE  PeerInv'
<1>1. UNCHANGED <<a2aAuth, fileInput, peerReq, minted, proxyCall>> /\ (a2aAuth => p # None)
  BY DEF SaveTask, GetTask, DeleteTask, fileVars, mcpVars, Dispatch
<1>2. (a2aAuth => \A t \in tasks' : t.by # None /\ t.owner = t.by) /\ TasksOwned'
  <2>1. CASE SaveTask(p, id)
    BY <1>1, <2>1 DEF SaveTask, A2aOwnerScope, PeerInv, TasksOwned
  <2>2. CASE GetTask(p, id)
    BY <1>1, <2>2 DEF GetTask, A2aOwnerScope, PeerInv, TasksOwned
  <2>3. CASE DeleteTask(p, id)
    BY <1>1, <2>3 DEF DeleteTask, PeerInv, TasksOwned
  <2> QED
    BY <2>1, <2>2, <2>3
<1> QED
  BY <1>1, <1>2 DEF PeerInv

(* A proxied call: only its body moves it to the upstream server.           *)
CallMoves(q, new) ==
    /\ new # None => DOMAIN new = CallFields
    /\ proxyCall[q] # None /\ new # None /\ proxyCall[q].step = "body" /\ new.step = "upstream"
       /\ proxyCall[q].rpc.method = "tools/call" =>
           McpToolPermitted(proxyCall[q].server, proxyCall[q].rpc.tool)

LEMMA ProxyMoves ==
    ASSUME PeerInv, NEW q \in ProxyCalls, NEW new, CallMoves(q, new),
           proxyCall' = [proxyCall EXCEPT ![q] = new], UNCHANGED <<taskVars, fileVars>>
    PROVE  PeerInv' /\ ForwardStep
<1>1. proxyCall'[q] = new /\ \A c \in ProxyCalls \ {q} : proxyCall'[c] = proxyCall[c]
  BY DEF PeerInv
<1>2. PeerInv'
  <2>1. UNCHANGED <<a2aAuth, fileInput, tasks, taskSeen, peerReq, minted>>
    BY DEF taskVars, fileVars
  <2> QED
    BY <1>1, <2>1 DEF PeerInv, TasksOwned, CallMoves
<1>3. ForwardStep
  BY <1>1 DEF ForwardStep, CallMoves
<1> QED
  BY <1>2, <1>3

LEMMA ProxyStep ==
    ASSUME PeerInv, NEW q \in ProxyCalls,
           \/ \E s, rpc : ProxyBegins(q, s, rpc)
           \/ ForwardBody(q) \/ MaybeReviewArtefact(q) \/ ProxyDone(q)
           \/ \E status, html : UpstreamAnswers(q, status, html)
    PROVE  PeerInv' /\ ForwardStep
<1> DEFINE c == proxyCall[q]
<1>1. UNCHANGED <<taskVars, fileVars>>
  <2>1. ASSUME NEW s, NEW rpc, ProxyBegins(q, s, rpc) PROVE UNCHANGED <<taskVars, fileVars>>
    BY <2>1 DEF ProxyBegins
  <2>2. ASSUME NEW status, NEW html, UpstreamAnswers(q, status, html) PROVE UNCHANGED <<taskVars, fileVars>>
    <3>1. UNCHANGED <<taskVars, fileVars, mcpDocs, bindings, deniedTools, reviewer, upserting,
                      diagnosis, peerOps>>
      BY <2>2, Zenon DEF UpstreamAnswers
    <3> QED
      BY <3>1
  <2>3. ASSUME ForwardBody(q) \/ MaybeReviewArtefact(q) \/ ProxyDone(q)
        PROVE  UNCHANGED <<taskVars, fileVars>>
    BY <2>3 DEF ForwardBody, MaybeReviewArtefact, ProxyDone
  <2>4. CASE \E s, rpc : ProxyBegins(q, s, rpc)
    BY <2>1, <2>4
  <2>5. CASE \E status, html : UpstreamAnswers(q, status, html)
    BY <2>2, <2>5
  <2> QED
    BY <2>3, <2>4, <2>5
<1>2. (c # None => DOMAIN c = CallFields) /\ q \in DOMAIN proxyCall
  BY DEF PeerInv
<1>3. CASE \E s, rpc : ProxyBegins(q, s, rpc)
  <2>1. PICK s, rpc : ProxyBegins(q, s, rpc)
    BY <1>3
  <2> DEFINE new == [server |-> s, rpc |-> rpc, html |-> FALSE, status |-> ForwardGate(s),
                     step |-> IF ForwardGate(s) = 200 THEN "body" ELSE "done"]
  <2>2. proxyCall' = [proxyCall EXCEPT ![q] = new] /\ c = None
    BY <2>1 DEF ProxyBegins
  <2>3. CallMoves(q, new)
    BY <2>2 DEF CallMoves, CallFields
  <2> HIDE DEF new
  <2> QED
    BY <1>1, <2>2, <2>3, ProxyMoves
<1>4. CASE ForwardBody(q)
  <2> DEFINE step == IF ForwardStatus(q) = 200 THEN "upstream" ELSE "done"
             new == [c EXCEPT !.status = ForwardStatus(q), !.step = step]
  <2>1. proxyCall' = [proxyCall EXCEPT ![q] = new] /\ c # None
    <3> DEFINE st == ForwardStatus(q)
    <3>1. proxyCall' = [proxyCall EXCEPT ![q].status = st, ![q].step = step] /\ c # None
      BY <1>4, Zenon DEF ForwardBody
    <3> HIDE DEF step, st
    <3>2. proxyCall' = [proxyCall EXCEPT ![q] = [c EXCEPT !.status = st, !.step = step]]
      BY <1>2, <3>1
    <3> QED
      BY <3>1, <3>2 DEF st
  <2>2. ForwardStatus(q) = 200 /\ c.rpc.method = "tools/call" => McpToolPermitted(c.server, c.rpc.tool)
    BY DEF ForwardStatus
  <2>3. DOMAIN new = CallFields /\ new.step = step
    BY <1>2, <2>1 DEF CallFields
  <2> HIDE DEF new
  <2>4. CallMoves(q, new)
    BY <2>2, <2>3 DEF CallMoves
  <2> HIDE DEF c
  <2> QED
    BY <1>1, <2>1, <2>4, ProxyMoves
<1>5. CASE MaybeReviewArtefact(q)
  <2> DEFINE new == [c EXCEPT !.step = "done",
                              !.status = IF Reviewed(q) /\ reviewer = "blocks" THEN 403 ELSE 200]
  <2>1. proxyCall' = [proxyCall EXCEPT ![q] = new] /\ c # None
    BY <1>5 DEF MaybeReviewArtefact
  <2>2. DOMAIN new = CallFields /\ new.step = "done"
    BY <1>2, <2>1 DEF CallFields
  <2>3. CallMoves(q, new)
    BY <2>2 DEF CallMoves
  <2> HIDE DEF new, c
  <2> QED
    BY <1>1, <2>1, <2>3, ProxyMoves
<1>6. CASE ProxyDone(q)
  <2>1. proxyCall' = [proxyCall EXCEPT ![q] = None]
    BY <1>6 DEF ProxyDone
  <2>2. CallMoves(q, None)
    BY DEF CallMoves
  <2> QED
    BY <1>1, <2>1, <2>2, ProxyMoves
<1>7. CASE \E status, html : UpstreamAnswers(q, status, html)
  <2>1. PICK status, html : UpstreamAnswers(q, status, html)
    BY <1>7
  <2> DEFINE step == IF status = 200 THEN "review" ELSE "done"
             new == [c EXCEPT !.status = status, !.html = html, !.step = step]
  <2>2. proxyCall' = [proxyCall EXCEPT ![q] = new] /\ c # None
    <3>1. proxyCall' = [proxyCall EXCEPT ![q].status = status, ![q].html = html, ![q].step = step] /\ c # None
      BY <2>1, Zenon DEF UpstreamAnswers
    <3> HIDE DEF step
    <3> QED
      BY <1>2, <3>1
  <2>3. DOMAIN new = CallFields /\ new.step = step /\ step # "upstream"
    BY <1>2, <2>2 DEF CallFields
  <2>4. CallMoves(q, new)
    BY <2>3 DEF CallMoves
  <2> HIDE DEF new, c
  <2> QED
    BY <1>1, <2>2, <2>4, ProxyMoves
<1> QED
  BY <1>3, <1>4, <1>5, <1>6, <1>7

LEMMA PeersRest ==
    ASSUME PeerInv, UNCHANGED <<a2aAuth, fileInput, tasks, taskSeen, peerReq, minted, proxyCall>>
    PROVE  PeerInv' /\ ForwardStep
BY DEF PeerInv, TasksOwned, ForwardStep

LEMMA PeerStep == ASSUME PeerInv, [PeerNext]_peerVars PROVE PeerInv' /\ ForwardStep
<1>1. CASE A2aNext
  <2>1. UNCHANGED proxyCall
    <3>1. ASSUME NEW p, NEW id, SaveTask(p, id) \/ GetTask(p, id) \/ DeleteTask(p, id)
          PROVE  UNCHANGED proxyCall
      BY <3>1 DEF SaveTask, GetTask, DeleteTask, mcpVars
    <3>2. ASSUME NEW r, NEW p, NEW ctx, NEW m, SendMessage(r, p, ctx, m) PROVE UNCHANGED proxyCall
      BY <3>2 DEF SendMessage, mcpVars
    <3>3. ASSUME NEW r, BeforeAgent(r) \/ PartsDone(r) \/ InjectDocumentIds(r)
                        \/ RunPeerAgent(r) \/ PeerAnswered(r)
          PROVE  UNCHANGED proxyCall
      BY <3>3 DEF BeforeAgent, PartsDone, InjectDocumentIds, RunPeerAgent, PeerAnswered, mcpVars
    <3> QED
      BY <1>1, <3>1, <3>2, <3>3, Zenon DEF A2aNext
  <2>2. ForwardStep
    BY <2>1 DEF ForwardStep
  <2>3. PeerInv'
    BY <1>1, TasksStayOwned, MessageArrives, PartsAreHandled, MessageGoesOn, AgentAnswers DEF A2aNext
  <2> QED
    BY <2>2, <2>3
<1>2. CASE McpNext
  <2>1. ASSUME NEW q \in ProxyCalls,
               \/ \E s \in McpServers, rpc \in Rpcs : ProxyBegins(q, s, rpc)
               \/ ForwardBody(q) \/ MaybeReviewArtefact(q) \/ ProxyDone(q)
               \/ \E status \in {200, 502, 504}, html \in BOOLEAN : UpstreamAnswers(q, status, html)
        PROVE  PeerInv' /\ ForwardStep
    BY <2>1, ProxyStep, Zenon
  <2>2. ASSUME NEW servers, NEW denied, RebindServers(servers, denied) PROVE PeerInv' /\ ForwardStep
    BY <2>2, PeersRest DEF RebindServers, taskVars, fileVars
  <2>3. ASSUME NEW s, NEW enabled, NEW headers, UpsertReads(s, enabled, headers)
        PROVE  PeerInv' /\ ForwardStep
    BY <2>3, PeersRest DEF UpsertReads, taskVars, fileVars
  <2>4. ASSUME NEW s, DeleteMcpServer(s) \/ HealthMcpServer(s) \/ DiscoverCapabilities(s)
        PROVE  PeerInv' /\ ForwardStep
    BY <2>4, PeersRest DEF DeleteMcpServer, HealthMcpServer, DiscoverCapabilities, taskVars, fileVars
  <2>5. ASSUME UpsertMcpServer PROVE PeerInv' /\ ForwardStep
    BY <2>5, PeersRest DEF UpsertMcpServer, taskVars, fileVars
  <2> QED
    BY <1>2, <2>1, <2>2, <2>3, <2>4, <2>5 DEF McpNext
<1>3. CASE UNCHANGED peerVars
  BY <1>3, PeersRest DEF peerVars, taskVars, fileVars, mcpVars
<1> QED
  BY <1>1, <1>2, <1>3 DEF PeerNext

LEMMA PeerHolds == PeerInv => TasksOwned /\ FilesAccounted
<1>1. ASSUME PeerInv, NEW r \in PeerRequests, fileInput, peerReq[r] # None, peerReq[r].step = "run"
      PROVE  LET req == peerReq[r]
                 Files == {i \in DOMAIN req.message : req.message[i].shape \in {"bytes", "uri"}}
             IN /\ Len(req.saved) + req.rejected = Cardinality(Files)
                /\ \A i \in DOMAIN req.kept : req.kept[i].shape \notin {"bytes", "uri"}
  <2> DEFINE q == peerReq[r]
  <2>1. Accounted(q) /\ q.step = "run"
    BY <1>1 DEF PeerInv
  <2> HIDE DEF q
  <2>2. Handled(q, Len(q.message)) /\ q.message \in Seq(MessagePart)
    BY <2>1 DEF Accounted, Typed
  <2>3. FilesUpTo(q.message, Len(q.message)) = {i \in DOMAIN q.message : q.message[i].shape \in {"bytes", "uri"}}
    BY <2>2 DEF FilesUpTo, FileShapes
  <2>4. \A i \in DOMAIN q.kept : q.kept[i].shape \notin {"bytes", "uri"}
    BY <2>1 DEF Accounted, FileShapes
  <2> QED
    BY <2>2, <2>3, <2>4 DEF Handled, q
<1> QED
  BY <1>1 DEF FilesAccounted, PeerInv

\* Whatever peers send and whenever the registry and the policy change: a peer
\* reads only its own tasks where authentication is required, every file is
\* stored or reported and none reaches the model directly, and a tool call is
\* forwarded only under the policy of that moment; for any peers, messages,
\* requests and servers.
THEOREM PeersGetTheirOwn == PeerSpec => [](TasksOwned /\ FilesAccounted) /\ ToolCallsPermitted
<1>1. PeerInv /\ [PeerNext]_peerVars => PeerInv' /\ [ForwardStep]_peerVars
  BY PeerStep
<1> QED
  BY <1>1, PeerStarts, PeerHolds, PTL DEF PeerSpec, ToolCallsPermitted
-----------------------------------------------------------------------------
(* Agents: the lists a delegate passes through on its way from a declaration *)
(* to the tree. What grows step by step within a set is a function.         *)
Iterations(T, N, base, step) ==
    {f \in [0 .. N -> T] : f[0] = base /\ \A n \in 1 .. N : f[n] = step[f[n - 1]][n]}
LEMMA Iterates ==
    ASSUME NEW T, NEW N \in Nat, NEW base \in T, NEW step,
           \A s \in T, n \in 1 .. N : step[s][n] \in T
    PROVE  Iterations(T, N, base, step) # {}
<1> DEFINE Runs(f, k) == f[0] = base /\ \A n \in 1 .. k : f[n] = step[f[n - 1]][n]
           S == {k \in 0 .. N : \E f \in [0 .. k -> T] : Runs(f, k)}
<1>1. 0 \in S
  <2> DEFINE f == [n \in 0 .. 0 |-> base]
  <2>1. f \in [0 .. 0 -> T] /\ Runs(f, 0)
    OBVIOUS
  <2>2. 0 \in 0 .. N
    OBVIOUS
  <2> HIDE DEF f, Runs
  <2> QED
    BY <2>1, <2>2
<1>2. ASSUME NEW k \in 1 .. N, k - 1 \in S PROVE k \in S
  <2>1. PICK f \in [0 .. k - 1 -> T] : Runs(f, k - 1)
    BY <1>2
  <2> DEFINE g == [n \in 0 .. k |-> IF n = k THEN step[f[k - 1]][k] ELSE f[n]]
  <2>2. step[f[k - 1]][k] \in T
    OBVIOUS
  <2>3. g \in [0 .. k -> T]
    BY <2>2
  <2>4. Runs(g, k)
    <3>1. g[0] = base
      BY <2>1
    <3>2. ASSUME NEW n \in 1 .. k PROVE g[n] = step[g[n - 1]][n]
      <4>1. n - 1 \in 0 .. k - 1 /\ g[n - 1] = f[n - 1]
        OBVIOUS
      <4>2. CASE n = k
        BY <4>1, <4>2
      <4>3. CASE n # k
        <5>1. n \in 1 .. k - 1 /\ g[n] = f[n]
          BY <4>3
        <5> QED
          BY <2>1, <4>1, <5>1
      <4> QED
        BY <4>2, <4>3
    <3> QED
      BY <3>1, <3>2
  <2> HIDE DEF g, Runs
  <2> QED
    BY <2>3, <2>4
<1>3. 0 .. N \subseteq S
  <2> HIDE DEF S
  <2> QED
    BY <1>1, <1>2, UpTo
<1>4. N \in S
  BY <1>3
<1> QED
  BY <1>4 DEF Iterations

(* What survives a filter was in the list and in the set.                   *)
LEMMA OnlyInBoth ==
    ASSUME NEW A, NEW list \in Seq(A), NEW S
    PROVE  OnlyIn(list, S) \in Seq(SetOf(list) \cap S)
<1> DEFINE N == Len(list)
           T == Seq(SetOf(list) \cap S)
           Next1(s, n) == IF list[n] \in S THEN Append(s, list[n]) ELSE s
           step == [s \in T |-> [n \in 1 .. N |-> Next1(s, n)]]
<1>1. N \in Nat /\ <<>> \in T
  OBVIOUS
<1>2. ASSUME NEW s \in T, NEW n \in 1 .. N PROVE Next1(s, n) \in T /\ step[s][n] = Next1(s, n)
  <2>1. list[n] \in SetOf(list)
    BY <1>2 DEF SetOf, ToSet
  <2>2. Next1(s, n) \in T
    BY <2>1
  <2> QED
    BY <2>2
<1>3. \A s \in T, n \in 1 .. N : step[s][n] \in T
  <2> HIDE DEF step, T, N, Next1
  <2> QED
    BY <1>2
<1>4. PICK f \in [0 .. N -> T] : f[0] = <<>> /\ \A n \in 1 .. N : f[n] = step[f[n - 1]][n]
  <2> HIDE DEF step, T, N
  <2>1. Iterations(T, N, <<>>, step) # {}
    BY <1>1, <1>3, Iterates
  <2> QED
    BY <2>1 DEF Iterations
<1>5. f = [n \in 0 .. N |-> IF n = 0 THEN <<>> ELSE Next1(f[n - 1], n)]
  <2>1. ASSUME NEW n \in 1 .. N PROVE f[n] = Next1(f[n - 1], n)
    <3>1. f[n - 1] \in T
      BY <1>1
    <3> QED
      BY <1>2, <1>4, <3>1
  <2> HIDE DEF Next1, N, T, step
  <2> QED
    BY <1>1, <1>4, <2>1
<1>6. PICK g : /\ g = CHOOSE h : h = [n \in 0 .. N |-> IF n = 0 THEN <<>> ELSE Next1(h[n - 1], n)]
               /\ OnlyIn(list, S) = g[N]
  BY Zenon DEF OnlyIn
<1> HIDE DEF Next1, N, T, step
<1>7. g = [n \in 0 .. N |-> IF n = 0 THEN <<>> ELSE Next1(g[n - 1], n)]
  BY <1>5, <1>6
<1> DEFINE Steady == {n \in 0 .. N : g[n] \in T}
<1>8. 0 \in Steady
  BY <1>1, <1>7
<1>9. ASSUME NEW n \in 1 .. N, n - 1 \in Steady PROVE n \in Steady
  <2>1. n \in 0 .. N /\ n # 0 /\ g[n - 1] \in T
    BY <1>1, <1>9
  <2>2. g[n] = Next1(g[n - 1], n)
    BY <1>7, <2>1
  <2>3. g[n] \in T
    BY <1>2, <2>1, <2>2
  <2> QED
    BY <2>1, <2>3
<1>10. 0 .. N \subseteq Steady
  <2> HIDE DEF Steady
  <2> QED
    BY <1>1, <1>8, <1>9, UpTo
<1>11. g[N] \in T
  BY <1>1, <1>10
<1> QED
  BY <1>6, <1>11, Zenon DEF T

(* The delegates of a reference list: what a reference names and the user   *)
(* may see.                                                                 *)
RefSkill(refs, parent, n) == ResolveDelegateSkill(refs[n], parent.owner)
Reached(refs, parent) ==
    {RefSkill(refs, parent, n) :
        n \in {k \in 1 .. Len(refs) : RefSkill(refs, parent, k) # None /\ CanAccess(RefSkill(refs, parent, k))}}

LEMMA DelegatesAreReached ==
    ASSUME NEW R, NEW refs \in Seq(R), NEW parent
    PROVE  ResolveAccessibleDelegates(refs, parent) \in Seq(Reached(refs, parent))
<1> DEFINE N == Len(refs)
           T == Seq(Reached(refs, parent))
           Sub(n) == ResolveDelegateSkill(refs[n], parent.owner)
           Next1(s, n) == IF \/ Sub(n) = None
                             \/ Sub(n).id \in {s[i].id : i \in DOMAIN s}
                             \/ ~CanAccess(Sub(n))
                          THEN s ELSE Append(s, Sub(n))
           step == [s \in T |-> [n \in 1 .. N |-> Next1(s, n)]]
<1>1. N \in Nat /\ <<>> \in T
  OBVIOUS
<1>2. ASSUME NEW s \in T, NEW n \in 1 .. N PROVE Next1(s, n) \in T /\ step[s][n] = Next1(s, n)
  <2>1. CASE Sub(n) # None /\ CanAccess(Sub(n))
    <3>1. Sub(n) \in Reached(refs, parent)
      BY <2>1 DEF Reached, RefSkill
    <3> HIDE DEF Sub
    <3>2. Append(s, Sub(n)) \in T
      BY <3>1
    <3> QED
      BY <3>2
  <2>2. CASE Sub(n) = None \/ ~CanAccess(Sub(n))
    BY <2>2
  <2> QED
    BY <2>1, <2>2
<1>3. \A s \in T, n \in 1 .. N : step[s][n] \in T
  <2> HIDE DEF step, T, N, Next1
  <2> QED
    BY <1>2
<1>4. PICK f \in [0 .. N -> T] : f[0] = <<>> /\ \A n \in 1 .. N : f[n] = step[f[n - 1]][n]
  <2> HIDE DEF step, T, N
  <2>1. Iterations(T, N, <<>>, step) # {}
    BY <1>1, <1>3, Iterates
  <2> QED
    BY <2>1 DEF Iterations
<1>5. f = [n \in 0 .. N |-> IF n = 0 THEN <<>> ELSE Next1(f[n - 1], n)]
  <2> HIDE DEF Next1, N, T, step
  <2>1. ASSUME NEW n \in 1 .. N PROVE f[n] = Next1(f[n - 1], n)
    <3>1. f[n - 1] \in T
      BY <1>1
    <3> QED
      BY <1>2, <1>4, <3>1
  <2> QED
    BY <1>1, <1>4, <2>1
<1>6. PICK g : /\ g = CHOOSE h : h = [n \in 0 .. N |-> IF n = 0 THEN <<>> ELSE Next1(h[n - 1], n)]
               /\ ResolveAccessibleDelegates(refs, parent) = g[N]
  BY Zenon DEF ResolveAccessibleDelegates
<1> HIDE DEF Next1, N, T, step
<1>7. g = [n \in 0 .. N |-> IF n = 0 THEN <<>> ELSE Next1(g[n - 1], n)]
  BY <1>5, <1>6
<1> DEFINE Steady == {n \in 0 .. N : g[n] \in T}
<1>8. 0 \in Steady
  BY <1>1, <1>7
<1>9. ASSUME NEW n \in 1 .. N, n - 1 \in Steady PROVE n \in Steady
  <2>1. n \in 0 .. N /\ n # 0 /\ g[n - 1] \in T
    BY <1>1, <1>9
  <2>2. g[n] = Next1(g[n - 1], n)
    BY <1>7, <2>1
  <2>3. g[n] \in T
    BY <1>2, <2>1, <2>2
  <2> QED
    BY <2>1, <2>3
<1>10. 0 .. N \subseteq Steady
  <2> HIDE DEF Steady
  <2> QED
    BY <1>1, <1>8, <1>9, UpTo
<1>11. g[N] \in T
  BY <1>1, <1>10
<1> QED
  BY <1>6, <1>11, Zenon DEF T

(* The rules of a delegation block are those of its entries, at the floor   *)
(* they declare, and of the legacy sub-skills, at the block's default.      *)
AllowRule(deleg, e) == IF e.floor = "block" THEN [e EXCEPT !.floor = DefaultFloor(deleg)] ELSE e
BareRule(deleg, ref) == [ref |-> ref, floor |-> DefaultFloor(deleg), fields |-> "none"]
Declared(deleg, extra) ==
    {AllowRule(deleg, deleg.allow[i]) : i \in DOMAIN deleg.allow}
        \cup {BareRule(deleg, extra[i]) : i \in DOMAIN extra}

LEMMA RulesAreDeclared ==
    ASSUME NEW deleg \in Delegation, NEW extra \in Seq(STRING)
    PROVE  DelegationRules(deleg, extra) \in Seq(Declared(deleg, extra))
<1> DEFINE Rule(e) == IF e.floor = "block" THEN [e EXCEPT !.floor = DefaultFloor(deleg)] ELSE e
           Bare(ref) == [ref |-> ref, floor |-> DefaultFloor(deleg), fields |-> "none"]
           first == [i \in DOMAIN deleg.allow |-> Rule(deleg.allow[i])]
           second == [i \in DOMAIN extra |-> Bare(extra[i])]
           entries == first \o second
           N == Len(entries)
           T == Seq(Declared(deleg, extra))
           Next1(s, n) == IF entries[n].ref \in {s[i].ref : i \in DOMAIN s}
                          THEN s ELSE Append(s, entries[n])
           step == [s \in T |-> [n \in 1 .. N |-> Next1(s, n)]]
<1>0. entries \in Seq(Declared(deleg, extra))
  <2>1. /\ DOMAIN deleg.allow = 1 .. Len(deleg.allow) /\ Len(deleg.allow) \in Nat
        /\ DOMAIN extra = 1 .. Len(extra) /\ Len(extra) \in Nat
    BY DEF Delegation
  <2>2. \A i \in DOMAIN deleg.allow : Rule(deleg.allow[i]) \in Declared(deleg, extra)
    BY DEF Declared, AllowRule
  <2>3. \A i \in DOMAIN extra : Bare(extra[i]) \in Declared(deleg, extra)
    BY DEF Declared, BareRule
  <2> HIDE DEF Rule, Bare
  <2>4. first \in Seq(Declared(deleg, extra))
    BY <2>1, <2>2
  <2>5. second \in Seq(Declared(deleg, extra))
    BY <2>1, <2>3
  <2> HIDE DEF first, second
  <2> QED
    BY <2>4, <2>5
<1> HIDE DEF entries
<1>1. N \in Nat /\ <<>> \in T
  BY <1>0
<1>2. ASSUME NEW s \in T, NEW n \in 1 .. N PROVE Next1(s, n) \in T /\ step[s][n] = Next1(s, n)
  <2>1. entries[n] \in Declared(deleg, extra)
    BY <1>0
  <2>2. Append(s, entries[n]) \in T
    BY <2>1
  <2> QED
    BY <2>2
<1>3. \A s \in T, n \in 1 .. N : step[s][n] \in T
  <2> HIDE DEF step, T, N, Next1
  <2> QED
    BY <1>2
<1>4. PICK f \in [0 .. N -> T] : f[0] = <<>> /\ \A n \in 1 .. N : f[n] = step[f[n - 1]][n]
  <2> HIDE DEF step, T, N
  <2>1. Iterations(T, N, <<>>, step) # {}
    BY <1>1, <1>3, Iterates
  <2> QED
    BY <2>1 DEF Iterations
<1>5. f = [n \in 0 .. N |-> IF n = 0 THEN <<>> ELSE Next1(f[n - 1], n)]
  <2> HIDE DEF Next1, N, T, step
  <2>1. ASSUME NEW n \in 1 .. N PROVE f[n] = Next1(f[n - 1], n)
    <3>1. f[n - 1] \in T
      BY <1>1
    <3> QED
      BY <1>2, <1>4, <3>1
  <2> QED
    BY <1>1, <1>4, <2>1
<1>6. PICK g : /\ g = CHOOSE h : h = [n \in 0 .. N |-> IF n = 0 THEN <<>> ELSE Next1(h[n - 1], n)]
               /\ DelegationRules(deleg, extra) = g[N]
  BY Zenon DEF DelegationRules, entries
<1> HIDE DEF Next1, N, T, step
<1>7. g = [n \in 0 .. N |-> IF n = 0 THEN <<>> ELSE Next1(g[n - 1], n)]
  BY <1>5, <1>6
<1> DEFINE Steady == {n \in 0 .. N : g[n] \in T}
<1>8. 0 \in Steady
  BY <1>1, <1>7
<1>9. ASSUME NEW n \in 1 .. N, n - 1 \in Steady PROVE n \in Steady
  <2>1. n \in 0 .. N /\ n # 0 /\ g[n - 1] \in T
    BY <1>1, <1>9
  <2>2. g[n] = Next1(g[n - 1], n)
    BY <1>7, <2>1
  <2>3. g[n] \in T
    BY <1>2, <2>1, <2>2
  <2> QED
    BY <2>1, <2>3
<1>10. 0 .. N \subseteq Steady
  <2> HIDE DEF Steady
  <2> QED
    BY <1>1, <1>8, <1>9, UpTo
<1>11. g[N] \in T
  BY <1>1, <1>10
<1> QED
  BY <1>6, <1>11, Zenon DEF T

(* The documents a factory works from, and what a reference finds there.    *)
Fit(skill) ==
    /\ DOMAIN skill = SkillFields /\ skill.root \in BOOLEAN
    /\ skill.delegation \in Delegation /\ skill.subSkills \in Seq(STRING)
RowsFine ==
    /\ DOMAIN skillRows = DOMAIN Variants
    /\ \A s \in DOMAIN Variants : Fit(skillRows[s]) /\ skillRows[s].id = s /\ skillRows[s].root = FALSE

LEMMA ReferenceFinds ==
    ASSUME RowsFine, NEW ref, NEW owner, ResolveDelegateSkill(ref, owner) # None
    PROVE  LET r == ResolveDelegateSkill(ref, owner)
           IN r.id \in DOMAIN skillRows /\ r = skillRows[r.id] /\ ref \in {r.id, r.slug}
<1> DEFINE named == {s \in DOMAIN skillRows : skillRows[s].owner = owner /\ skillRows[s].slug = ref}
<1>1. CASE ref \in DOMAIN skillRows
  BY <1>1 DEF ResolveDelegateSkill, RowsFine
<1>2. CASE ref \notin DOMAIN skillRows
  <2>1. named # {} /\ ResolveDelegateSkill(ref, owner) = skillRows[CHOOSE s \in named : TRUE]
    BY <1>2 DEF ResolveDelegateSkill
  <2>2. (CHOOSE s \in named : TRUE) \in named
    BY <2>1
  <2> QED
    BY <2>1, <2>2 DEF RowsFine
<1> QED
  BY <1>1, <1>2

JobRule(j) == [ref |-> j.id, floor |-> j.jobFloor, fields |-> "none"]
JobRules(owner) == {JobRule(j) : j \in FindJobs(owner)}

LEMMA JobsAreDiscovered ==
    ASSUME RowsFine, NEW skill, NEW rules
    PROVE  DiscoveredRules(skill, rules) \in Seq(JobRules(skill.owner))
<1> DEFINE jobs == {j \in FindJobs(skill.owner) :
                       j.id # skill.id /\ j.id \notin {rules[i].ref : i \in DOMAIN rules}}
           order == SetToSeq(jobs)
           keys == {s \in DOMAIN skillRows : skillRows[s] \in jobs}
           at == [s \in keys |-> skillRows[s]]
<1>1. IsFiniteSet(keys)
  BY FactoryAssumption, FS_Subset DEF RowsFine
<1>2. \A j \in jobs : \E s \in keys : at[s] = j
  BY DEF FindJobs
<1>3. at \in Surjection(keys, jobs)
  <2>1. at \in [keys -> jobs]
    OBVIOUS
  <2> HIDE DEF at, keys, jobs
  <2> QED
    BY <1>2, <2>1 DEF Surjection
<1>4. IsFiniteSet(jobs)
  <2> HIDE DEF at, keys, jobs
  <2> QED
    BY <1>1, <1>3, FS_Surjection
<1>5. Cardinality(jobs) \in Nat /\ \E f \in [1 .. Cardinality(jobs) -> jobs] : IsInjective(f)
  <2> HIDE DEF jobs
  <2>1. Cardinality(jobs) \in Nat /\ ExistsBijection(1 .. Cardinality(jobs), jobs)
    BY <1>4, FS_CardinalityType
  <2> QED
    BY <2>1 DEF ExistsBijection, Bijection, Injection, IsInjective
<1>6. order \in [1 .. Cardinality(jobs) -> jobs]
  <2> HIDE DEF jobs
  <2> QED
    BY <1>5 DEF SetToSeq
<1>7. DOMAIN order = 1 .. Cardinality(jobs) /\ \A i \in DOMAIN order : order[i] \in FindJobs(skill.owner)
  BY <1>6
<1>8. DiscoveredRules(skill, rules) = [i \in DOMAIN order |-> JobRule(order[i])]
  BY Zenon DEF DiscoveredRules, JobRule
<1> HIDE DEF order
<1>9. \A i \in DOMAIN order : JobRule(order[i]) \in JobRules(skill.owner)
  BY <1>7 DEF JobRules
<1> HIDE DEF jobs
<1> QED
  BY <1>5, <1>7, <1>8, <1>9

(* A delegate that is reached may be seen and has a rule that names it.     *)
Extra(skill) == IF skill.delegation.allow = <<>> THEN skill.subSkills ELSE <<>>
RulesOf(skill) ==
    Declared(skill.delegation, Extra(skill))
        \cup (IF skill.delegation.discoverJobs THEN JobRules(skill.owner) ELSE {})
Reaches(skill, r) ==
    /\ r.skill.id \in DOMAIN skillRows /\ r.skill = skillRows[r.skill.id] /\ CanAccess(r.skill)
    /\ r.rule \in RulesOf(skill) /\ r.rule.ref \in {r.skill.id, r.skill.slug}
    /\ r.skill = ResolveDelegateSkill(r.rule.ref, skill.owner)

LEMMA RulesReach ==
    ASSUME RowsFine, NEW skill, Fit(skill)
    PROVE  LET rules == AccessibleDelegateRules(skill)
           IN  /\ DOMAIN rules = 1 .. Len(rules) /\ Len(rules) \in Nat
               /\ \A i \in DOMAIN rules : Reaches(skill, rules[i])
               /\ ~skill.delegation.enabled /\ skill.subSkills = <<>> => rules = <<>>
<1> DEFINE deleg == skill.delegation
           listed == DelegationRules(deleg, IF deleg.allow = <<>> THEN skill.subSkills ELSE <<>>)
           rules == IF deleg.enabled /\ deleg.discoverJobs
                    THEN listed \o DiscoveredRules(skill, listed) ELSE listed
           refs == [i \in DOMAIN rules |-> rules[i].ref]
           subs == ResolveAccessibleDelegates(refs, skill)
           Of(id) == {i \in DOMAIN rules :
                         LET r == ResolveDelegateSkill(rules[i].ref, skill.owner)
                         IN r # None /\ r.id = id}
           Final(id) == rules[CHOOSE i \in Of(id) : \A j \in Of(id) : j <= i]
           all == [i \in DOMAIN subs |-> [skill |-> subs[i], rule |-> Final(subs[i].id)]]
<1>1. AccessibleDelegateRules(skill) =
          IF ~deleg.enabled /\ skill.subSkills = <<>> THEN <<>> ELSE all
  BY Zenon DEF AccessibleDelegateRules
<1>2. rules \in Seq(RulesOf(skill))
  <2>1. listed \in Seq(Declared(deleg, Extra(skill)))
    <3>1. deleg \in Delegation /\ Extra(skill) \in Seq(STRING)
      <4>1. <<>> \in Seq(STRING)
        OBVIOUS
      <4> QED
        BY <4>1, Zenon DEF Fit, Extra
    <3>2. listed = DelegationRules(deleg, Extra(skill))
      BY DEF Extra
    <3> HIDE DEF deleg
    <3> QED
      BY <3>1, <3>2, RulesAreDeclared
  <2> HIDE DEF listed
  <2>2. DiscoveredRules(skill, listed) \in Seq(JobRules(skill.owner))
    BY JobsAreDiscovered
  <2>3. CASE deleg.enabled /\ deleg.discoverJobs
    <3>1. listed \in Seq(RulesOf(skill)) /\ DiscoveredRules(skill, listed) \in Seq(RulesOf(skill))
      BY <2>1, <2>2, <2>3 DEF RulesOf
    <3> QED
      BY <2>3, <3>1
  <2>4. CASE ~(deleg.enabled /\ deleg.discoverJobs)
    BY <2>1, <2>4 DEF RulesOf
  <2> QED
    BY <2>3, <2>4
<1> HIDE DEF rules
<1>3. DOMAIN rules = 1 .. Len(rules) /\ Len(rules) \in Nat /\ refs \in Seq({rules[i].ref : i \in DOMAIN rules})
  BY <1>2
<1>4. Len(refs) = Len(rules) /\ \A n \in 1 .. Len(rules) : refs[n] = rules[n].ref
  BY <1>3
<1>5. subs \in Seq(Reached(refs, skill))
  <2> HIDE DEF refs
  <2> QED
    BY <1>3, DelegatesAreReached
<1>6. DOMAIN subs = 1 .. Len(subs) /\ Len(subs) \in Nat
  BY <1>5
<1>7. ASSUME NEW i \in DOMAIN subs PROVE Reaches(skill, all[i])
  <2>1. subs[i] \in Reached(refs, skill)
    BY <1>5, <1>6
  <2>2. PICK n \in 1 .. Len(rules) : /\ subs[i] = ResolveDelegateSkill(rules[n].ref, skill.owner)
                                     /\ subs[i] # None /\ CanAccess(subs[i])
    <3> HIDE DEF refs, subs
    <3> QED
      BY <1>4, <2>1 DEF Reached, RefSkill
  <2> DEFINE id == subs[i].id
             K == Of(id)
  <2>3. K \in SUBSET Nat /\ n \in K /\ \A k \in K : k <= Len(rules)
    <3> HIDE DEF subs, id
    <3>1. subs[i].id = id
      BY DEF id
    <3> QED
      BY <1>3, <2>2, <3>1
  <2>4. \E k \in K : \A j \in K : j <= k
    <3> HIDE DEF K
    <3> QED
      BY <1>3, <2>3, NatGreatest
  <2>5. PICK k \in K : rules[k] = Final(id)
    <3>1. (CHOOSE k \in K : \A j \in K : j <= k) \in K
      <4> HIDE DEF K
      <4> QED
        BY <2>4
    <3>2. Final(id) = rules[CHOOSE k \in K : \A j \in K : j <= k]
      OBVIOUS
    <3> HIDE DEF K, Final
    <3> QED
      BY <3>1, <3>2
  <2>6. /\ k \in 1 .. Len(rules) /\ ResolveDelegateSkill(rules[k].ref, skill.owner) # None
        /\ ResolveDelegateSkill(rules[k].ref, skill.owner).id = subs[i].id
    <3> HIDE DEF subs
    <3> QED
      BY <1>3
  <2>7. subs[i].id \in DOMAIN skillRows /\ subs[i] = skillRows[subs[i].id]
    <3> HIDE DEF subs
    <3> QED
      BY <2>2, ReferenceFinds
  <2>8. rules[k].ref \in {subs[i].id, subs[i].slug}
        /\ subs[i] = ResolveDelegateSkill(rules[k].ref, skill.owner)
    <3> HIDE DEF subs
    <3> QED
      BY <2>6, <2>7, ReferenceFinds
  <2>9. rules[k] \in RulesOf(skill)
    BY <1>2, <2>6
  <2>10. all[i] = [skill |-> subs[i], rule |-> rules[k]]
    BY <2>5
  <2> HIDE DEF all, subs, K
  <2> QED
    BY <2>2, <2>7, <2>8, <2>9, <2>10 DEF Reaches
<1>8. DOMAIN all = 1 .. Len(all) /\ Len(all) \in Nat
  <2> HIDE DEF subs, Final
  <2> QED
    BY <1>6
<1>9. CASE ~deleg.enabled /\ skill.subSkills = <<>>
  <2>1. AccessibleDelegateRules(skill) = <<>>
    BY <1>1, <1>9
  <2> QED
    BY <2>1
<1>10. CASE ~(~deleg.enabled /\ skill.subSkills = <<>>)
  <2>1. AccessibleDelegateRules(skill) = all
    BY <1>1, <1>10
  <2>2. DOMAIN all = DOMAIN subs
    OBVIOUS
  <2> HIDE DEF all, subs
  <2> QED
    BY <1>7, <1>8, <1>10, <2>1, <2>2
<1> QED
  BY <1>9, <1>10

(* A wired delegate is a stub or, at the floor auto, the agent that was     *)
(* made of its skill; under the Root Agent it is bound there.               *)
WiredAs(skill, seen, made, r, s) ==
    LET child == made[[id |-> r.skill.id, underRoot |-> skill.root, seen |-> seen]]
    IN  /\ skill.root => r.skill.id \in SetOf(AuthorizedRootConfig.specialists)
        /\ \/ /\ r.rule.floor # "auto"
              /\ s = [error |-> None, kind |-> "stub", id |-> DelegateSkill(skill.root, r.skill).id,
                      rule |-> r.rule]
           \/ r.rule.floor = "auto" /\ child.error = None /\ s = [child EXCEPT !.rule = r.rule]
Linked(skill, seen, made, acc) ==
    /\ DOMAIN acc = {"error", "taken", "subs"}
    /\ \A name \in DOMAIN acc.subs :
           \E r : Reaches(skill, r) /\ WiredAs(skill, seen, made, r, acc.subs[name])

LEMMA WireKeeps ==
    ASSUME NEW skill, NEW seen, NEW made, NEW acc, Linked(skill, seen, made, acc), NEW r,
           Reaches(skill, r), skill.root => r.skill.id \in SetOf(AuthorizedRootConfig.specialists),
           NEW name
    PROVE  Linked(skill, seen, made,
                  WireDelegate(acc, DelegateSkill(skill.root, r.skill), r.rule, name,
                               made[[id |-> r.skill.id, underRoot |-> skill.root, seen |-> seen]]))
<1> DEFINE child == made[[id |-> r.skill.id, underRoot |-> skill.root, seen |-> seen]]
           sub == DelegateSkill(skill.root, r.skill)
           new == WireDelegate(acc, sub, r.rule, name, child)
<1> DEFINE More(s) == [acc EXCEPT !.taken = @ \cup {name}, !.subs = With(@, name, s)]
<1>1. ASSUME NEW s, WiredAs(skill, seen, made, r, s) PROVE Linked(skill, seen, made, More(s))
  <2> DEFINE acc2 == More(s)
  <2>1. DOMAIN acc2 = {"error", "taken", "subs"} /\ acc2.subs = With(acc.subs, name, s)
    BY DEF Linked
  <2> HIDE DEF acc2
  <2>2. DOMAIN acc2.subs = DOMAIN acc.subs \cup {name}
        /\ \A n \in DOMAIN acc2.subs : acc2.subs[n] = IF n = name THEN s ELSE acc.subs[n]
    BY <2>1 DEF With
  <2>3. ASSUME NEW n \in DOMAIN acc2.subs
        PROVE  \E q : Reaches(skill, q) /\ WiredAs(skill, seen, made, q, acc2.subs[n])
    <3>1. CASE n = name
      BY <1>1, <2>2, <3>1
    <3>2. CASE n # name
      <4>1. n \in DOMAIN acc.subs /\ acc2.subs[n] = acc.subs[n]
        BY <2>2, <3>2
      <4> QED
        BY <4>1 DEF Linked
    <3> QED
      BY <3>1, <3>2
  <2>4. Linked(skill, seen, made, acc2)
    BY <2>1, <2>3 DEF Linked
  <2> QED
    BY <2>4 DEF acc2
<1>2. CASE acc.error # None
  BY <1>2 DEF WireDelegate
<1>3. CASE acc.error = None /\ r.rule.floor # "auto"
  <2> DEFINE s == [error |-> None, kind |-> "stub", id |-> sub.id, rule |-> r.rule]
  <2>1. WiredAs(skill, seen, made, r, s)
    BY <1>3 DEF WiredAs
  <2>2. new = More(s)
    BY <1>3 DEF WireDelegate
  <2> HIDE DEF s, new, More
  <2>3. Linked(skill, seen, made, new)
    BY <1>1, <2>1, <2>2
  <2> QED
    BY <2>3 DEF new
<1>4. CASE acc.error = None /\ r.rule.floor = "auto" /\ child.error = None
  <2> DEFINE s == [child EXCEPT !.rule = r.rule]
  <2>1. WiredAs(skill, seen, made, r, s)
    BY <1>4 DEF WiredAs
  <2>2. new = More(s)
    <3>1. child.error # "ValueError"
      BY <1>4, FactoryAssumption
    <3> HIDE DEF child, sub
    <3> QED
      BY <1>4, <3>1 DEF WireDelegate
  <2> HIDE DEF s, new, More
  <2>3. Linked(skill, seen, made, new)
    BY <1>1, <2>1, <2>2
  <2> QED
    BY <2>3 DEF new
<1>5. CASE acc.error = None /\ r.rule.floor = "auto" /\ child.error # None
  <2>1. PICK e, t : new = [acc EXCEPT !.error = e] \/ new = [acc EXCEPT !.taken = t]
    <3> HIDE DEF child, sub
    <3>1. CASE child.error = "ValueError"
      <4>1. new = [acc EXCEPT !.error = "ValueError"]
        BY <1>5, <3>1 DEF WireDelegate
      <4> QED
        BY <4>1
    <3>2. CASE child.error # "ValueError"
      <4>1. new = [acc EXCEPT !.taken = @ \cup {name}]
        BY <1>5, <3>2 DEF WireDelegate
      <4> QED
        BY <4>1
    <3> QED
      BY <3>1, <3>2
  <2> HIDE DEF new
  <2>2. DOMAIN new = {"error", "taken", "subs"} /\ new.subs = acc.subs
    BY <2>1 DEF Linked
  <2>3. Linked(skill, seen, made, new)
    BY <2>2 DEF Linked
  <2> QED
    BY <2>3 DEF new
<1> QED
  BY <1>2, <1>3, <1>4, <1>5

LEMMA DelegatesAreWired ==
    ASSUME RowsFine, NEW skill, Fit(skill), NEW seen, NEW made
    PROVE  /\ Linked(skill, seen, made, Delegates(skill, seen, made))
           /\ ~skill.delegation.enabled /\ skill.subSkills = <<>> =>
                  DOMAIN Delegates(skill, seen, made).subs = {}
<1> DEFINE rules == IF Cardinality(seen) - 1 < skill.delegation.maxDepth
                    THEN AccessibleDelegateRules(skill) ELSE <<>>
           N == Len(rules)
           Wire(acc, sub, r) ==
               WireDelegate(acc, sub, r.rule, DelegateAgentName(sub, acc.taken),
                            made[[id |-> r.skill.id, underRoot |-> skill.root, seen |-> seen]])
           base == [error |-> None, taken |-> {}, subs |-> <<>>]
           Next1(acc, n) == IF skill.root /\ rules[n].skill.id \notin SetOf(AuthorizedRootConfig.specialists)
                            THEN acc ELSE Wire(acc, DelegateSkill(skill.root, rules[n].skill), rules[n])
           step(f, n) == IF n = 0 THEN base ELSE Next1(f[n - 1], n)
           S == {k \in 0 .. N : \E f : f = [n \in 0 .. k |-> step(f, n)]}
           Fine(acc) == Linked(skill, seen, made, acc)
<1>0. /\ N \in Nat /\ DOMAIN rules = 1 .. N /\ \A i \in DOMAIN rules : Reaches(skill, rules[i])
      /\ ~skill.delegation.enabled /\ skill.subSkills = <<>> => rules = <<>>
  <2>1. CASE Cardinality(seen) - 1 < skill.delegation.maxDepth
    <3>1. rules = AccessibleDelegateRules(skill)
      BY <2>1
    <3> HIDE DEF rules
    <3> QED
      BY <3>1, RulesReach
  <2>2. CASE ~(Cardinality(seen) - 1 < skill.delegation.maxDepth)
    <3>1. rules = <<>>
      BY <2>2
    <3> HIDE DEF rules
    <3> QED
      BY <3>1
  <2> QED
    BY <2>1, <2>2
<1>1. PICK g : /\ g = CHOOSE f : f = [n \in 0 .. N |-> step(f, n)]
               /\ Delegates(skill, seen, made) = g[N]
  BY Zenon DEF Delegates, WireDelegates
<1>2. ASSUME NEW acc, Fine(acc), NEW n \in 1 .. N PROVE Fine(Next1(acc, n))
  <2> HIDE DEF rules
  <2>1. Reaches(skill, rules[n])
    BY <1>0
  <2>2. CASE skill.root /\ rules[n].skill.id \notin SetOf(AuthorizedRootConfig.specialists)
    BY <1>2, <2>2
  <2>3. CASE ~(skill.root /\ rules[n].skill.id \notin SetOf(AuthorizedRootConfig.specialists))
    <3>1. Next1(acc, n) = Wire(acc, DelegateSkill(skill.root, rules[n].skill), rules[n])
      BY <2>3
    <3>2. Linked(skill, seen, made, Wire(acc, DelegateSkill(skill.root, rules[n].skill), rules[n]))
      BY <1>2, <2>1, <2>3, WireKeeps
    <3> QED
      BY <3>1, <3>2
  <2> QED
    BY <2>2, <2>3
<1>3. Fine(base) /\ DOMAIN base.subs = {}
  BY DEF Linked
<1> HIDE DEF Next1, base, rules, N
<1>4. 0 \in S
  <2> DEFINE f == [n \in 0 .. 0 |-> base]
  <2>1. \A n \in 0 .. 0 : step(f, n) = base
    OBVIOUS
  <2>2. f = [n \in 0 .. 0 |-> step(f, n)]
    BY <2>1
  <2> HIDE DEF f
  <2> QED
    BY <1>0, <2>2
<1>5. ASSUME NEW k \in 1 .. N, k - 1 \in S PROVE k \in S
  <2>1. PICK f : f = [n \in 0 .. k - 1 |-> step(f, n)]
    BY <1>5
  <2> DEFINE h == [n \in 0 .. k |-> IF n = k THEN Next1(f[k - 1], k) ELSE f[n]]
  <2>2. \A n \in 0 .. k : h[n] = step(h, n)
    <3> SUFFICES ASSUME NEW n \in 0 .. k PROVE h[n] = step(h, n)
      OBVIOUS
    <3>1. CASE n = k
      <4>1. h[n - 1] = f[k - 1]
        BY <1>0, <3>1
      <4> QED
        BY <1>0, <3>1, <4>1
    <3>2. CASE n # k
      <4>1. n \in 0 .. k - 1 /\ h[n] = f[n]
        BY <1>0, <3>2
      <4>2. n # 0 => h[n - 1] = f[n - 1]
        BY <1>0, <3>2
      <4>3. f[n] = step(f, n)
        BY <2>1, <4>1
      <4> QED
        BY <4>1, <4>2, <4>3
    <3> QED
      BY <3>1, <3>2
  <2>3. h = [n \in 0 .. k |-> step(h, n)]
    BY <2>2
  <2> HIDE DEF h
  <2> QED
    BY <2>3
<1>6. 0 .. N \subseteq S
  <2> HIDE DEF S
  <2> QED
    BY <1>0, <1>4, <1>5, UpTo
<1>7. g = [n \in 0 .. N |-> step(g, n)]
  <2>1. \E f : f = [n \in 0 .. N |-> step(f, n)]
    BY <1>0, <1>6
  <2> QED
    BY <1>1, <2>1
<1> DEFINE Steady == {n \in 0 .. N : Fine(g[n])}
<1>8. 0 \in Steady /\ g[0] = base
  BY <1>0, <1>3, <1>7
<1>9. ASSUME NEW n \in 1 .. N, n - 1 \in Steady PROVE n \in Steady
  <2>1. n \in 0 .. N /\ n # 0 /\ Fine(g[n - 1])
    BY <1>0, <1>9
  <2>2. g[n] = Next1(g[n - 1], n)
    BY <1>7, <2>1
  <2>3. Fine(g[n])
    BY <1>2, <2>1, <2>2
  <2> QED
    BY <2>1, <2>3
<1>10. 0 .. N \subseteq Steady
  <2> HIDE DEF Steady
  <2> QED
    BY <1>0, <1>8, <1>9, UpTo
<1>11. Fine(Delegates(skill, seen, made))
  BY <1>0, <1>1, <1>10
<1>12. ASSUME ~skill.delegation.enabled, skill.subSkills = <<>>
       PROVE  DOMAIN Delegates(skill, seen, made).subs = {}
  <2>1. N = 0
    BY <1>0, <1>12 DEF N
  <2> QED
    BY <1>1, <1>3, <1>8, <2>1
<1> QED
  BY <1>11, <1>12

(* What the factory makes of a skill, and of each stored one behind a stack *)
(* of callers.                                                              *)
MadeOf(a, skill, model, seen, made) ==
    /\ a.error = None /\ a.kind = "agent" /\ a.id = skill.id /\ a.root = skill.root
    /\ a.tools = AgentTools(skill, model).tools
    /\ a.subs = Delegates(skill, seen \cup {skill.id}, made).subs
    /\ DOMAIN a = {"error", "kind", "id", "root", "model", "tools", "planner", "subs", "rule"}

LEMMA CreatedIsMade ==
    ASSUME NEW skill, NEW model, NEW seen, NEW made, Created(skill, model, seen, made).error = None
    PROVE  MadeOf(Created(skill, model, seen, made), skill, model, seen, made)
<1> DEFINE tools == AgentTools(skill, model)
           delegates == Delegates(skill, seen \cup {skill.id}, made)
           a == Assembled(skill, model, seen, tools, delegates)
<1>1. Created(skill, model, seen, made) = a
  BY Zenon DEF Created
<1> HIDE DEF tools, delegates
<1>2. a = [error |-> None, kind |-> "agent", id |-> skill.id, root |-> skill.root,
           model |-> model, tools |-> tools.tools, planner |-> PlannerFor(skill),
           subs |-> delegates.subs, rule |-> None]
  <2>1. skill.id \notin seen
    BY <1>1, FactoryAssumption DEF Assembled, Failed
  <2>2. tools.error = None
    BY <1>1, <2>1 DEF Assembled, Failed
  <2>3. delegates.error = None
    BY <1>1, <2>1, <2>2 DEF Assembled, Failed
  <2>4. BudgetError(skill) = None
    BY <1>1, <2>1, <2>2, <2>3, FactoryAssumption DEF Assembled, Failed
  <2> QED
    BY <2>1, <2>2, <2>3, <2>4 DEF Assembled
<1> HIDE DEF a
<1> QED
  BY <1>1, <1>2 DEF MadeOf, tools, delegates

StackStep(f, n) ==
    [x \in Stacked |->
        LET sub == DelegateSkill(x.underRoot, skillRows[x.id])
        IN IF n = 0 THEN Failed(sub.id, "ValueError")
           ELSE Created(sub, sub.model, x.seen, f[n - 1])]

LEMMA AgentsStack ==
    ASSUME RowsFine
    PROVE  /\ Cardinality(FactoryIds) \in Nat
           /\ StackedAgents = [n \in 0 .. Cardinality(FactoryIds) |-> StackStep(StackedAgents, n)]
<1> DEFINE N == Cardinality(FactoryIds)
           S == {k \in 0 .. N : \E f : f = [n \in 0 .. k |-> StackStep(f, n)]}
<1>0. N \in Nat
  <2>1. IsFiniteSet(FactoryIds)
    BY FactoryAssumption, FS_AddElement DEF RowsFine, FactoryIds
  <2> QED
    BY <2>1, FS_CardinalityType
<1>1. StackedAgents = CHOOSE f : f = [n \in 0 .. N |-> StackStep(f, n)]
  BY Zenon DEF StackedAgents, StackStep
<1> HIDE DEF N
<1>2. \A f, h, n : (n # 0 => f[n - 1] = h[n - 1]) => StackStep(f, n) = StackStep(h, n)
  <2> SUFFICES ASSUME NEW f, NEW h, NEW n, n # 0 => f[n - 1] = h[n - 1]
               PROVE  StackStep(f, n) = StackStep(h, n)
    OBVIOUS
  <2>1. CASE n = 0
    BY <2>1 DEF StackStep
  <2>2. CASE n # 0
    <3> DEFINE fp == f[n - 1]
               hp == h[n - 1]
    <3>1. fp = hp
      BY <2>2
    <3>2. StackStep(f, n) = [x \in Stacked |->
              Created(DelegateSkill(x.underRoot, skillRows[x.id]),
                      DelegateSkill(x.underRoot, skillRows[x.id]).model, x.seen, fp)]
      BY <2>2 DEF StackStep
    <3>3. StackStep(h, n) = [x \in Stacked |->
              Created(DelegateSkill(x.underRoot, skillRows[x.id]),
                      DelegateSkill(x.underRoot, skillRows[x.id]).model, x.seen, hp)]
      BY <2>2 DEF StackStep
    <3> HIDE DEF fp, hp
    <3> QED
      BY <3>1, <3>2, <3>3
  <2> QED
    BY <2>1, <2>2
<1>3. 0 \in S
  <2> DEFINE f == [n \in 0 .. 0 |-> StackStep(<<>>, 0)]
  <2>1. ASSUME NEW n \in 0 .. 0 PROVE f[n] = StackStep(f, n)
    <3>1. n = 0
      OBVIOUS
    <3> HIDE DEF f
    <3>2. StackStep(f, 0) = StackStep(<<>>, 0)
      BY <1>2
    <3> QED
      BY <3>1, <3>2 DEF f
  <2>2. f = [n \in 0 .. 0 |-> StackStep(f, n)]
    <3> DEFINE h == [n \in 0 .. 0 |-> StackStep(f, n)]
    <3>1. DOMAIN f = 0 .. 0 /\ f = [n \in 0 .. 0 |-> f[n]]
      OBVIOUS
    <3> HIDE DEF f
    <3> QED
      BY <2>1, <3>1
  <2> HIDE DEF f
  <2> QED
    BY <1>0, <2>2
<1>4. ASSUME NEW k \in 1 .. N, k - 1 \in S PROVE k \in S
  <2>1. PICK f : f = [n \in 0 .. k - 1 |-> StackStep(f, n)]
    BY <1>4
  <2> DEFINE h == [n \in 0 .. k |-> IF n = k THEN StackStep(f, k) ELSE f[n]]
  <2>2. \A n \in 0 .. k : h[n] = StackStep(h, n)
    <3> SUFFICES ASSUME NEW n \in 0 .. k PROVE h[n] = StackStep(h, n)
      OBVIOUS
    <3>1. CASE n = k
      <4>1. h[n - 1] = f[n - 1] /\ h[n] = StackStep(f, n)
        BY <1>0, <3>1
      <4> HIDE DEF h
      <4> QED
        BY <1>2, <4>1
    <3>2. CASE n # k
      <4>1. n \in 0 .. k - 1 /\ h[n] = f[n]
        BY <1>0, <3>2
      <4>2. n # 0 => h[n - 1] = f[n - 1]
        BY <1>0, <3>2
      <4>3. f[n] = StackStep(f, n)
        BY <2>1, <4>1
      <4> HIDE DEF h
      <4> QED
        BY <1>2, <4>1, <4>2, <4>3
    <3> QED
      BY <3>1, <3>2
  <2>3. h = [n \in 0 .. k |-> StackStep(h, n)]
    <3>1. h = [n \in 0 .. k |-> h[n]]
      OBVIOUS
    <3> HIDE DEF h
    <3> QED
      BY <2>2, <3>1
  <2> HIDE DEF h
  <2> QED
    BY <2>3
<1>5. 0 .. N \subseteq S
  <2> HIDE DEF S
  <2> QED
    BY <1>0, <1>3, <1>4, UpTo
<1>6. StackedAgents = [n \in 0 .. N |-> StackStep(StackedAgents, n)]
  <2>1. \E f : f = [n \in 0 .. N |-> StackStep(f, n)]
    BY <1>0, <1>5
  <2> QED
    BY <1>1, <2>1
<1> QED
  BY <1>0, <1>6 DEF N

LEMMA StackedIsMade ==
    ASSUME RowsFine, NEW n \in 0 .. Cardinality(FactoryIds), NEW x \in Stacked,
           StackedAgents[n][x].error = None
    PROVE  LET sub == DelegateSkill(x.underRoot, skillRows[x.id])
           IN  /\ n - 1 \in 0 .. Cardinality(FactoryIds)
               /\ MadeOf(StackedAgents[n][x], sub, sub.model, x.seen, StackedAgents[n - 1])
<1> DEFINE sub == DelegateSkill(x.underRoot, skillRows[x.id])
<1>1. Cardinality(FactoryIds) \in Nat
      /\ StackedAgents = [m \in 0 .. Cardinality(FactoryIds) |-> StackStep(StackedAgents, m)]
  BY AgentsStack
<1>2. StackedAgents[n] = StackStep(StackedAgents, n)
  BY <1>1
<1>3. StackedAgents[n][x] = IF n = 0 THEN Failed(sub.id, "ValueError")
                            ELSE Created(sub, sub.model, x.seen, StackedAgents[n - 1])
  <2> DEFINE at == StackStep(StackedAgents, n)[x]
  <2>1. at = IF n = 0 THEN Failed(sub.id, "ValueError")
             ELSE Created(sub, sub.model, x.seen, StackedAgents[n - 1])
    BY Zenon DEF StackStep
  <2> QED
    BY <1>2, <2>1
<1>4. n # 0
  BY <1>3, FactoryAssumption DEF Failed
<1>5. n - 1 \in 0 .. Cardinality(FactoryIds)
  BY <1>1, <1>4
<1> HIDE DEF sub
<1>6. MadeOf(StackedAgents[n][x], sub, sub.model, x.seen, StackedAgents[n - 1])
  BY <1>3, <1>4, CreatedIsMade
<1> QED
  BY <1>5, <1>6 DEF sub

(* Skills composed under the Root policy.                                   *)
LEMMA PolicyIsCut ==
    ASSUME rootDoc \in Policies
    PROVE  LET policy == AuthorizedRootConfig
           IN  /\ DOMAIN policy = RootFields /\ policy.specialists \in Seq(STRING)
               /\ policy.tools = rootDoc.tools /\ policy.mcp \subseteq rootDoc.mcp
               /\ SetOf(policy.specialists) \subseteq SetOf(rootDoc.specialists)
               /\ policy.skills \subseteq DOMAIN skillRows
<1> DEFINE skills == {s \in rootDoc.skills : s \in DOMAIN skillRows /\ CanAccess(skillRows[s])}
           mcp == {s \in rootDoc.mcp : mcpRows[s] # None /\ mcpRows[s].enabled}
           specialists == OnlyIn(rootDoc.specialists, skills)
           policy == AuthorizedRootConfig
<1>1. policy = [rootDoc EXCEPT !.skills = skills, !.mcp = mcp, !.specialists = specialists]
  BY DEF AuthorizedRootConfig
<1>2. DOMAIN rootDoc = RootFields /\ rootDoc.specialists \in Seq(STRING)
  BY FactoryAssumption
<1>3. specialists \in Seq(SetOf(rootDoc.specialists) \cap skills)
  <2> HIDE DEF skills
  <2> QED
    BY <1>2, OnlyInBoth
<1>4. specialists \in Seq(STRING) /\ SetOf(specialists) \subseteq SetOf(rootDoc.specialists)
  <2> HIDE DEF skills, specialists
  <2>1. SetOf(rootDoc.specialists) \subseteq STRING
    BY <1>2 DEF SetOf, ToSet
  <2>2. specialists \in Seq(STRING)
    BY <1>3, <2>1
  <2>3. SetOf(specialists) \subseteq SetOf(rootDoc.specialists) \cap skills
    BY <1>3 DEF SetOf, ToSet
  <2> QED
    BY <2>2, <2>3
<1>5. mcp \subseteq rootDoc.mcp /\ skills \subseteq DOMAIN skillRows
  OBVIOUS
<1> HIDE DEF skills, mcp, specialists, policy
<1>6. /\ DOMAIN policy = RootFields /\ policy.skills = skills /\ policy.mcp = mcp
      /\ policy.specialists = specialists /\ policy.tools = rootDoc.tools
  BY <1>1, <1>2 DEF RootFields
<1>7. /\ DOMAIN policy = RootFields /\ policy.specialists \in Seq(STRING)
      /\ policy.tools = rootDoc.tools /\ policy.mcp \subseteq rootDoc.mcp
      /\ SetOf(policy.specialists) \subseteq SetOf(rootDoc.specialists)
      /\ policy.skills \subseteq DOMAIN skillRows
  BY <1>4, <1>5, <1>6
<1> QED
  BY <1>7 DEF policy

ComposedOf(c, skill, policy) ==
    /\ Fit(c) /\ c.root = TRUE /\ c.id = skill.id /\ c.tools = policy.tools
    /\ c.mcp = policy.mcp /\ c.thinkingModel = None /\ c.subSkills = <<>>
    /\ c.delegation.enabled = (policy.specialists # <<>>)
    /\ c.delegation.discoverJobs = FALSE /\ c.delegation.mode = "auto"
    /\ \A i \in DOMAIN c.delegation.allow : c.delegation.allow[i].floor = "block"

LEMMA ComposedIsFit ==
    ASSUME NEW skill, DOMAIN skill = SkillFields, NEW policy, policy.specialists \in Seq(STRING)
    PROVE  ComposedOf(ComposeRootSkill(skill, policy), skill, policy)
<1> DEFINE Bound(ref) == [ref |-> ref, floor |-> "block", fields |-> "none"]
           allow == [i \in DOMAIN policy.specialists |-> Bound(policy.specialists[i])]
           deleg == [enabled |-> policy.specialists # <<>>, mode |-> "auto", allow |-> allow,
                     maxDepth |-> 1, discoverJobs |-> FALSE]
           model == IF policy.model = None THEN skill.model ELSE policy.model
           arts == "load_artifacts_tool" \in policy.tools
           c == ComposeRootSkill(skill, policy)
<1>1. c = [skill EXCEPT
        !.root = TRUE, !.tools = policy.tools, !.mcp = policy.mcp, !.model = model,
        !.thinkingModel = None, !.subSkills = <<>>, !.delegation = deleg,
        !.artifacts = arts, !.a2ui = policy.a2ui, !.confirmation = policy.a2ui,
        !.knowledge = policy.knowledge, !.budget = policy.budget]
  BY DEF ComposeRootSkill
<1>2. allow \in Seq(AllowEntry)
      /\ \A i \in DOMAIN allow : allow[i].floor = "block"
  <2>1. ASSUME NEW ref \in STRING
        PROVE  Bound(ref) \in AllowEntry /\ Bound(ref).floor = "block"
    BY DEF AllowEntry
  <2>2. DOMAIN policy.specialists = 1 .. Len(policy.specialists) /\ Len(policy.specialists) \in Nat
        /\ \A i \in DOMAIN policy.specialists : policy.specialists[i] \in STRING
    OBVIOUS
  <2> DEFINE list == policy.specialists
             n == Len(list)
             at(i) == Bound(list[i])
  <2>3. \A i \in 1 .. n : at(i) \in AllowEntry /\ at(i).floor = "block"
    BY <2>1, <2>2
  <2>4. allow = [i \in 1 .. n |-> at(i)] /\ n \in Nat
    BY <2>2
  <2> HIDE DEF at, n, allow
  <2> QED
    BY <2>3, <2>4
<1>3. /\ deleg \in Delegation /\ deleg.enabled = (policy.specialists # <<>>)
      /\ deleg.discoverJobs = FALSE /\ deleg.mode = "auto" /\ deleg.allow = allow
  <2> HIDE DEF allow
  <2> QED
    BY <1>2 DEF Delegation
<1> HIDE DEF deleg, model, arts, c
<1>4. DOMAIN c = SkillFields
  BY <1>1, Zenon
<1>5. /\ "root" \in SkillFields /\ "id" \in SkillFields /\ "tools" \in SkillFields
      /\ "mcp" \in SkillFields /\ "thinkingModel" \in SkillFields /\ "subSkills" \in SkillFields
      /\ "delegation" \in SkillFields
  BY DEF SkillFields
<1>6. c.root = TRUE /\ c.id = skill.id /\ c.tools = policy.tools /\ c.mcp = policy.mcp
  BY <1>1, <1>5
<1>7. c.thinkingModel = None /\ c.subSkills = <<>> /\ c.delegation = deleg
  BY <1>1, <1>5
<1> HIDE DEF allow
<1>8. ComposedOf(c, skill, policy)
  <2>1. <<>> \in Seq(STRING)
    OBVIOUS
  <2> QED
    BY <1>2, <1>3, <1>4, <1>6, <1>7, <2>1 DEF Fit, ComposedOf
<1> QED
  BY <1>8 DEF c

(* A delegate as the factory makes it: itself, or composed without          *)
(* specialists under the Root policy.                                       *)
LEMMA DelegateIsFit ==
    ASSUME RowsFine, rootDoc \in Policies, NEW underRoot \in BOOLEAN, NEW id \in DOMAIN skillRows
    PROVE  LET sub == DelegateSkill(underRoot, skillRows[id])
           IN  /\ Fit(sub) /\ sub.id = id /\ sub.root = underRoot
               /\ ~underRoot => sub = skillRows[id]
               /\ underRoot => /\ sub.tools = rootDoc.tools /\ sub.mcp \subseteq rootDoc.mcp
                               /\ ~sub.delegation.enabled /\ sub.subSkills = <<>>
<1> DEFINE row == skillRows[id]
           policy == AuthorizedRootConfig
           cut == [policy EXCEPT !.model = row.model, !.specialists = <<>>]
<1>1. Fit(row) /\ row.id = id /\ row.root = FALSE /\ DOMAIN row = SkillFields
  BY DEF RowsFine, Fit
<1>2. DOMAIN policy = RootFields /\ policy.tools = rootDoc.tools /\ policy.mcp \subseteq rootDoc.mcp
  BY PolicyIsCut
<1> HIDE DEF policy
<1>3. cut.specialists = <<>> /\ cut.tools = rootDoc.tools /\ cut.mcp \subseteq rootDoc.mcp
  BY <1>2 DEF RootFields
<1>4. CASE ~underRoot
  BY <1>1, <1>4 DEF DelegateSkill
<1>5. CASE underRoot
  <2>1. DelegateSkill(underRoot, row) = ComposeRootSkill(row, cut)
    BY <1>5 DEF DelegateSkill, policy
  <2> HIDE DEF cut, row
  <2>2. cut.specialists \in Seq(STRING)
    BY <1>3
  <2> DEFINE c == ComposeRootSkill(row, cut)
  <2>3. ComposedOf(c, row, cut)
    BY <1>1, <2>2, ComposedIsFit
  <2> HIDE DEF c
  <2>4. /\ Fit(c) /\ c.root = TRUE /\ c.id = id /\ c.tools = rootDoc.tools /\ c.mcp \subseteq rootDoc.mcp
        /\ c.subSkills = <<>> /\ ~c.delegation.enabled
    BY <1>1, <1>3, <2>3 DEF ComposedOf
  <2>5. DelegateSkill(underRoot, row) = c
    BY <2>1 DEF c
  <2> QED
    BY <1>5, <2>4, <2>5 DEF row
<1> QED
  BY <1>4, <1>5

(* A sub-agent of whatever is built is a stub or an agent made behind one   *)
(* caller more.                                                             *)
SubOf(skill, seen, n, s, r) ==
    /\ Reaches(skill, r) /\ s.id = r.skill.id /\ s.rule = r.rule
    /\ skill.root => r.skill.id \in SetOf(AuthorizedRootConfig.specialists)
    /\ \/ s.kind = "stub" /\ r.rule.floor # "auto"
       \/ /\ s.kind = "agent" /\ r.rule.floor = "auto" /\ n - 1 \in 0 .. Cardinality(FactoryIds)
          /\ LET sub == DelegateSkill(skill.root, r.skill)
             IN  /\ s.subs = Delegates(sub, seen \cup {sub.id}, StackedAgents[n - 1]).subs
                 /\ s.tools = AgentTools(sub, sub.model).tools
          /\ \E x \in Stacked : StackedAgents[n][x].error = None /\ s.subs = StackedAgents[n][x].subs

LEMMA SubIs ==
    ASSUME RowsFine, rootDoc \in Policies, NEW skill, Fit(skill), NEW seen \in SUBSET FactoryIds,
           NEW n \in 0 .. Cardinality(FactoryIds), NEW s,
           s \in {Delegates(skill, seen, StackedAgents[n]).subs[name] :
                      name \in DOMAIN Delegates(skill, seen, StackedAgents[n]).subs}
    PROVE  \E r : SubOf(skill, seen, n, s, r)
<1> DEFINE made == StackedAgents[n]
<1>1. Linked(skill, seen, made, Delegates(skill, seen, made))
  BY DelegatesAreWired
<1>2. PICK r : Reaches(skill, r) /\ WiredAs(skill, seen, made, r, s)
  BY <1>1 DEF Linked
<1> DEFINE x == [id |-> r.skill.id, underRoot |-> skill.root, seen |-> seen]
           sub == DelegateSkill(skill.root, r.skill)
<1>3. x \in Stacked /\ r.skill = skillRows[r.skill.id] /\ r.skill.id \in DOMAIN skillRows
  BY <1>2 DEF Reaches, Stacked, Fit
<1>4. sub.id = r.skill.id
  <2>1. skill.root \in BOOLEAN
    BY DEF Fit
  <2> QED
    BY <1>3, <2>1, DelegateIsFit
<1>5. CASE r.rule.floor # "auto"
  <2>1. s = [error |-> None, kind |-> "stub", id |-> sub.id, rule |-> r.rule]
    BY <1>2, <1>5 DEF WiredAs
  <2>2. SubOf(skill, seen, n, s, r)
    BY <1>2, <1>4, <1>5, <2>1 DEF SubOf, WiredAs
  <2> QED
    BY <2>2
<1>6. CASE r.rule.floor = "auto"
  <2> DEFINE child == made[x]
  <2>1. child.error = None /\ s = [child EXCEPT !.rule = r.rule]
    BY <1>2, <1>6 DEF WiredAs
  <2>2. n - 1 \in 0 .. Cardinality(FactoryIds) /\ MadeOf(child, sub, sub.model, seen, StackedAgents[n - 1])
    <3>1. sub = DelegateSkill(x.underRoot, skillRows[x.id]) /\ x.seen = seen
      BY <1>3
    <3> HIDE DEF x, sub
    <3> QED
      BY <1>3, <2>1, <3>1, StackedIsMade
  <2> HIDE DEF x, made
  <2>3. child.error = None /\ child = StackedAgents[n][x] /\ x \in Stacked
    BY <1>3, <2>1 DEF made
  <2> HIDE DEF child, sub
  <2>4. /\ s.kind = "agent" /\ s.id = sub.id /\ s.rule = r.rule /\ s.subs = child.subs
        /\ s.tools = child.tools
    BY <2>1, <2>2 DEF MadeOf
  <2>5. SubOf(skill, seen, n, s, r)
    BY <1>2, <1>4, <1>6, <2>2, <2>3, <2>4 DEF SubOf, WiredAs, MadeOf, sub
  <2> QED
    BY <2>5
<1> QED
  BY <1>5, <1>6

(* The floor auto is some declaration's.                                    *)
LEMMA AutoIsDeclared ==
    ASSUME RowsFine, NEW skill, Fit(skill), NEW r, Reaches(skill, r), r.rule.floor = "auto"
    PROVE  "auto" \in ListedFloors(skill, r.skill) \cup OwnFloors(skill, r.skill)
<1> DEFINE deleg == skill.delegation
           sub == r.skill
<1>1. r.rule.ref \in {sub.id, sub.slug} /\ r.rule \in RulesOf(skill)
  BY DEF Reaches
<1>2. CASE \E i \in DOMAIN deleg.allow : r.rule = AllowRule(deleg, deleg.allow[i])
  <2>1. PICK i \in DOMAIN deleg.allow : r.rule = AllowRule(deleg, deleg.allow[i])
    BY <1>2
  <2> DEFINE e == deleg.allow[i]
             at(k) == LET d == skill.delegation.allow[k]
                      IN IF d.floor = "block"
                         THEN (IF skill.delegation.mode = "suggest" THEN "confirm" ELSE "auto")
                         ELSE d.floor
  <2>2. e \in AllowEntry
    BY DEF Fit, Delegation
  <2>3. r.rule.ref = e.ref /\ at(i) = "auto"
    <3> HIDE DEF e
    <3>1. CASE e.floor = "block"
      <4>1. r.rule = [e EXCEPT !.floor = DefaultFloor(deleg)]
        BY <2>1, <3>1 DEF AllowRule, e
      <4>2. r.rule.ref = e.ref /\ r.rule.floor = DefaultFloor(deleg)
        BY <2>2, <4>1 DEF AllowEntry
      <4> QED
        BY <3>1, <4>2 DEF DefaultFloor, e
    <3>2. CASE e.floor # "block"
      BY <2>1, <3>2 DEF AllowRule, e
    <3> QED
      BY <3>1, <3>2
  <2>4. i \in {k \in DOMAIN skill.delegation.allow : skill.delegation.allow[k].ref \in {sub.id, sub.slug}}
    BY <1>1, <2>3
  <2>5. at(i) \in ListedFloors(skill, sub)
    <3> HIDE DEF sub
    <3> QED
      BY <2>4 DEF ListedFloors
  <2> QED
    BY <2>3, <2>5
<1>3. CASE \E i \in DOMAIN Extra(skill) : r.rule = BareRule(deleg, Extra(skill)[i])
  <2>1. PICK i \in DOMAIN Extra(skill) : r.rule = BareRule(deleg, Extra(skill)[i])
    BY <1>3
  <2>2. deleg.allow = <<>> /\ Extra(skill) = skill.subSkills
    BY DEF Extra
  <2>3. r.rule.ref = skill.subSkills[i] /\ DefaultFloor(deleg) = "auto"
    BY <2>1, <2>2 DEF BareRule
  <2>4. r.rule.ref \in SetOf(skill.subSkills)
    BY <2>2, <2>3 DEF SetOf, ToSet
  <2>5. {sub.id, sub.slug} \cap SetOf(skill.subSkills) # {}
    BY <1>1, <2>4
  <2> QED
    BY <2>2, <2>3, <2>5 DEF OwnFloors, DefaultFloor
<1>4. CASE skill.delegation.discoverJobs /\ r.rule \in JobRules(skill.owner)
  <2>1. PICK j \in FindJobs(skill.owner) : r.rule = JobRule(j)
    BY <1>4 DEF JobRules
  <2>2. PICK k \in DOMAIN skillRows : j = skillRows[k] /\ j.job
    BY DEF FindJobs
  <2>3. j.id = k
    BY <2>2 DEF RowsFine
  <2>4. r.rule.ref = k /\ r.rule.floor = j.jobFloor
    BY <2>1, <2>3 DEF JobRule
  <2>5. sub = j
    BY <2>2, <2>4 DEF Reaches, ResolveDelegateSkill
  <2> QED
    BY <1>4, <2>2, <2>4, <2>5 DEF OwnFloors
<1> QED
  BY <1>1, <1>2, <1>3, <1>4 DEF RulesOf, Declared

(* A tree built of stored skills hands over as their documents declare.     *)
SubAgents(skill, seen, n) ==
    {Delegates(skill, seen, StackedAgents[n]).subs[name] :
        name \in DOMAIN Delegates(skill, seen, StackedAgents[n]).subs}
DeclaredAuto(parent, child) ==
    "auto" \in ListedFloors(skillRows[parent], skillRows[child])
              \cup OwnFloors(skillRows[parent], skillRows[child])
Handed(id, seen, n, s) ==
    /\ s.id \in DOMAIN skillRows /\ CanAccess(skillRows[s.id])
    /\ s.kind = "agent" =>
           /\ DeclaredAuto(id, s.id) /\ n - 1 \in 0 .. Cardinality(FactoryIds)
           /\ Below(s) = SubAgents(skillRows[s.id], seen \cup {s.id}, n - 1)

LEMMA OneHandoff ==
    ASSUME RowsFine, rootDoc \in Policies, NEW id \in DOMAIN skillRows, NEW seen \in SUBSET FactoryIds,
           NEW n \in 0 .. Cardinality(FactoryIds), NEW s \in SubAgents(skillRows[id], seen, n)
    PROVE  Handed(id, seen, n, s)
<1> DEFINE skill == skillRows[id]
<1>1. Fit(skill) /\ skill.root = FALSE
  BY DEF RowsFine
<1>2. PICK r : SubOf(skill, seen, n, s, r)
  <2> HIDE DEF skill
  <2>1. s \in {Delegates(skill, seen, StackedAgents[n]).subs[name] :
                   name \in DOMAIN Delegates(skill, seen, StackedAgents[n]).subs}
    BY Zenon DEF skill, SubAgents
  <2> QED
    BY <1>1, <2>1, SubIs
<1> HIDE DEF skill
<1>3. s.id \in DOMAIN skillRows /\ r.skill = skillRows[s.id] /\ CanAccess(skillRows[s.id])
  BY <1>2 DEF SubOf, Reaches
<1>4. ASSUME s.kind = "agent"
      PROVE  /\ r.rule.floor = "auto" /\ n - 1 \in 0 .. Cardinality(FactoryIds)
             /\ s.subs = Delegates(DelegateSkill(FALSE, r.skill),
                                   seen \cup {DelegateSkill(FALSE, r.skill).id}, StackedAgents[n - 1]).subs
  BY <1>1, <1>2, <1>4 DEF SubOf
<1>5. DelegateSkill(FALSE, r.skill) = r.skill /\ r.skill.id = s.id
  BY <1>2 DEF DelegateSkill, SubOf
<1>6. ASSUME s.kind = "agent"
      PROVE  "auto" \in ListedFloors(skill, r.skill) \cup OwnFloors(skill, r.skill)
  <2>1. Reaches(skill, r) /\ r.rule.floor = "auto"
    BY <1>2, <1>4, <1>6 DEF SubOf
  <2> QED
    BY <1>1, <2>1, AutoIsDeclared
<1> QED
  BY <1>3, <1>4, <1>5, <1>6 DEF skill, Handed, DeclaredAuto, SubAgents, Below

LEMMA HandoffTree ==
    ASSUME RowsFine, rootDoc \in Policies, NEW s0 \in DOMAIN skillRows, NEW a, a.id = s0,
           Below(a) = SubAgents(skillRows[s0], {s0}, Cardinality(FactoryIds)), NEW p \in Pairs(a)
    PROVE  CanAccess(skillRows[p[2].id]) /\ (p[2].kind = "agent" => DeclaredAuto(p[1].id, p[2].id))
<1> DEFINE N == Cardinality(FactoryIds)
<1>1. N \in 0 .. N
  BY AgentsStack
<1>2. {s0} \in SUBSET FactoryIds
  BY DEF FactoryIds
<1>3. \A b \in Below(a) : Handed(s0, {s0}, N, b)
  BY <1>1, <1>2, OneHandoff
<1>4. ASSUME NEW s \in Below(a), p = <<a, s>>
      PROVE  CanAccess(skillRows[p[2].id]) /\ (p[2].kind = "agent" => DeclaredAuto(p[1].id, p[2].id))
  <2>1. p[1] = a /\ p[2] = s
    BY <1>4
  <2> QED
    BY <1>3, <2>1 DEF Handed
<1>5. ASSUME NEW b \in Below(a), b.kind = "agent", NEW s \in Below(b), p = <<b, s>>
      PROVE  CanAccess(skillRows[p[2].id]) /\ (p[2].kind = "agent" => DeclaredAuto(p[1].id, p[2].id))
  <2>1. /\ b.id \in DOMAIN skillRows /\ N - 1 \in 0 .. N
        /\ Below(b) = SubAgents(skillRows[b.id], {s0} \cup {b.id}, N - 1)
    BY <1>3, <1>5 DEF Handed
  <2>2. {s0} \cup {b.id} \in SUBSET FactoryIds
    BY <2>1 DEF FactoryIds
  <2>3. Handed(b.id, {s0} \cup {b.id}, N - 1, s)
    BY <1>5, <2>1, <2>2, OneHandoff
  <2>4. p[1] = b /\ p[2] = s
    BY <1>5
  <2> QED
    BY <2>3, <2>4 DEF Handed
<1> QED
  BY <1>4, <1>5 DEF Pairs

(* Below a built agent stand agents and stubs, a delegate is an agent where *)
(* its floor is auto and a stub where it is not.                            *)
Floored(a) == a.kind = "agent" <=> a.rule.floor = "auto"
Closed(T) ==
    \A a \in T : /\ a.kind \in {"agent", "stub"}
                 /\ a.kind = "agent" => \A s \in Below(a) : s \in T /\ Floored(s)
Within(a) ==
    LET stacked == {z \in (0 .. Cardinality(FactoryIds)) \X Stacked : StackedAgents[z[1]][z[2]].error = None}
    IN {a} \cup Below(a) \cup UNION {Below(StackedAgents[z[1]][z[2]]) : z \in stacked}

LEMMA TreesClosed ==
    ASSUME RowsFine, rootDoc \in Policies, NEW skill, Fit(skill), NEW seen \in SUBSET FactoryIds,
           NEW a, a.kind = "agent", Below(a) = SubAgents(skill, seen, Cardinality(FactoryIds))
    PROVE  a \in Within(a) /\ Closed(Within(a))
<1> DEFINE N == Cardinality(FactoryIds)
           Same(t, m, y) == StackedAgents[m][y].error = None /\ Below(t) = Below(StackedAgents[m][y])
           Kin(t) == /\ t.kind \in {"agent", "stub"} /\ Floored(t)
                     /\ t.kind = "agent" => \E m \in 0 .. N, y \in Stacked : Same(t, m, y)
           Shut(t) == /\ t.kind \in {"agent", "stub"}
                      /\ t.kind = "agent" => \A s \in Below(t) : s \in Within(a) /\ Floored(s)
<1>1. N \in 0 .. N
  BY AgentsStack
<1>2. ASSUME NEW sk, Fit(sk), NEW see \in SUBSET FactoryIds, NEW n \in 0 .. N, NEW s \in SubAgents(sk, see, n)
      PROVE  Kin(s)
  <2>1. PICK r : SubOf(sk, see, n, s, r)
    BY <1>2, SubIs DEF SubAgents
  <2>2. \/ s.kind = "stub" /\ s.rule.floor # "auto"
        \/ /\ s.kind = "agent" /\ s.rule.floor = "auto"
           /\ \E x \in Stacked : StackedAgents[n][x].error = None /\ s.subs = StackedAgents[n][x].subs
    BY <2>1 DEF SubOf
  <2>3. \A x : s.subs = StackedAgents[n][x].subs => Below(s) = Below(StackedAgents[n][x])
    BY DEF Below
  <2> QED
    BY <2>2, <2>3 DEF Floored
<1>3. ASSUME NEW n \in 0 .. N, NEW x \in Stacked, StackedAgents[n][x].error = None, NEW t \in Below(StackedAgents[n][x])
      PROVE  Kin(t)
  <2> DEFINE sub == DelegateSkill(x.underRoot, skillRows[x.id])
             b == StackedAgents[n][x]
  <2>2. n - 1 \in 0 .. N /\ MadeOf(b, sub, sub.model, x.seen, StackedAgents[n - 1])
    BY <1>3, StackedIsMade
  <2>3. Fit(sub) /\ sub.id = x.id /\ x.id \in DOMAIN skillRows /\ x.seen \in SUBSET FactoryIds
    <3>1. x.underRoot \in BOOLEAN /\ x.id \in DOMAIN skillRows /\ x.seen \in SUBSET FactoryIds
      BY DEF Stacked
    <3> QED
      BY <3>1, DelegateIsFit
  <2> HIDE DEF sub
  <2> DEFINE m == n - 1
             see == x.seen \cup {sub.id}
  <2>4. see \in SUBSET FactoryIds
    BY <2>3 DEF FactoryIds
  <2>5. t \in SubAgents(sub, see, m)
    <3> HIDE DEF b
    <3> QED
      BY <1>3, <2>2 DEF Below, MadeOf, SubAgents, b
  <2>6. m \in 0 .. N
    BY <2>2
  <2> HIDE DEF N, Kin, m, see
  <2> QED
    BY <1>2, <2>3, <2>4, <2>5, <2>6
<1>4. ASSUME NEW t, Kin(t) PROVE Shut(t)
  <2>1. ASSUME NEW m \in 0 .. N, NEW y \in Stacked, Same(t, m, y), NEW s \in Below(t)
        PROVE  s \in Within(a) /\ Floored(s)
    <3>1. s \in Below(StackedAgents[m][y]) /\ StackedAgents[m][y].error = None
      BY <2>1
    <3>2. Kin(s)
      <4> HIDE DEF N, Kin
      <4> QED
        BY <1>3, <3>1
    <3> DEFINE z == <<m, y>>
    <3>3. z \in (0 .. N) \X Stacked /\ StackedAgents[z[1]][z[2]].error = None /\ s \in Below(StackedAgents[z[1]][z[2]])
      BY <3>1
    <3> HIDE DEF z
    <3>4. s \in Within(a)
      BY <3>3 DEF Within
    <3> QED
      BY <3>2, <3>4
  <2> HIDE DEF N, Same
  <2> QED
    BY <1>4, <2>1
<1>5. ASSUME NEW t \in Within(a) PROVE Shut(t)
  <2>1. CASE t = a
    <3>1. \A s \in Below(a) : Kin(s)
      <4> HIDE DEF N, Kin
      <4> QED
        BY <1>1, <1>2 DEF N
    <3>2. \A s \in Below(a) : s \in Within(a)
      BY DEF Within
    <3> HIDE DEF N, Same
    <3> QED
      BY <2>1, <3>1, <3>2
  <2>2. CASE t \in Below(a)
    <3> HIDE DEF N, Kin, Shut
    <3> QED
      BY <1>1, <1>2, <1>4, <2>2 DEF N
  <2>3. ASSUME NEW n \in 0 .. N, NEW x \in Stacked, StackedAgents[n][x].error = None, t \in Below(StackedAgents[n][x])
        PROVE  Shut(t)
    <3> HIDE DEF N, Kin, Shut
    <3> QED
      BY <1>3, <1>4, <2>3
  <2>4. \/ t = a
        \/ t \in Below(a)
        \/ \E n \in 0 .. N, x \in Stacked :
               StackedAgents[n][x].error = None /\ t \in Below(StackedAgents[n][x])
    <3>1. t \in {a} \cup Below(a) \cup UNION {Below(StackedAgents[z[1]][z[2]]) :
                     z \in {y \in (0 .. N) \X Stacked : StackedAgents[y[1]][y[2]].error = None}}
      BY Zenon DEF Within
    <3> HIDE DEF N
    <3> QED
      BY <3>1
  <2> QED
    BY <2>1, <2>2, <2>3, <2>4
<1>6. a \in Within(a)
  BY DEF Within
<1> QED
  BY <1>5, <1>6 DEF Closed

(* The tools of an agent that are anyone's to grant are its own skill's.    *)
Granted == Registered \cup ModelAware \cup DOMAIN McpDocs

LEMMA ToolsBounded ==
    ASSUME NEW skill, NEW model
    PROVE  AgentTools(skill, model).tools \cap Granted \subseteq skill.tools \cup skill.mcp
<1> DEFINE names == skill.tools
           builtin == UsesBuiltinExecutor(names, model)
           plain == ResolveTools(names)
           mcp == ResolveMcpTools(skill.mcp)
           defaults == (IF builtin THEN {} ELSE {"read_attached_document"})
                       \cup (IF skill.artifacts /\ ~builtin THEN {"artifacts"} ELSE {})
           root == IF skill.root
                   THEN {"load_skill"} \cup (IF skill.knowledge # {} THEN {"search_agent_knowledge"} ELSE {})
                   ELSE {}
           ui == (IF skill.a2ui THEN {"send_a2ui"} ELSE {})
                 \cup (IF skill.confirmation THEN {"request_confirmation"} ELSE {})
           search == ResolveSearchTools(names, skill)
           code == ResolveCodeExecutor(names, model)
           all == IF builtin THEN {} ELSE defaults \cup plain.tools \cup search \cup mcp.tools \cup root
                                          \cup ui \cup code
<1>1. AgentTools(skill, model) = IF plain.error # None THEN plain
                                 ELSE IF mcp.error # None THEN mcp
                                 ELSE [error |-> None, tools |-> all]
  BY Zenon DEF AgentTools
<1>2. defaults \subseteq BuiltinTools /\ root \subseteq BuiltinTools /\ ui \subseteq BuiltinTools
  BY DEF BuiltinTools
<1>3. plain.tools \subseteq names /\ (plain.error # None => plain.tools = {})
  BY DEF ResolveTools
<1>4. mcp.tools \subseteq skill.mcp
  BY DEF ResolveMcpTools
<1>5. search \subseteq names /\ code \subseteq names
  BY DEF ResolveSearchTools, ResolveCodeExecutor
<1>6. BuiltinTools \cap Granted = {}
  BY FactoryAssumption DEF BuiltinTools, Granted, Registered, ModelAware
<1>7. all \subseteq BuiltinTools \cup names \cup skill.mcp
  <2> HIDE DEF defaults, root, ui, plain, mcp, search, code, builtin, names
  <2> QED
    BY <1>2, <1>3, <1>4, <1>5
<1>8. AgentTools(skill, model).tools \subseteq BuiltinTools \cup names \cup skill.mcp
  <2> HIDE DEF all, plain, mcp, names
  <2> QED
    BY <1>1, <1>3, <1>4, <1>7
<1> QED
  BY <1>6, <1>8

(* What serves a turn.                                                      *)
BuiltOf(a, skill) ==
    /\ a.kind = "agent" /\ a.id = skill.id /\ a.root = skill.root
    /\ Below(a) = SubAgents(skill, {skill.id}, Cardinality(FactoryIds))
    /\ \E model : a.tools = AgentTools(skill, model).tools

LEMMA BuiltIs ==
    ASSUME NEW skill, NEW deep \in BOOLEAN, CreateAgentWithThinking(skill, deep).error = None
    PROVE  BuiltOf(CreateAgentWithThinking(skill, deep), skill)
<1> DEFINE N == Cardinality(FactoryIds)
           fast == CreateAgent(skill, skill.model)
           thinking == CreateAgent(skill, skill.thinkingModel)
           a == CreateAgentWithThinking(skill, deep)
<1>1. a = PickBuilt(skill, fast, thinking, deep)
  BY Zenon DEF CreateAgentWithThinking
<1>2. ASSUME NEW model, NEW made, made = CreateAgent(skill, model), made.error = None
      PROVE  /\ BuiltOf(made, skill)
             /\ \A p : BuiltOf([made EXCEPT !.planner = p], skill)
  <2>1. MadeOf(made, skill, model, {}, StackedAgents[N])
    BY <1>2, CreatedIsMade DEF CreateAgent
  <2>2. {} \cup {skill.id} = {skill.id}
    OBVIOUS
  <2>3. made.subs = Delegates(skill, {skill.id}, StackedAgents[N]).subs
    BY <2>1, <2>2, Zenon DEF MadeOf
  <2>4. BuiltOf(made, skill)
    BY <2>1, <2>3 DEF BuiltOf, MadeOf, SubAgents, Below
  <2>5. ASSUME NEW p PROVE BuiltOf([made EXCEPT !.planner = p], skill)
    <3> DEFINE b == [made EXCEPT !.planner = p]
    <3>1. /\ b.kind = made.kind /\ b.id = made.id /\ b.root = made.root /\ b.tools = made.tools
          /\ b.subs = made.subs
      BY <2>1 DEF MadeOf
    <3> HIDE DEF b
    <3>2. BuiltOf(b, skill)
      BY <2>4, <3>1 DEF BuiltOf, Below
    <3> QED
      BY <3>2 DEF b
  <2> QED
    BY <2>4, <2>5
<1>3. fast.error = None /\ (skill.thinkingModel # None => thinking.error = None)
  BY <1>1 DEF PickBuilt
<1>4. CASE skill.thinkingModel = None
  <2>1. a = fast
    BY <1>1, <1>4 DEF PickBuilt
  <2> HIDE DEF a
  <2>2. BuiltOf(fast, skill)
    BY <1>2, <1>3
  <2> QED
    BY <2>1, <2>2 DEF a
<1>5. CASE skill.thinkingModel # None
  <2>1. \/ a = [fast EXCEPT !.planner = PlannerAt(skill.thinking, skill.model)]
        \/ a = [thinking EXCEPT !.planner = PlannerAt("dynamic", skill.thinkingModel)]
    <3> HIDE DEF fast, thinking, a
    <3> QED
      BY <1>1, <1>3, <1>5 DEF PickBuilt, PickAgent
  <2>2. \A p : BuiltOf([fast EXCEPT !.planner = p], skill)
    BY <1>2, <1>3
  <2>3. \A p : BuiltOf([thinking EXCEPT !.planner = p], skill)
    BY <1>2, <1>3, <1>5
  <2> HIDE DEF fast, thinking, a
  <2>4. BuiltOf(a, skill)
    BY <2>1, <2>2, <2>3
  <2> QED
    BY <2>4 DEF a
<1> QED
  BY <1>4, <1>5

(* Under the Root Agent every delegate is a bound specialist with no        *)
(* delegates of its own.                                                    *)
Bounded(s) ==
    /\ s.kind = "agent" /\ s.tools \cap Granted \subseteq rootDoc.tools \cup rootDoc.mcp
    /\ s.id \in SetOf(rootDoc.specialists) /\ Below(s) = {}

LEMMA SpecialistIsBounded ==
    ASSUME RowsFine, rootDoc \in Policies, NEW base, NEW skill,
           ComposedOf(skill, base, AuthorizedRootConfig), skill.id \in FactoryIds,
           NEW s \in SubAgents(skill, {skill.id}, Cardinality(FactoryIds))
    PROVE  Bounded(s)
<1> DEFINE N == Cardinality(FactoryIds)
           seen == {skill.id}
<1>1. N \in 0 .. N
  BY AgentsStack
<1>2. Fit(skill) /\ skill.root = TRUE
  BY DEF ComposedOf
<1>3. PICK r : SubOf(skill, seen, N, s, r)
  <2>1. seen \in SUBSET FactoryIds
    OBVIOUS
  <2> HIDE DEF N, seen
  <2> QED
    BY <1>1, <1>2, <2>1, SubIs DEF SubAgents, N, seen
<1>4. r.rule.floor = "auto"
  <2> DEFINE deleg == skill.delegation
  <2>1. r.rule \in Declared(deleg, <<>>)
    <3>1. skill.subSkills = <<>> /\ skill.delegation.discoverJobs = FALSE
      BY DEF ComposedOf
    <3>2. r.rule \in RulesOf(skill)
      BY <1>3 DEF SubOf, Reaches
    <3> QED
      BY <3>1, <3>2 DEF RulesOf, Extra
  <2>2. PICK i \in DOMAIN deleg.allow : r.rule = AllowRule(deleg, deleg.allow[i])
    BY <2>1 DEF Declared
  <2> DEFINE e == deleg.allow[i]
  <2>3. e \in AllowEntry /\ e.floor = "block" /\ deleg.mode = "auto"
    BY <1>2 DEF ComposedOf, Fit, Delegation
  <2> HIDE DEF e
  <2>4. r.rule = [e EXCEPT !.floor = DefaultFloor(deleg)]
    BY <2>2, <2>3 DEF AllowRule, e
  <2>5. r.rule.floor = DefaultFloor(deleg)
    BY <2>3, <2>4 DEF AllowEntry
  <2> QED
    BY <2>3, <2>5 DEF DefaultFloor
<1> DEFINE sub == DelegateSkill(TRUE, r.skill)
<1>5. /\ s.kind = "agent" /\ N - 1 \in 0 .. N /\ s.id = r.skill.id
      /\ s.subs = Delegates(sub, seen \cup {sub.id}, StackedAgents[N - 1]).subs
      /\ s.tools = AgentTools(sub, sub.model).tools
      /\ r.skill.id \in SetOf(AuthorizedRootConfig.specialists)
  BY <1>2, <1>3, <1>4 DEF SubOf
<1>6. /\ Fit(sub) /\ sub.tools = rootDoc.tools /\ sub.mcp \subseteq rootDoc.mcp
      /\ ~sub.delegation.enabled /\ sub.subSkills = <<>>
  <2>1. PICK id \in DOMAIN skillRows : r.skill = skillRows[id]
    BY <1>3 DEF SubOf, Reaches
  <2>2. PICK underRoot \in BOOLEAN : underRoot = TRUE
    OBVIOUS
  <2> DEFINE d == DelegateSkill(underRoot, skillRows[id])
  <2>3. /\ Fit(d) /\ d.tools = rootDoc.tools /\ d.mcp \subseteq rootDoc.mcp
        /\ ~d.delegation.enabled /\ d.subSkills = <<>>
    BY <2>2, DelegateIsFit
  <2>4. d = sub
    BY <2>1, <2>2
  <2> HIDE DEF d, sub
  <2> QED
    BY <2>3, <2>4
<1> HIDE DEF sub
<1>7. Below(s) = {}
  <2>1. DOMAIN Delegates(sub, seen \cup {sub.id}, StackedAgents[N - 1]).subs = {}
    BY <1>6, DelegatesAreWired
  <2>2. DOMAIN s.subs = {}
    BY <1>5, <2>1
  <2> QED
    BY <2>2 DEF Below
<1>8. s.tools \cap Granted \subseteq rootDoc.tools \cup rootDoc.mcp
  <2>1. AgentTools(sub, sub.model).tools \cap Granted \subseteq sub.tools \cup sub.mcp
    BY ToolsBounded
  <2> QED
    BY <1>5, <1>6, <2>1
<1>9. s.id \in SetOf(rootDoc.specialists)
  BY <1>5, PolicyIsCut
<1> QED
  BY <1>5, <1>7, <1>8, <1>9 DEF Bounded

LEMMA RootTree ==
    ASSUME RowsFine, rootDoc \in Policies, NEW base, NEW skill,
           ComposedOf(skill, base, AuthorizedRootConfig), skill.id \in FactoryIds,
           NEW a, BuiltOf(a, skill)
    PROVE  \A t \in {a} \cup {p[2] : p \in Pairs(a)} :
               /\ t.kind = "agent" /\ t.tools \cap Granted \subseteq rootDoc.tools \cup rootDoc.mcp
               /\ t # a => t.id \in SetOf(rootDoc.specialists) /\ Below(t) = {}
<1>1. \A s \in Below(a) : Bounded(s)
  BY SpecialistIsBounded DEF BuiltOf
<1>2. a.kind = "agent" /\ a.tools \cap Granted \subseteq rootDoc.tools \cup rootDoc.mcp
  <2>1. PICK model : a.tools = AgentTools(skill, model).tools
    BY DEF BuiltOf
  <2>2. skill.tools = rootDoc.tools /\ skill.mcp \subseteq rootDoc.mcp
    BY PolicyIsCut DEF ComposedOf
  <2>3. AgentTools(skill, model).tools \cap Granted \subseteq skill.tools \cup skill.mcp
    BY ToolsBounded
  <2> QED
    BY <2>1, <2>2, <2>3 DEF BuiltOf
<1>3. ASSUME NEW p \in Pairs(a) PROVE p[2] \in Below(a)
  <2>1. CASE \E s \in Below(a) : p = <<a, s>>
    BY <2>1
  <2>2. ASSUME NEW b \in Below(a), NEW s \in Below(b), p = <<b, s>> PROVE p[2] \in Below(a)
    BY <1>1, <2>2 DEF Bounded
  <2> QED
    BY <2>1, <2>2 DEF Pairs
<1> QED
  BY <1>1, <1>2, <1>3 DEF Bounded

(* The documents stay among those they may be, and the agents a turn runs   *)
(* through descend from the one that was built for it.                      *)
Chained(s, root) ==
    \A i \in 1 .. Len(s) :
        IF i = 1 THEN s[1].agent = root /\ root.kind = "agent" ELSE s[i].agent \in Below(s[i - 1].agent)
Rooted(s, root, T) ==
    /\ Chained(s, root)
    /\ \E E : s \in Seq(E) /\ \A e \in E : e.agent \in T
FactoryInv ==
    /\ DOMAIN skillRows = DOMAIN Variants /\ \A s \in DOMAIN Variants : skillRows[s] \in Variants[s]
    /\ rootDoc \in Policies
    /\ \E T : Closed(T) /\ Rooted(running, built, T)

LEMMA RowsAreFine == FactoryInv => RowsFine
<1> SUFFICES ASSUME FactoryInv PROVE RowsFine
  OBVIOUS
<1>1. ASSUME NEW s \in DOMAIN Variants
      PROVE  Fit(skillRows[s]) /\ skillRows[s].id = s /\ skillRows[s].root = FALSE
  <2> DEFINE row == skillRows[s]
  <2>1. row \in Variants[s]
    BY DEF FactoryInv
  <2> HIDE DEF row
  <2>2. /\ DOMAIN row = SkillFields /\ row.id = s /\ row.root = FALSE
        /\ row.delegation \in Delegation /\ row.subSkills \in Seq(STRING)
    BY <2>1, FactoryAssumption, Zenon
  <2>3. row.root \in BOOLEAN
    BY <2>2
  <2>4. Fit(row) /\ row.id = s /\ row.root = FALSE
    BY <2>2, <2>3 DEF Fit
  <2> QED
    BY <2>4 DEF row
<1> QED
  BY <1>1 DEF RowsFine, FactoryInv

(* A chain of agents of T.                                                  *)
LEMMA RootedBy ==
    ASSUME NEW root, NEW T, NEW s, NEW F, Chained(s, root), s \in Seq(F), \A e \in F : e.agent \in T
    PROVE  Rooted(s, root, T)
BY Zenon DEF Rooted

(* Nobody runs between turns, one agent at the start of a turn.             *)
LEMMA RootedEnds ==
    ASSUME NEW root, NEW T
    PROVE  /\ Closed({}) /\ Rooted(<<>>, root, T)
           /\ \A n : root.kind = "agent" /\ root \in T => Rooted(<<Named(n, root)>>, root, T)
<1>1. Closed({}) /\ Rooted(<<>>, root, T)
  <2>1. <<>> \in Seq({}) /\ 1 .. Len(<<>>) = {}
    OBVIOUS
  <2>2. Closed({})
    BY DEF Closed
  <2>3. Chained(<<>>, root)
    BY <2>1 DEF Chained
  <2>4. \A e \in {} : e.agent \in T
    OBVIOUS
  <2>5. Rooted(<<>>, root, T)
    BY RootedBy, <2>1, <2>3, <2>4
  <2> QED
    BY <2>2, <2>5
<1>2. ASSUME NEW n, root.kind = "agent", root \in T PROVE Rooted(<<Named(n, root)>>, root, T)
  <2> DEFINE x == Named(n, root)
  <2>1. x.agent = root
    BY DEF Named
  <2> HIDE DEF x
  <2>2. <<x>> \in Seq({x}) /\ Len(<<x>>) = 1 /\ <<x>>[1] = x
    OBVIOUS
  <2>3. Chained(<<x>>, root)
    <3> SUFFICES ASSUME NEW i \in 1 .. Len(<<x>>)
                 PROVE  IF i = 1 THEN <<x>>[1].agent = root /\ root.kind = "agent"
                        ELSE <<x>>[i].agent \in Below(<<x>>[i - 1].agent)
      BY DEF Chained
    <3>1. i = 1
      BY <2>2
    <3> QED
      BY <1>2, <2>1, <2>2, <3>1
  <2>4. \A e \in {x} : e.agent \in T
    BY <1>2, <2>1
  <2>5. Rooted(<<x>>, root, T)
    <3>1. PICK y : y = <<x>>
      OBVIOUS
    <3>2. y \in Seq({x}) /\ Chained(y, root)
      BY <2>2, <2>3, <3>1
    <3>3. Rooted(y, root, T)
      BY RootedBy, <2>4, <3>2
    <3> QED
      BY <3>1, <3>3
  <2> QED
    BY <2>5 DEF x
<1> QED
  BY <1>1, <1>2

(* A delegate is one of the agents below, and the chain goes on with it.    *)
LEMMA ChildIsBelow ==
    ASSUME NEW agent, NEW e \in Children(agent)
    PROVE  agent.kind = "agent" /\ e.agent \in Below(agent)
BY DEF Children, Named, Below

LEMMA RootedAppend ==
    ASSUME NEW T, Closed(T), NEW root, NEW s, Rooted(s, root, T), s # <<>>, NEW e \in Children(Last(s).agent)
    PROVE  Rooted(Append(s, e), root, T) /\ Floored(e.agent) /\ e.agent.kind \in {"agent", "stub"}
<1>1. PICK E : s \in Seq(E) /\ \A x \in E : x.agent \in T
  BY DEF Rooted
<1>2. Len(s) \in Nat \ {0} /\ Last(s) = s[Len(s)] /\ Last(s) \in E
  BY <1>1 DEF Last
<1>3. e.agent \in Below(Last(s).agent) /\ Last(s).agent.kind = "agent"
  BY ChildIsBelow
<1>4. e.agent \in T /\ Floored(e.agent)
  BY <1>1, <1>2, <1>3 DEF Closed
<1> DEFINE F == E \cup {e}
<1>5. Append(s, e) \in Seq(F) /\ Len(Append(s, e)) = Len(s) + 1
      /\ \A i \in 1 .. Len(s) + 1 : Append(s, e)[i] = IF i = Len(s) + 1 THEN e ELSE s[i]
  BY <1>1
<1>6. \A x \in F : x.agent \in T
  BY <1>1, <1>4
<1> HIDE DEF F
<1>7. Chained(Append(s, e), root)
  <2> SUFFICES ASSUME NEW i \in 1 .. Len(s) + 1
               PROVE  IF i = 1 THEN Append(s, e)[1].agent = root /\ root.kind = "agent"
                      ELSE Append(s, e)[i].agent \in Below(Append(s, e)[i - 1].agent)
    BY <1>5 DEF Chained
  <2>1. CASE i = Len(s) + 1
    <3>1. i # 1 /\ Append(s, e)[i] = e /\ i - 1 \in 1 .. Len(s) + 1 /\ i - 1 # Len(s) + 1
      BY <1>2, <2>1, <1>5
    <3>2. Append(s, e)[i - 1] = s[Len(s)]
      BY <1>2, <2>1, <3>1, <1>5
    <3> QED
      BY <1>2, <1>3, <3>1, <3>2
  <2>2. CASE i # Len(s) + 1
    <3>1. i \in 1 .. Len(s) /\ Append(s, e)[i] = s[i] /\ Append(s, e)[1] = s[1]
      BY <1>2, <1>5, <2>2
    <3>2. i # 1 => Append(s, e)[i - 1] = s[i - 1]
      BY <1>2, <1>5, <3>1
    <3>3. Chained(s, root)
      BY DEF Rooted
    <3> QED
      BY <3>1, <3>2, <3>3 DEF Chained
  <2> QED
    BY <2>1, <2>2
<1> QED
  BY <1>4, <1>5, <1>6, <1>7, <1>1, <1>2 DEF Rooted, Closed

LEMMA RootedFront ==
    ASSUME NEW T, NEW root, NEW s, Rooted(s, root, T), s # <<>>, Len(s) # 1
    PROVE  Rooted(Front(s), root, T) /\ Front(s) # <<>>
<1>1. PICK E : s \in Seq(E) /\ \A x \in E : x.agent \in T
  BY DEF Rooted
<1>2. Len(s) \in Nat /\ Len(s) >= 2
  <2>1. Len(s) \in Nat /\ Len(s) # 0
    BY <1>1
  <2>2. \A n \in Nat : n # 0 /\ n # 1 => n >= 2
    OBVIOUS
  <2> QED
    BY <2>1, <2>2, Zenon
<1>3. /\ Front(s) \in Seq(E) /\ Len(Front(s)) = Len(s) - 1
      /\ \A i \in 1 .. Len(s) - 1 : Front(s)[i] = s[i]
  BY <1>1, <1>2 DEF Front
<1>4. Chained(Front(s), root)
  <2> SUFFICES ASSUME NEW i \in 1 .. Len(s) - 1
               PROVE  IF i = 1 THEN Front(s)[1].agent = root /\ root.kind = "agent"
                      ELSE Front(s)[i].agent \in Below(Front(s)[i - 1].agent)
    BY <1>3 DEF Chained
  <2>1. i \in 1 .. Len(s) /\ Front(s)[i] = s[i] /\ (i # 1 => Front(s)[i - 1] = s[i - 1])
    BY <1>2, <1>3
  <2>2. IF i = 1 THEN s[1].agent = root /\ root.kind = "agent" ELSE s[i].agent \in Below(s[i - 1].agent)
    BY <2>1 DEF Rooted, Chained
  <2> QED
    BY <2>1, <2>2
<1>5. Front(s) # <<>>
  BY <1>2, <1>3
<1> QED
  BY <1>1, <1>3, <1>4, <1>5 DEF Rooted

(* Whomever the answering agent hands the turn to is in the built tree; a   *)
(* delegate of its own that is not free to answer gets a card.              *)
LEMMA OfferedIsRooted ==
    ASSUME NEW T, Closed(T), Rooted(running, built, T), running # <<>>, NEW to \in Offered
    PROVE  Rooted(to, built, T)
<1>1. ASSUME NEW e \in Children(Answering), to = Append(running, e) PROVE Rooted(to, built, T)
  BY <1>1, RootedAppend DEF Answering
<1>2. ASSUME Len(running) # 1, to = Front(running) PROVE Rooted(to, built, T)
  BY <1>2, RootedFront
<1>3. ASSUME Len(running) # 1, NEW e \in Children(Last(Front(running)).agent), to = Append(Front(running), e)
      PROVE  Rooted(to, built, T)
  <2> DEFINE s == Front(running)
  <2>1. Rooted(s, built, T) /\ s # <<>>
    BY <1>3, RootedFront
  <2>2. e \in Children(Last(s).agent)
    OBVIOUS
  <2> HIDE DEF s
  <2>3. Rooted(Append(s, e), built, T)
    BY <2>1, <2>2, RootedAppend
  <2> QED
    BY <1>3, <2>3 DEF s
<1> QED
  BY <1>1, <1>2, <1>3, Zenon DEF Offered

LEMMA FactoryGoesOn ==
    ASSUME DOMAIN skillRows' = DOMAIN Variants, \A s \in DOMAIN Variants : skillRows'[s] \in Variants[s],
           rootDoc' \in Policies, NEW T, Closed(T), Rooted(running', built', T)
    PROVE  FactoryInv'
<1>1. Rooted(running, built, T)'
  BY DEF Rooted, Chained, Below
<1>2. Closed(T)'
  BY DEF Closed, Below, Floored
<1> QED
  BY <1>1, <1>2 DEF FactoryInv

LEMMA FactoryStarts == FactoryInit => FactoryInv
<1> SUFFICES ASSUME FactoryInit PROVE FactoryInv
  OBVIOUS
<1>1. DOMAIN skillRows = DOMAIN Variants /\ \A s \in DOMAIN Variants : skillRows[s] \in Variants[s]
  BY DEF FactoryInit
<1>2. rootDoc \in Policies /\ running = <<>>
  BY DEF FactoryInit
<1>3. Closed({}) /\ Rooted(running, built, {})
  BY <1>2, RootedEnds
<1> QED
  BY <1>1, <1>2, <1>3, Zenon DEF FactoryInv

(* What a step may do to the agents that run and to the card on screen.     *)
Handing ==
    /\ \A i \in DOMAIN running' :
          IF i = 1 THEN running'[1].agent = built' /\ built'.kind = "agent"
          ELSE running'[i].agent \in Below(running'[i - 1].agent)
    /\ running # <<>> =>
          \A e \in Children(Answering) : running' = Append(running, e) => e.agent.kind = "agent"
    /\ confirmCard' \notin {None, confirmCard} =>
          \E e \in Children(Answering) : e.agent.kind = "stub" /\ e.agent.id = confirmCard'.target

(* Only a transfer makes the chain longer than one.                         *)
LEMMA HandsNobody ==
    ASSUME FactoryInv, FactoryInv', running' = running \/ Len(running') \in {0, 1}, confirmCard' \in {None, confirmCard}
    PROVE  Handing
<1>1. PICK T, E : running' \in Seq(E) /\ Chained(running', built')
  BY DEF FactoryInv, Rooted
<1>2. DOMAIN running' = 1 .. Len(running')
  BY <1>1
<1>3. PICK F : running \in Seq(F)
  BY DEF FactoryInv, Rooted
<1>4. \A e : running # <<>> => running' # Append(running, e)
  <2> SUFFICES ASSUME NEW e, running # <<>>, running' = Append(running, e) PROVE FALSE
    OBVIOUS
  <2>1. running \in Seq(F \cup {e})
    BY <1>3
  <2>2. Len(running') = Len(running) + 1 /\ Len(running) \in Nat \ {0}
    BY <1>3, <2>1
  <2> QED
    BY <2>2
<1> QED
  BY <1>1, <1>2, <1>4 DEF Handing, Chained

(* A turn of a skill on its own configuration.                              *)
TurnIs(a) ==
    /\ built = None /\ built' = a /\ UNCHANGED <<skillRows, rootDoc, confirmCard>>
    /\ running' = IF a.error = None THEN <<Named(<<SafeAgentName(a.id), 1>>, a)>> ELSE <<>>

LEMMA TurnKeeps ==
    ASSUME FactoryInv, NEW skill, Fit(skill), skill.id \in FactoryIds, NEW a, TurnIs(a),
           a.error = None => BuiltOf(a, skill)
    PROVE  FactoryInv' /\ Handing
<1>1. RowsFine /\ rootDoc \in Policies /\ {skill.id} \in SUBSET FactoryIds
  BY RowsAreFine DEF FactoryInv
<1>2. CASE a.error = None
  <2>1. a.kind = "agent" /\ Below(a) = SubAgents(skill, {skill.id}, Cardinality(FactoryIds))
    BY <1>2 DEF BuiltOf
  <2>2. a \in Within(a) /\ Closed(Within(a))
    BY <1>1, <2>1, TreesClosed
  <2> DEFINE n == <<SafeAgentName(a.id), 1>>
             x == Named(n, a)
  <2>3. running' = <<x>> /\ built' = a
    BY <1>2 DEF TurnIs
  <2>4. \A m : Rooted(<<Named(m, a)>>, a, Within(a))
    BY <2>1, <2>2, RootedEnds
  <2>5. Rooted(<<x>>, a, Within(a))
    BY <2>4
  <2> HIDE DEF n, x
  <2>6. \E T : Closed(T) /\ Rooted(running', built', T)
    BY <2>2, <2>3, <2>5
  <2>7. FactoryInv'
    BY <2>6, FactoryGoesOn DEF FactoryInv, TurnIs
  <2>8. Len(running') = 1 /\ confirmCard' = confirmCard
    BY <2>3 DEF TurnIs
  <2> QED
    BY <2>7, <2>8, HandsNobody
<1>3. CASE a.error # None
  <2>1. running' = <<>> /\ confirmCard' = confirmCard
    BY <1>3 DEF TurnIs
  <2>2. Closed({}) /\ Rooted(running', built', {})
    BY <2>1, RootedEnds
  <2>3. FactoryInv'
    BY <2>2, FactoryGoesOn DEF FactoryInv, TurnIs
  <2>4. Len(running') = 0
    BY <2>1
  <2> QED
    BY <2>1, <2>3, <2>4, HandsNobody
<1> QED
  BY <1>2, <1>3

LEMMA SkillTurn ==
    ASSUME FactoryInv, NEW s \in DOMAIN Variants, StartSkillTurn(s)
    PROVE  FactoryInv' /\ HandoffStep /\ CeilingStep
<1> DEFINE skill == skillRows[s]
<1>1. PICK deep \in BOOLEAN : TurnIs(CreateAgentWithThinking(skill, deep))
  BY DEF StartSkillTurn, Serve, TurnIs
<1>2. /\ RowsFine /\ rootDoc \in Policies /\ s \in DOMAIN skillRows
      /\ Fit(skill) /\ skill.id = s /\ skill.root = FALSE /\ skill.id \in FactoryIds
  BY RowsAreFine DEF FactoryInv, RowsFine, FactoryIds
<1> DEFINE a == CreateAgentWithThinking(skill, deep)
<1>3. a.error = None => BuiltOf(a, skill)
  BY BuiltIs
<1>4. TurnIs(a)
  BY <1>1
<1> HIDE DEF a
<1>5. FactoryInv' /\ Handing
  <2> HIDE DEF skill
  <2> QED
    BY <1>2, <1>3, <1>4, TurnKeeps
<1>6. built' = a /\ (a.error = None => a.root = FALSE)
  BY <1>2, <1>3, <1>4 DEF TurnIs, BuiltOf
<1>7. CeilingStep
  BY <1>6 DEF CeilingStep, Builds, UnderRoot
<1>8. ASSUME a.error = None
      PROVE  \A p \in Pairs(a) : CanAccess(skillRows[p[2].id])
                                 /\ (p[2].kind = "agent" => DeclaredAuto(p[1].id, p[2].id))
  <2>1. a.id = s /\ Below(a) = SubAgents(skillRows[s], {s}, Cardinality(FactoryIds))
    BY <1>2, <1>3, <1>8 DEF BuiltOf
  <2> QED
    BY <1>2, <2>1, HandoffTree
<1>9. HandoffStep
  BY <1>5, <1>6, <1>8 DEF HandoffStep, Handing, Builds, DeclaredAuto
<1> QED
  BY <1>5, <1>7, <1>9

LEMMA RootTurn ==
    ASSUME FactoryInv, StartRootTurn
    PROVE  FactoryInv' /\ HandoffStep /\ CeilingStep
<1> DEFINE policy == AuthorizedRootConfig
<1>1. PICK base \in {RootAgentSkill(policy)} \cup {skillRows[s] : s \in policy.skills} :
          TurnIs(CreateAgentWithThinking(ComposeRootSkill(base, policy), FALSE))
  BY DEF StartRootTurn, Serve, TurnIs
<1>2. RowsFine /\ rootDoc \in Policies
  BY RowsAreFine DEF FactoryInv
<1>3. policy.specialists \in Seq(STRING) /\ policy.skills \subseteq DOMAIN skillRows
  BY <1>2, PolicyIsCut
<1> HIDE DEF policy
<1>4. DOMAIN base = SkillFields /\ base.id \in FactoryIds
  <2>1. CASE base = RootAgentSkill(policy)
    <3>1. DOMAIN base = SkillFields
      BY <2>1, Zenon DEF RootAgentSkill, SkillFields
    <3>2. base.id = "root-agent"
      BY <2>1, Zenon DEF RootAgentSkill
    <3> QED
      BY <3>1, <3>2 DEF FactoryIds
  <2>2. CASE base \in {skillRows[s] : s \in policy.skills}
    BY <1>2, <1>3, <2>2 DEF RowsFine, Fit, FactoryIds
  <2> QED
    BY <2>1, <2>2
<1> DEFINE skill == ComposeRootSkill(base, policy)
           a == CreateAgentWithThinking(skill, FALSE)
<1>5. ComposedOf(skill, base, policy)
  BY <1>3, <1>4, ComposedIsFit
<1>6. Fit(skill) /\ skill.id \in FactoryIds /\ skill.root = TRUE
  BY <1>4, <1>5 DEF ComposedOf
<1>7. TurnIs(a)
  BY <1>1
<1> HIDE DEF skill
<1>8. a.error = None => BuiltOf(a, skill)
  BY BuiltIs
<1> HIDE DEF a
<1>9. FactoryInv' /\ Handing
  BY <1>6, <1>7, <1>8, TurnKeeps
<1>10. built' = a /\ (a.error = None => a.root = TRUE)
  BY <1>6, <1>7, <1>8 DEF TurnIs, BuiltOf
<1>11. HandoffStep
  BY <1>9, <1>10 DEF HandoffStep, Handing, Builds, UnderRoot
<1>12. ASSUME a.error = None
       PROVE  \A t \in {a} \cup {p[2] : p \in Pairs(a)} :
                  /\ t.kind = "agent" /\ t.tools \cap Granted \subseteq rootDoc.tools \cup rootDoc.mcp
                  /\ t # a => t.id \in SetOf(rootDoc.specialists) /\ Below(t) = {}
  BY <1>2, <1>5, <1>6, <1>8, <1>12, RootTree DEF policy
<1>13. CeilingStep
  BY <1>10, <1>12 DEF CeilingStep, Builds, Granted
<1> QED
  BY <1>9, <1>11, <1>13

LEMMA PolicyHands ==
    ASSUME FactoryInv, NEW name, HandoffPolicy(name)
    PROVE  FactoryInv' /\ Handing /\ ~Builds
<1>1. PICK T : Closed(T) /\ Rooted(running, built, T)
  BY DEF FactoryInv
<1>2. running # <<>> /\ UNCHANGED <<skillRows, rootDoc, mcpRows, skillEdits, built, consented>>
  BY DEF HandoffPolicy
<1>3. \A e \in Children(Answering) : Floored(e.agent) /\ e.agent.kind \in {"agent", "stub"}
  BY <1>1, <1>2, RootedAppend DEF Answering
<1>4. ASSUME Rooted(running', built, T) PROVE FactoryInv'
  BY <1>1, <1>2, <1>4, FactoryGoesOn DEF FactoryInv
<1>5. ASSUME NEW e \in Children(Answering), e.agent.rule.floor # "auto", ShowHandoffCard(e.agent)
      PROVE  FactoryInv' /\ Handing
  <2>1. running' = running /\ confirmCard'.target = e.agent.id
    BY <1>5 DEF ShowHandoffCard
  <2>2. e.agent.kind = "stub"
    BY <1>3, <1>5 DEF Floored
  <2>3. FactoryInv'
    BY <1>1, <1>4, <2>1
  <2>4. PICK E : running \in Seq(E)
    BY <1>1 DEF Rooted
  <2>5. \A x : running # Append(running, x)
    <3> SUFFICES ASSUME NEW x, running = Append(running, x) PROVE FALSE
      OBVIOUS
    <3>1. running \in Seq(E \cup {x})
      BY <2>4
    <3>2. Len(running) = Len(running) + 1 /\ Len(running) \in Nat
      BY <2>4, <3>1
    <3> QED
      BY <3>2
  <2>6. DOMAIN running' = 1 .. Len(running') /\ Chained(running', built')
    BY <1>1, <1>2, <2>1, <2>4 DEF Rooted
  <2> QED
    BY <2>1, <2>2, <2>3, <2>5, <2>6 DEF Handing, Chained
<1>6. ASSUME \A e \in Children(Answering) : e.name = name => e.agent.rule.floor = "auto",
             NEW to \in Offered, Last(to).name = name, running' = to, confirmCard' = confirmCard
      PROVE  FactoryInv' /\ Handing
  <2>1. Rooted(running', built, T)
    BY <1>1, <1>2, <1>6, OfferedIsRooted
  <2>2. PICK E : running' \in Seq(E)
    BY <2>1 DEF Rooted
  <2>3. DOMAIN running' = 1 .. Len(running') /\ Chained(running', built')
    BY <1>2, <2>1, <2>2 DEF Rooted
  <2>4. ASSUME NEW e \in Children(Answering), running' = Append(running, e) PROVE e.agent.kind = "agent"
    <3>1. PICK F : running \in Seq(F)
      BY <1>1 DEF Rooted
    <3>2. running \in Seq(F \cup {e}) /\ Len(running) \in Nat
      BY <3>1
    <3>3. Last(running') = e
      BY <2>4, <3>2 DEF Last
    <3>4. e.agent.rule.floor = "auto"
      BY <1>6, <3>3
    <3> QED
      BY <1>3, <3>4 DEF Floored
  <2> QED
    BY <1>4, <1>6, <2>1, <2>3, <2>4 DEF Handing, Chained
<1>7. \/ \E e \in Children(Answering) : e.agent.rule.floor # "auto" /\ ShowHandoffCard(e.agent)
      \/ /\ \A e \in Children(Answering) : e.name = name => e.agent.rule.floor = "auto"
         /\ \E to \in Offered : Last(to).name = name /\ running' = to
         /\ confirmCard' = confirmCard
  BY DEF HandoffPolicy
<1> QED
  BY <1>2, <1>5, <1>6, <1>7 DEF Builds

LEMMA FactoryStep ==
    ASSUME FactoryInv, [FactoryNext]_factoryVars
    PROVE  FactoryInv' /\ [HandoffStep /\ CeilingStep]_factoryVars
<1>1. ASSUME UNCHANGED factoryVars PROVE FactoryInv'
  <2>1. PICK T : Closed(T) /\ Rooted(running, built, T)
    BY DEF FactoryInv
  <2>2. UNCHANGED <<skillRows, rootDoc, built, running>>
    BY <1>1 DEF factoryVars
  <2>3. Closed(T) /\ Rooted(running', built', T)
    BY <2>1, <2>2
  <2>4. /\ DOMAIN skillRows' = DOMAIN Variants /\ \A s \in DOMAIN Variants : skillRows'[s] \in Variants[s]
        /\ rootDoc' \in Policies
    BY <2>2 DEF FactoryInv
  <2> QED
    BY <2>3, <2>4, FactoryGoesOn
<1>2. ~Builds /\ Handing => HandoffStep /\ CeilingStep
  BY DEF HandoffStep, Handing, CeilingStep
<1> DEFINE Quiet == ~Builds /\ FactoryInv' /\ Handing
<1>3. ASSUME NEW name, HandoffPolicy(name) PROVE Quiet
  BY <1>3, PolicyHands
<1>4. ASSUME ProceedOnCard \/ FinishTurn PROVE Quiet
  <2>1. ~Builds /\ running' = <<>> /\ confirmCard' \in {None, confirmCard} /\ UNCHANGED <<skillRows, rootDoc>>
    BY <1>4 DEF ProceedOnCard, FinishTurn, Builds
  <2>2. Closed({}) /\ Rooted(running', built', {})
    BY <2>1, RootedEnds
  <2>3. FactoryInv'
    BY <2>1, <2>2, FactoryGoesOn DEF FactoryInv
  <2>4. Len(running') = 0
    BY <2>1
  <2> QED
    BY <2>1, <2>3, <2>4, HandsNobody
<1>5. ASSUME UNCHANGED <<built, running, confirmCard>>,
             DOMAIN skillRows' = DOMAIN Variants /\ \A s \in DOMAIN Variants : skillRows'[s] \in Variants[s],
             rootDoc' \in Policies
      PROVE  Quiet
  <2>1. FactoryInv'
    <3>1. PICK T : Closed(T) /\ Rooted(running, built, T)
      BY DEF FactoryInv
    <3>2. Rooted(running', built', T)
      BY <1>5, <3>1
    <3> QED
      BY <1>5, <3>1, <3>2, FactoryGoesOn
  <2> QED
    BY <1>5, <2>1, HandsNobody DEF Builds
<1>6. ASSUME NEW s \in DOMAIN Variants, EditSkillDoc(s) PROVE Quiet
  BY <1>5, <1>6 DEF EditSkillDoc, FactoryInv
<1>7. ASSUME EditRootDoc \/ \E s \in DOMAIN McpDocs : EditMcpDoc(s) PROVE Quiet
  BY <1>5, <1>7 DEF EditRootDoc, EditMcpDoc, FactoryInv
<1> HIDE DEF Quiet
<1>8. CASE FactoryNext
  <2>1. Quiet \/ (FactoryInv' /\ HandoffStep /\ CeilingStep)
    BY <1>3, <1>4, <1>6, <1>7, <1>8, SkillTurn, RootTurn DEF FactoryNext
  <2> QED
    BY <1>2, <2>1 DEF Quiet
<1> QED
  BY <1>1, <1>8

\* Outside the Root Agent a delegate is built to answer only where a declaration
\* says so and the user may access it, an agent hands down only to a delegate
\* that was, and whoever answers stands in the tree that was built; under the
\* Root Agent no agent of the tree exceeds its policy (HandoffsDeclared,
\* RootCeiling).
THEOREM AgentTreesAreBounded == FactorySpec => HandoffsDeclared /\ RootCeiling
<1>1. FactoryInv /\ [FactoryNext]_factoryVars =>
          FactoryInv' /\ [HandoffStep]_<<built, running, confirmCard>> /\ [CeilingStep]_built
  BY FactoryStep DEF factoryVars
<1> QED
  BY <1>1, FactoryStarts, PTL DEF FactorySpec, HandoffsDeclared, RootCeiling
-----------------------------------------------------------------------------
(* All of it together: a step of one part leaves the variables of the       *)
(* others alone, so that each component's invariant holds throughout.       *)
accessVars == <<part, factoryVars, policyVars, identityVars, groupVars, peerVars>>
AccessInv == PolicyInv /\ IdentityInv /\ GroupInv /\ PeerInv

LEMMA EachPartAlone ==
    ASSUME [AccessNext]_accessVars
    PROVE  /\ [FactoryNext]_factoryVars /\ [PolicyNext]_policyVars /\ [IdentityNext]_identityVars
           /\ [GroupNext]_groupVars /\ [PeerNext]_peerVars
BY Zenon DEF AccessNext, accessVars, PeerNext

LEMMA AccessStarts == AccessInit => AccessInv
<1>1. AccessInit => PolicyInit /\ IdentityInit /\ GroupInit /\ PeerInit
  BY Zenon DEF AccessInit
<1> QED
  BY <1>1, PolicyStarts, IdentityStarts, GroupStarts, PeerStarts DEF AccessInv

LEMMA AccessStep ==
    ASSUME AccessInv, [AccessNext]_accessVars
    PROVE  AccessInv' /\ CallStep /\ ForwardStep /\ VerifyStep
BY EachPartAlone, PolicyStep, CallNext, IdentityStep, VerifyNext, GroupStep, PeerStep DEF AccessInv

LEMMA AccessHolds == AccessInv => AccountsSound /\ PeersServed
BY GroupHolds, PeerHolds
   DEF AccessInv, PolicyInv, IdentityInv, OidcInv, AccountsSound, PeersServed

\* Of the whole system: agents served from the cache are the turn's own, a
\* login completes its own transaction, fresh keys are known, group codes
\* survive and the limiter keeps its bound (AccountsSound).
THEOREM AccessAccountsSound == AccessSpec => []AccountsSound
<1> QED
  BY AccessStarts, AccessStep, AccessHolds, PTL DEF AccessSpec, accessVars

\* Of the whole system: peers read their own tasks only, and every file they
\* send is stored or reported (PeersServed).
THEOREM AccessPeersServed == AccessSpec => []PeersServed
<1> QED
  BY AccessStarts, AccessStep, AccessHolds, PTL DEF AccessSpec, accessVars

\* Of the whole system: a tool runs, a proxied call is forwarded and a session
\* is opened only under the authorisation of that very moment
\* (NothingUnauthorized).
THEOREM AccessNothingUnauthorized == AccessSpec => NothingUnauthorized
<1>1. AccessInv /\ [AccessNext]_accessVars =>
          AccessInv' /\ [CallStep /\ ForwardStep /\ VerifyStep]_<<policyVars, peerVars, identityVars>>
  BY AccessStep
<1> QED
  BY <1>1, AccessStarts, PTL DEF AccessSpec, accessVars, NothingUnauthorized

(* The factory's documents exist in its own behaviours only.                *)
ScopesInv == part = "factory" => FactoryInv

LEMMA ScopesStart == AccessInit => ScopesInv
BY FactoryStarts, Zenon DEF AccessInit, ScopesInv

LEMMA ScopesStep ==
    ASSUME ScopesInv, [AccessNext]_accessVars
    PROVE  ScopesInv' /\ [HandoffStep /\ CeilingStep]_factoryVars
<1>1. CASE part = "factory" /\ FactoryNext /\ part' = part
  BY <1>1, FactoryStep DEF ScopesInv
<1>2. ASSUME UNCHANGED <<part, factoryVars>> PROVE ScopesInv'
  <2>1. CASE part = "factory"
    <3>1. [FactoryNext]_factoryVars
      BY <1>2
    <3> QED
      BY <2>1, <3>1, FactoryStep DEF ScopesInv
  <2>2. CASE part # "factory"
    BY <1>2, <2>2 DEF ScopesInv
  <2> QED
    BY <2>1, <2>2
<1> QED
  BY <1>1, <1>2, Zenon DEF AccessNext, accessVars

\* Of the whole system: agent trees stay within what is declared for them and,
\* under the Root Agent, within its policy (ScopesKept).
THEOREM AccessScopesKept == AccessSpec => ScopesKept
<1> QED
  BY ScopesStart, ScopesStep, PTL DEF AccessSpec, accessVars, ScopesKept
=============================================================================
