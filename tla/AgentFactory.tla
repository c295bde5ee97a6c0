---------------------------- MODULE AgentFactory ----------------------------
(***************************************************************************)
(* How a turn's agent is built from skill documents and how the model may  *)
(* hand the turn to another skill: tools are resolved, delegates are       *)
(* looked up and access-filtered, each delegate becomes a sub-agent or a   *)
(* stub, and a before-tool policy of each agent decides the transfers to   *)
(* its own delegates by their floors. ADK offers the parent and the peers  *)
(* as well, and no policy speaks for those.                                *)
(*                                                                         *)
(* adk/agent.py (the factory), agents/root_runtime.py (composition),       *)
(* adk/tools.py (resolvers), tools/mcp/registry.py, db/models (delegation) *)
(* A skill is a record; its tools are the set of names its document lists. *)
(***************************************************************************)
EXTENDS Integers, Sequences, FiniteSets, SequencesExt, Store

CONSTANTS
    Variants,      \* skill id -> the documents it may hold
    Policies,      \* Root Agent policies an administrator may save
    McpDocs,       \* MCP server id -> the documents it may hold, None for gone
    Visitor,       \* the requesting user's id
    Datastore,     \* TRUE iff VERTEX_AI_SEARCH_DATASTORE_ID is set
    EnforcerSet,   \* TRUE iff a budget enforcer is registered
    MaxSkillEdits  \* document edits in a behaviour

SkillFields == {"id", "owner", "slug", "public", "tools", "mcp", "model", "thinkingModel", "thinking",
                "subSkills", "job", "jobFloor", "delegation", "artifacts", "a2ui", "confirmation",
                "knowledge", "datastore", "root", "budget"}
AllowEntry == [ref : STRING, floor : {"auto", "confirm", "confirm_with_fields", "block"},
               fields : {"none", "valid", "unusable"}]
Delegation == [enabled : BOOLEAN, mode : {"auto", "suggest"}, allow : Seq(AllowEntry),
               maxDepth : Int, discoverJobs : BOOLEAN]
RootFields == {"skills", "tools", "mcp", "specialists", "model", "a2ui", "knowledge", "budget"}

\* Names of tools the factory adds itself; a server is another kind of thing.
BuiltinTools == {"read_attached_document", "artifacts", "load_skill", "search_agent_knowledge",
                 "send_a2ui", "request_confirmation"}

\* A document is stored under its own id, and only composition makes it a root.
ASSUME FactoryAssumption ==
    /\ MaxSkillEdits \in Nat /\ IsFiniteSet(DOMAIN Variants) /\ None # "ValueError"
    /\ \A s \in DOMAIN Variants : \A row \in Variants[s] :
           /\ DOMAIN row = SkillFields /\ row.id = s /\ row.root = FALSE
           /\ row.delegation \in Delegation /\ row.subSkills \in Seq(STRING)
    /\ \A policy \in Policies : DOMAIN policy = RootFields /\ policy.specialists \in Seq(STRING)
    /\ DOMAIN McpDocs \cap BuiltinTools = {}

VARIABLES
    skillRows,     \* the skills collection
    rootDoc,       \* the Root Agent configuration
    mcpRows,       \* the mcp_servers collection
    skillEdits,    \* edits made so far
    built,         \* the agent serving the current turn, or None
    running,       \* the agents from the turn's own to the one that answers, by name; or <<>>
    confirmCard,   \* the handoff card on screen: its target's id, or None
    consented      \* skills the user has proceeded to

factoryVars == <<skillRows, rootDoc, mcpRows, skillEdits, built, running,
                 confirmCard, consented>>

Registered == {"list_documents", "update_task_plan", "load_artifacts_tool"}
ModelAware == {"google_search", "ai_search", "code_execution"}
SetOf(s) == ToSet(s)

(***************************************************************************)
(* Looking skills up.                                                      *)
(***************************************************************************)

\* A reference is a document id or, failing that, a slug in the parent's
\* owner namespace.
ResolveDelegateSkill(ref, owner) ==
    LET named == {s \in DOMAIN skillRows : skillRows[s].owner = owner
                                           /\ skillRows[s].slug = ref}
    IN IF ref \in DOMAIN skillRows THEN skillRows[ref]
       ELSE IF named = {} THEN None ELSE skillRows[CHOOSE s \in named : TRUE]

\* The five-type evaluator, for the types a skill here has.
CanAccess(skill) == skill.public \/ skill.owner = Visitor

\* Unknown references are skipped, duplicates by resolved id are dropped, and
\* what the user may not access is dropped (deny by default).
ResolveAccessibleDelegates(refs, parent) ==
    LET Sub(n) == ResolveDelegateSkill(refs[n], parent.owner)
        kept[n \in 0 .. Len(refs)] ==
            IF n = 0 THEN <<>>
            ELSE IF \/ Sub(n) = None
                    \/ Sub(n).id \in {kept[n - 1][i].id : i \in DOMAIN kept[n - 1]}
                    \/ ~CanAccess(Sub(n))
            THEN kept[n - 1] ELSE Append(kept[n - 1], Sub(n))
    IN kept[Len(refs)]

FindJobs(owner) ==
    {skillRows[s] : s \in {k \in DOMAIN skillRows : skillRows[k].owner = owner
                                                    /\ skillRows[k].job}}

(***************************************************************************)
(* The delegation policy of a skill.                                       *)
(***************************************************************************)

(* Faulty variant of DefaultFloor: a bare entry may be called freely.       *)
DefaultFloorAuto(deleg) == "auto"

\* A bare entry of a suggesting block needs a confirmation.
DefaultFloor(deleg) == IF deleg.mode = "suggest" THEN "confirm" ELSE "auto"

\* Entries of allow and the legacy sub-skills as rules, one per reference,
\* the first occurrence kept.
DelegationRules(deleg, extra) ==
    LET Rule(e) == IF e.floor = "block" THEN [e EXCEPT !.floor = DefaultFloor(deleg)] ELSE e
        Bare(ref) == [ref |-> ref, floor |-> DefaultFloor(deleg), fields |-> "none"]
        entries == [i \in DOMAIN deleg.allow |-> Rule(deleg.allow[i])]
                   \o [i \in DOMAIN extra |-> Bare(extra[i])]
        out[n \in 0 .. Len(entries)] ==
            IF n = 0 THEN <<>>
            ELSE IF entries[n].ref \in {out[n - 1][i].ref : i \in DOMAIN out[n - 1]}
            THEN out[n - 1] ELSE Append(out[n - 1], entries[n])
    IN out[Len(entries)]

\* Jobs discovered in the owner's namespace join the rules at their own
\* floor unless a rule already names their id.
DiscoveredRules(skill, rules) ==
    LET jobs == {j \in FindJobs(skill.owner) :
                    j.id # skill.id /\ j.id \notin {rules[i].ref : i \in DOMAIN rules}}
        order == SetToSeq(jobs)
    IN [i \in DOMAIN order |-> [ref |-> order[i].id, floor |-> order[i].jobFloor,
                                fields |-> "none"]]

\* (skill, rule) for every reachable delegate; of the rules that resolve to
\* one delegate the last one wins.
AccessibleDelegateRules(skill) ==
    LET deleg == skill.delegation
        listed == DelegationRules(deleg, IF deleg.allow = <<>> THEN skill.subSkills ELSE <<>>)
        rules == IF deleg.enabled /\ deleg.discoverJobs
                 THEN listed \o DiscoveredRules(skill, listed) ELSE listed
        subs == ResolveAccessibleDelegates([i \in DOMAIN rules |-> rules[i].ref], skill)
        Of(id) == {i \in DOMAIN rules :
                      LET r == ResolveDelegateSkill(rules[i].ref, skill.owner)
                      IN r # None /\ r.id = id}
        Final(id) == rules[CHOOSE i \in Of(id) : \A j \in Of(id) : j <= i]
    IN IF ~deleg.enabled /\ skill.subSkills = <<>> THEN <<>>
       ELSE [i \in DOMAIN subs |-> [skill |-> subs[i], rule |-> Final(subs[i].id)]]

\* The slug (else the id) as an identifier, made unique by a suffix.
SafeAgentName(id) == id
DelegateAgentName(skill, taken) ==
    LET base == IF skill.slug = "" THEN SafeAgentName(skill.id) ELSE skill.slug
        i == CHOOSE k \in 1 .. Cardinality(taken) + 1 :
                 /\ <<base, k>> \notin taken
                 /\ \A j \in 1 .. k - 1 : <<base, j>> \in taken
    IN <<base, i>>

(***************************************************************************)
(* The tools of an agent.                                                  *)
(***************************************************************************)

\* Every listed name is registered, model-aware or skipped; an unknown name
\* is an error.
ResolveTools(names) ==
    IF names \ (Registered \cup ModelAware \cup {"structured_extraction", "mcp"}) # {}
    THEN [error |-> "ValueError", tools |-> {}]
    ELSE [error |-> None, tools |-> names \cap Registered]

\* Web search always resolves; enterprise search needs a datastore of the
\* skill's or of the deployment's.
ResolveSearchTools(names, skill) ==
    (names \cap {"google_search"})
    \cup {t \in names \cap {"ai_search"} : skill.datastore \/ Datastore}

\* Only a Gemini skill whose sole tool is code execution runs it natively;
\* any other skill delegates to a code sub-agent.
UsesBuiltinExecutor(names, model) == names = {"code_execution"} /\ model = "gemini"
ResolveCodeExecutor(names, model) ==
    IF "code_execution" \in names /\ ~UsesBuiltinExecutor(names, model)
    THEN {"code_execution"} ELSE {}

\* A server without a document, disabled, without a url or with an unset
\* header secret is missing; one missing server fails the whole build.
BuildToolset(doc) == doc # None /\ doc.enabled /\ doc.url /\ doc.secret
ResolveMcpTools(servers) ==
    IF \E s \in servers : ~BuildToolset(mcpRows[s])
    THEN [error |-> "McpServerResolutionError", tools |-> {}]
    ELSE [error |-> None, tools |-> servers]

\* A planner is attached to a single-model Gemini skill, at its own depth.
PlannerFor(skill) ==
    IF skill.thinkingModel # None \/ skill.model # "gemini" THEN None ELSE skill.thinking
PlannerAt(depth, model) == IF model = "gemini" THEN depth ELSE None

\* The factory's tool list, emptied when the native executor is used.
AgentTools(skill, model) ==
    LET names == skill.tools
        builtin == UsesBuiltinExecutor(names, model)
        plain == ResolveTools(names)
        mcp == ResolveMcpTools(skill.mcp)
        defaults == (IF builtin THEN {} ELSE {"read_attached_document"})
                    \cup (IF skill.artifacts /\ ~builtin THEN {"artifacts"} ELSE {})
        root == IF skill.root
                THEN {"load_skill"} \cup (IF skill.knowledge # {} THEN {"search_agent_knowledge"} ELSE {})
                ELSE {}
        ui == (IF skill.a2ui THEN {"send_a2ui"} ELSE {})
              \cup (IF skill.confirmation THEN {"request_confirmation"} ELSE {})
    IN IF plain.error # None THEN plain
       ELSE IF mcp.error # None THEN mcp
       ELSE [error |-> None,
             tools |-> IF builtin THEN {}
                       ELSE defaults \cup plain.tools \cup ResolveSearchTools(names, skill)
                            \cup mcp.tools \cup root \cup ui
                            \cup ResolveCodeExecutor(names, model)]

\* Budget callbacks: a Root Agent with budget control needs an enforcer.
BudgetError(skill) ==
    IF skill.root /\ skill.budget /\ ~EnforcerSet THEN "ValueError" ELSE None

(* Faulty variant of ComposeRootSkill: the delegates are not restricted.    *)
ComposeRootSkillKeepsDelegates(skill, policy) ==
    [skill EXCEPT !.root = TRUE, !.tools = policy.tools, !.mcp = policy.mcp,
                  !.knowledge = policy.knowledge, !.budget = policy.budget]

(***************************************************************************)
(* The Root Agent's policy composed over one capability: tools, MCP        *)
(* servers, delegation and model come from the policy alone.               *)
(***************************************************************************)
ComposeRootSkill(skill, policy) ==
    [skill EXCEPT
        !.root = TRUE, !.tools = policy.tools, !.mcp = policy.mcp,
        !.model = IF policy.model = None THEN @ ELSE policy.model,
        !.thinkingModel = None, !.subSkills = <<>>,
        !.delegation = [enabled |-> policy.specialists # <<>>, mode |-> "auto",
                        allow |-> [i \in DOMAIN policy.specialists |->
                                     [ref |-> policy.specialists[i], floor |-> "block",
                                      fields |-> "none"]],
                        maxDepth |-> 1, discoverJobs |-> FALSE],
        !.artifacts = "load_artifacts_tool" \in policy.tools,
        !.a2ui = policy.a2ui, !.confirmation = policy.a2ui,
        !.knowledge = policy.knowledge, !.budget = policy.budget]

\* The entries of a list that are in S, in their order.
OnlyIn(list, S) ==
    LET kept[n \in 0 .. Len(list)] ==
            IF n = 0 THEN <<>>
            ELSE IF list[n] \in S THEN Append(kept[n - 1], list[n]) ELSE kept[n - 1]
    IN kept[Len(list)]

\* The policy a user gets: skills they may access, servers that are enabled,
\* specialists among those skills.
AuthorizedRootConfig ==
    LET skills == {s \in rootDoc.skills : s \in DOMAIN skillRows /\ CanAccess(skillRows[s])}
    IN [rootDoc EXCEPT
           !.skills = skills,
           !.mcp = {s \in @ : mcpRows[s] # None /\ mcpRows[s].enabled},
           !.specialists = OnlyIn(@, skills)]

\* The identity a plain Root Agent turn runs as.
RootAgentSkill(policy) ==
    [id |-> "root-agent", owner |-> "platform", slug |-> "", public |-> TRUE,
     tools |-> {}, mcp |-> {}, model |-> policy.model, thinkingModel |-> None,
     thinking |-> "dynamic", subSkills |-> <<>>, job |-> FALSE, jobFloor |-> "confirm",
     delegation |-> [enabled |-> FALSE, mode |-> "auto", allow |-> <<>>, maxDepth |-> 1,
                     discoverJobs |-> FALSE],
     artifacts |-> TRUE, a2ui |-> TRUE, confirmation |-> TRUE, knowledge |-> {},
     datastore |-> FALSE, root |-> FALSE, budget |-> FALSE]

(***************************************************************************)
(* The factory.                                                            *)
(***************************************************************************)
Failed(id, error) == [error |-> error, id |-> id]

\* A delegate under the Root Agent is composed again, without specialists of
\* its own but with its own model.
DelegateSkill(underRoot, sub) ==
    IF ~underRoot THEN sub
    ELSE ComposeRootSkill(sub, [AuthorizedRootConfig EXCEPT !.model = sub.model,
                                                            !.specialists = <<>>])

With(subs, name, sub) == [n \in DOMAIN subs \cup {name} |-> IF n = name THEN sub ELSE subs[n]]

\* One delegate joins the ones wired so far. acc: the sub-agents by name, the
\* names taken and the first hard error; child: what the factory made of it.
WireDelegate(acc, skill, rule, name, child) ==
    IF acc.error # None THEN acc
    ELSE IF rule.floor # "auto"
    THEN [acc EXCEPT !.taken = @ \cup {name},
                     !.subs = With(@, name, [error |-> None, kind |-> "stub", id |-> skill.id,
                                             rule |-> rule])]
    ELSE IF child.error = "ValueError" THEN [acc EXCEPT !.error = "ValueError"]
    ELSE IF child.error # None THEN [acc EXCEPT !.taken = @ \cup {name}]
    ELSE [acc EXCEPT !.taken = @ \cup {name},
                     !.subs = With(@, name, [child EXCEPT !.rule = rule])]

\* The rules of a skill wired one after the other; under the Root Agent only
\* those to its specialists. made: what the factory makes of a stored skill
\* behind a given stack.
WireDelegates(skill, seen, made, rules) ==
    LET Wire(acc, sub, r) ==
            WireDelegate(acc, sub, r.rule, DelegateAgentName(sub, acc.taken),
                         made[[id |-> r.skill.id, underRoot |-> skill.root, seen |-> seen]])
        wired[n \in 0 .. Len(rules)] ==
            IF n = 0 THEN [error |-> None, taken |-> {}, subs |-> <<>>]
            ELSE IF skill.root /\ rules[n].skill.id \notin SetOf(AuthorizedRootConfig.specialists)
            THEN wired[n - 1]
            ELSE Wire(wired[n - 1], DelegateSkill(skill.root, rules[n].skill), rules[n])
    IN wired[Len(rules)]

\* The delegates of a skill whose depth on the stack is below its own bound.
Delegates(skill, seen, made) ==
    WireDelegates(skill, seen, made,
                  IF Cardinality(seen) - 1 < skill.delegation.maxDepth
                  THEN AccessibleDelegateRules(skill) ELSE <<>>)

\* create_agent: a skill already on the stack is a cycle; any error of the
\* tools, the delegates or the budget check fails the build.
Assembled(skill, model, seen, tools, delegates) ==
    CASE skill.id \in seen -> Failed(skill.id, "ValueError")
      [] skill.id \notin seen /\ tools.error # None -> Failed(skill.id, tools.error)
      [] skill.id \notin seen /\ tools.error = None /\ delegates.error # None ->
           Failed(skill.id, delegates.error)
      [] OTHER ->
           IF BudgetError(skill) # None THEN Failed(skill.id, "ValueError")
           ELSE [error |-> None, kind |-> "agent", id |-> skill.id, root |-> skill.root,
                 model |-> model, tools |-> tools.tools, planner |-> PlannerFor(skill),
                 subs |-> delegates.subs, rule |-> None]
Created(skill, model, seen, made) ==
    Assembled(skill, model, seen, AgentTools(skill, model),
              Delegates(skill, seen \cup {skill.id}, made))

\* The recursion of create_agent: what it makes of each stored skill when at
\* most n more agents fit on the stack. With every id on it, all is a cycle.
FactoryIds == DOMAIN skillRows \cup {"root-agent"}
Stacked == [id : DOMAIN skillRows, underRoot : BOOLEAN, seen : SUBSET FactoryIds]
StackedAgents[n \in 0 .. Cardinality(FactoryIds)] ==
    [x \in Stacked |->
        LET sub == DelegateSkill(x.underRoot, skillRows[x.id])
        IN IF n = 0 THEN Failed(sub.id, "ValueError")
           ELSE Created(sub, sub.model, x.seen, StackedAgents[n - 1])]
CreateAgent(skill, model) == Created(skill, model, {}, StackedAgents[Cardinality(FactoryIds)])

\* The three-tier strategy: with a thinking model two agents are built and
\* the message decides between them.
PickAgent(fast, thinking, deep) == IF deep THEN thinking ELSE fast
PickBuilt(skill, fast, thinking, deep) ==
    IF fast.error # None \/ skill.thinkingModel = None THEN fast
    ELSE IF thinking.error # None THEN thinking
    ELSE PickAgent([fast EXCEPT !.planner = PlannerAt(skill.thinking, skill.model)],
                   [thinking EXCEPT !.planner = PlannerAt("dynamic", skill.thinkingModel)], deep)
CreateAgentWithThinking(skill, deep) ==
    PickBuilt(skill, CreateAgent(skill, skill.model), CreateAgent(skill, skill.thinkingModel), deep)

(***************************************************************************)
(* Turns.                                                                  *)
(***************************************************************************)
FactoryInit ==
    /\ skillRows \in {f \in [DOMAIN Variants -> UNION {Variants[s] : s \in DOMAIN Variants}] :
                          \A s \in DOMAIN Variants : f[s] \in Variants[s]}
    /\ rootDoc \in Policies
    /\ mcpRows \in {f \in [DOMAIN McpDocs -> UNION {McpDocs[s] : s \in DOMAIN McpDocs}] :
                        \A s \in DOMAIN McpDocs : f[s] \in McpDocs[s]}
    /\ skillEdits = 0
    /\ built = None /\ running = <<>> /\ confirmCard = None /\ consented = {}

Named(name, agent) == [name |-> name, agent |-> agent]
Serve(agent) ==
    /\ built' = agent
    /\ running' = IF agent.error = None THEN <<Named(<<SafeAgentName(agent.id), 1>>, agent)>> ELSE <<>>

\* A turn on a skill's own configuration (the platform's MCP endpoint). The
\* heuristic may send the message to the thinking agent.
StartSkillTurn(s) ==
    /\ built = None
    /\ CanAccess(skillRows[s])
    /\ \E deep \in BOOLEAN :
          /\ deep => skillRows[s].thinkingModel # None
          /\ Serve(CreateAgentWithThinking(skillRows[s], deep))
    /\ UNCHANGED <<skillRows, rootDoc, mcpRows, skillEdits, confirmCard, consented>>

\* A Root Agent turn, plain or with a requested capability from its list.
StartRootTurn ==
    /\ built = None
    /\ LET policy == AuthorizedRootConfig
       IN \E skill \in {RootAgentSkill(policy)} \cup {skillRows[s] : s \in policy.skills} :
             Serve(CreateAgentWithThinking(ComposeRootSkill(skill, policy), FALSE))
    /\ UNCHANGED <<skillRows, rootDoc, mcpRows, skillEdits, confirmCard, consented>>

\* A confirm floor answers the transfer with a card and skips the tool; a
\* form without usable fields degrades to a plain confirmation.
EnvelopeKind(rule) ==
    IF rule.floor = "confirm_with_fields" /\ rule.fields = "valid"
    THEN "confirm_with_fields" ELSE "confirm"
ShowHandoffCard(sub) ==
    /\ confirmCard' = [target |-> sub.id, kind |-> EnvelopeKind(sub.rule)]
    /\ UNCHANGED running

\* The agents below one, by name; a stub has none.
Children(agent) ==
    IF agent.kind = "agent" THEN {Named(n, agent.subs[n]) : n \in DOMAIN agent.subs} ELSE {}
Answering == Last(running).agent

\* Whom ADK lets the answering agent transfer to: its sub-agents, its parent
\* and its peers.
Offered ==
    {Append(running, e) : e \in Children(Answering)}
    \cup IF Len(running) = 1 THEN {}
         ELSE {Front(running)} \cup {Append(Front(running), e) :
                                       e \in Children(Last(Front(running)).agent) \ {Last(running)}}

(* Faulty variant of HandoffPolicy: the delegate's floor is not looked at.   *)
HandoffPolicyOpen(name) ==
    /\ running # <<>>
    /\ \E to \in Offered : Last(to).name = name /\ running' = to
    /\ UNCHANGED <<skillRows, rootDoc, mcpRows, skillEdits, built, confirmCard, consented>>

\* The model calls transfer_to_agent with a name. The policy answers for the
\* delegates of the answering agent; any other transfer is ADK's, which finds
\* an agent of that name, either one where two share it.
HandoffPolicy(name) ==
    /\ running # <<>>
    /\ LET asks == {e \in Children(Answering) : e.name = name /\ e.agent.rule.floor # "auto"}
       IN \/ \E e \in asks : ShowHandoffCard(e.agent)
          \/ /\ asks = {}
             /\ \E to \in Offered : Last(to).name = name /\ running' = to
             /\ UNCHANGED confirmCard
    /\ UNCHANGED <<skillRows, rootDoc, mcpRows, skillEdits, built, consented>>

\* Proceed on the card switches the page to the target skill.
ProceedOnCard ==
    /\ confirmCard # None
    /\ consented' = consented \cup {confirmCard.target}
    /\ confirmCard' = None /\ built' = None /\ running' = <<>>
    /\ UNCHANGED <<skillRows, rootDoc, mcpRows, skillEdits>>

FinishTurn ==
    /\ built # None
    /\ built' = None /\ running' = <<>>
    /\ UNCHANGED <<skillRows, rootDoc, mcpRows, skillEdits, confirmCard, consented>>

\* Authors and administrators edit documents at any time.
EditSkillDoc(s) ==
    /\ skillEdits < MaxSkillEdits
    /\ \E row \in Variants[s] \ {skillRows[s]} : skillRows' = [skillRows EXCEPT ![s] = row]
    /\ skillEdits' = skillEdits + 1
    /\ UNCHANGED <<rootDoc, mcpRows, built, running, confirmCard, consented>>

EditRootDoc ==
    /\ skillEdits < MaxSkillEdits
    /\ rootDoc' \in Policies \ {rootDoc}
    /\ skillEdits' = skillEdits + 1
    /\ UNCHANGED <<skillRows, mcpRows, built, running, confirmCard, consented>>

EditMcpDoc(s) ==
    /\ skillEdits < MaxSkillEdits
    /\ \E doc \in McpDocs[s] \ {mcpRows[s]} : mcpRows' = [mcpRows EXCEPT ![s] = doc]
    /\ skillEdits' = skillEdits + 1
    /\ UNCHANGED <<skillRows, rootDoc, built, running, confirmCard, consented>>

FactoryNext ==
    \/ \E s \in DOMAIN Variants : StartSkillTurn(s) \/ EditSkillDoc(s)
    \/ StartRootTurn
    \/ running # <<>> /\ \E name \in {Last(to).name : to \in Offered} : HandoffPolicy(name)
    \/ ProceedOnCard \/ FinishTurn \/ EditRootDoc
    \/ \E s \in DOMAIN McpDocs : EditMcpDoc(s)

FactorySpec == FactoryInit /\ [][FactoryNext]_factoryVars

(***************************************************************************)
(* Properties.                                                             *)
(***************************************************************************)
Below(agent) == {agent.subs[n] : n \in DOMAIN agent.subs}
Pairs(agent) ==
    {<<agent, sub>> : sub \in Below(agent)}
    \cup UNION {{<<a, sub>> : sub \in Below(a)} : a \in {b \in Below(agent) : b.kind = "agent"}}

\* The floors a skill's own document declares for a delegate, under its id or
\* its slug, and the floor the delegate declares for itself as a job.
ListedFloors(skill, sub) ==
    {LET e == skill.delegation.allow[i]
     IN IF e.floor = "block" THEN (IF skill.delegation.mode = "suggest" THEN "confirm" ELSE "auto")
        ELSE e.floor :
       i \in {k \in DOMAIN skill.delegation.allow :
                 skill.delegation.allow[k].ref \in {sub.id, sub.slug}}}
OwnFloors(skill, sub) ==
    (IF skill.delegation.discoverJobs /\ sub.job THEN {sub.jobFloor} ELSE {})
    \cup (IF skill.delegation.allow = <<>> /\ {sub.id, sub.slug} \cap SetOf(skill.subSkills) # {}
          THEN {IF skill.delegation.mode = "suggest" THEN "confirm" ELSE "auto"} ELSE {})

Builds == built = None /\ built' # None /\ built'.error = None
UnderRoot(agent) == agent.root

\* Outside the Root Agent a delegate is built to answer inside its parent's
\* turn only when the user may access it and some declaration sets its floor
\* to auto; every other delegate is a stub, without tools or instructions. An
\* agent hands down only to a delegate whose floor is auto, the others get a
\* card of their own, and whoever answers stands in the tree that was built.
\* Transfers to a parent or a peer are not the policy's: a peer may be a stub.
HandoffStep ==
    /\ Builds /\ ~UnderRoot(built') =>
          \A p \in Pairs(built') :
              LET parent == skillRows[p[1].id]
                  child == skillRows[p[2].id]
              IN /\ CanAccess(child)
                 /\ p[2].kind = "agent" =>
                        "auto" \in ListedFloors(parent, child) \cup OwnFloors(parent, child)
    /\ \A i \in DOMAIN running' :
          IF i = 1 THEN running'[1].agent = built' /\ built'.kind = "agent"
          ELSE running'[i].agent \in Below(running'[i - 1].agent)
    /\ running # <<>> => \A e \in Children(Answering) : running' = Append(running, e) => e.agent.kind = "agent"
    /\ confirmCard' \notin {None, confirmCard} =>
          \E e \in Children(Answering) : e.agent.kind = "stub" /\ e.agent.id = confirmCard'.target
HandoffsDeclared == [][HandoffStep]_<<built, running, confirmCard>>

\* Under the Root Agent no agent of the tree has a registered tool or an MCP
\* server outside the Root policy, whatever the capability's own document
\* lists, and every specialist is bound there and has no specialists.
CeilingStep ==
    Builds /\ UnderRoot(built') =>
        LET tree == {built'} \cup {p[2] : p \in Pairs(built')}
        IN \A a \in tree :
              /\ a.kind = "agent"
              /\ a.tools \cap (Registered \cup ModelAware \cup DOMAIN McpDocs)
                     \subseteq rootDoc.tools \cup rootDoc.mcp
              /\ a # built' => a.id \in SetOf(rootDoc.specialists) /\ Below(a) = {}
RootCeiling == [][CeilingStep]_built
=============================================================================
