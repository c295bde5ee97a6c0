---------------------------- MODULE SurfaceAction ----------------------------
(***************************************************************************)
(* Admission of A2UI surface actions: POST surface-action-run              *)
(* (backend/protocols/a2ui_surface_action_run_routes.py) with the durable  *)
(* claim of backend/protocols/action_claims.py.                            *)
(*                                                                         *)
(* A submission is one HTTP request.  A double click, a second tab and a   *)
(* transport retry are further submissions for the same surface, the last  *)
(* with the same requestId.  They run on any number of backend instances,  *)
(* which share the session store and the claims collection and may crash.  *)
(***************************************************************************)
EXTENDS Naturals, FiniteSets, Store

CONSTANTS
    Submissions,   \* HTTP requests
    Surfaces,      \* surface ids of one session
    Requests       \* requestIds; None (Store) is no requestId

ASSUME NoneAssumption == None \notin Requests \cup Submissions

Kinds == {"one_time", "display_only", "reusable"}

VARIABLES
    surface,     \* surface of each submission
    requestId,   \* its requestId, or None
    pc,          \* where its handler stands
    seenKind,    \* the artifact kind claim_action read for it
    kind,        \* the saved artifact of each surface (session state)
    claims,      \* the documents of surface_action_claims
    lastAction,  \* a2ui_surface_context.{surfaceId}.lastAction (session state)
    \* History, read by the properties only.
    won,         \* submissions that passed claim_action
    ran,         \* submissions whose agent run was started
    restyled     \* surfaces whose artifact changed kind

inputs == <<surface, requestId>>
vars == <<inputs, pc, seenKind, kind, claims, lastAction, won, ran, restyled>>
-----------------------------------------------------------------------------
Init ==
    /\ surface \in [Submissions -> Surfaces]
    /\ requestId \in [Submissions -> Requests \cup {None}]
    /\ kind \in [Surfaces -> Kinds]
    /\ pc = [s \in Submissions |-> "gates"]
    /\ seenKind = [s \in Submissions |-> "reusable"]
    /\ claims = {} /\ lastAction = [x \in Surfaces |-> None]
    /\ won = {} /\ ran = {} /\ restyled = {}

Goto(s, from, to) == pc[s] = from /\ pc' = [pc EXCEPT ![s] = to]

(* The eight gates, the lighting and document checks, the agent build: all   *)
(* of them before anything is claimed or written.                            *)
PassGates(s) ==
    /\ Goto(s, "gates", "load")
    /\ UNCHANGED <<inputs, seenKind, kind, claims, lastAction, won, ran, restyled>>

Refuse(s) ==
    /\ Goto(s, "gates", "refused")
    /\ UNCHANGED <<inputs, seenKind, kind, claims, lastAction, won, ran, restyled>>

(* Faulty variant of LoadArtifact: the action is written before the claim.   *)
LoadAndWrite(s) ==
    /\ Goto(s, "load", "claim")
    /\ seenKind' = [seenKind EXCEPT ![s] = kind[surface[s]]]
    /\ lastAction' = [lastAction EXCEPT ![surface[s]] = s]
    /\ UNCHANGED <<inputs, kind, claims, won, ran, restyled>>

(* claim_action reads the saved artifact of the surface.                     *)
LoadArtifact(s) ==
    /\ Goto(s, "load", "claim")
    /\ seenKind' = [seenKind EXCEPT ![s] = kind[surface[s]]]
    /\ UNCHANGED <<inputs, kind, claims, lastAction, won, ran, restyled>>

(* Faulty variant of ClaimKey: a confirmation is claimed per request.        *)
KeyPerRequest(s) ==
    IF requestId[s] # None THEN <<"request", requestId[s]>> ELSE <<"nothing", None>>

(* The key a submission claims, if it claims anything.                       *)
ClaimKey(s) ==
    IF seenKind[s] = "one_time" THEN <<"surface", surface[s]>>
    ELSE IF requestId[s] # None THEN <<"request", requestId[s]>>
    ELSE <<"nothing", None>>

(* Faulty variant of NeedsClaim: every submission claims something.          *)
AlwaysClaims(s) == s \in Submissions

NeedsClaim(s) == ClaimKey(s)[1] # "nothing"

(* Faulty variant of Claim: only confirmations leave a claim behind.         *)
ClaimFormsOnly(s) ==
    /\ Goto(s, "claim", "write")
    /\ seenKind[s] # "display_only"
    /\ NeedsClaim(s) => ClaimKey(s) \notin claims
    /\ claims' = IF seenKind[s] = "one_time" THEN claims \cup {ClaimKey(s)} ELSE claims
    /\ won' = won \cup {s}
    /\ UNCHANGED <<inputs, seenKind, kind, lastAction, ran, restyled>>

(* create_document is atomic: of several creators of a key one succeeds.     *)
Claim(s) ==
    /\ Goto(s, "claim", "write")
    /\ seenKind[s] # "display_only"
    /\ NeedsClaim(s) => ClaimKey(s) \notin claims
    /\ claims' = IF NeedsClaim(s) THEN claims \cup {ClaimKey(s)} ELSE claims
    /\ won' = won \cup {s}
    /\ UNCHANGED <<inputs, seenKind, kind, lastAction, ran, restyled>>

(* 409: the surface is display-only, or the action was already submitted.    *)
Conflict(s) ==
    /\ Goto(s, "claim", "refused")
    /\ seenKind[s] = "display_only" \/ (NeedsClaim(s) /\ ClaimKey(s) \in claims)
    /\ UNCHANGED <<inputs, seenKind, kind, claims, lastAction, won, ran, restyled>>

(* _write_action_to_state.                                                   *)
WriteAction(s) ==
    /\ Goto(s, "write", "start")
    /\ lastAction' = [lastAction EXCEPT ![surface[s]] = s]
    /\ UNCHANGED <<inputs, seenKind, kind, claims, won, ran, restyled>>

(* The response body is iterated: the agent run starts.                      *)
StartRun(s) ==
    /\ Goto(s, "start", "running")
    /\ ran' = ran \cup {s}
    /\ UNCHANGED <<inputs, seenKind, kind, claims, lastAction, won, restyled>>

FinishRun(s) ==
    /\ Goto(s, "running", "done")
    /\ UNCHANGED <<inputs, seenKind, kind, claims, lastAction, won, ran, restyled>>

(* The instance dies, the store fails or the client leaves: the handler goes *)
(* no further.  What it claimed and wrote stays.                             *)
Lose(s) ==
    /\ pc[s] \in {"load", "claim", "write", "start", "running"}
    /\ pc' = [pc EXCEPT ![s] = "lost"]
    /\ UNCHANGED <<inputs, seenKind, kind, claims, lastAction, won, ran, restyled>>

(* _stash_surface_for_resume: a tool result renders the surface anew, perhaps *)
(* as another kind of artifact.                                               *)
Render(x, k) ==
    /\ kind[x] # k
    /\ kind' = [kind EXCEPT ![x] = k]
    /\ restyled' = restyled \cup {x}
    /\ UNCHANGED <<inputs, pc, seenKind, claims, lastAction, won, ran>>

Next ==
    \/ \E s \in Submissions :
        \/ PassGates(s) \/ Refuse(s) \/ LoadArtifact(s) \/ Claim(s) \/ Conflict(s)
        \/ WriteAction(s) \/ StartRun(s) \/ FinishRun(s) \/ Lose(s)
    \/ \E x \in Surfaces, k \in Kinds : Render(x, k)

Spec == Init /\ [][Next]_vars
-----------------------------------------------------------------------------
PCs == {"gates", "load", "claim", "write", "start", "running", "done", "refused", "lost"}

ActionTypeOK ==
    /\ surface \in [Submissions -> Surfaces]
    /\ requestId \in [Submissions -> Requests \cup {None}]
    /\ pc \in [Submissions -> PCs]
    /\ seenKind \in [Submissions -> Kinds] /\ kind \in [Surfaces -> Kinds]
    /\ claims \subseteq ({"surface", "request"} \X (Surfaces \cup Requests))
    /\ lastAction \in [Surfaces -> Submissions \cup {None}]
    /\ won \subseteq Submissions /\ ran \subseteq won /\ restyled \subseteq Surfaces

(* A confirmation form runs the agent at most once, whatever tabs, clicks    *)
(* and retries submit it and wherever a handler dies, as long as the surface *)
(* stays a confirmation form.                                                *)
ConfirmedOnce ==
    \A s, u \in ran :
        (s # u /\ surface[s] = surface[u] /\ kind[surface[s]] = "one_time") =>
            surface[s] \in restyled

(* A transport retry never starts a second run of the same request, as long  *)
(* as the surface keeps its kind.                                            *)
RetryRunsOnce ==
    \A s, u \in ran :
        (s # u /\ requestId[s] # None /\ requestId[s] = requestId[u]
               /\ surface[s] = surface[u]) => surface[s] \in restyled

(* A submission that did not win its claim leaves no trace in the session:   *)
(* the last action of a surface is one the claim let through.                *)
TraceIsClaimed == \A x \in Surfaces : lastAction[x] # None => lastAction[x] \in won
=============================================================================
