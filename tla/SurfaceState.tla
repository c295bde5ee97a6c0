----------------------------- MODULE SurfaceState -----------------------------
(***************************************************************************)
(* What the surfaces of one session are made of, and who writes it:        *)
(*   - a running agent turn: backend/adk/callbacks.py stashes every render *)
(*     (_stash_surface_for_resume), adk/elicitation.py asks the user and   *)
(*     reads the form back, tools/task_plan.py reports plans;              *)
(*   - the browser, through protocols/a2ui_surface_data_routes.py,         *)
(*     a2ui_surface_action_routes.py and iframe_context_routes.py.         *)
(*                                                                         *)
(* A turn works on the session object it loaded; its writes go into that   *)
(* object and into the delta of the event it appends next.  append_event   *)
(* (the session service, external) merges a delta key by key into what is  *)
(* persisted, so the last writer of a key wins.                            *)
(*                                                                         *)
(* Surfaces are the tools' artefacts and the forms 1, 2, ... of the        *)
(* elicitations.  Renders are numbered in the order they are made; the     *)
(* number also stands for the time of the render.                          *)
(***************************************************************************)
EXTENDS Integers, Sequences, FiniteSets, Store

CONSTANTS
    Artefacts,      \* surfaces of render tools
    MaxForms,       \* bound: elicitations of the session
    MaxRenders,     \* bound: renders and reports of the session
    SurfaceTurns,   \* agent turns
    SurfaceClients, \* requests of the browser
    StepLists,      \* step statuses a plan is reported with
    PlanLimit,      \* plans a session may have (25)
    Overlap         \* whether two turns of the session may run at once

ASSUME SurfaceAssumption ==
    /\ MaxForms \in Nat /\ MaxRenders \in Nat /\ PlanLimit \in Nat
    /\ Overlap \in BOOLEAN
    /\ None \notin [render : 1..MaxRenders, edit : SurfaceClients \cup {None}, created : 1..MaxRenders]
    /\ None \notin 1..MaxForms /\ None \notin {"blank", "value"}

VARIABLES
    persisted,  \* the session's state as stored
    held,       \* a turn's session.state
    delta,      \* a turn's writes since the last event it appended
    turnAt,     \* new, seeded, running, pausing, ended, cut
    trigger,    \* a2ui_action_trigger: the surface whose action started the turn
    filled,     \* the browser's data models of the forms
    posting,    \* what a request has read and will write
    renders,    \* renders made so far
    rowStatus,  \* taskStatus of the session's index row
    readBack    \* history: the form a turn took its values from

surfaceVars == <<persisted, held, delta, turnAt, trigger, filled, posting, renders, rowStatus, readBack>>

SessionForms == 1..MaxForms
SessionSurfaces == Artefacts \cup SessionForms
Stash(s) == <<"a2ui_surface", s>>
LastAction(s) == <<"lastAction", s>>
Plan(p) == <<"task_plan", p>>
ElicitSeq == <<"_elicit_seq", 0>>
IframeContext == <<"mcp_app_context", 0>>
FormData == <<"a2ui_forms", 0>>
StateKeys == {Stash(s) : s \in SessionSurfaces} \cup {LastAction(s) : s \in SessionSurfaces}
                \cup {Plan(p) : p \in 1..PlanLimit} \cup {ElicitSeq, IframeContext, FormData}

Empty == [k \in StateKeys |-> IF k = ElicitSeq THEN 0 ELSE None]

SurfaceInit ==
    /\ persisted = Empty
    /\ held = [t \in SurfaceTurns |-> Empty]
    /\ delta = [t \in SurfaceTurns |-> <<>>]
    /\ turnAt = [t \in SurfaceTurns |-> "new"]
    /\ trigger = [t \in SurfaceTurns |-> None]
    /\ filled = [f \in SessionForms |-> None]
    /\ posting = [c \in SurfaceClients |-> None]
    /\ renders = 0
    /\ rowStatus = "unplanned"
    /\ readBack = [t \in SurfaceTurns |-> None]
-----------------------------------------------------------------------------
(* Requests. A gate that refuses a request ends it before it has touched    *)
(* anything; "open" is a request that passes every one.                     *)
RootGate == [no_session |-> 404, viewer |-> 403, policy_unavailable |-> 503,
             capability_denied |-> 403, interaction_off |-> 403]

SizeGate == [not_serializable |-> 400, too_large |-> 413]

DataModelGate == [not_serializable |-> 400, too_large |-> 413]

Gates == DOMAIN RootGate \cup DOMAIN SizeGate \cup {"open"}

Answered(c, status) == posting' = [posting EXCEPT ![c] = [status |-> status]]

Refused(c, gate) ==
    /\ gate # "open"
    /\ Answered(c, IF gate \in DOMAIN RootGate THEN RootGate[gate] ELSE SizeGate[gate])
    /\ UNCHANGED <<persisted, held, delta, turnAt, trigger, filled, renders, rowStatus, readBack>>

(* post_surface_data up to get_session: the entry as it is now is what the  *)
(* edit will be put into; only a surface that is stashed can be edited.     *)
PostSurfaceData(c, s, edit) ==
    /\ posting[c] = None
    /\ IF persisted[Stash(s)] = None THEN Answered(c, 404)
       ELSE posting' = [posting EXCEPT ![c] =
                [status |-> 0, surface |-> s, payload |-> [persisted[Stash(s)] EXCEPT !.edit = edit]]]
    /\ UNCHANGED <<persisted, held, delta, turnAt, trigger, filled, renders, rowStatus, readBack>>

(* Faulty variant of SurfaceDataAppends: the entry is rebuilt around the edit. *)
SurfaceDataRestamps(c) ==
    /\ posting[c] # None /\ posting[c].status = 0
    /\ persisted' = [persisted EXCEPT ![Stash(posting[c].surface)] =
                        [posting[c].payload EXCEPT !.created = renders]]
    /\ Answered(c, 204)
    /\ UNCHANGED <<held, delta, turnAt, trigger, filled, renders, rowStatus, readBack>>

(* Its append_event: the whole entry is written back.                       *)
SurfaceDataAppends(c) ==
    /\ posting[c] # None /\ posting[c].status = 0
    /\ persisted' = [persisted EXCEPT ![Stash(posting[c].surface)] = posting[c].payload]
    /\ Answered(c, 204)
    /\ UNCHANGED <<held, delta, turnAt, trigger, filled, renders, rowStatus, readBack>>

(* post_surface_action: the action overwrites the surface's last one.       *)
PostSurfaceAction(c, s) ==
    /\ posting[c] = None
    /\ persisted' = [persisted EXCEPT ![LastAction(s)] = c]
    /\ Answered(c, 204)
    /\ UNCHANGED <<held, delta, turnAt, trigger, filled, renders, rowStatus, readBack>>

(* post_iframe_context: an empty push writes nothing.                       *)
PostIframeContext(c, empty) ==
    /\ posting[c] = None
    /\ persisted' = IF empty THEN persisted ELSE [persisted EXCEPT ![IframeContext] = c]
    /\ Answered(c, 204)
    /\ UNCHANGED <<held, delta, turnAt, trigger, filled, renders, rowStatus, readBack>>

(* The user edits a form in the browser: its fields hold a value or are     *)
(* blank.                                                                   *)
FillForm(f, value) ==
    /\ filled[f] # None
    /\ filled' = [filled EXCEPT ![f] = value]
    /\ UNCHANGED <<persisted, held, delta, turnAt, trigger, posting, renders, rowStatus, readBack>>
-----------------------------------------------------------------------------
Busy == \E t \in SurfaceTurns : turnAt[t] \in {"seeded", "running", "pausing"}

(* The surface-action-run endpoint writes the action of a surface on screen *)
(* before its turn loads the session; a chat turn has nothing to write.     *)
SeedTurn(t, s) ==
    /\ turnAt[t] = "new" /\ (Overlap \/ ~Busy)
    /\ s \in SessionForms => filled[s] # None
    /\ persisted' = IF s = None THEN persisted ELSE [persisted EXCEPT ![LastAction(s)] = t]
    /\ trigger' = [trigger EXCEPT ![t] = s]
    /\ turnAt' = [turnAt EXCEPT ![t] = "seeded"]
    /\ UNCHANGED <<held, delta, filled, posting, renders, rowStatus, readBack>>

(* _capture_a2ui_submission: a form submission is kept for later turns.     *)
CaptureSubmission(t, state) ==
    IF trigger[t] \in SessionForms THEN [state EXCEPT ![FormData] = trigger[t]] ELSE state

(* The runner loads the session and calls before_agent.                     *)
TurnLoads(t) ==
    /\ turnAt[t] = "seeded"
    /\ held' = [held EXCEPT ![t] = CaptureSubmission(t, persisted)]
    /\ delta' = [delta EXCEPT ![t] = IF trigger[t] \in SessionForms THEN [k \in {FormData} |-> trigger[t]] ELSE <<>>]
    /\ turnAt' = [turnAt EXCEPT ![t] = "running"]
    /\ UNCHANGED <<persisted, trigger, filled, posting, renders, rowStatus, readBack>>

(* A state, or a delta, with the keys of a change put over it.              *)
Merged(change, state) ==
    [k \in DOMAIN change \cup DOMAIN state |-> IF k \in DOMAIN change THEN change[k] ELSE state[k]]

Writes(t, change) ==
    /\ held' = [held EXCEPT ![t] = Merged(change, @)]
    /\ delta' = [delta EXCEPT ![t] = Merged(change, @)]

(* The entry _stash_surface_for_resume writes: latest content, original     *)
(* position, no client edit.                                                *)
StashedEntry(t, s) ==
    LET previous == held[t][Stash(s)]
    IN  [render |-> renders + 1, edit |-> None,
         created |-> IF previous = None THEN renders + 1 ELSE previous.created]

(* A render tool's result is emitted and stashed.                           *)
RenderArtefact(t, s) ==
    /\ turnAt[t] = "running" /\ renders < MaxRenders
    /\ Writes(t, [k \in {Stash(s)} |-> StashedEntry(t, s)])
    /\ renders' = renders + 1
    /\ UNCHANGED <<persisted, turnAt, trigger, filled, posting, rowStatus, readBack>>

(* next_elicit_seq.                                                         *)
NextElicitSeq(t) == held[t][ElicitSeq] + 1

(* _pause_turn_after_elicitation: the turn ends on the form.                *)
PauseTurn(t) == turnAt' = [turnAt EXCEPT ![t] = "pausing"]

(* request_confirmation: a form of its own is rendered, with every field    *)
(* seeded blank in the browser.                                             *)
RequestConfirmation(t) ==
    /\ turnAt[t] = "running" /\ renders < MaxRenders /\ NextElicitSeq(t) \in SessionForms
    /\ Writes(t, [k \in {ElicitSeq, Stash(NextElicitSeq(t))} |->
                    IF k = ElicitSeq THEN NextElicitSeq(t) ELSE StashedEntry(t, NextElicitSeq(t))])
    /\ filled' = [filled EXCEPT ![NextElicitSeq(t)] = "blank"]
    /\ renders' = renders + 1
    /\ PauseTurn(t)
    /\ UNCHANGED <<persisted, trigger, posting, rowStatus, readBack>>

OnScreen == {f \in SessionForms : filled[f] # None}

(* Faulty variant of ReadSubmittedValues: the first form that is filled in. *)
ReadFirstFilled(t) ==
    IF trigger[t] = None \/ \A f \in OnScreen : filled[f] = "blank" THEN None
    ELSE CHOOSE f \in OnScreen : filled[f] # "blank" /\
                \A g \in OnScreen : filled[g] # "blank" => f <= g

(* read_submitted_values: the triggering surface if one of the expected     *)
(* fields is filled in, else the first surface where one is.                *)
ReadSubmittedValues(t) ==
    LET looksLike == {f \in OnScreen : filled[f] # "blank"}
    IN  IF trigger[t] \in looksLike THEN trigger[t]
        ELSE IF looksLike = {} THEN None
        ELSE CHOOSE f \in looksLike : \A g \in looksLike : f <= g

(* The tool an action run calls takes the submitted values.                 *)
TakeValues(t) ==
    /\ turnAt[t] = "running" /\ trigger[t] \in SessionForms
    /\ readBack' = [readBack EXCEPT ![t] = [form |-> ReadSubmittedValues(t), own |-> filled[trigger[t]]]]
    /\ UNCHANGED <<persisted, held, delta, turnAt, trigger, filled, posting, renders, rowStatus>>
-----------------------------------------------------------------------------
(* A plan's status, from its steps' statuses.                               *)
PlanStatus(steps) ==
    LET some(status) == \E i \in DOMAIN steps : steps[i] = status
    IN  IF \A i \in DOMAIN steps : steps[i] = "completed" THEN "completed"
        ELSE IF some("failed") THEN "failed"
        ELSE IF some("needs_input") THEN "needs_input"
        ELSE IF some("running") THEN "running"
        ELSE IF some("cancelled") THEN "cancelled"
        ELSE "pending"

(* task_projection: the plan reported last.                                 *)
TaskProjection(state) ==
    LET plans == {state[Plan(p)] : p \in 1..PlanLimit} \ {None}
    IN  IF plans = {} THEN "unplanned"
        ELSE PlanStatus((CHOOSE q \in plans : \A r \in plans : r.reported <= q.reported).steps)

(* What update_task_plan makes of a call: the plan it returns, or None for  *)
(* plan_not_found, a new plan over the limit, or revision_conflict.         *)
UpdatedPlan(t, p, expected, steps) ==
    LET current == held[t][Plan(p)]
    IN  IF current = None THEN IF expected = 0 /\ (p = 1 \/ held[t][Plan(p - 1)] # None)
                               THEN [revision |-> 1, steps |-> steps, reported |-> renders + 1] ELSE None
        ELSE IF steps = current.steps THEN current
        ELSE IF expected # current.revision THEN None
        ELSE [revision |-> current.revision + 1, steps |-> steps, reported |-> renders + 1]

(* Faulty variant of ReportedStatus: the projection misses this very call.  *)
ReportedStatusStale(t, p, plan) == TaskProjection(held[t])

(* The index row is given the projection of the turn's own view.            *)
ReportedStatus(t, p, plan) == TaskProjection([held[t] EXCEPT ![Plan(p)] = plan])

(* update_task_plan and the render of its card; an error renders nothing.   *)
UpdateTaskPlan(t, p, expected, steps) ==
    LET plan == UpdatedPlan(t, p, expected, steps)
    IN  /\ turnAt[t] = "running" /\ renders < MaxRenders
        /\ plan # None
        /\ Writes(t, [k \in {Plan(p)} |-> plan])
        /\ rowStatus' = ReportedStatus(t, p, plan)
        /\ renders' = renders + 1
        /\ UNCHANGED <<persisted, turnAt, trigger, filled, posting, readBack>>
-----------------------------------------------------------------------------
(* The event of what the turn did is appended to the session.               *)
TurnAppends(t) ==
    /\ turnAt[t] \in {"running", "pausing"}
    /\ turnAt[t] = "running" => delta[t] # <<>>
    /\ persisted' = Merged(delta[t], persisted)
    /\ delta' = [delta EXCEPT ![t] = <<>>]
    /\ turnAt' = [turnAt EXCEPT ![t] = IF @ = "pausing" THEN "ended" ELSE @]
    /\ held' = [held EXCEPT ![t] = IF turnAt[t] = "pausing" THEN Empty ELSE @]
    /\ UNCHANGED <<trigger, filled, posting, renders, rowStatus, readBack>>

TurnEnds(t) ==
    /\ turnAt[t] = "running" /\ delta[t] = <<>>
    /\ turnAt' = [turnAt EXCEPT ![t] = "ended"]
    /\ held' = [held EXCEPT ![t] = Empty]
    /\ UNCHANGED <<persisted, delta, trigger, filled, posting, renders, rowStatus, readBack>>

(* The process dies or the turn is cancelled: what was not appended is lost.*)
TurnCut(t) ==
    /\ turnAt[t] \in {"seeded", "running", "pausing"}
    /\ turnAt' = [turnAt EXCEPT ![t] = "cut"]
    /\ delta' = [delta EXCEPT ![t] = <<>>]
    /\ held' = [held EXCEPT ![t] = Empty]
    /\ UNCHANGED <<persisted, trigger, filled, posting, renders, rowStatus, readBack>>

SurfaceNext ==
    \/ \E c \in SurfaceClients :
        \/ posting[c] = None /\ \E g \in Gates : Refused(c, g)
        \/ \E s \in SessionSurfaces : PostSurfaceAction(c, s) \/ \E e \in {c, None} : PostSurfaceData(c, s, e)
        \/ SurfaceDataAppends(c)
        \/ \E b \in BOOLEAN : PostIframeContext(c, b)
    \/ \E f \in SessionForms, v \in {"blank", "value"} : FillForm(f, v)
    \/ \E t \in SurfaceTurns :
        \/ \E s \in SessionSurfaces \cup {None} : SeedTurn(t, s)
        \/ TurnLoads(t) \/ RequestConfirmation(t) \/ TakeValues(t)
        \/ TurnAppends(t) \/ TurnEnds(t) \/ TurnCut(t)
        \/ \E s \in Artefacts : RenderArtefact(t, s)
        \/ \E p \in 1..PlanLimit, e \in 0..MaxRenders, l \in StepLists : UpdateTaskPlan(t, p, e, l)

SurfaceSpec == SurfaceInit /\ [][SurfaceNext]_surfaceVars
-----------------------------------------------------------------------------
(* The values an action run works with are those of the form the user        *)
(* submitted, whenever that form was filled in, however many earlier forms   *)
(* are still on screen: read_submitted_values prefers the trigger.           *)
SubmittedFormIsRead == \A t \in SurfaceTurns :
    (readBack[t] # None /\ readBack[t].own # "blank") => readBack[t].form = trigger[t]

(* A surface keeps its place in the workbench: once an entry is stored its   *)
(* createdAt never changes, through re-renders, client edits that race them  *)
(* and turns that are cut short.                                             *)
PositionKept == [][\A s \in SessionSurfaces : persisted[Stash(s)] # None =>
    persisted'[Stash(s)] # None /\ persisted'[Stash(s)].created = persisted[Stash(s)].created]_surfaceVars

(* Between turns, the task status search shows is that of the plans the      *)
(* session holds, unless a turn was cut between reporting and appending.     *)
StatusIsReported ==
    (~Busy /\ \A t \in SurfaceTurns : turnAt[t] # "cut") => rowStatus = TaskProjection(persisted)
=============================================================================
