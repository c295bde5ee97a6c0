-------------------------- MODULE AuthoredSurfaces --------------------------
(***************************************************************************)
(* Surfaces the model draws itself with send_a2ui_json_to_client: each     *)
(* validated call is pushed to the client and stashed in session state as  *)
(* a message history from which a page reload rebuilds the surface.        *)
(*                                                                         *)
(* adk/a2ui.py (the surface-aware toolset)                                 *)
(***************************************************************************)
EXTENDS Integers, Sequences, Store

CONSTANTS
    Surface,       \* the skill's default surface, or None
    UpdateMode,    \* "replace" or "patch"
    DataValues,    \* values of the surface's data model
    Layouts,       \* component trees
    MaxDraws,      \* calls of the tool in the behaviour
    MaxDrawTurns   \* turns

\* A2uiToolConfig: patching needs a surface that outlives the turn. A skill
\* that breaks the rule fails when its agent is built.
ConfigValid == UpdateMode = "patch" => Surface \notin {None, "chat"}

VARIABLES
    history,   \* the stashed messages of the surface, oldest first, or None
    screen,    \* what the client shows: [layout, data], or None
    snapshot,  \* a2ui_surface_state of the running turn: a data model or None
    drawing,   \* TRUE while a turn runs
    drawTurns, draws,
    result,    \* what the last call returned to the model
    authored   \* data the agent last wrote and nobody has changed since, or None

authoredVars == <<history, screen, snapshot, drawing, drawTurns, draws, result, authored>>

Create == [kind |-> "createSurface"]
Components(l) == [kind |-> "updateComponents", value |-> l]
DataModel(v) == [kind |-> "updateDataModel", value |-> v]
Delete == [kind |-> "deleteSurface"]

Messages == {Create, Delete} \cup {Components(l) : l \in Layouts} \cup {DataModel(v) : v \in DataValues}
Screens == [layout : Layouts \cup {None}, data : DataValues \cup {None}]

ASSUME AuthoredAssumption ==
    /\ ConfigValid
    /\ None \notin Screens /\ None \notin Seq(Messages)

\* The client's message processor (external): one message at a time.
Apply(shown, msg) ==
    IF msg.kind = "createSurface" THEN [layout |-> None, data |-> None]
    ELSE IF msg.kind = "deleteSurface" \/ shown = None THEN None
    ELSE IF msg.kind = "updateComponents" THEN [shown EXCEPT !.layout = msg.value]
    ELSE [shown EXCEPT !.data = msg.value]

Processed(from, msgs) ==
    LET shown[n \in 0..Len(msgs)] == IF n = 0 THEN from ELSE Apply(shown[n - 1], msgs[n])
    IN  shown[Len(msgs)]

Replay(msgs) == Processed(None, msgs)

\* What the toolset validates: a whole surface, a patch of it, or its end.
Drawings ==
    {<<Create, Components(l), DataModel(v)>> : l \in Layouts, v \in DataValues}
      \cup {<<Components(l)>> : l \in Layouts}
      \cup {<<DataModel(v)>> : v \in DataValues}
      \cup {<<Delete>>}

(* Faulty variant of Prior: a patch replaces what was stashed.              *)
PriorDropped(msgs) == <<>>

\* The history a patch is appended to: what was stashed, then the data model
\* the client sent with this turn. A create or a delete starts over.
Prior(msgs) ==
    IF \E i \in DOMAIN msgs : msgs[i].kind \in {"createSurface", "deleteSurface"}
    THEN <<>>
    ELSE (IF history = None THEN <<>> ELSE history)
           \o (IF snapshot = None THEN <<>> ELSE <<DataModel(snapshot)>>)

\* The result overlays the surface keys, on success only.
Overlaid == [ok |-> TRUE, delivered |-> TRUE, surface |-> Surface,
             mode |-> IF Surface = None THEN None ELSE UpdateMode]

AuthoredInit ==
    /\ history = None /\ screen = None /\ snapshot = None
    /\ drawing = FALSE /\ drawTurns = 0 /\ draws = 0
    /\ result = None /\ authored = None

\* A turn starts with the client's snapshot of the surface it shows.
DrawTurnStarts ==
    /\ ~drawing /\ drawTurns < MaxDrawTurns
    /\ drawing' = TRUE
    /\ drawTurns' = drawTurns + 1
    /\ snapshot' = IF screen = None THEN None ELSE screen.data
    /\ UNCHANGED <<history, screen, draws, result, authored>>

\* _SurfaceAwareTool.run_async on a valid payload.
Draw(msgs) ==
    /\ drawing /\ draws < MaxDraws
    /\ draws' = draws + 1
    /\ history' = Prior(msgs) \o msgs
    /\ screen' = Processed(screen, msgs)
    /\ result' = Overlaid
    /\ authored' = IF \E i \in DOMAIN msgs : msgs[i].kind = "updateDataModel"
                   THEN (IF screen' = None THEN None ELSE screen'.data)
                   ELSE IF screen' = None THEN None ELSE authored
    /\ UNCHANGED <<snapshot, drawing, drawTurns>>

\* ... and on one the validator refuses: the error envelope goes back as it is.
DrawRefused ==
    /\ drawing /\ draws < MaxDraws
    /\ draws' = draws + 1
    /\ result' = [ok |-> FALSE, delivered |-> FALSE, surface |-> None, mode |-> None]
    /\ UNCHANGED <<history, screen, snapshot, drawing, drawTurns, authored>>

\* The user types into the surface.
UserEdits(v) ==
    /\ screen # None
    /\ screen.data # v
    /\ screen' = [screen EXCEPT !.data = v]
    /\ authored' = None
    /\ UNCHANGED <<history, snapshot, drawing, drawTurns, draws, result>>

DrawTurnEnds ==
    /\ drawing
    /\ drawing' = FALSE
    /\ snapshot' = None
    /\ UNCHANGED <<history, screen, drawTurns, draws, result, authored>>

\* The page is reloaded: the session history endpoint replays the stash.
Reload ==
    /\ ~drawing
    /\ screen' = (IF history = None THEN None ELSE Replay(history))
    /\ authored' = None
    /\ UNCHANGED <<history, snapshot, drawing, drawTurns, draws, result>>

AuthoredNext ==
    \/ DrawTurnStarts
    \/ DrawTurnEnds
    \/ DrawRefused
    \/ Reload
    \/ \E msgs \in Drawings : Draw(msgs)
    \/ \E v \in DataValues : UserEdits(v)

AuthoredSpec == AuthoredInit /\ [][AuthoredNext]_authoredVars

-----------------------------------------------------------------------------

Stored == IF history = None THEN None ELSE Replay(history)

\* A reload rebuilds the component tree on screen, however many patches drew
\* it ("A patch alone cannot reconstruct a surface after a restart", adk/a2ui.py).
ReplayKeepsLayout ==
    /\ (Stored = None) = (screen = None)
    /\ Stored # None => Stored.layout = screen.layout

\* "the frontend replay path is identical to the live one" (adk/callbacks.py,
\* _stash_surface_for_resume): data the agent wrote, and nobody changed since,
\* comes back as it was.
ReplayKeepsAgentData ==
    (authored # None /\ Stored # None) => Stored.data = authored
==============================================================================
