---------------------------- MODULE SessionIndex ----------------------------
(***************************************************************************)
(* The chat_sessions row of one conversation and its three writers         *)
(* (session_bootstrap_routes.py, _ensure_session_index of                  *)
(* skill_processor.py, the session callbacks of adk/callbacks.py), next to *)
(* the canonical transcript of the ADK session service, which fails and    *)
(* expires on its own (resilient_session.py), the owner's edits            *)
(* (sessions_route.py, session_document_routes.py) and the administrator's *)
(* reconcile (analytics_routes.py).                                        *)
(*                                                                         *)
(* Every call of the persistence layer is a step of its own. A worker is   *)
(* one request; all are the owner's, for a request of anybody else is      *)
(* refused before it writes. The conversation belongs to the Root Agent,   *)
(* so the canonical session lives in the namespace "root-agent".           *)
(***************************************************************************)
EXTENDS Integers, FiniteSets, Store

CONSTANTS
    Documents,      \* documents of the owner
    Capabilities,   \* skills a turn may run with
    FlushInterval,  \* _TURN_FLUSH_INTERVAL
    Clients,        \* concurrent requests
    MaxRequests,    \* bound: requests begun
    MaxFaults       \* bound: failed writes, failed reads, lost transcripts

ASSUME SessionAssumption ==
    /\ FlushInterval \in Nat \ {0}
    /\ MaxRequests \in Nat /\ MaxFaults \in Nat

VARIABLES
    row,        \* chat_sessions/{id}
    canonical,  \* the ADK session: its callbacks' state, its plan and its user events
    client,     \* what a request is in the middle of
    begun,      \* requests begun
    faults,     \* failures so far
    flushed     \* history: a turn has written its count and nothing came after

sessionVars == <<row, canonical, client, begun, faults, flushed>>

Free == [op |-> "free"]
Selections == SUBSET Documents

(* A new row (create_session_index): its tabs are its documents, included.  *)
NewRow(skill, app, docs, provisional) ==
    [provisional |-> provisional, ids |-> docs, tabs |-> [d \in docs |-> TRUE],
     skill |-> skill, app |-> app, turns |-> 0, title |-> FALSE, archived |-> FALSE,
     lost |-> FALSE, status |-> "unplanned"]

NewSession == [inited |-> FALSE, count |-> 0, titled |-> FALSE, plan |-> "unplanned", turns |-> 0]

(* Either nothing is there yet, or a conversation of three turns is resumed *)
(* whose title could not be generated.                                      *)
SessionInit ==
    /\ \E resumed \in BOOLEAN, skill \in Capabilities :
          IF resumed
          THEN /\ row = [NewRow(skill, "root-agent", {}, FALSE) EXCEPT !.turns = 2]
               /\ canonical = [NewSession EXCEPT !.inited = TRUE, !.count = 3, !.turns = 3]
          ELSE row = None /\ canonical = None
    /\ client = [c \in Clients |-> Free]
    /\ begun = 0 /\ faults = 0
    /\ flushed = FALSE

Start(c, request) ==
    /\ client[c] = Free
    /\ begun < MaxRequests
    /\ begun' = begun + 1
    /\ client' = [client EXCEPT ![c] = request]
MoveTo(c, request) == client' = [client EXCEPT ![c] = request] /\ UNCHANGED begun
Finish(c) == MoveTo(c, Free)
Fault == faults < MaxFaults /\ faults' = faults + 1

(* update_session_fields and the other patches: the row must be there.      *)
Patched(fields) == [f \in DOMAIN row |-> IF f \in DOMAIN fields THEN fields[f] ELSE row[f]]

(* A patch whose failure is swallowed and logged.                           *)
TryPatch(fields) ==
    \/ row # None /\ row' = Patched(fields) /\ UNCHANGED faults
    \/ row = None /\ UNCHANGED <<row, faults>>
    \/ Fault /\ UNCHANGED row
-----------------------------------------------------------------------------
(* bootstrap_session: an existing row ends it; otherwise the selection is   *)
(* validated, a provisional row is written and the ADK session is created,  *)
(* whose failure is swallowed.                                              *)
Bootstrap(c, skill, docs) ==
    /\ row = None
    /\ Start(c, [op |-> "bootstrap", skill |-> skill, docs |-> docs])
    /\ UNCHANGED <<row, canonical, faults, flushed>>

BootstrapRow(c) ==
    /\ client[c].op = "bootstrap"
    /\ row' = NewRow(client[c].skill, "root-agent", client[c].docs, TRUE)
    /\ flushed' = FALSE
    /\ MoveTo(c, [op |-> "bootstrap session"])
    /\ UNCHANGED <<canonical, faults>>

BootstrapSession(c) ==
    /\ client[c].op = "bootstrap session"
    /\ \/ canonical' = (IF canonical = None THEN NewSession ELSE canonical) /\ UNCHANGED faults
       \/ Fault /\ UNCHANGED canonical
    /\ Finish(c)
    /\ UNCHANGED <<row, flushed>>
-----------------------------------------------------------------------------
(* _ensure_session_index: the row is read once; what follows is decided on  *)
(* that reading.                                                            *)
Turn(c, skill, docs) ==
    /\ Start(c, [op |-> IF row = None THEN "create" ELSE "clear", skill |-> skill, docs |-> docs,
                 seen |-> row, tabs |-> None, mine |-> None])
    /\ UNCHANGED <<row, canonical, faults, flushed>>

TurnUnread(c, skill, docs) ==
    /\ Fault
    /\ Start(c, [op |-> "load", skill |-> skill, docs |-> docs, seen |-> None, tabs |-> None,
                 mine |-> None])
    /\ UNCHANGED <<row, canonical, flushed>>

At(c, op) == client[c].op = op
Step(c, op) == MoveTo(c, [client[c] EXCEPT !.op = op])

EnsureCreate(c) ==
    /\ At(c, "create")
    /\ \/ row' = NewRow(client[c].skill, "root-agent", client[c].docs, FALSE) /\ UNCHANGED faults
       \/ Fault /\ UNCHANGED row
    /\ Step(c, "load")
    /\ flushed' = FALSE
    /\ UNCHANGED canonical

(* clear_provisional.                                                       *)
EnsureClear(c) ==
    /\ At(c, "clear")
    /\ IF client[c].seen.provisional THEN TryPatch([provisional |-> FALSE]) ELSE UNCHANGED <<row, faults>>
    /\ Step(c, "skill")
    /\ UNCHANGED <<canonical, flushed>>

(* set_session_skill, and the agent's identity with it.                     *)
EnsureSkill(c) ==
    /\ At(c, "skill")
    /\ IF client[c].seen.skill # client[c].skill THEN TryPatch([skill |-> client[c].skill])
       ELSE UNCHANGED <<row, faults>>
    /\ Step(c, "tabs")
    /\ UNCHANGED <<canonical, flushed>>

(* set_session_documents: the open tabs are read, then replaced.            *)
ReadTabs(c) ==
    /\ At(c, "tabs")
    /\ MoveTo(c, [client[c] EXCEPT !.op = "documents", !.tabs = row.tabs])
    /\ UNCHANGED <<row, canonical, faults, flushed>>

(* Faulty variant of SetDocuments: only the identifiers are written.        *)
SetDocumentsOnly(c) ==
    /\ At(c, "documents")
    /\ row' = Patched([ids |-> client[c].docs])
    /\ Step(c, "load")
    /\ UNCHANGED <<canonical, faults, flushed>>

SetDocuments(c) ==
    /\ At(c, "documents")
    /\ LET docs == client[c].docs
           open == DOMAIN client[c].tabs \cup docs
       IN  row' = Patched([ids |-> docs, tabs |-> [d \in open |-> d \in docs]])
    /\ Step(c, "load")
    /\ UNCHANGED <<canonical, faults, flushed>>

-----------------------------------------------------------------------------
(* The runner loads the ADK session, or creates it; a failure ends the turn *)
(* (external).                                                              *)
LoadSession(c) ==
    /\ At(c, "load")
    /\ LET session == IF canonical = None THEN NewSession ELSE canonical
       IN  \/ canonical' = session /\ UNCHANGED faults
              /\ MoveTo(c, [client[c] EXCEPT !.op = "track", !.mine = session])
           \/ Fault /\ Finish(c) /\ UNCHANGED canonical
    /\ UNCHANGED <<row, flushed>>

(* The turn's own copy of the session's state, and the delta it commits.    *)
Commit(c, op, mine) ==
    /\ MoveTo(c, [client[c] EXCEPT !.op = op, !.mine = mine])
    /\ canonical' = IF canonical = None THEN None
                    ELSE [canonical EXCEPT !.inited = mine.inited, !.count = mine.count, !.titled = mine.titled]

(* make_session_tracker: once per session, and a failed existence check     *)
(* counts as a missing row.                                                 *)
Track(c) ==
    /\ At(c, "track")
    /\ \/ client[c].mine.inited /\ Step(c, "run") /\ UNCHANGED <<canonical, faults>>
       \/ /\ ~client[c].mine.inited /\ row # None
          /\ Commit(c, "run", [client[c].mine EXCEPT !.inited = TRUE, !.count = 0])
          /\ UNCHANGED faults
       \/ /\ ~client[c].mine.inited
          /\ (row = None /\ UNCHANGED faults) \/ Fault
          /\ Step(c, "track create")
          /\ UNCHANGED canonical
    /\ UNCHANGED <<row, flushed>>

(* The tracker's row carries the default namespace.                         *)
TrackCreate(c) ==
    /\ At(c, "track create")
    /\ \/ /\ row' = NewRow(client[c].skill, "aitana_platform", client[c].docs, FALSE)
          /\ Commit(c, "run", [client[c].mine EXCEPT !.inited = TRUE, !.count = 0])
          /\ UNCHANGED faults
       \/ Fault /\ Step(c, "run") /\ UNCHANGED <<row, canonical>>
    /\ flushed' = FALSE

(* The run appends its events, each with bounded retries (_with_retry). A   *)
(* turn that gives up raises; its row stays.                                *)
Run(c, plan) ==
    /\ At(c, "run")
    /\ \/ /\ canonical' = IF canonical = None THEN None
                          ELSE [canonical EXCEPT !.turns = @ + 1, !.plan = plan]
          /\ Step(c, "after")
          /\ UNCHANGED faults
       \/ Fault /\ Finish(c) /\ UNCHANGED canonical
    /\ UNCHANGED <<row, flushed>>

(* make_after_agent_response: the count is flushed on the first turn, every *)
(* FlushInterval turns and whenever a title is due.                         *)
NeedsTitle(mine, count) == count = 2 \/ (count >= 4 /\ ~mine.titled)
Flushes(mine, count) == count = 1 \/ count % FlushInterval = 0 \/ NeedsTitle(mine, count)

AfterResponse(c, titled) ==
    /\ At(c, "after")
    /\ LET mine == client[c].mine
           count == mine.count + 1
           fresh == titled /\ NeedsTitle(mine, count)
       IN  \/ ~mine.inited /\ Finish(c) /\ UNCHANGED canonical
           \/ /\ mine.inited
              /\ titled => NeedsTitle(mine, count)
              /\ Commit(c, IF Flushes(mine, count) THEN "flush" ELSE "done",
                        [mine EXCEPT !.count = count, !.titled = @ \/ fresh])
    /\ UNCHANGED <<row, faults, flushed>>

(* _flush_session_index.                                                    *)
FlushIndex(c) ==
    /\ At(c, "flush")
    /\ LET mine == client[c].mine
       IN  TryPatch(IF mine.titled THEN [turns |-> mine.count, title |-> TRUE] ELSE [turns |-> mine.count])
    /\ flushed' = (row # None /\ faults' = faults)
    /\ Finish(c)
    /\ UNCHANGED canonical

TurnDone(c) == At(c, "done") /\ Finish(c) /\ UNCHANGED <<row, canonical, faults, flushed>>
-----------------------------------------------------------------------------
(* patch_session and delete_session. A repeated archive is left alone, and  *)
(* archived = FALSE brings the row back.                                    *)
PatchSession(c, archive) ==
    /\ row # None
    /\ Start(c, [op |-> "patch", fields |-> IF archive THEN [archived |-> TRUE, title |-> TRUE]
                                            ELSE [archived |-> FALSE]])
    /\ UNCHANGED <<row, canonical, faults, flushed>>

DeleteSession(c) ==
    /\ row # None
    /\ Start(c, [op |-> "patch", fields |-> [archived |-> TRUE]])
    /\ UNCHANGED <<row, canonical, faults, flushed>>

(* save_documents: tabs and identifiers in one patch.                       *)
SaveDocuments(c, included, open) ==
    /\ row # None
    /\ Start(c, [op |-> "patch", fields |-> [ids |-> included, tabs |-> [d \in open |-> d \in included]]])
    /\ UNCHANGED <<row, canonical, faults, flushed>>

(* get_session_messages: the row, then the canonical session in the row's   *)
(* namespace, then the projection of its plan if it differs.                *)
Readable(index) == IF canonical # None /\ index.app = "root-agent" THEN canonical ELSE None

GetMessages(c) ==
    /\ row # None
    /\ Start(c, [op |-> "messages", seen |-> row])
    /\ UNCHANGED <<row, canonical, faults, flushed>>

ReadTranscript(c) ==
    /\ At(c, "messages")
    /\ LET session == Readable(client[c].seen)
       IN  IF session # None /\ session.plan # client[c].seen.status
           THEN MoveTo(c, [op |-> "patch", fields |-> [status |-> session.plan]])
           ELSE Finish(c)
    /\ UNCHANGED <<row, canonical, faults, flushed>>

(* mark_transcript_lost: the reconcile finds turns and no transcript; the   *)
(* row is read again and flagged.                                           *)
Reconcile(c) ==
    /\ row # None /\ row.turns > 0 /\ Readable(row) = None
    /\ Start(c, [op |-> "mark lost"])
    /\ UNCHANGED <<row, canonical, faults, flushed>>

MarkLost(c) ==
    /\ At(c, "mark lost")
    /\ IF row.lost THEN Finish(c) ELSE MoveTo(c, [op |-> "patch", fields |-> [lost |-> TRUE]])
    /\ UNCHANGED <<row, canonical, faults, flushed>>

WritePatch(c) ==
    /\ At(c, "patch")
    /\ row' = Patched(client[c].fields)
    /\ Finish(c)
    /\ UNCHANGED <<canonical, faults, flushed>>

(* The session service loses the transcript (external).                     *)
TranscriptLost ==
    /\ canonical # None /\ Fault
    /\ canonical' = None
    /\ UNCHANGED <<row, client, begun, flushed>>

SessionNext ==
    \/ \E c \in Clients :
          \/ \E skill \in Capabilities, docs \in Selections :
                Bootstrap(c, skill, docs) \/ Turn(c, skill, docs) \/ TurnUnread(c, skill, docs)
          \/ BootstrapRow(c) \/ BootstrapSession(c)
          \/ EnsureCreate(c) \/ EnsureClear(c) \/ EnsureSkill(c) \/ ReadTabs(c) \/ SetDocuments(c)
          \/ LoadSession(c) \/ Track(c) \/ TrackCreate(c)
          \/ \E plan \in {"unplanned", "completed"} : Run(c, plan)
          \/ \E titled \in BOOLEAN : AfterResponse(c, titled)
          \/ FlushIndex(c) \/ TurnDone(c)
          \/ \E archive \in BOOLEAN : PatchSession(c, archive)
          \/ \E open \in Selections : \E included \in SUBSET open : SaveDocuments(c, included, open)
          \/ DeleteSession(c) \/ GetMessages(c) \/ ReadTranscript(c)
          \/ Reconcile(c) \/ MarkLost(c) \/ WritePatch(c)
    \/ TranscriptLost

SessionSpec == SessionInit /\ [][SessionNext]_sessionVars
-----------------------------------------------------------------------------
(* Type invariant.                                                          *)
SessionTypeOK ==
    /\ row # None =>
          /\ row.ids \in Selections /\ DOMAIN row.tabs \in Selections
          /\ row.skill \in Capabilities /\ row.turns \in Nat
          /\ {row.provisional, row.title, row.archived, row.lost} \subseteq BOOLEAN
    /\ canonical # None => canonical.count \in Nat /\ canonical.turns \in Nat

(* The documents a turn is given are exactly the tabs the owner sees as     *)
(* included, however a turn's selection, an edit of the tabs and a second   *)
(* creation of the row interleave.                                          *)
SelectionConsistent == row # None => row.ids = {d \in DOMAIN row.tabs : row.tabs[d]}
=============================================================================
