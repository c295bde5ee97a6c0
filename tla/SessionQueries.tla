--------------------------- MODULE SessionQueries ---------------------------
(***************************************************************************)
(* Reading the conversations of one owner page by page while turns keep    *)
(* moving rows to the top (search_sessions of db/session_search.py,        *)
(* list_sessions_for_skill of db/chat_sessions.py and the routes over      *)
(* them), the reports of one message, saved by competing editors           *)
(* (db/session_reports.py), and what a reloaded conversation is rebuilt    *)
(* from (protocols/sessions_route.py).                                     *)
(***************************************************************************)
EXTENDS Integers, Sequences, FiniteSets, FiniteSetsExt, SequencesExt

CONSTANTS
    RowCount,   \* rows of the owner
    PageSize,
    Editors,    \* concurrent editors of a report
    MaxTouches, \* bound: turns that move a row while a page is open
    MaxSaves    \* bound: saves begun

ASSUME QueryAssumption ==
    /\ RowCount \in Nat /\ PageSize \in Nat \ {0}
    /\ MaxTouches \in Nat /\ MaxSaves \in Nat

VARIABLES
    index,      \* the rows: [stamp, provisional, malformed]
    reader,     \* the reader: which route, its cursor and what it collects
    shown,      \* rows the reader was given, in order
    touched,    \* rows moved since the first page
    revisions,  \* stored revisions of the report: who saved each, over which one
    editor,     \* what an editor has open
    saves       \* saves begun

queryVars == <<index, reader, shown, touched, revisions, editor, saves>>

RowIds == 1..RowCount
Top == [stamp |-> 2 * RowCount + MaxTouches, id |-> 0]

(* position: lastMessageAt, then the id.                                    *)
Position(r) == [stamp |-> index[r].stamp, id |-> r]
Below(p, q) == p.stamp < q.stamp \/ (p.stamp = q.stamp /\ p.id < q.id)
NewestFirst(rows) ==
    CHOOSE s \in SetToSeqs(rows) :
        \A i, j \in DOMAIN s : i < j => Below(Position(s[j]), Position(s[i]))
Newest(rows, limit) ==
    LET sorted == NewestFirst(rows)
    IN  SubSeq(sorted, 1, IF Len(sorted) < limit THEN Len(sorted) ELSE limit)

(* match_rows: neither archived nor provisional, and before the cursor.     *)
MatchRows(after) == {r \in RowIds : ~index[r].provisional /\ Below(Position(r), after)}

QueryInit ==
    /\ index \in [RowIds -> [stamp : {0}, provisional : BOOLEAN, malformed : BOOLEAN]]
    /\ Cardinality({r \in RowIds : index[r].malformed}) <= 1
    /\ reader = [op |-> "start"]
    /\ shown = <<>> /\ touched = {}
    /\ revisions = <<>>
    /\ editor = [e \in Editors |-> [op |-> "closed"]]
    /\ saves = 0

reportVars == <<revisions, editor, saves>>
-----------------------------------------------------------------------------
(* search_my_sessions, list_my_sessions: the first page.                    *)
OpenSearch ==
    /\ reader.op = "start"
    /\ reader' = [op |-> "search", after |-> Top, results |-> <<>>]
    /\ UNCHANGED <<index, shown, touched, reportVars>>

OpenList ==
    /\ reader.op = "start"
    /\ reader' = [op |-> "list", cursor |-> 0]
    /\ UNCHANGED <<index, shown, touched, reportVars>>

(* One round of search_sessions: malformed rows are skipped without         *)
(* shortening the page. The cursor is the position of the page's last row.  *)
PageEnds(results, rows) == Len(rows) < PageSize + 1 \/ Len(results) > PageSize

(* Faulty variant of SearchFetch: the cursor is the row read ahead.         *)
SearchFetchAhead ==
    /\ reader.op = "search"
    /\ LET rows == Newest(MatchRows(reader.after), PageSize + 1)
           valid == NewestFirst({r \in ToSet(rows) : ~index[r].malformed})
           found == [i \in 1..Len(valid) |-> Position(valid[i])]
           results == reader.results \o found
       IN  IF ~PageEnds(results, rows)
           THEN /\ reader' = [reader EXCEPT !.after = Position(rows[Len(rows)]), !.results = results]
                /\ UNCHANGED shown
           ELSE IF Len(results) > PageSize
           THEN /\ shown' = shown \o [i \in 1..PageSize |-> results[i].id]
                /\ reader' = [reader EXCEPT !.after = results[Len(results)], !.results = <<>>]
           ELSE /\ shown' = shown \o [i \in 1..Len(results) |-> results[i].id]
                /\ reader' = [op |-> "searched"]
    /\ UNCHANGED <<index, touched, reportVars>>

SearchFetch ==
    /\ reader.op = "search"
    /\ LET rows == Newest(MatchRows(reader.after), PageSize + 1)
           valid == NewestFirst({r \in ToSet(rows) : ~index[r].malformed})
           found == [i \in 1..Len(valid) |-> Position(valid[i])]
           results == reader.results \o found
           page == SubSeq(results, 1, PageSize)
       IN  IF ~PageEnds(results, rows)
           THEN /\ reader' = [reader EXCEPT !.after = Position(rows[Len(rows)]), !.results = results]
                /\ UNCHANGED shown
           ELSE IF Len(results) > PageSize
           THEN /\ shown' = shown \o [i \in 1..PageSize |-> page[i].id]
                /\ reader' = [reader EXCEPT !.after = page[PageSize], !.results = <<>>]
           ELSE /\ shown' = shown \o [i \in 1..Len(results) |-> results[i].id]
                /\ reader' = [op |-> "searched"]
    /\ UNCHANGED <<index, touched, reportVars>>

Listed == {r \in RowIds : ~index[r].provisional /\ ~index[r].malformed}

(* list_sessions_for_skill: a window of four pages and one row, from which  *)
(* provisional rows are dropped. A full page has a cursor, a row whose      *)
(* position is read again for the next page.                                *)
ListFetch ==
    /\ reader.op = "list"
    /\ LET from == IF reader.cursor = 0 THEN Top ELSE Position(reader.cursor)
           rows == Newest({r \in RowIds : Below(Position(r), from)}, 4 * PageSize + 1)
           visible == NewestFirst(ToSet(rows) \cap Listed)
           page == SubSeq(visible, 1, IF Len(visible) < PageSize THEN Len(visible) ELSE PageSize)
       IN  /\ shown' = shown \o page
           /\ reader' = IF Len(page) = PageSize THEN [op |-> "list", cursor |-> page[PageSize]]
                        ELSE [op |-> "listed"]
    /\ UNCHANGED <<index, touched, reportVars>>

(* A turn of another tab moves a row to the top, or clears it provisional.  *)
TouchRow(r) ==
    /\ reader.op \in {"search", "list"}
    /\ Cardinality(touched) < MaxTouches
    /\ index' = [index EXCEPT ![r].stamp = Max({index[s].stamp : s \in RowIds}) + 1,
                              ![r].provisional = FALSE]
    /\ touched' = touched \cup {r}
    /\ UNCHANGED <<reader, shown, reportVars>>
-----------------------------------------------------------------------------
(* get_session_reports: the editor opens the latest revision.               *)
OpenReport(e) ==
    /\ editor[e].op = "closed" /\ saves < MaxSaves
    /\ saves' = saves + 1
    /\ editor' = [editor EXCEPT ![e] = [op |-> "open", revision |-> Len(revisions)]]
    /\ UNCHANGED <<index, reader, shown, touched, revisions>>

(* save_report: the expected revision must be the latest one; then the next *)
(* revision is created, unless it is there already.                         *)
SaveReport(e) ==
    /\ editor[e].op = "open"
    /\ editor' = [editor EXCEPT ![e] = IF editor[e].revision = Len(revisions)
                                       THEN [editor[e] EXCEPT !.op = "saving"] ELSE [op |-> "closed"]]
    /\ UNCHANGED <<index, reader, shown, touched, revisions, saves>>

(* Faulty variant of CreateRevision: it is set whether or not it exists.    *)
CreateRevisionAnyway(e) ==
    /\ editor[e].op = "saving"
    /\ editor' = [editor EXCEPT ![e] = [op |-> "closed"]]
    /\ revisions' = [i \in 1..(editor[e].revision + 1) |->
                        IF i <= editor[e].revision THEN revisions[i]
                        ELSE [by |-> e, over |-> editor[e].revision]]
    /\ UNCHANGED <<index, reader, shown, touched, saves>>

CreateRevision(e) ==
    /\ editor[e].op = "saving"
    /\ editor' = [editor EXCEPT ![e] = [op |-> "closed"]]
    /\ revisions' = IF Len(revisions) > editor[e].revision THEN revisions
                    ELSE Append(revisions, [by |-> e, over |-> editor[e].revision])
    /\ UNCHANGED <<index, reader, shown, touched, saves>>

QueryNext ==
    \/ OpenSearch \/ OpenList \/ SearchFetch \/ ListFetch
    \/ \E r \in RowIds : TouchRow(r)
    \/ \E e \in Editors : OpenReport(e) \/ SaveReport(e) \/ CreateRevision(e)

QuerySpec == QueryInit /\ [][QueryNext]_queryVars
-----------------------------------------------------------------------------
(* search_sessions: whatever moves while pages are read, no row is shown    *)
(* twice, and a search that has ended has shown every visible row that did  *)
(* not move.                                                                *)
SearchComplete ==
    reader.op \in {"search", "searched"} =>
        /\ Cardinality(ToSet(shown)) = Len(shown)
        /\ reader.op = "searched" => Listed \ touched \subseteq ToSet(shown)

(* "Immutable revisions make competing saves conflict across processes, not *)
(* silently overwrite each other": revisions are only ever appended, each   *)
(* over the one before it.                                                  *)
RevisionsKept ==
    [][/\ IsPrefix(revisions, revisions')
       /\ \A i \in 1..Len(revisions') : revisions'[i].over = i - 1]_queryVars

-----------------------------------------------------------------------------
(***************************************************************************)
(* What a reloaded conversation is rebuilt from: the Activity panel's tool *)
(* calls, delegations and messages from the ADK events, and the workbench  *)
(* from the stashed surfaces (_events_to_*, _state_to_* of                 *)
(* protocols/sessions_route.py), with the administrator's counts of the    *)
(* same events (_reconcile_counts of admin/analytics_routes.py).           *)
(***************************************************************************)

CONSTANTS
    Tools,          \* names of tools
    StashKeys,      \* a2ui_surface:* keys of the session's state
    MaxParts,       \* bound: parts of the event log
    ResultsLimit    \* _SESSION_RESULTS_LIMIT

ASSUME ViewAssumption == MaxParts \in Nat /\ ResultsLimit \in Nat

VARIABLES
    subject,    \* which of the two the behaviour is about: "events" or "surfaces"
    parts,      \* parts of the event log, in order
    stash       \* a2ui_surface:* entries

viewVars == <<subject, parts, stash>>

(* A part of an event. A call names the place of its response by its id; a  *)
(* provider may leave the id out of the call, of the response or of both.   *)
Call(name, id) == [kind |-> "call", name |-> name, id |-> id, of |-> 0]
Response(name, id, of) == [kind |-> "response", name |-> name, id |-> id, of |-> of]
Text(author) == [kind |-> "text", name |-> author, id |-> 0, of |-> 0]
Delegation(target) == [kind |-> "delegation", name |-> target, id |-> 0, of |-> 0]

(* A stashed surface, with what may be wrong about each field. No key, or a *)
(* damaged value, is a surface of its own kind.                             *)
Surfaces == [id : {"workspace", "report"},
             artifact : {"none", "chat", "workbench", "unknown"},
             messages : {"none", "active", "deleted", "invalid"}]
Unparseable == [id |-> "damaged", artifact |-> "none", messages |-> "none"]
Unset == [id |-> "unset", artifact |-> "none", messages |-> "none"]
-----------------------------------------------------------------------------
ViewInit ==
    /\ subject \in {"events", "surfaces"}
    /\ parts = <<>>
    /\ stash = [k \in StashKeys |-> Unset]

Say(part) ==
    /\ subject = "events" /\ Len(parts) < MaxParts
    /\ parts' = Append(parts, part)
    /\ UNCHANGED <<subject, stash>>

(* The model calls a tool. The id is the place in the log, or missing.      *)
CallTool(name, identified) == Say(Call(name, IF identified THEN Len(parts) + 1 ELSE 0))

(* A tool answers a call that has no answer yet; a turn may also end        *)
(* without. The response repeats the call's id, or drops it.                *)
AnswerTool(i, identified) ==
    /\ i \in DOMAIN parts /\ parts[i].kind = "call"
    /\ \A j \in DOMAIN parts : parts[j].of # i
    /\ identified => parts[i].id # 0
    /\ Say(Response(parts[i].name, IF identified THEN parts[i].id ELSE 0, i))

SayText(author) == Say(Text(author))
Delegate(target) == Say(Delegation(target))

StashSurface(k, surface) ==
    /\ subject = "surfaces"
    /\ stash' = [stash EXCEPT ![k] = surface]
    /\ UNCHANGED <<subject, parts>>

ViewNext ==
    \/ \E name \in Tools, identified \in BOOLEAN : CallTool(name, identified)
    \/ \E i \in 1..MaxParts, identified \in BOOLEAN : AnswerTool(i, identified)
    \/ \E author \in {"user", "agent"} : SayText(author)
    \/ \E target \in {"known", "missing"} : Delegate(target)
    \/ \E k \in StashKeys, surface \in Surfaces \cup {Unparseable} : StashSurface(k, surface)

ViewSpec == ViewInit /\ [][ViewNext]_viewVars
-----------------------------------------------------------------------------
(* _events_to_tool_activity: a call is paired by id; the ones that are left *)
(* take the responses without an id in order, tool by tool.                 *)
Places(kind) == {i \in DOMAIN parts : parts[i].kind = kind}
ById(i) == {j \in Places("response") : parts[j].id # 0 /\ parts[j].id = parts[i].id}
LeftOver(name) == {i \in Places("call") : parts[i].name = name /\ ById(i) = {}}
Queued(name) == {j \in Places("response") : parts[j].name = name /\ parts[j].id = 0}
Rank(i, s) == Cardinality({j \in s : j <= i})

(* Faulty variant of Paired: responses without an id are dropped.           *)
PairedById(i) == ById(i) # {}

Paired(i) ==
    \/ ById(i) # {}
    \/ Rank(i, LeftOver(parts[i].name)) <= Cardinality(Queued(parts[i].name))

(* The response a call is shown with.                                       *)
ResponseOf(i) ==
    IF ById(i) # {} THEN CHOOSE j \in ById(i) : TRUE
    ELSE CHOOSE j \in Queued(parts[i].name) :
            Rank(j, Queued(parts[i].name)) = Rank(i, LeftOver(parts[i].name))

ToolStatus(i) == IF Paired(i) THEN "success" ELSE "error"

(* _events_to_delegations drops one without a target; _events_to_messages   *)
(* keeps what has text.                                                     *)
Delegations == {i \in Places("delegation") : parts[i].name # "missing"}
Messages == Places("text")

(* _reconcile_counts and _reconcile_findings over the two.                  *)
ReconcileFindings ==
    {code \in {"RESPONSE_ID_MISSING", "CALL_ID_MISSING", "TOOLS_RENDER_ERRORED", "DELEGATIONS_DROPPED"} :
        \/ code = "RESPONSE_ID_MISSING" /\ \E j \in Places("response") : parts[j].id = 0
        \/ code = "CALL_ID_MISSING" /\ \E i \in Places("call") : parts[i].id = 0
        \/ code = "TOOLS_RENDER_ERRORED" /\ \E i \in Places("call") : ToolStatus(i) = "error"
        \/ code = "DELEGATIONS_DROPPED" /\ Places("delegation") # Delegations}
-----------------------------------------------------------------------------
(* _state_to_a2ui_surfaces: what a resumed client replays.                  *)
Replayed == {k \in StashKeys : stash[k] \in Surfaces /\ stash[k].messages # "none"}

(* _workspace_surface_active raises for messages it cannot read.            *)
WorkspaceUnreadable(s) == s.id = "workspace" /\ s.artifact = "none" /\ s.messages \in {"none", "invalid"}

(* _state_to_session_results: the entries that cannot be read are counted;  *)
(* chat cards and bare surfaces are no results, and a surface is listed     *)
(* once.                                                                    *)
Incomplete == {k \in StashKeys : \/ stash[k] = Unparseable
                                 \/ stash[k].artifact = "unknown"
                                 \/ WorkspaceUnreadable(stash[k])}

(* Faulty variant of IsResult: only surfaces with metadata are results.     *)
IsResultWithMetadata(s) == s.artifact = "workbench"

IsResult(s) ==
    \/ s.artifact = "workbench"
    \/ s.artifact = "none" /\ s.id = "workspace" /\ s.messages = "active"

ResultIds == {stash[k].id : k \in {k \in StashKeys : stash[k] \in Surfaces /\ IsResult(stash[k])}}
Truncated == Cardinality(ResultIds) > ResultsLimit
-----------------------------------------------------------------------------
(* The trace shows as many successful calls of a tool as the tool gave      *)
(* answers, for an answer without an id turns no call red and none counts   *)
(* for two; it "cannot pair a response with a call that came after it"; and *)
(* where the reconcile has nothing to report every call is shown with its   *)
(* own answer (_events_to_tool_activity, _reconcile_findings).              *)
TraceTruthful ==
    /\ \A name \in Tools :
          Cardinality({i \in Places("call") : parts[i].name = name /\ ToolStatus(i) = "success"})
              = Cardinality({j \in Places("response") : parts[j].name = name})
    /\ \A i \in Places("call") : Paired(i) => i < ResponseOf(i)
    /\ ReconcileFindings = {} => \A i \in Places("call") : Paired(i) /\ parts[ResponseOf(i)].of = i

(* A result the workbench would replay is listed, unless the response says  *)
(* that it left something out (get_session_results).                        *)
ResultsHonest ==
    (Incomplete = {} /\ ~Truncated) =>
        \A k \in Replayed :
            (stash[k].artifact = "workbench" \/ (stash[k].id = "workspace" /\ stash[k].artifact = "none"
                                                 /\ stash[k].messages # "deleted"))
                => stash[k].id \in ResultIds
===============================================================================
