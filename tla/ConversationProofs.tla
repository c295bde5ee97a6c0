------------------------- MODULE ConversationProofs -------------------------
(***************************************************************************)
(* Proofs about the stored side of a conversation and about what is shown  *)
(* of it: the document selection of its index row, the revisions of its    *)
(* reports, the search over an owner's rows, the trace of its events, the  *)
(* summaries that replace its history and the replies of the messaging     *)
(* channels, for any clients, documents, editors, logs, workers, messages  *)
(* and deliveries; then of all of them together.                           *)
(***************************************************************************)
EXTENDS MCConversations, NumberLemmas, FiniteSetTheorems, SequenceTheorems, TLAPS

(* The index row: a stored row has these fields, and its selection agrees   *)
(* with its tabs.                                                           *)
RowFields == {"provisional", "ids", "tabs", "skill", "app", "turns", "title", "archived", "lost", "status"}

Agrees(r) == r.ids = {d \in DOMAIN r.tabs : r.tabs[d]}

RowTyped(r) ==
    /\ r.ids \in Selections /\ DOMAIN r.tabs \in Selections
    /\ r.skill \in Capabilities /\ r.turns \in Nat
    /\ {r.provisional, r.title, r.archived, r.lost} \subseteq BOOLEAN

IsRow(r) == DOMAIN r = RowFields /\ Agrees(r) /\ RowTyped(r)

Transcripts == [inited : BOOLEAN, count : Nat, titled : BOOLEAN, plan : {"unplanned", "completed"}, turns : Nat]

(* A patch writes the selection and the tabs together or leaves both.       *)
FieldsTyped(f) ==
    /\ "ids" \in DOMAIN f => f.ids \in Selections
    /\ "tabs" \in DOMAIN f => DOMAIN f.tabs \in Selections
    /\ "skill" \in DOMAIN f => f.skill \in Capabilities
    /\ "turns" \in DOMAIN f => f.turns \in Nat
    /\ \A x \in {"provisional", "title", "archived", "lost"} : x \in DOMAIN f => f[x] \in BOOLEAN

FieldsAgree(f) ==
    /\ "ids" \in DOMAIN f <=> "tabs" \in DOMAIN f
    /\ "ids" \in DOMAIN f => Agrees(f)
    /\ FieldsTyped(f)

(* What a request carries: a turn its skill and documents, the tabs it read *)
(* and, once it has loaded the session, its own copy of the transcript.     *)
Loaded == {"track", "track create", "run", "after", "flush", "done"}
TurnOps == {"create", "clear", "skill", "tabs", "documents", "load"} \cup Loaded

TurnHolds(r) ==
    /\ DOMAIN r = {"op", "skill", "docs", "seen", "tabs", "mine"}
    /\ r.skill \in Capabilities /\ r.docs \in Selections
    /\ r.op = "documents" => DOMAIN r.tabs \in Selections
    /\ r.op \in Loaded => r.mine \in Transcripts

RequestHolds(r) ==
    /\ "op" \in DOMAIN r
    /\ r.op = "bootstrap" => r.skill \in Capabilities /\ r.docs \in Selections
    /\ r.op \in TurnOps => TurnHolds(r)
    /\ r.op = "patch" => FieldsAgree(r.fields)

(* The inductive invariant: there is a row whenever a request is past the   *)
(* point where it saw one, and what it is about to write agrees.            *)
SawRow == {"clear", "skill", "tabs", "documents", "messages", "mark lost", "patch"}

ClientsHold ==
    /\ DOMAIN client = Clients
    /\ \A c \in Clients : RequestHolds(client[c]) /\ (client[c].op \in SawRow => IsRow(row))

TranscriptHolds(s) == s = None \/ s \in Transcripts

SelectionInv == (row = None \/ IsRow(row)) /\ TranscriptHolds(canonical) /\ ClientsHold
-----------------------------------------------------------------------------
LEMMA NewRowIsRow ==
    ASSUME NEW skill \in Capabilities, NEW app, NEW docs \in Selections, NEW provisional \in BOOLEAN
    PROVE  IsRow(NewRow(skill, app, docs, provisional))
BY DEF IsRow, RowTyped, NewRow, Agrees, RowFields

LEMMA PatchedIsRow ==
    ASSUME IsRow(row), NEW f, FieldsAgree(f)
    PROVE  IsRow(Patched(f))
<1> DEFINE r == Patched(f)
<1>1. DOMAIN r = RowFields /\ \A x \in RowFields : r[x] = IF x \in DOMAIN f THEN f[x] ELSE row[x]
  BY DEF IsRow, Patched
<1>2. /\ r.ids = IF "ids" \in DOMAIN f THEN f.ids ELSE row.ids
      /\ r.tabs = IF "tabs" \in DOMAIN f THEN f.tabs ELSE row.tabs
      /\ r.skill = IF "skill" \in DOMAIN f THEN f.skill ELSE row.skill
      /\ r.turns = IF "turns" \in DOMAIN f THEN f.turns ELSE row.turns
      /\ r.provisional = IF "provisional" \in DOMAIN f THEN f.provisional ELSE row.provisional
      /\ r.title = IF "title" \in DOMAIN f THEN f.title ELSE row.title
      /\ r.archived = IF "archived" \in DOMAIN f THEN f.archived ELSE row.archived
      /\ r.lost = IF "lost" \in DOMAIN f THEN f.lost ELSE row.lost
  BY <1>1 DEF RowFields
<1> HIDE DEF r
<1>3. Agrees(r)
  BY <1>2 DEF FieldsAgree, IsRow, Agrees
<1>4. RowTyped(r)
  BY <1>2 DEF FieldsAgree, FieldsTyped, IsRow, RowTyped
<1> QED
  BY <1>1, <1>3, <1>4 DEF IsRow, r

(* Where a swallowed patch leaves the row.                                  *)
LEMMA TryPatchKeeps ==
    ASSUME row = None \/ IsRow(row), NEW f, FieldsAgree(f), TryPatch(f)
    PROVE  row' = row \/ IsRow(row')
BY PatchedIsRow DEF TryPatch

(* A request that moves on keeps the others' knowledge: the row stays a row *)
(* once it is one.                                                          *)
LEMMA ClientMoves ==
    ASSUME SelectionInv, row' = row \/ IsRow(row'), TranscriptHolds(canonical'), NEW c \in Clients, NEW r,
           client' = [client EXCEPT ![c] = r], RequestHolds(r), r.op \in SawRow => IsRow(row')
    PROVE  SelectionInv'
BY DEF SelectionInv, ClientsHold, TranscriptHolds

LEMMA TurnMoves ==
    ASSUME NEW r, RequestHolds(r), r.op \in TurnOps, NEW op \in TurnOps \ {"documents"},
           op \in Loaded => r.op \in Loaded
    PROVE  RequestHolds([r EXCEPT !.op = op]) /\ [r EXCEPT !.op = op].op = op
<1> DEFINE s == [r EXCEPT !.op = op]
<1>1. TurnHolds(r)
  BY DEF RequestHolds
<1>2. s.op = op /\ DOMAIN s = DOMAIN r /\ s.skill = r.skill /\ s.docs = r.docs /\ s.mine = r.mine
  BY <1>1 DEF TurnHolds
<1>3. op # "bootstrap" /\ op # "patch" /\ op # "documents"
  BY DEF TurnOps, Loaded
<1> HIDE DEF s
<1>4. RequestHolds(s)
  BY <1>1, <1>2, <1>3 DEF TurnHolds, RequestHolds
<1> QED
  BY <1>2, <1>4 DEF s

LEMMA TurnCommits ==
    ASSUME NEW r, RequestHolds(r), r.op \in TurnOps, NEW op \in Loaded, NEW mine \in Transcripts
    PROVE  RequestHolds([r EXCEPT !.op = op, !.mine = mine]) /\ [r EXCEPT !.op = op, !.mine = mine].op = op
<1> DEFINE s == [r EXCEPT !.op = op, !.mine = mine]
<1>1. TurnHolds(r)
  BY DEF RequestHolds
<1>2. s.op = op /\ DOMAIN s = DOMAIN r /\ s.skill = r.skill /\ s.docs = r.docs /\ s.mine = mine
  BY <1>1 DEF TurnHolds
<1>3. op # "bootstrap" /\ op # "patch" /\ op # "documents"
  BY DEF Loaded
<1> HIDE DEF s
<1>4. RequestHolds(s)
  BY <1>1, <1>2, <1>3 DEF TurnHolds, RequestHolds
<1> QED
  BY <1>2, <1>4 DEF s

LEMMA ClientSteps ==
    ASSUME SelectionInv, row' = row \/ IsRow(row'), TranscriptHolds(canonical'), NEW c \in Clients, NEW op,
           Step(c, op), client[c].op \in TurnOps, op \in TurnOps \ {"documents"},
           op \in Loaded => client[c].op \in Loaded, op \in SawRow => IsRow(row')
    PROVE  SelectionInv'
<1>1. RequestHolds(client[c])
  BY DEF SelectionInv, ClientsHold
<1>2. RequestHolds([client[c] EXCEPT !.op = op]) /\ [client[c] EXCEPT !.op = op].op = op
  BY <1>1, TurnMoves
<1> QED
  BY <1>2, ClientMoves DEF Step, MoveTo

LEMMA TranscriptMoves ==
    ASSUME NEW s \in Transcripts, NEW mine \in Transcripts, NEW plan \in {"unplanned", "completed"}
    PROVE  /\ NewSession \in Transcripts
           /\ [NewSession EXCEPT !.inited = TRUE, !.count = 3, !.turns = 3] \in Transcripts
           /\ [s EXCEPT !.inited = mine.inited, !.count = mine.count, !.titled = mine.titled] \in Transcripts
           /\ [s EXCEPT !.turns = @ + 1, !.plan = plan] \in Transcripts
<1>1. NewSession \in Transcripts
  BY DEF Transcripts, NewSession
<1>2. [NewSession EXCEPT !.inited = TRUE, !.count = 3, !.turns = 3] \in Transcripts
  BY DEF Transcripts, NewSession
<1>3. [s EXCEPT !.inited = mine.inited, !.count = mine.count, !.titled = mine.titled] \in Transcripts
  BY DEF Transcripts
<1>4. [s EXCEPT !.turns = @ + 1, !.plan = plan] \in Transcripts
  <2>1. s.turns + 1 \in Nat
    BY DEF Transcripts
  <2> QED
    BY <2>1 DEF Transcripts
<1> QED
  BY <1>1, <1>2, <1>3, <1>4

LEMMA CommitKeeps ==
    ASSUME SelectionInv, row' = row \/ IsRow(row'), NEW c \in Clients, NEW op \in Loaded,
           NEW mine \in Transcripts, Commit(c, op, mine), client[c].op \in TurnOps
    PROVE  SelectionInv'
<1> DEFINE r == [client[c] EXCEPT !.op = op, !.mine = mine]
<1>1. RequestHolds(client[c]) /\ TranscriptHolds(canonical)
  BY DEF SelectionInv, ClientsHold
<1>2. RequestHolds(r) /\ r.op = op /\ op \notin SawRow
  <2>1. op \notin SawRow
    BY DEF Loaded, SawRow
  <2> QED
    BY <1>1, <2>1, TurnCommits
<1>3. TranscriptHolds(canonical')
  BY <1>1, TranscriptMoves DEF Commit, TranscriptHolds
<1>4. client' = [client EXCEPT ![c] = r]
  BY DEF Commit, MoveTo
<1> HIDE DEF r
<1> QED
  BY <1>2, <1>3, <1>4, ClientMoves

LEMMA SelectionInit == SessionInit => SelectionInv
<1> SUFFICES ASSUME SessionInit PROVE SelectionInv
  OBVIOUS
<1>1. row = None \/ IsRow(row)
  <2>1. ASSUME NEW skill \in Capabilities, row = [NewRow(skill, "root-agent", {}, FALSE) EXCEPT !.turns = 2]
        PROVE  IsRow(row)
    BY <2>1 DEF IsRow, RowTyped, Selections, NewRow, Agrees, RowFields
  <2> QED
    BY <2>1 DEF SessionInit
<1>2. ClientsHold
  BY DEF SessionInit, ClientsHold, RequestHolds, TurnOps, Loaded, Free, SawRow
<1>3. TranscriptHolds(canonical)
  <2>1. [NewSession EXCEPT !.inited = TRUE, !.count = 3, !.turns = 3] \in Transcripts
    BY DEF Transcripts, NewSession
  <2> QED
    BY <2>1 DEF SessionInit, TranscriptHolds
<1> QED
  BY <1>1, <1>2, <1>3 DEF SelectionInv

(* Every step of a request keeps the invariant.                             *)
LEMMA SelectionStep == SelectionInv /\ [SessionNext]_sessionVars => SelectionInv'
<1> SUFFICES ASSUME SelectionInv, [SessionNext]_sessionVars PROVE SelectionInv'
  OBVIOUS
<1>0. (row = None \/ IsRow(row)) /\ TranscriptHolds(canonical) /\ ClientsHold
  BY DEF SelectionInv
<1>1. ASSUME NEW c \in Clients, NEW r, client' = [client EXCEPT ![c] = r], row' = row, canonical' = canonical,
             RequestHolds(r), r.op \in SawRow => row # None
      PROVE  SelectionInv'
  <2>1. row' = row \/ IsRow(row')
    BY <1>1
  <2>2. r.op \in SawRow => IsRow(row')
    BY <1>0, <1>1
  <2>3. TranscriptHolds(canonical')
    BY <1>0, <1>1
  <2> QED
    BY <1>1, <2>1, <2>2, <2>3, ClientMoves
<1>2. ASSUME NEW c \in Clients, client' = [client EXCEPT ![c] = Free], row' = row \/ IsRow(row'),
             TranscriptHolds(canonical')
      PROVE  SelectionInv'
  <2>1. "op" \in DOMAIN Free /\ Free.op = "free"
    BY DEF Free
  <2>2. RequestHolds(Free) /\ Free.op \notin SawRow
    BY <2>1 DEF RequestHolds, TurnOps, Loaded, SawRow
  <2> QED
    BY <1>2, <2>2, ClientMoves
<1>3. ASSUME NEW c \in Clients, client[c].op \in SawRow PROVE IsRow(row)
  BY <1>0, <1>3 DEF ClientsHold
<1>3a. ASSUME NEW c \in Clients PROVE RequestHolds(client[c])
  BY <1>0 DEF ClientsHold
<1>3b. ASSUME NEW c \in Clients, client[c].op \in TurnOps
       PROVE  client[c].skill \in Capabilities /\ client[c].docs \in Selections /\ TurnHolds(client[c])
  BY <1>3a, <1>3b DEF RequestHolds, TurnHolds
<1>3c. ASSUME NEW c \in Clients, client[c].op \in Loaded PROVE client[c].mine \in Transcripts
  BY <1>3a, <1>3c DEF RequestHolds, TurnHolds, TurnOps
<1>3d. UNCHANGED canonical => TranscriptHolds(canonical')
  BY <1>0
<1>4. ASSUME NEW c \in Clients, NEW skill \in Capabilities, NEW docs \in Selections,
             Bootstrap(c, skill, docs) \/ Turn(c, skill, docs) \/ TurnUnread(c, skill, docs)
      PROVE  SelectionInv'
  <2>1. CASE Bootstrap(c, skill, docs)
    <3> DEFINE r == [op |-> "bootstrap", skill |-> skill, docs |-> docs]
    <3>1. RequestHolds(r) /\ r.op \notin SawRow
      BY DEF RequestHolds, TurnOps, Loaded, SawRow
    <3>2. row' = row /\ canonical' = canonical /\ client' = [client EXCEPT ![c] = r]
      BY <2>1 DEF Bootstrap, Start
    <3> HIDE DEF r
    <3> QED
      BY <1>1, <3>1, <3>2
  <2>2. CASE Turn(c, skill, docs)
    <3> DEFINE op == IF row = None THEN "create" ELSE "clear"
               r == [op |-> op, skill |-> skill, docs |-> docs, seen |-> row, tabs |-> None, mine |-> None]
    <3>1. op \in {"create", "clear"} /\ (op = "clear" => row # None)
      OBVIOUS
    <3>2. row' = row /\ canonical' = canonical /\ client' = [client EXCEPT ![c] = r]
      BY <2>2 DEF Turn, Start
    <3> HIDE DEF op
    <3>3. RequestHolds(r) /\ r.op = op
      BY <3>1 DEF RequestHolds, TurnHolds, TurnOps, Loaded
    <3>4. r.op \in SawRow => row # None
      BY <3>1, <3>3 DEF SawRow
    <3> HIDE DEF r
    <3> QED
      BY <1>1, <3>2, <3>3, <3>4
  <2>3. CASE TurnUnread(c, skill, docs)
    <3> DEFINE r == [op |-> "load", skill |-> skill, docs |-> docs, seen |-> None, tabs |-> None,
                 mine |-> None]
    <3>1. RequestHolds(r) /\ r.op \notin SawRow
      BY DEF RequestHolds, TurnHolds, TurnOps, Loaded, SawRow
    <3>2. row' = row /\ canonical' = canonical /\ client' = [client EXCEPT ![c] = r]
      BY <2>3 DEF TurnUnread, Start
    <3> HIDE DEF r
    <3> QED
      BY <1>1, <3>1, <3>2
  <2> QED
    BY <1>4, <2>1, <2>2, <2>3
<1>5. ASSUME NEW c \in Clients, BootstrapRow(c) PROVE SelectionInv'
  <2> DEFINE r == [op |-> "bootstrap session"]
  <2>1. RequestHolds(r) /\ r.op \notin SawRow
    BY DEF RequestHolds, TurnOps, Loaded, SawRow
  <2>2. client[c].skill \in Capabilities /\ client[c].docs \in Selections
    BY <1>3a, <1>5 DEF BootstrapRow, RequestHolds
  <2>3. IsRow(row') /\ client' = [client EXCEPT ![c] = r] /\ canonical' = canonical
    BY <1>5, <2>2, NewRowIsRow DEF BootstrapRow, MoveTo
  <2> HIDE DEF r
  <2> QED
    BY <1>3d, <2>1, <2>3, ClientMoves
<1>6. ASSUME NEW c \in Clients, BootstrapSession(c) PROVE SelectionInv'
  <2>1. NewSession \in Transcripts
    BY DEF NewSession, Transcripts
  <2>2. TranscriptHolds(canonical')
    BY <1>0, <1>6, <2>1 DEF BootstrapSession, TranscriptHolds
  <2> QED
    BY <1>2, <1>6, <2>2 DEF BootstrapSession, Finish, MoveTo
<1>7. ASSUME NEW c \in Clients, EnsureCreate(c) PROVE SelectionInv'
  <2>1. client[c].op \in TurnOps /\ "load" \in TurnOps \ {"documents"} /\ "load" \notin Loaded /\ "load" \notin SawRow
    BY <1>7 DEF EnsureCreate, At, TurnOps, Loaded, SawRow
  <2>2. row' = row \/ IsRow(row')
    BY <1>3b, <1>7, <2>1, NewRowIsRow DEF EnsureCreate
  <2> QED
    BY <1>3d, <1>7, <2>1, <2>2, ClientSteps DEF EnsureCreate
<1>8. ASSUME NEW c \in Clients, EnsureClear(c) PROVE SelectionInv'
  <2>0. client[c].op \in TurnOps /\ "skill" \in TurnOps \ {"documents"} /\ "skill" \notin Loaded
    BY <1>8 DEF EnsureClear, At, TurnOps, Loaded
  <2>1. row' = row \/ IsRow(row')
    <3>1. FieldsAgree([provisional |-> FALSE])
      BY DEF FieldsAgree, FieldsTyped
    <3> QED
      BY <1>0, <1>8, <3>1, TryPatchKeeps DEF EnsureClear
  <2>2. IsRow(row)
    BY <1>3, <1>8 DEF EnsureClear, At, SawRow
  <2> QED
    BY <1>3d, <1>8, <2>0, <2>1, <2>2, ClientSteps DEF EnsureClear
<1>9. ASSUME NEW c \in Clients, EnsureSkill(c) PROVE SelectionInv'
  <2>0. client[c].op \in TurnOps /\ "tabs" \in TurnOps \ {"documents"} /\ "tabs" \notin Loaded
    BY <1>9 DEF EnsureSkill, At, TurnOps, Loaded
  <2>1. row' = row \/ IsRow(row')
    <3>1. FieldsAgree([skill |-> client[c].skill])
      BY <1>3b, <2>0 DEF FieldsAgree, FieldsTyped
    <3> QED
      BY <1>0, <1>9, <3>1, TryPatchKeeps DEF EnsureSkill
  <2>2. IsRow(row)
    BY <1>3, <1>9 DEF EnsureSkill, At, SawRow
  <2> QED
    BY <1>3d, <1>9, <2>0, <2>1, <2>2, ClientSteps DEF EnsureSkill
<1>10. ASSUME NEW c \in Clients, ReadTabs(c) PROVE SelectionInv'
  <2> DEFINE r == [client[c] EXCEPT !.op = "documents", !.tabs = row.tabs]
  <2>1. IsRow(row) /\ client[c].op \in TurnOps
    BY <1>3, <1>10 DEF ReadTabs, At, SawRow, TurnOps
  <2>2. TurnHolds(client[c])
    BY <1>3b, <2>1
  <2>3. /\ r.op = "documents" /\ DOMAIN r = {"op", "skill", "docs", "seen", "tabs", "mine"}
        /\ r.skill \in Capabilities /\ r.docs \in Selections /\ r.tabs = row.tabs
    BY <2>2 DEF TurnHolds
  <2>4. client' = [client EXCEPT ![c] = r] /\ row' = row /\ canonical' = canonical
    BY <1>10 DEF ReadTabs, MoveTo
  <2> HIDE DEF r
  <2>5. RequestHolds(r)
    BY <2>1, <2>3 DEF RequestHolds, TurnHolds, TurnOps, Loaded, IsRow, RowTyped
  <2> QED
    BY <1>3d, <2>1, <2>4, <2>5, ClientMoves
<1>11. ASSUME NEW c \in Clients, SetDocuments(c) PROVE SelectionInv'
  <2> DEFINE docs == client[c].docs
             open == DOMAIN client[c].tabs \cup docs
             f == [ids |-> docs, tabs |-> [d \in open |-> d \in docs]]
  <2>0. /\ client[c].op \in TurnOps /\ client[c].op = "documents"
        /\ "load" \in TurnOps \ {"documents"} /\ "load" \notin Loaded /\ "load" \notin SawRow
    BY <1>11 DEF SetDocuments, At, TurnOps, Loaded, SawRow
  <2>1. docs \in Selections /\ open \in Selections
    BY <1>3b, <2>0 DEF TurnHolds, Selections
  <2>2. FieldsAgree(f)
    BY <2>1 DEF FieldsAgree, FieldsTyped, Agrees
  <2>3. IsRow(row)
    BY <1>3, <1>11 DEF SetDocuments, At, SawRow
  <2>4. row' = Patched(f)
    BY <1>11 DEF SetDocuments
  <2>5. IsRow(row')
    BY <2>2, <2>3, <2>4, PatchedIsRow
  <2> QED
    BY <1>3d, <1>11, <2>0, <2>5, ClientSteps DEF SetDocuments
<1>12. ASSUME NEW c \in Clients, LoadSession(c) PROVE SelectionInv'
  <2>1. CASE Finish(c)
    <3>1. TranscriptHolds(canonical')
      <4>1. NewSession \in Transcripts
        BY DEF NewSession, Transcripts
      <4>2. canonical' \in {NewSession, canonical}
        BY <1>12 DEF LoadSession
      <4> QED
        BY <1>0, <4>1, <4>2 DEF TranscriptHolds
    <3> QED
      BY <1>2, <1>12, <2>1, <3>1 DEF LoadSession, Finish, MoveTo
  <2>2. CASE ~Finish(c)
    <3> DEFINE session == IF canonical = None THEN NewSession ELSE canonical
               r == [client[c] EXCEPT !.op = "track", !.mine = session]
    <3>1. session \in Transcripts
      BY <1>0 DEF TranscriptHolds, Transcripts, NewSession
    <3>2. client[c].op \in TurnOps /\ "track" \in Loaded /\ "track" \notin SawRow
      BY <1>12 DEF LoadSession, At, TurnOps, Loaded, SawRow
    <3>3. canonical' = session /\ row' = row /\ client' = [client EXCEPT ![c] = r]
      BY <1>12, <2>2 DEF LoadSession, MoveTo
    <3> HIDE DEF session
    <3>4. RequestHolds(r) /\ r.op = "track"
      BY <1>3a, <3>1, <3>2, TurnCommits
    <3> HIDE DEF r
    <3>5. TranscriptHolds(canonical')
      BY <3>1, <3>3 DEF TranscriptHolds
    <3> QED
      BY <3>2, <3>3, <3>4, <3>5, ClientMoves
  <2> QED
    BY <2>1, <2>2
<1>13. ASSUME NEW c \in Clients, client[c].op \in Loaded
       PROVE  [client[c].mine EXCEPT !.inited = TRUE, !.count = 0] \in Transcripts /\ client[c].op \in TurnOps
  BY <1>3c, <1>13 DEF Transcripts, TurnOps
<1>14. ASSUME NEW c \in Clients, Track(c) PROVE SelectionInv'
  <2>0. client[c].op \in Loaded /\ client[c].op \in TurnOps
    BY <1>14 DEF Track, At, Loaded, TurnOps
  <2>1. /\ row' = row
        /\ \/ \E op \in {"run", "track create"} : Step(c, op) /\ canonical' = canonical
           \/ Commit(c, "run", [client[c].mine EXCEPT !.inited = TRUE, !.count = 0])
    BY <1>14 DEF Track
  <2>2. \A op \in {"run", "track create"} : op \in TurnOps \ {"documents"} /\ op \notin SawRow
    BY DEF SawRow, TurnOps, Loaded
  <2>3. CASE Commit(c, "run", [client[c].mine EXCEPT !.inited = TRUE, !.count = 0])
    BY <1>13, <2>0, <2>1, <2>3, CommitKeeps DEF Loaded
  <2>4. ASSUME NEW op \in {"run", "track create"}, Step(c, op), canonical' = canonical PROVE SelectionInv'
    BY <1>3d, <2>0, <2>1, <2>2, <2>4, ClientSteps
  <2> QED
    BY <2>1, <2>3, <2>4
<1>15. ASSUME NEW c \in Clients, TrackCreate(c) PROVE SelectionInv'
  <2>0. client[c].op \in Loaded /\ client[c].op \in TurnOps
    BY <1>15 DEF TrackCreate, At, Loaded, TurnOps
  <2>1. /\ row' = row \/ IsRow(row')
        /\ \/ Step(c, "run") /\ canonical' = canonical
           \/ Commit(c, "run", [client[c].mine EXCEPT !.inited = TRUE, !.count = 0])
    BY <1>3b, <1>15, <2>0, NewRowIsRow DEF TrackCreate
  <2>2. "run" \in TurnOps \ {"documents"} /\ "run" \notin SawRow /\ "run" \in Loaded
    BY DEF SawRow, TurnOps, Loaded
  <2>3. CASE Commit(c, "run", [client[c].mine EXCEPT !.inited = TRUE, !.count = 0])
    BY <1>13, <2>0, <2>1, <2>2, <2>3, CommitKeeps
  <2>4. CASE Step(c, "run") /\ canonical' = canonical
    BY <1>3d, <2>0, <2>1, <2>2, <2>4, ClientSteps
  <2> QED
    BY <2>1, <2>3, <2>4
<1>16. ASSUME NEW c \in Clients, NEW plan \in {"unplanned", "completed"}, Run(c, plan) PROVE SelectionInv'
  <2>0. client[c].op \in Loaded /\ client[c].op \in TurnOps
    BY <1>16 DEF Run, At, Loaded, TurnOps
  <2>1. "after" \in TurnOps \ {"documents"} /\ "after" \notin SawRow
    BY DEF SawRow, TurnOps, Loaded
  <2>2. TranscriptHolds(canonical')
    BY <1>0, <1>16, TranscriptMoves DEF Run, TranscriptHolds
  <2>3. row' = row /\ (Step(c, "after") \/ client' = [client EXCEPT ![c] = Free])
    BY <1>16 DEF Run, Finish, MoveTo
  <2> QED
    BY <1>2, <2>0, <2>1, <2>2, <2>3, ClientSteps
<1>17. ASSUME NEW c \in Clients, NEW titled \in BOOLEAN, AfterResponse(c, titled) PROVE SelectionInv'
  <2>0. client[c].op \in Loaded /\ client[c].op \in TurnOps
    BY <1>17 DEF AfterResponse, At, Loaded, TurnOps
  <2>1. CASE Finish(c) /\ UNCHANGED canonical
    BY <1>2, <1>3d, <1>17, <2>1 DEF AfterResponse, Finish, MoveTo
  <2>2. CASE ~(Finish(c) /\ UNCHANGED canonical)
    <3> DEFINE mine == client[c].mine
               count == mine.count + 1
               fresh == titled /\ NeedsTitle(mine, count)
               done == [mine EXCEPT !.count = count, !.titled = @ \/ fresh]
    <3>1. mine \in Transcripts /\ count \in Nat
      BY <1>3c, <2>0 DEF Transcripts
    <3>2. done \in Transcripts
      <4>1. (mine.titled \/ fresh) \in BOOLEAN
        OBVIOUS
      <4> HIDE DEF mine, count, fresh
      <4> QED
        BY <3>1, <4>1 DEF Transcripts
    <3>3. PICK op \in {"flush", "done"} : Commit(c, op, done)
      BY <1>17, <2>2 DEF AfterResponse
    <3>4. op \in Loaded /\ row' = row
      BY <1>17 DEF AfterResponse, Loaded
    <3> HIDE DEF done
    <3> QED
      BY <2>0, <3>2, <3>3, <3>4, CommitKeeps
  <2> QED
    BY <2>1, <2>2
<1>18. ASSUME NEW c \in Clients, FlushIndex(c) PROVE SelectionInv'
  <2> DEFINE mine == client[c].mine
             f == IF mine.titled THEN [turns |-> mine.count, title |-> TRUE] ELSE [turns |-> mine.count]
  <2>0. client[c].op \in Loaded
    BY <1>18 DEF FlushIndex, At, Loaded
  <2>1. mine.count \in Nat
    BY <1>3c, <2>0 DEF Transcripts
  <2>2. FieldsAgree(f)
    <3>1. FieldsAgree([turns |-> mine.count, title |-> TRUE]) /\ FieldsAgree([turns |-> mine.count])
      BY <2>1 DEF FieldsAgree, FieldsTyped
    <3> QED
      BY <3>1
  <2>3. TryPatch(f) /\ client' = [client EXCEPT ![c] = Free] /\ canonical' = canonical
    BY <1>18 DEF FlushIndex, Finish, MoveTo
  <2> HIDE DEF f
  <2>4. row' = row \/ IsRow(row')
    BY <1>0, <2>2, <2>3, TryPatchKeeps
  <2> QED
    BY <1>2, <1>3d, <2>3, <2>4
<1>19. ASSUME NEW c \in Clients, TurnDone(c) PROVE SelectionInv'
  BY <1>2, <1>3d, <1>19 DEF TurnDone, Finish, MoveTo
<1>19a. ASSUME NEW c \in Clients, NEW f, FieldsAgree(f), row # None, row' = row, canonical' = canonical,
              client' = [client EXCEPT ![c] = [op |-> "patch", fields |-> f]]
       PROVE  SelectionInv'
  <2> DEFINE r == [op |-> "patch", fields |-> f]
  <2>1. RequestHolds(r)
    BY <1>19a DEF RequestHolds, TurnOps, Loaded
  <2>2. client' = [client EXCEPT ![c] = r]
    BY <1>19a
  <2> HIDE DEF r
  <2> QED
    BY <1>1, <1>19a, <2>1, <2>2
<1>20. ASSUME NEW c \in Clients, NEW archive, PatchSession(c, archive) \/ DeleteSession(c) PROVE SelectionInv'
  <2>1. /\ FieldsAgree([archived |-> TRUE]) /\ FieldsAgree([archived |-> FALSE])
        /\ FieldsAgree([archived |-> TRUE, title |-> TRUE])
    BY DEF FieldsAgree, FieldsTyped
  <2>2. PICK f : /\ FieldsAgree(f) /\ row # None /\ row' = row /\ canonical' = canonical
                 /\ client' = [client EXCEPT ![c] = [op |-> "patch", fields |-> f]]
    BY <1>20, <2>1 DEF PatchSession, DeleteSession, Start
  <2> QED
    BY <1>19a, <2>2
<1>21. ASSUME NEW c \in Clients, NEW open \in Selections, NEW included \in SUBSET open,
              SaveDocuments(c, included, open)
       PROVE  SelectionInv'
  <2> DEFINE f == [ids |-> included, tabs |-> [d \in open |-> d \in included]]
  <2>1. FieldsAgree(f)
    BY DEF FieldsAgree, FieldsTyped, Agrees, Selections
  <2>2. /\ row # None /\ row' = row /\ canonical' = canonical
        /\ client' = [client EXCEPT ![c] = [op |-> "patch", fields |-> f]]
    BY <1>21 DEF SaveDocuments, Start
  <2> HIDE DEF f
  <2> QED
    BY <1>19a, <2>1, <2>2
<1>22. ASSUME NEW c \in Clients, GetMessages(c) \/ Reconcile(c) PROVE SelectionInv'
  <2>1. CASE GetMessages(c)
    <3> DEFINE r == [op |-> "messages", seen |-> row]
    <3>1. client' = [client EXCEPT ![c] = r] /\ row # None /\ row' = row /\ canonical' = canonical
      BY <2>1 DEF GetMessages, Start
    <3>2. RequestHolds(r)
      BY DEF RequestHolds, TurnOps, Loaded
    <3> HIDE DEF r
    <3> QED
      BY <1>1, <3>1, <3>2
  <2>2. CASE Reconcile(c)
    <3> DEFINE r == [op |-> "mark lost"]
    <3>1. client' = [client EXCEPT ![c] = r] /\ row # None /\ row' = row /\ canonical' = canonical
      BY <2>2 DEF Reconcile, Start
    <3>2. RequestHolds(r)
      BY DEF RequestHolds, TurnOps, Loaded
    <3> HIDE DEF r
    <3> QED
      BY <1>1, <3>1, <3>2
  <2> QED
    BY <1>22, <2>1, <2>2
<1>22a. ASSUME NEW c \in Clients, NEW f, FieldsAgree(f), client[c].op \in SawRow, row' = row,
              canonical' = canonical, client' = [client EXCEPT ![c] = [op |-> "patch", fields |-> f]]
       PROVE  SelectionInv'
  <2> DEFINE r == [op |-> "patch", fields |-> f]
  <2>1. RequestHolds(r)
    BY <1>22a DEF RequestHolds, TurnOps, Loaded
  <2>2. client' = [client EXCEPT ![c] = r] /\ TranscriptHolds(canonical') /\ IsRow(row')
    BY <1>3, <1>3d, <1>22a
  <2> HIDE DEF r
  <2> QED
    BY <2>1, <2>2, ClientMoves
<1>23. ASSUME NEW c \in Clients, ReadTranscript(c) PROVE SelectionInv'
  <2>1. client[c].op \in SawRow /\ row' = row /\ canonical' = canonical
    BY <1>23 DEF ReadTranscript, At, SawRow
  <2>2. CASE Finish(c)
    BY <1>2, <1>3d, <2>1, <2>2 DEF Finish, MoveTo
  <2>3. CASE ~Finish(c)
    <3>1. PICK v : client' = [client EXCEPT ![c] = [op |-> "patch", fields |-> [status |-> v]]]
      BY <1>23, <2>3 DEF ReadTranscript, MoveTo
    <3>2. FieldsAgree([status |-> v])
      BY DEF FieldsAgree, FieldsTyped
    <3> QED
      BY <1>22a, <2>1, <3>1, <3>2
  <2> QED
    BY <2>2, <2>3
<1>24. ASSUME NEW c \in Clients, MarkLost(c) PROVE SelectionInv'
  <2>1. client[c].op \in SawRow /\ row' = row /\ canonical' = canonical
    BY <1>24 DEF MarkLost, At, SawRow
  <2>2. CASE row.lost
    BY <1>2, <1>3d, <1>24, <2>1, <2>2 DEF MarkLost, Finish, MoveTo
  <2>3. CASE ~row.lost
    <3>1. FieldsAgree([lost |-> TRUE])
      BY DEF FieldsAgree, FieldsTyped
    <3>2. client' = [client EXCEPT ![c] = [op |-> "patch", fields |-> [lost |-> TRUE]]]
      BY <1>24, <2>3 DEF MarkLost, MoveTo
    <3> QED
      BY <1>22a, <2>1, <3>1, <3>2
  <2> QED
    BY <2>2, <2>3
<1>25. ASSUME NEW c \in Clients, WritePatch(c) PROVE SelectionInv'
  <2>1. IsRow(row) /\ FieldsAgree(client[c].fields)
    BY <1>0, <1>25 DEF WritePatch, At, SawRow, ClientsHold, RequestHolds
  <2>2. IsRow(row')
    BY <1>25, <2>1, PatchedIsRow DEF WritePatch
  <2> QED
    BY <1>2, <1>3d, <1>25, <2>2 DEF WritePatch, Finish, MoveTo
<1>26. CASE TranscriptLost \/ UNCHANGED sessionVars
  <2>1. row' = row /\ client' = client /\ (canonical' = canonical \/ canonical' = None)
    BY <1>26 DEF TranscriptLost, sessionVars
  <2>2. TranscriptHolds(canonical')
    BY <1>0, <2>1 DEF TranscriptHolds
  <2> QED
    BY <1>0, <2>1, <2>2 DEF SelectionInv, ClientsHold
<1> QED
  BY <1>4, <1>5, <1>6, <1>7, <1>8, <1>9, <1>10, <1>11, <1>12, <1>14, <1>15, <1>16, <1>17, <1>18, <1>19,
     <1>20, <1>21, <1>22, <1>23, <1>24, <1>25, <1>26 DEF SessionNext

(* The document identifiers a turn is given are the tabs shown as included, *)
(* however turns, edits and second creations of the row interleave, and the *)
(* row and the transcript keep their shape (_ensure_session_index,          *)
(* set_session_documents, save_documents).                                  *)
THEOREM SelectionAgrees == SessionSpec => [](SelectionConsistent /\ SessionTypeOK)
<1>1. SelectionInv => SelectionConsistent
  BY DEF SelectionInv, IsRow, Agrees, SelectionConsistent
<1>2. SelectionInv => SessionTypeOK
  <2>1. SelectionInv => (row # None => RowTyped(row))
    BY DEF SelectionInv, IsRow
  <2>2. SelectionInv => (canonical # None => canonical.count \in Nat /\ canonical.turns \in Nat)
    BY DEF SelectionInv, TranscriptHolds, Transcripts
  <2> QED
    BY <2>1, <2>2 DEF RowTyped, SessionTypeOK
<1> QED
  BY <1>1, <1>2, SelectionInit, SelectionStep, PTL DEF SessionSpec
-----------------------------------------------------------------------------
(* The reports of a message: the stored revisions are numbered without a    *)
(* gap, and an editor was opened on one that is there.                      *)
EditorStates == [op : {"closed"}] \cup [op : {"open", "saving"}, revision : Nat]

RevisionsInv ==
    /\ revisions \in Seq([by : Editors, over : Nat])
    /\ \A i \in 1..Len(revisions) : revisions[i].over = i - 1
    /\ editor \in [Editors -> EditorStates]
    /\ \A e \in Editors : editor[e].op # "closed" => editor[e].revision <= Len(revisions)

RevisionsStep == IsPrefix(revisions, revisions') /\ \A i \in 1..Len(revisions') : revisions'[i].over = i - 1

LEMMA PrefixOfAppend ==
    ASSUME NEW S, NEW s \in Seq(S), NEW x \in S
    PROVE  IsPrefix(s, s) /\ IsPrefix(s, Append(s, x))
<1>1. Append(s, x) \in Seq(S) /\ Len(Append(s, x)) = Len(s) + 1 /\ Len(s) \in Nat
  OBVIOUS
<1>2. SubSeq(s, 1, Len(s)) = s
  OBVIOUS
<1>3. SubSeq(Append(s, x), 1, Len(s)) = s
  <2>1. SubSeq(Append(s, x), 1, Len(s)) = [i \in 1..Len(s) |-> Append(s, x)[i]]
    BY <1>1
  <2> QED
    BY <2>1
<1> QED
  BY <1>1, <1>2, <1>3 DEF IsPrefix

LEMMA RevisionsInit == QueryInit => RevisionsInv
BY DEF QueryInit, RevisionsInv, EditorStates

LEMMA RevisionsNext == RevisionsInv /\ [QueryNext]_queryVars => RevisionsInv' /\ [RevisionsStep]_queryVars
<1> SUFFICES ASSUME RevisionsInv, [QueryNext]_queryVars PROVE RevisionsInv' /\ RevisionsStep
  OBVIOUS
<1> USE DEF RevisionsInv
<1>1. IsPrefix(revisions, revisions)
  BY PrefixOfAppend, SMTT(60) DEF IsPrefix
<1>2. ASSUME UNCHANGED <<revisions, editor>> PROVE RevisionsInv' /\ RevisionsStep
  BY <1>1, <1>2, SMTT(60) DEF RevisionsStep
<1>3. CASE OpenSearch \/ OpenList \/ SearchFetch \/ ListFetch \/ UNCHANGED queryVars
  BY <1>2, <1>3 DEF OpenSearch, OpenList, SearchFetch, ListFetch, queryVars, reportVars
<1>4. CASE \E r \in RowIds : TouchRow(r)
  BY <1>2, <1>4 DEF TouchRow, reportVars
<1>5. ASSUME NEW e \in Editors, OpenReport(e) PROVE RevisionsInv' /\ RevisionsStep
  <2>1. [op |-> "open", revision |-> Len(revisions)] \in EditorStates
    BY DEF EditorStates
  <2> QED
    BY <1>1, <1>5, <2>1 DEF OpenReport, RevisionsStep
<1>6. ASSUME NEW e \in Editors, SaveReport(e) PROVE RevisionsInv' /\ RevisionsStep
  <2>1. editor[e] \in [op : {"open", "saving"}, revision : Nat]
    BY <1>6 DEF SaveReport, EditorStates
  <2>2. [editor[e] EXCEPT !.op = "saving"] \in [op : {"open", "saving"}, revision : Nat]
        /\ [editor[e] EXCEPT !.op = "saving"].revision = editor[e].revision
    BY <2>1
  <2>3. [op |-> "closed"] \in EditorStates
    BY DEF EditorStates
  <2>4. editor'[e] \in EditorStates
        /\ (editor'[e].op # "closed" => editor'[e].revision <= Len(revisions))
    BY <1>6, <2>1, <2>2, <2>3 DEF SaveReport, EditorStates
  <2> QED
    BY <1>1, <1>6, <2>4 DEF SaveReport, RevisionsStep
<1>7. ASSUME NEW e \in Editors, CreateRevision(e) PROVE RevisionsInv' /\ RevisionsStep
  <2>1. editor[e].revision \in Nat /\ editor[e].revision <= Len(revisions)
    BY <1>7 DEF CreateRevision, EditorStates
  <2>2. editor' \in [Editors -> EditorStates] /\ editor' = [editor EXCEPT ![e] = [op |-> "closed"]]
    BY <1>7 DEF CreateRevision, EditorStates
  <2>3. CASE Len(revisions) > editor[e].revision
    BY <1>1, <1>7, <2>2, <2>3 DEF CreateRevision, RevisionsStep
  <2>4. CASE ~(Len(revisions) > editor[e].revision)
    <3> DEFINE x == [by |-> e, over |-> editor[e].revision]
    <3>1. x \in [by : Editors, over : Nat] /\ x.over = Len(revisions)
      BY <2>1, <2>4
    <3>2. revisions' = Append(revisions, x)
      BY <1>7, <2>4 DEF CreateRevision
    <3> HIDE DEF x
    <3>3. /\ revisions' \in Seq([by : Editors, over : Nat]) /\ Len(revisions') = Len(revisions) + 1
          /\ \A i \in 1..Len(revisions) : revisions'[i] = revisions[i]
          /\ revisions'[Len(revisions) + 1] = x
      BY <3>1, <3>2
    <3>4. \A i \in 1..Len(revisions') : revisions'[i].over = i - 1
      BY <3>1, <3>3
    <3>5. IsPrefix(revisions, revisions')
      BY <3>1, <3>2, PrefixOfAppend
    <3>6. \A d \in Editors : editor'[d].op # "closed" => editor'[d].revision <= Len(revisions')
      BY <2>2, <3>3 DEF EditorStates
    <3> QED
      BY <2>2, <3>3, <3>4, <3>5, <3>6 DEF RevisionsStep
  <2> QED
    BY <2>3, <2>4
<1> QED
  BY <1>3, <1>4, <1>5, <1>6, <1>7 DEF QueryNext

(* Competing saves never overwrite each other: the revisions of a report    *)
(* only grow, each over the one before it.                                  *)
THEOREM RevisionsAreKept == QuerySpec => RevisionsKept
<1>1. RevisionsInv /\ [QueryNext]_queryVars =>
        [IsPrefix(revisions, revisions') /\ \A i \in 1..Len(revisions') : revisions'[i].over = i - 1]_queryVars
  BY RevisionsNext DEF RevisionsStep
<1>2. RevisionsInv /\ [QueryNext]_queryVars => RevisionsInv'
  BY RevisionsNext
<1> QED
  BY <1>1, <1>2, RevisionsInit, PTL DEF QuerySpec, RevisionsKept
-----------------------------------------------------------------------------
(***************************************************************************)
(* Searching: the order of the rows, and the sort of a set of them.        *)
(***************************************************************************)
IndexOK == index \in [RowIds -> [stamp : Nat, provisional : BOOLEAN, malformed : BOOLEAN]]

AnyPosition == [stamp : Nat, id : 0..RowCount]

LEMMA PositionType ==
    ASSUME IndexOK, NEW r \in RowIds
    PROVE  Position(r) \in AnyPosition /\ Position(r).id = r /\ Position(r).stamp = index[r].stamp
BY QueryAssumption DEF IndexOK, Position, AnyPosition, RowIds

LEMMA BelowOrders ==
    /\ \A p, q, s \in AnyPosition : Below(p, q) /\ ~Below(s, q) => Below(p, s)
    /\ \A p, q, s \in AnyPosition : ~Below(p, q) /\ ~Below(q, s) => ~Below(p, s)
    /\ \A p, q, s \in AnyPosition : Below(p, q) /\ Below(q, s) => Below(p, s)
    /\ \A p, q \in AnyPosition : Below(p, q) => ~Below(q, p)
    /\ \A p, q \in AnyPosition : p.id # q.id => Below(p, q) \/ Below(q, p)
    /\ \A p \in AnyPosition : ~Below(p, p)
<1>1. \A p \in AnyPosition : p.stamp \in Nat /\ p.id \in Nat
  BY QueryAssumption DEF AnyPosition
<1> QED
  BY <1>1 DEF Below

LEMMA RowsFinite == RowCount \in Nat /\ IsFiniteSet(RowIds)
BY QueryAssumption, FS_Interval DEF RowIds

\* A row's place in the sort is the number of rows that are not below it.
LEMMA NewestFirstExists ==
    ASSUME IndexOK, NEW S \in SUBSET RowIds
    PROVE  \E s \in SetToSeqs(S) :
               \A i, j \in DOMAIN s : i < j => Below(Position(s[j]), Position(s[i]))
<1> DEFINE Over(d) == {e \in S : ~Below(Position(e), Position(d))}
           n == Cardinality(S)
           at == [d \in S |-> Cardinality(Over(d))]
<1>0. \A d \in S : Position(d) \in AnyPosition /\ Position(d).id = d
  BY PositionType
<1>1. IsFiniteSet(S) /\ n \in Nat
  BY RowsFinite, FS_Subset, FS_CardinalityType
<1>2. ASSUME NEW d \in S PROVE IsFiniteSet(Over(d)) /\ Cardinality(Over(d)) \in 1..n
  <2>1. Over(d) \in SUBSET S /\ d \in Over(d)
    BY <1>0, BelowOrders
  <2>2. IsFiniteSet(Over(d)) /\ Cardinality(Over(d)) <= n /\ Cardinality(Over(d)) \in Nat
    BY <1>1, <2>1, FS_Subset, FS_CardinalityType
  <2>3. Cardinality(Over(d)) # 0
    BY <2>1, <2>2, FS_EmptySet
  <2> QED
    BY <1>1, <2>2, <2>3
<1>3. ASSUME NEW d \in S, NEW e \in S, Below(Position(e), Position(d)) PROVE at[d] < at[e]
  <2>1. Over(d) \in SUBSET Over(e) /\ e \in Over(e) /\ e \notin Over(d)
    <3>1. \A x \in S : ~Below(Position(x), Position(d)) => ~Below(Position(x), Position(e))
      BY <1>0, <1>3, BelowOrders
    <3>2. ~Below(Position(e), Position(e))
      BY <1>0, BelowOrders
    <3> QED
      BY <1>3, <3>1, <3>2
  <2>2. Cardinality(Over(d)) <= Cardinality(Over(e)) /\ Cardinality(Over(d)) # Cardinality(Over(e))
    <3>1. IsFiniteSet(Over(e)) /\ IsFiniteSet(Over(e) \ {e})
      BY <1>2, FS_RemoveElement
    <3>2. Cardinality(Over(e) \ {e}) = Cardinality(Over(e)) - 1 /\ Over(d) \in SUBSET (Over(e) \ {e})
      BY <1>2, <2>1, FS_RemoveElement
    <3>3. Cardinality(Over(d)) <= Cardinality(Over(e)) - 1
      BY <3>1, <3>2, FS_Subset
    <3> HIDE DEF Over
    <3>4. Cardinality(Over(d)) \in Nat /\ Cardinality(Over(e)) \in Nat
      BY <1>2
    <3> QED
      BY <3>3, <3>4
  <2> HIDE DEF Over
  <2>3. at[d] = Cardinality(Over(d)) /\ at[e] = Cardinality(Over(e)) /\ at[d] \in Nat /\ at[e] \in Nat
    BY <1>2
  <2> QED
    BY <2>2, <2>3
<1> HIDE DEF Over
<1>4. at \in [S -> 1..n]
  BY <1>2
<1>5. at \in Injection(S, 1..n)
  <2>1. ASSUME NEW d \in S, NEW e \in S, at[d] = at[e] PROVE d = e
    <3>1. at[d] \in Nat
      BY <1>1, <1>4
    <3> HIDE DEF at
    <3>2. ~Below(Position(d), Position(e)) /\ ~Below(Position(e), Position(d))
      BY <1>3, <2>1, <3>1
    <3> QED
      BY <1>0, <3>2, BelowOrders
  <2> HIDE DEF at
  <2> QED
    BY <1>4, <2>1 DEF Injection, IsInjective
<1> HIDE DEF at
<1>6. IsFiniteSet(1..n) /\ Cardinality(1..n) = n
  BY <1>1, FS_Interval
<1>7. at \in Surjection(S, 1..n)
  BY <1>5, <1>6, FS_Injection DEF n
<1> DEFINE ranked == [i \in 1..n |-> CHOOSE d \in S : at[d] = i]
<1>8. \A i \in 1..n : ranked[i] \in S /\ at[ranked[i]] = i
  BY <1>7 DEF Surjection
<1>9. ranked \in [1..n -> S] /\ DOMAIN ranked = 1..n
  BY <1>8
<1> HIDE DEF ranked
<1>10. \A i, j \in 1..n : i # j => ranked[i] # ranked[j]
  BY <1>8
<1>11. ranked \in SetToSeqs(S)
  BY <1>9, <1>10 DEF SetToSeqs, n
<1>12. ASSUME NEW i \in DOMAIN ranked, NEW j \in DOMAIN ranked, i < j
       PROVE  Below(Position(ranked[j]), Position(ranked[i]))
  <2>1. ranked[i] \in S /\ ranked[j] \in S /\ i \in Nat /\ j \in Nat /\ at[ranked[i]] = i /\ at[ranked[j]] = j
    BY <1>1, <1>8, <1>9
  <2>2. ~Below(Position(ranked[i]), Position(ranked[j])) /\ ranked[i] # ranked[j]
    BY <1>3, <1>12, <2>1
  <2> QED
    BY <1>0, <2>1, <2>2, BelowOrders
<1> QED
  BY <1>11, <1>12

LEMMA NewestFirstSorts ==
    ASSUME IndexOK, NEW S \in SUBSET RowIds
    PROVE  LET s == NewestFirst(S)
           IN  /\ s \in Seq(RowIds) /\ {s[i] : i \in 1..Len(s)} = S
               /\ \A i, j \in 1..Len(s) : i < j => Below(Position(s[j]), Position(s[i]))
<1> DEFINE n == Cardinality(S)
           ranked == NewestFirst(S)
<1>1. /\ ranked \in SetToSeqs(S)
      /\ \A i, j \in DOMAIN ranked : i < j => Below(Position(ranked[j]), Position(ranked[i]))
  BY NewestFirstExists, Zenon DEF NewestFirst
<1>2. ranked \in [1..n -> S] /\ \A i, j \in 1..n : i # j => ranked[i] # ranked[j]
  BY <1>1 DEF SetToSeqs
<1>3. IsFiniteSet(S) /\ n \in Nat
  BY RowsFinite, FS_Subset, FS_CardinalityType
<1> HIDE DEF ranked
<1>4. ranked \in Injection(1..n, S)
  BY <1>2 DEF Injection, IsInjective
<1>5. IsFiniteSet(1..n) /\ Cardinality(1..n) = n
  BY <1>3, FS_Interval
<1>6. ranked \in Surjection(1..n, S)
  BY <1>3, <1>4, <1>5, FS_Injection DEF n
<1>7. ranked \in Seq(RowIds) /\ Len(ranked) = n /\ DOMAIN ranked = 1..n
  <2>1. ranked \in [1..n -> RowIds]
    BY <1>2
  <2> HIDE DEF n
  <2> QED
    BY <1>3, <2>1
<1>8. {ranked[i] : i \in 1..Len(ranked)} = S
  BY <1>2, <1>6, <1>7 DEF Surjection
<1> QED
  BY <1>1, <1>7, <1>8 DEF ranked

\* The newest rows of a set up to a limit: they are above the others.
LEMMA NewestAre ==
    ASSUME IndexOK, NEW S \in SUBSET RowIds, NEW limit \in Nat \ {0}
    PROVE  LET s == Newest(S, limit)
               T == {s[i] : i \in 1..Len(s)}
           IN  /\ s \in Seq(RowIds) /\ T \subseteq S /\ ToSet(s) = T
               /\ Len(s) < limit => T = S
               /\ Len(s) >= limit => /\ Len(s) = limit
                                     /\ \A r \in T : ~Below(Position(r), Position(s[Len(s)]))
                                     /\ \A r \in S \ T : Below(Position(r), Position(s[Len(s)]))
<1> DEFINE all == NewestFirst(S)
           k == IF Len(all) < limit THEN Len(all) ELSE limit
           s == SubSeq(all, 1, k)
<1>1. /\ all \in Seq(RowIds) /\ {all[i] : i \in 1..Len(all)} = S
      /\ \A i, j \in 1..Len(all) : i < j => Below(Position(all[j]), Position(all[i]))
  BY NewestFirstSorts
<1>2. Newest(S, limit) = s
  BY DEF Newest
<1> HIDE DEF all
<1>3. Len(all) \in Nat /\ k \in 0..Len(all) /\ (Len(all) < limit => k = Len(all)) /\ (~(Len(all) < limit) => k = limit)
  BY <1>1, LenProperties
<1> HIDE DEF k
<1>4. s \in Seq(RowIds) /\ Len(s) = k /\ \A i \in 1..k : s[i] = all[i]
  <2>1. \A i \in 1..k : all[i] \in RowIds
    BY <1>1, <1>3, ElementOfSeq
  <2>2. 1 \in Int /\ k \in Int
    BY <1>3
  <2>3. /\ s \in Seq(RowIds) /\ Len(s) = (IF 1 <= k THEN k - 1 + 1 ELSE 0)
        /\ \A i \in 1..k - 1 + 1 : s[i] = all[1 + i - 1]
    BY <2>1, <2>2, SubSeqProperties
  <2>4. Len(s) = k /\ 1..k - 1 + 1 = 1..k /\ \A i \in 1..k : 1 + i - 1 = i
    BY <1>3, <2>3
  <2> QED
    BY <2>3, <2>4
<1> HIDE DEF s
<1> DEFINE T == {s[i] : i \in 1..Len(s)}
<1>5. T \subseteq S /\ ToSet(s) = T
  <2>1. DOMAIN s = 1..Len(s)
    BY <1>4, LenProperties
  <2>2. \A i \in 1..k : i \in 1..Len(all)
    BY <1>3
  <2> QED
    BY <1>1, <1>4, <2>1, <2>2 DEF ToSet
<1>6. ASSUME Len(s) < limit PROVE T = S
  <2>1. k = Len(all)
    BY <1>3, <1>4, <1>6
  <2> QED
    BY <1>1, <1>4, <2>1
<1>7. ASSUME Len(s) >= limit
      PROVE  /\ Len(s) = limit
             /\ \A r \in T : ~Below(Position(r), Position(s[Len(s)]))
             /\ \A r \in S \ T : Below(Position(r), Position(s[Len(s)]))
  <2>1. k = limit /\ k \in 1..Len(all) /\ s[Len(s)] = all[k]
    BY <1>3, <1>4, <1>7
  <2>2. ASSUME NEW i \in 1..k PROVE ~Below(Position(all[i]), Position(all[k]))
    <3>1. i \in 1..Len(all) /\ all[i] \in RowIds /\ all[k] \in RowIds
      BY <1>1, <1>3, <2>1, ElementOfSeq
    <3>2. Position(all[i]) \in AnyPosition /\ Position(all[k]) \in AnyPosition
      BY <3>1, PositionType
    <3>3. i = k \/ Below(Position(all[k]), Position(all[i]))
      BY <1>1, <1>3, <2>1, <3>1
    <3> QED
      BY <3>2, <3>3, BelowOrders
  <2>3. ASSUME NEW r \in S \ T PROVE Below(Position(r), Position(all[k]))
    <3>1. PICK j \in 1..Len(all) : all[j] = r
      BY <1>1
    <3>2. ~(j \in 1..k)
      BY <1>4, <2>3, <3>1
    <3>3. k < j
      BY <1>3, <3>2
    <3> QED
      BY <1>1, <2>1, <3>1, <3>3
  <2>4. \A r \in T : ~Below(Position(r), Position(all[k]))
    BY <1>4, <2>2
  <2> QED
    BY <1>4, <2>1, <2>3, <2>4
<1> QED
  BY <1>2, <1>4, <1>5, <1>6, <1>7
-----------------------------------------------------------------------------
(***************************************************************************)
(* The inductive invariant of a search: what was shown and what is waiting *)
(* to be shown lie above the cursor, and every visible row that did not    *)
(* move was shown, is waiting, or lies below it.                           *)
(***************************************************************************)
Distinct(q) == \A i, j \in 1..Len(q) : q[i] = q[j] => i = j
Placed == [stamp : Nat, id : RowIds]
IsIndex(rows) == rows \in [RowIds -> [stamp : Nat, provisional : BOOLEAN, malformed : BOOLEAN]]
Pos(rows, r) == [stamp |-> rows[r].stamp, id |-> r]
ListedIn(rows) == {r \in RowIds : ~rows[r].provisional /\ ~rows[r].malformed}

Waits(rows, results, after) ==
    /\ after \in AnyPosition /\ results \in Seq(Placed)
    /\ \A i, j \in 1..Len(results) : i < j => Below(results[j], results[i])
    /\ \A i, j \in 1..Len(results) : results[i].id = results[j].id => i = j
    /\ \A i \in 1..Len(results) :
           ~Below(results[i], after) /\ ~Below(Pos(rows, results[i].id), results[i])

Passed(rows, seen, results, after) ==
    \A k \in 1..Len(seen) :
        /\ ~Below(Pos(rows, seen[k]), after)
        /\ \A i \in 1..Len(results) :
               seen[k] # results[i].id /\ ~Below(Pos(rows, seen[k]), results[i])

Reached(rows, seen, moved, results, after) ==
    \A r \in ListedIn(rows) \ moved :
        \/ \E k \in 1..Len(seen) : seen[k] = r
        \/ Below(Pos(rows, r), after)
        \/ \E i \in 1..Len(results) : results[i] = Pos(rows, r)

SearchHolds(rows, seen, moved, results, after) ==
    Waits(rows, results, after) /\ Passed(rows, seen, results, after) /\ Reached(rows, seen, moved, results, after)

AllShown(rows, seen, moved) == \A r \in ListedIn(rows) \ moved : \E k \in 1..Len(seen) : seen[k] = r

SearchInv ==
    /\ IsIndex(index) /\ shown \in Seq(RowIds) /\ "op" \in DOMAIN reader
    /\ reader.op = "start" => /\ shown = <<>> /\ touched = {}
                              /\ \A r \in RowIds : index[r].stamp = 0
    /\ reader.op = "search" => /\ DOMAIN reader = {"op", "after", "results"}
                               /\ SearchHolds(index, shown, touched, reader.results, reader.after)
    /\ reader.op \in {"search", "searched"} => Distinct(shown)
    /\ reader.op = "searched" => AllShown(index, shown, touched)

LEMMA SearchInvShows == SearchInv => SearchComplete
<1> SUFFICES ASSUME SearchInv, reader.op \in {"search", "searched"} PROVE SearchComplete
  BY DEF SearchComplete
<1> DEFINE n == Len(shown)
           T == ToSet(shown)
<1>1. n \in Nat /\ DOMAIN shown = 1..n /\ shown \in [1..n -> RowIds]
  BY LenProperties DEF SearchInv
<1>2. shown \in [1..n -> T] /\ \A i, j \in 1..n : shown[i] = shown[j] => i = j
  BY <1>1 DEF SearchInv, Distinct, ToSet
<1>3. \A x \in T : \E i \in 1..n : shown[i] = x
  BY <1>1 DEF ToSet
<1>4. reader.op = "searched" => Listed \ touched \subseteq T
  BY <1>1 DEF SearchInv, AllShown, ListedIn, Listed, ToSet
<1> HIDE DEF T, n
<1>5. shown \in Bijection(1..n, T)
  BY <1>1, <1>2, <1>3 DEF Bijection, Injection, IsInjective, Surjection
<1>6. IsFiniteSet(1..n) /\ Cardinality(1..n) = n
  BY <1>1, FS_Interval
<1>7. Cardinality(T) = n
  BY <1>5, <1>6, FS_Bijection DEF ExistsBijection
<1> QED
  BY <1>4, <1>7 DEF T, n, SearchComplete

LEMMA SearchInit == QueryInit => SearchInv
<1> SUFFICES ASSUME QueryInit PROVE SearchInv
  OBVIOUS
<1>1. IsIndex(index) /\ \A r \in RowIds : index[r].stamp = 0
  BY DEF QueryInit, IsIndex
<1>2. reader = [op |-> "start"] /\ shown = <<>> /\ touched = {}
  BY DEF QueryInit
<1> QED
  BY <1>1, <1>2 DEF SearchInv

\* The first page starts above every row.
LEMMA OpenSearchKeeps == SearchInv /\ OpenSearch => SearchInv'
<1> SUFFICES ASSUME SearchInv, OpenSearch PROVE SearchInv'
  OBVIOUS
<1>1. /\ reader' = [op |-> "search", after |-> Top, results |-> <<>>]
      /\ index' = index /\ shown' = shown /\ touched' = touched
      /\ shown = <<>> /\ IsIndex(index) /\ \A r \in RowIds : index[r].stamp = 0
  BY DEF OpenSearch, SearchInv
<1>2. Top \in AnyPosition
  BY QueryAssumption DEF Top, AnyPosition
<1>3. \A r \in RowIds : Below(Pos(index, r), Top)
  BY <1>1, QueryAssumption DEF Below, Pos, Top, RowIds
<1>4. SearchHolds(index, <<>>, touched, <<>>, Top)
  BY <1>2, <1>3 DEF SearchHolds, Waits, Passed, Reached, ListedIn
<1>5. Distinct(<<>>) /\ <<>> \in Seq(RowIds)
  BY DEF Distinct
<1>6. reader'.results = <<>> /\ reader'.after = Top /\ reader'.op = "search" /\ DOMAIN reader' = {"op", "after", "results"}
  BY <1>1
<1> QED
  BY <1>1, <1>4, <1>5, <1>6 DEF SearchInv

\* A row that a turn moves goes above all the others.
LEMMA StampsBounded == ASSUME NEW rows, IsIndex(rows) PROVE \E m \in Nat : \A s \in RowIds : rows[s].stamp <= m
<1> DEFINE S == {k \in 0..RowCount : \E m \in Nat : \A s \in 1..k : rows[s].stamp <= m}
<1>1. 0 \in S
  BY QueryAssumption
<1>2. ASSUME NEW k \in 1..RowCount, k - 1 \in S PROVE k \in S
  <2>1. PICK m \in Nat : \A s \in 1..k - 1 : rows[s].stamp <= m
    BY <1>2
  <2>2. \A s \in 1..k : rows[s].stamp \in Nat
    BY QueryAssumption DEF IsIndex, RowIds
  <2>3. k \in 1..k /\ rows[k].stamp \in Nat
    BY <2>2, QueryAssumption
  <2>4. PICK z \in Nat : z >= m /\ z >= rows[k].stamp
    <3>1. IF m >= rows[k].stamp THEN m >= m /\ m >= rows[k].stamp ELSE rows[k].stamp >= m /\ rows[k].stamp >= rows[k].stamp
      BY <2>3
    <3> QED
      BY <2>3, <3>1
  <2>5. \A s \in 1..k : s \in 1..k - 1 \/ s = k
    BY QueryAssumption
  <2>6. \A s \in 1..k : rows[s].stamp <= z
    BY <2>1, <2>2, <2>4, <2>5
  <2>7. k \in 0..RowCount
    BY QueryAssumption
  <2> QED
    BY <2>6, <2>7
<1>3. 0..RowCount \subseteq S
  <2> HIDE DEF S
  <2> QED
    BY <1>1, <1>2, QueryAssumption, UpTo
<1>4. RowCount \in 0..RowCount
  BY QueryAssumption
<1>5. RowCount \in S
  BY <1>3, <1>4
<1> QED
  BY <1>5 DEF RowIds

LEMMA TouchRaises ==
    ASSUME SearchInv, NEW r \in RowIds, TouchRow(r)
    PROVE  /\ IsIndex(index') /\ \A s \in RowIds \ {r} : index'[s] = index[s]
           /\ \A s \in RowIds : /\ index'[s].malformed = index[s].malformed
                                /\ \A p \in AnyPosition : ~Below(Pos(index, s), p) => ~Below(Pos(index', s), p)
<1> DEFINE stamps == {index[s].stamp : s \in RowIds}
           top == Max(stamps)
<1>0. IsIndex(index)
  BY DEF SearchInv
<1>1. \A s \in RowIds : index[s].stamp \in Nat /\ DOMAIN index[s] = {"stamp", "provisional", "malformed"}
  BY <1>0 DEF IsIndex
<1>2. PICK m \in Nat : \A s \in RowIds : index[s].stamp <= m
  BY <1>0, StampsBounded
<1>3. stamps \in SUBSET Nat /\ stamps # {} /\ \A x \in stamps : x <= m
  BY <1>1, <1>2
<1> HIDE DEF stamps
<1>4. \E x \in stamps : \A y \in stamps : y <= x
  BY <1>3, NatGreatest
<1>5. top \in stamps /\ \A y \in stamps : y <= top
  BY <1>4 DEF Max
<1>6. index' = [index EXCEPT ![r].stamp = top + 1, ![r].provisional = FALSE]
  BY DEF TouchRow, stamps
<1> HIDE DEF top
<1>7. top \in Nat /\ \A s \in RowIds : index[s].stamp <= top
  BY <1>3, <1>5 DEF stamps
<1>8. /\ index'[r].stamp = top + 1 /\ index'[r].malformed = index[r].malformed
      /\ index'[r].provisional = FALSE /\ \A s \in RowIds \ {r} : index'[s] = index[s]
  BY <1>0, <1>1, <1>6 DEF IsIndex
<1>9. IsIndex(index')
  <2> DEFINE e == [index[r] EXCEPT !.stamp = top + 1, !.provisional = FALSE]
  <2>1. index' = [index EXCEPT ![r] = e]
    BY <1>0, <1>6 DEF IsIndex
  <2>2. e \in [stamp : Nat, provisional : BOOLEAN, malformed : BOOLEAN]
    <3>1. index[r] \in [stamp : Nat, provisional : BOOLEAN, malformed : BOOLEAN] /\ top + 1 \in Nat
      BY <1>0, <1>7 DEF IsIndex
    <3> QED
      BY <3>1
  <2> HIDE DEF e
  <2> QED
    BY <1>0, <2>1, <2>2 DEF IsIndex
<1>10. ASSUME NEW s \in RowIds, NEW p \in AnyPosition, ~Below(Pos(index, s), p)
       PROVE  ~Below(Pos(index', s), p)
  <2>1. index'[s].stamp \in Nat /\ index[s].stamp \in Nat /\ index'[s].stamp >= index[s].stamp
        /\ (index'[s].stamp = index[s].stamp \/ index'[s].stamp > index[s].stamp)
    BY <1>1, <1>7, <1>8
  <2>2. p.stamp \in Nat /\ p.id \in Nat /\ s \in Nat
    BY QueryAssumption DEF AnyPosition, RowIds
  <2> QED
    BY <1>10, <2>1, <2>2 DEF Below, Pos
<1> QED
  BY <1>8, <1>9, <1>10

LEMMA PlacedPositions == Placed \subseteq AnyPosition
BY QueryAssumption DEF Placed, AnyPosition, RowIds

LEMMA MovedUp ==
    ASSUME NEW rows, NEW rows2, NEW r \in RowIds, \A s \in RowIds \ {r} : rows2[s] = rows[s],
           rows2[r].malformed = rows[r].malformed,
           \A s \in RowIds : \A p \in AnyPosition : ~Below(Pos(rows, s), p) => ~Below(Pos(rows2, s), p),
           NEW seen \in Seq(RowIds), NEW moved, NEW results, NEW after,
           SearchHolds(rows, seen, moved, results, after)
    PROVE  SearchHolds(rows2, seen, moved \cup {r}, results, after)
<1>1. Waits(rows, results, after) /\ Passed(rows, seen, results, after) /\ Reached(rows, seen, moved, results, after)
  BY DEF SearchHolds
<1>2. /\ after \in AnyPosition
      /\ \A i \in 1..Len(results) : results[i] \in AnyPosition /\ results[i].id \in RowIds
      /\ \A k \in 1..Len(seen) : seen[k] \in RowIds
  <2>1. \A i \in 1..Len(results) : results[i] \in Placed
    BY <1>1, ElementOfSeq DEF Waits
  <2>2. \A k \in 1..Len(seen) : seen[k] \in RowIds
    BY ElementOfSeq
  <2> QED
    BY <1>1, <2>1, <2>2, PlacedPositions DEF Placed, Waits
<1>3. Waits(rows2, results, after)
  <2>1. \A i \in 1..Len(results) : ~Below(Pos(rows2, results[i].id), results[i])
    BY <1>1, <1>2 DEF Waits
  <2> QED
    BY <1>1, <2>1 DEF Waits
<1>4. Passed(rows2, seen, results, after)
  BY <1>1, <1>2 DEF Passed
<1>5. Reached(rows2, seen, moved \cup {r}, results, after)
  <2>1. \A s \in ListedIn(rows2) \ (moved \cup {r}) : s \in ListedIn(rows) \ moved /\ Pos(rows2, s) = Pos(rows, s)
    BY DEF ListedIn, Pos
  <2> QED
    BY <1>1, <2>1 DEF Reached
<1> QED
  BY <1>3, <1>4, <1>5 DEF SearchHolds

LEMMA TouchRowKeeps == ASSUME SearchInv, NEW r \in RowIds, TouchRow(r) PROVE SearchInv'
<1>1. /\ reader' = reader /\ shown' = shown /\ touched' = touched \cup {r} /\ reader.op \in {"search", "list"}
      /\ shown \in Seq(RowIds)
  BY DEF TouchRow, SearchInv
<1>2. /\ IsIndex(index') /\ \A s \in RowIds \ {r} : index'[s] = index[s]
      /\ \A s \in RowIds : /\ index'[s].malformed = index[s].malformed
                           /\ \A p \in AnyPosition : ~Below(Pos(index, s), p) => ~Below(Pos(index', s), p)
  BY TouchRaises
<1>3. ASSUME reader.op = "search"
      PROVE  SearchHolds(index', shown, touched \cup {r}, reader.results, reader.after)
  <2>1. SearchHolds(index, shown, touched, reader.results, reader.after)
    BY <1>3 DEF SearchInv
  <2> QED
    BY <1>1, <1>2, <2>1, MovedUp
<1> QED
  BY <1>1, <1>2, <1>3 DEF SearchInv
-----------------------------------------------------------------------------
\* The rows of a round, in the order the search goes on with them.
FoundIn(rows, found, fetched) ==
    /\ found \in Seq(Placed)
    /\ \A i, j \in 1..Len(found) : i < j => Below(found[j], found[i])
    /\ \A i \in 1..Len(found) : found[i].id \in fetched /\ found[i] = Pos(rows, found[i].id)
    /\ \A r \in fetched : ~rows[r].malformed => \E i \in 1..Len(found) : found[i] = Pos(rows, r)

\* What a round adds to the results that wait lies below them, and above the
\* position that the round has come to.
LEMMA RoundAdds ==
    ASSUME NEW rows, IsIndex(rows), NEW seen \in Seq(RowIds), NEW moved, NEW results, NEW after,
           SearchHolds(rows, seen, moved, results, after), Distinct(seen),
           NEW fetched \in SUBSET RowIds, \A r \in fetched : Below(Pos(rows, r), after),
           NEW found, FoundIn(rows, found, fetched),
           NEW next \in AnyPosition, ~Below(after, next), \A r \in fetched : ~Below(Pos(rows, r), next),
           \A r \in ListedIn(rows) \ fetched : Below(Pos(rows, r), after) => Below(Pos(rows, r), next)
    PROVE  SearchHolds(rows, seen, moved, results \o found, next)
<1> DEFINE m == Len(results)
           n == Len(found)
           all == results \o found
<1>1. Waits(rows, results, after) /\ Passed(rows, seen, results, after) /\ Reached(rows, seen, moved, results, after)
  BY DEF SearchHolds
<1>2. /\ results \in Seq(Placed) /\ found \in Seq(Placed) /\ after \in AnyPosition
      /\ m \in Nat /\ n \in Nat
  BY <1>1, LenProperties DEF Waits, FoundIn
<1>3. /\ all \in Seq(Placed) /\ Len(all) = m + n
      /\ \A i \in 1..m + n : all[i] = IF i <= m THEN results[i] ELSE found[i - m]
  BY <1>2, ConcatProperties
<1>4. /\ \A i \in 1..m : results[i] \in AnyPosition /\ results[i].id \in RowIds
      /\ \A i \in 1..n : found[i] \in AnyPosition /\ found[i].id \in RowIds
      /\ \A k \in 1..Len(seen) : seen[k] \in RowIds
      /\ \A r \in RowIds : Pos(rows, r) \in AnyPosition /\ Pos(rows, r).id = r
  <2>1. \A i \in 1..m : results[i] \in Placed
    BY <1>2, ElementOfSeq
  <2>2. \A i \in 1..n : found[i] \in Placed
    BY <1>2, ElementOfSeq
  <2>3. \A k \in 1..Len(seen) : seen[k] \in RowIds
    BY ElementOfSeq
  <2>4. \A r \in RowIds : Pos(rows, r) \in AnyPosition /\ Pos(rows, r).id = r
    BY QueryAssumption DEF Pos, IsIndex, AnyPosition, RowIds
  <2> QED
    BY <2>1, <2>2, <2>3, <2>4, PlacedPositions DEF Placed
<1>5. \A i \in 1..n : Below(found[i], after) /\ ~Below(found[i], next) /\ found[i] = Pos(rows, found[i].id)
  BY DEF FoundIn
<1>6. \A i \in 1..m : ~Below(results[i], after) /\ ~Below(Pos(rows, results[i].id), results[i])
  BY <1>1 DEF Waits
<1>7. \A i \in 1..m, j \in 1..n : Below(found[j], results[i]) /\ found[j].id # results[i].id
  <2> SUFFICES ASSUME NEW i \in 1..m, NEW j \in 1..n
               PROVE  Below(found[j], results[i]) /\ found[j].id # results[i].id
    OBVIOUS
  <2>1. Below(found[j], results[i])
    BY <1>2, <1>4, <1>5, <1>6, BelowOrders
  <2>2. found[j].id # results[i].id
    <3>1. ~Below(Pos(rows, results[i].id), results[i]) /\ found[j] = Pos(rows, found[j].id)
      BY <1>5, <1>6
    <3> QED
      BY <2>1, <3>1
  <2> QED
    BY <2>1, <2>2
<1> HIDE DEF all, m, n
<1>8. \A i \in 1..m + n : IF i <= m THEN i \in 1..m ELSE i - m \in 1..n
  BY <1>2
<1>9. Waits(rows, all, next)
  <2>1. ASSUME NEW i \in 1..m + n, NEW j \in 1..m + n, i < j PROVE Below(all[j], all[i])
    <3>1. CASE j <= m
      <4>1. i \in 1..m /\ j \in 1..m /\ all[i] = results[i] /\ all[j] = results[j]
        BY <1>2, <1>3, <2>1, <3>1
      <4> QED
        BY <1>1, <2>1, <4>1 DEF Waits, m
    <3>2. CASE i <= m /\ ~(j <= m)
      <4>1. i \in 1..m /\ j - m \in 1..n /\ all[i] = results[i] /\ all[j] = found[j - m]
        BY <1>2, <1>3, <1>8, <3>2
      <4> QED
        BY <1>7, <4>1
    <3>3. CASE ~(i <= m)
      <4>1. i - m \in 1..n /\ j - m \in 1..n /\ all[i] = found[i - m] /\ all[j] = found[j - m] /\ i - m < j - m
        <5>1. ~(j <= m) /\ i - m < j - m
          BY <1>2, <2>1, <3>3
        <5> QED
          BY <1>3, <1>8, <3>3, <5>1
      <4> QED
        BY <4>1 DEF FoundIn, n
    <3> QED
      BY <3>1, <3>2, <3>3
  <2>2. ASSUME NEW i \in 1..m + n, NEW j \in 1..m + n, all[i].id = all[j].id PROVE i = j
    <3>1. CASE i <= m /\ j <= m
      <4>1. i \in 1..m /\ j \in 1..m /\ all[i] = results[i] /\ all[j] = results[j]
        BY <1>2, <1>3, <3>1
      <4> QED
        BY <1>1, <2>2, <4>1 DEF Waits, m
    <3>2. CASE i <= m /\ ~(j <= m)
      <4>1. i \in 1..m /\ j - m \in 1..n /\ all[i] = results[i] /\ all[j] = found[j - m]
        BY <1>2, <1>3, <1>8, <3>2
      <4> QED
        BY <1>7, <2>2, <4>1
    <3>3. CASE ~(i <= m) /\ j <= m
      <4>1. i - m \in 1..n /\ j \in 1..m /\ all[i] = found[i - m] /\ all[j] = results[j]
        BY <1>2, <1>3, <1>8, <3>3
      <4> QED
        BY <1>7, <2>2, <4>1
    <3>4. CASE ~(i <= m) /\ ~(j <= m)
      <4>1. i - m \in 1..n /\ j - m \in 1..n /\ all[i] = found[i - m] /\ all[j] = found[j - m]
        BY <1>2, <1>3, <1>8, <3>4
      <4>2. found[i - m] = found[j - m]
        BY <1>5, <2>2, <4>1
      <4>3. ~(i - m < j - m) /\ ~(j - m < i - m)
        BY <1>4, <4>1, <4>2, BelowOrders DEF FoundIn, n
      <4> QED
        BY <1>2, <4>1, <4>3
    <3> QED
      BY <1>2, <3>1, <3>2, <3>3, <3>4
  <2>3. ASSUME NEW i \in 1..m + n PROVE ~Below(all[i], next) /\ ~Below(Pos(rows, all[i].id), all[i])
    <3>1. CASE i <= m
      <4>1. i \in 1..m /\ all[i] = results[i]
        BY <1>2, <1>3, <3>1
      <4> QED
        BY <1>2, <1>4, <1>6, <4>1, BelowOrders
    <3>2. CASE ~(i <= m)
      <4>1. i - m \in 1..n /\ all[i] = found[i - m]
        BY <1>2, <1>3, <1>8, <3>2
      <4> QED
        BY <1>4, <1>5, <4>1, BelowOrders
    <3> QED
      BY <3>1, <3>2
  <2> QED
    BY <1>3, <2>1, <2>2, <2>3 DEF Waits
<1>10. Passed(rows, seen, all, next)
  <2> SUFFICES ASSUME NEW k \in 1..Len(seen)
               PROVE  /\ ~Below(Pos(rows, seen[k]), next)
                      /\ \A i \in 1..m + n : seen[k] # all[i].id /\ ~Below(Pos(rows, seen[k]), all[i])
    BY <1>3 DEF Passed
  <2> DEFINE p == Pos(rows, seen[k])
  <2>1. /\ p \in AnyPosition /\ p.id = seen[k] /\ ~Below(p, after)
        /\ \A i \in 1..m : seen[k] # results[i].id /\ ~Below(p, results[i])
    BY <1>1, <1>4 DEF Passed, m
  <2>2. \A j \in 1..n : seen[k] # found[j].id /\ ~Below(p, found[j])
    <3> SUFFICES ASSUME NEW j \in 1..n PROVE seen[k] # found[j].id /\ ~Below(p, found[j])
      OBVIOUS
    <3>1. Below(found[j], after) /\ found[j] = Pos(rows, found[j].id) /\ found[j] \in AnyPosition
      BY <1>4, <1>5
    <3>2. Below(found[j], p)
      BY <1>2, <2>1, <3>1, BelowOrders
    <3> QED
      BY <2>1, <3>1, <3>2, BelowOrders
  <2>3. ~Below(p, next)
    BY <1>2, <2>1, BelowOrders
  <2> HIDE DEF p
  <2>4. \A i \in 1..m + n : seen[k] # all[i].id /\ ~Below(p, all[i])
    BY <1>3, <1>8, <2>1, <2>2
  <2> QED
    BY <2>3, <2>4 DEF p
<1>11. Reached(rows, seen, moved, all, next)
  <2> SUFFICES ASSUME NEW r \in ListedIn(rows) \ moved
               PROVE  \/ \E k \in 1..Len(seen) : seen[k] = r
                      \/ Below(Pos(rows, r), next)
                      \/ \E i \in 1..Len(all) : all[i] = Pos(rows, r)
    BY DEF Reached
  <2>1. CASE Below(Pos(rows, r), after) /\ r \in fetched
    <3>1. PICK j \in 1..n : found[j] = Pos(rows, r)
      BY <2>1 DEF FoundIn, ListedIn, n
    <3>2. PICK i : i = m + j
      OBVIOUS
    <3>3. i \in 1..m + n /\ ~(i <= m) /\ i - m = j
      BY <1>2, <3>2
    <3>4. all[i] = found[j]
      BY <1>3, <3>3
    <3> QED
      BY <1>3, <3>1, <3>3, <3>4
  <2>2. CASE Below(Pos(rows, r), after) /\ r \notin fetched
    BY <2>2
  <2>3. ASSUME NEW i \in 1..m, results[i] = Pos(rows, r)
        PROVE  \E e \in 1..Len(all) : all[e] = Pos(rows, r)
    <3>1. i \in 1..m + n /\ i <= m
      BY <1>2
    <3> QED
      BY <1>3, <2>3, <3>1
  <2> QED
    BY <1>1, <2>1, <2>2, <2>3 DEF Reached, m
<1> QED
  BY <1>9, <1>10, <1>11 DEF SearchHolds, all

Adds(seen, results, k) == seen \o [i \in 1..k |-> results[i].id]
Showing(more, seen, results, k) ==
    /\ more \in Seq(RowIds) /\ Distinct(more) /\ Len(more) = Len(seen) + k
    /\ \A e \in 1..Len(seen) : more[e] = seen[e]
    /\ \A i \in 1..k : more[Len(seen) + i] = results[i].id

\* What a page shows of the results that wait.
LEMMA ShownWith ==
    ASSUME NEW rows, NEW seen \in Seq(RowIds), NEW results, NEW after, Distinct(seen),
           Waits(rows, results, after), Passed(rows, seen, results, after), NEW k \in 0..Len(results)
    PROVE  Showing(Adds(seen, results, k), seen, results, k)
<1> DEFINE n == Len(seen)
           ids == [i \in 1..k |-> results[i].id]
           more == Adds(seen, results, k)
<1>1. Len(results) \in Nat /\ n \in Nat /\ \A i \in 1..Len(results) : results[i].id \in RowIds
  <2>1. \A i \in 1..Len(results) : results[i] \in Placed
    BY ElementOfSeq DEF Waits
  <2> QED
    BY <2>1, LenProperties DEF Waits, Placed
<1>2. \A i \in 1..k : i \in 1..Len(results)
  BY <1>1
<1>3. ids \in Seq(RowIds) /\ Len(ids) = k /\ \A i \in 1..k : ids[i] = results[i].id
  <2>1. ids \in [1..k -> RowIds] /\ k \in Nat
    BY <1>1, <1>2
  <2> QED
    BY <2>1
<1> HIDE DEF ids
<1>4. /\ more \in Seq(RowIds) /\ Len(more) = n + k
      /\ \A i \in 1..n + k : more[i] = IF i <= n THEN seen[i] ELSE ids[i - n]
  BY <1>3, ConcatProperties DEF Adds, ids
<1> HIDE DEF more
<1>5. k \in Nat /\ \A e \in 1..n + k : IF e <= n THEN e \in 1..n ELSE e - n \in 1..k
  BY <1>1
<1>6. \A e \in 1..n : more[e] = seen[e]
  BY <1>1, <1>4, <1>5
<1>7. ASSUME NEW i \in 1..k PROVE more[n + i] = results[i].id
  <2>1. PICK j : j = n + i
    OBVIOUS
  <2>2. j \in 1..n + k /\ ~(j <= n) /\ j - n = i
    BY <1>1, <1>5, <2>1
  <2> QED
    BY <1>3, <1>4, <2>1, <2>2
<1>8. ASSUME NEW e \in 1..n + k, NEW j \in 1..n + k, more[e] = more[j] PROVE e = j
  <2>1. CASE e <= n /\ j <= n
    BY <1>4, <1>5, <1>8, <2>1 DEF Distinct, n
  <2>2. CASE e <= n /\ ~(j <= n)
    BY <1>2, <1>3, <1>4, <1>5, <1>8, <2>2 DEF Passed, n
  <2>3. CASE ~(e <= n) /\ j <= n
    <3>1. e - n \in 1..k /\ more[e] = results[e - n].id /\ j \in 1..n /\ more[j] = seen[j]
      BY <1>3, <1>4, <1>5, <2>3
    <3>2. seen[j] # results[e - n].id
      BY <1>2, <3>1 DEF Passed, n
    <3> QED
      BY <1>8, <3>1, <3>2
  <2>4. CASE ~(e <= n) /\ ~(j <= n)
    <3>1. e - n \in 1..k /\ j - n \in 1..k /\ more[e] = results[e - n].id /\ more[j] = results[j - n].id
      BY <1>3, <1>4, <1>5, <2>4
    <3>2. e - n = j - n
      BY <1>2, <1>8, <3>1 DEF Waits
    <3>3. \A u, v, w \in Int : u - w = v - w => u = v
      OBVIOUS
    <3>4. e \in Int /\ j \in Int /\ n \in Int
      BY <1>1, <1>5
    <3> QED
      BY <3>2, <3>3, <3>4, Zenon
  <2> QED
    BY <2>1, <2>2, <2>3, <2>4
<1> QED
  BY <1>4, <1>6, <1>7, <1>8 DEF Distinct, Showing, more, n

\* A full page ends at the position of its last row, and what waited behind it
\* is read again.
LEMMA PageShown ==
    ASSUME NEW rows, IsIndex(rows), NEW seen \in Seq(RowIds), NEW moved, NEW results, NEW after,
           SearchHolds(rows, seen, moved, results, after), Distinct(seen), NEW k \in 1..Len(results)
    PROVE  LET more == Adds(seen, results, k)
           IN  more \in Seq(RowIds) /\ Distinct(more) /\ SearchHolds(rows, more, moved, <<>>, results[k])
<1> DEFINE more == Adds(seen, results, k)
           n == Len(seen)
<1>1. Waits(rows, results, after) /\ Passed(rows, seen, results, after) /\ Reached(rows, seen, moved, results, after)
  BY DEF SearchHolds
<1>2. /\ Len(results) \in Nat /\ n \in Nat /\ after \in AnyPosition
      /\ \A i \in 1..Len(results) : results[i] \in AnyPosition /\ results[i].id \in RowIds
  <2>1. \A i \in 1..Len(results) : results[i] \in Placed
    BY <1>1, ElementOfSeq DEF Waits
  <2> QED
    BY <1>1, <2>1, LenProperties, PlacedPositions DEF Waits, Placed
<1>3. /\ more \in Seq(RowIds) /\ Distinct(more) /\ Len(more) = n + k
      /\ \A e \in 1..n : more[e] = seen[e]
      /\ \A i \in 1..k : more[n + i] = results[i].id
  <2>1. k \in 0..Len(results)
    BY <1>2
  <2>2. Showing(Adds(seen, results, k), seen, results, k)
    BY <1>1, <2>1, ShownWith
  <2> QED
    BY <2>2, Zenon DEF Showing, more, n
<1>0. k \in 1..Len(results) /\ k \in Nat
  BY <1>2
<1> HIDE DEF more, n
<1>4. \A r \in RowIds : Pos(rows, r) \in AnyPosition /\ Pos(rows, r).id = r
  BY QueryAssumption DEF Pos, IsIndex, AnyPosition, RowIds
<1>5. Waits(rows, <<>>, results[k])
  BY <1>2 DEF Waits
<1>6. Passed(rows, more, <<>>, results[k])
  <2> SUFFICES ASSUME NEW e \in 1..n + k PROVE ~Below(Pos(rows, more[e]), results[k])
    BY <1>3 DEF Passed
  <2>1. CASE e <= n
    <3>1. e \in 1..n /\ more[e] = seen[e]
      BY <1>2, <1>3, <2>1
    <3> QED
      BY <1>1, <3>1 DEF Passed, n
  <2>2. CASE ~(e <= n)
    <3>1. PICK i : i = e - n
      OBVIOUS
    <3>2. i \in 1..k /\ n + i = e
      BY <1>2, <2>2, <3>1
    <3>3. more[e] = results[i].id /\ i \in 1..Len(results) /\ i <= k
      <4>1. i \in 1..Len(results) /\ i <= k
        BY <1>0, <1>2, <3>2
      <4> QED
        BY <1>3, <3>2, <4>1
    <3>4. ~Below(Pos(rows, results[i].id), results[i]) /\ (i < k => Below(results[k], results[i]))
      BY <1>1, <3>3 DEF Waits
    <3>5. ~Below(results[i], results[k])
      <4>1. i < k \/ i = k
        BY <1>2, <3>3
      <4> QED
        BY <1>2, <3>3, <3>4, <4>1, BelowOrders
    <3> QED
      BY <1>2, <1>4, <3>3, <3>4, <3>5, BelowOrders
  <2> QED
    BY <2>1, <2>2
<1>7. Reached(rows, more, moved, <<>>, results[k])
  <2> SUFFICES ASSUME NEW r \in ListedIn(rows) \ moved
               PROVE  (\E e \in 1..Len(more) : more[e] = r) \/ Below(Pos(rows, r), results[k])
    BY DEF Reached
  <2>0. r \in RowIds /\ Pos(rows, r) \in AnyPosition /\ Pos(rows, r).id = r
    BY <1>4 DEF ListedIn
  <2>1. ASSUME NEW e \in 1..n, seen[e] = r PROVE \E j \in 1..Len(more) : more[j] = r
    <3>1. e \in 1..n + k
      BY <1>2
    <3> QED
      BY <1>3, <2>1, <3>1
  <2>2. CASE Below(Pos(rows, r), after)
    <3>1. ~Below(results[k], after)
      BY <1>1 DEF Waits
    <3> QED
      BY <1>2, <2>0, <2>2, <3>1, BelowOrders
  <2>3. ASSUME NEW i \in 1..Len(results), results[i] = Pos(rows, r)
        PROVE  (\E e \in 1..Len(more) : more[e] = r) \/ Below(Pos(rows, r), results[k])
    <3>1. CASE i <= k
      <4>1. PICK j : j = n + i
        OBVIOUS
      <4>2. i \in 1..k /\ j \in 1..n + k
        BY <1>2, <3>1, <4>1
      <4> QED
        BY <1>3, <2>0, <2>3, <4>1, <4>2
    <3>2. CASE ~(i <= k)
      <4>1. k < i
        BY <1>2, <3>2
      <4> QED
        BY <1>1, <2>3, <4>1 DEF Waits
    <3> QED
      BY <3>1, <3>2
  <2> QED
    BY <1>1, <2>1, <2>2, <2>3 DEF Reached, n
<1> QED
  BY <1>3, <1>5, <1>6, <1>7 DEF SearchHolds, more

\* The last page shows whatever is left.
LEMMA LastPageShown ==
    ASSUME NEW rows, NEW seen \in Seq(RowIds), NEW moved, NEW results, NEW after,
           SearchHolds(rows, seen, moved, results, after), Distinct(seen),
           \A r \in RowIds : ~Below(Pos(rows, r), after)
    PROVE  LET more == Adds(seen, results, Len(results))
           IN  more \in Seq(RowIds) /\ Distinct(more) /\ AllShown(rows, more, moved)
<1> DEFINE k == Len(results)
           more == Adds(seen, results, k)
           n == Len(seen)
<1>1. Waits(rows, results, after) /\ Passed(rows, seen, results, after) /\ Reached(rows, seen, moved, results, after)
  BY DEF SearchHolds
<1>2. k \in Nat /\ n \in Nat
  BY <1>1, LenProperties DEF Waits
<1>3. /\ more \in Seq(RowIds) /\ Distinct(more) /\ Len(more) = n + k
      /\ \A e \in 1..n : more[e] = seen[e]
      /\ \A i \in 1..k : more[n + i] = results[i].id
  <2>1. k \in 0..Len(results)
    BY <1>2
  <2>2. Showing(Adds(seen, results, k), seen, results, k)
    BY <1>1, <2>1, ShownWith
  <2> QED
    BY <2>2, Zenon DEF Showing, more, n
<1> HIDE DEF more, n
<1>4. ASSUME NEW r \in ListedIn(rows) \ moved PROVE \E e \in 1..Len(more) : more[e] = r
  <2>1. ASSUME NEW e \in 1..n, seen[e] = r PROVE \E j \in 1..Len(more) : more[j] = r
    <3>1. e \in 1..n + k
      BY <1>2
    <3> QED
      BY <1>3, <2>1, <3>1
  <2>2. ASSUME NEW i \in 1..k, results[i] = Pos(rows, r) PROVE \E j \in 1..Len(more) : more[j] = r
    <3>1. PICK j : j = n + i
      OBVIOUS
    <3>2. j \in 1..n + k
      BY <1>2, <3>1
    <3>3. results[i].id = r
      BY <2>2, SMTT(60) DEF Pos
    <3> QED
      BY <1>3, <3>1, <3>2, <3>3
  <2>3. r \in RowIds
    BY SMTT(60) DEF ListedIn
  <2> QED
    BY <1>1, <2>1, <2>2, <2>3 DEF Reached, n
<1> QED
  BY <1>3, <1>4 DEF AllShown, more

\* One round of a search.
LEMMA SearchFetchKeeps == SearchInv /\ SearchFetch => SearchInv'
<1> SUFFICES ASSUME SearchInv, SearchFetch PROVE SearchInv'
  OBVIOUS
<1> DEFINE after == reader.after
           S == MatchRows(after)
           rows == Newest(S, PageSize + 1)
           T == {rows[i] : i \in 1..Len(rows)}
           kept == {r \in ToSet(rows) : ~index[r].malformed}
           valid == NewestFirst(kept)
           found == [i \in 1..Len(valid) |-> Position(valid[i])]
           results == reader.results \o found
<1>1. /\ reader.op = "search" /\ index' = index /\ touched' = touched
      /\ IsIndex(index) /\ shown \in Seq(RowIds) /\ Distinct(shown)
      /\ DOMAIN reader = {"op", "after", "results"}
      /\ SearchHolds(index, shown, touched, reader.results, after)
  BY DEF SearchFetch, SearchInv
<1>2. PageSize \in Nat \ {0} /\ PageSize + 1 \in Nat \ {0}
  BY QueryAssumption
<1>3. IndexOK /\ \A r \in RowIds : Position(r) = Pos(index, r) /\ Pos(index, r) \in AnyPosition /\ Pos(index, r).id = r
  BY <1>1, QueryAssumption DEF IndexOK, IsIndex, Position, Pos, AnyPosition, RowIds
<1>4. after \in AnyPosition
  BY <1>1 DEF SearchHolds, Waits
<1> HIDE DEF after
<1>5. S \in SUBSET RowIds /\ \A r \in RowIds : r \in S <=> (~index[r].provisional /\ Below(Pos(index, r), after))
  BY <1>3 DEF MatchRows
<1> HIDE DEF S
<1>6. /\ rows \in Seq(RowIds) /\ T \subseteq S /\ ToSet(rows) = T
      /\ Len(rows) < PageSize + 1 => T = S
      /\ Len(rows) >= PageSize + 1 => /\ Len(rows) = PageSize + 1
                                      /\ \A r \in T : ~Below(Position(r), Position(rows[Len(rows)]))
                                      /\ \A r \in S \ T : Below(Position(r), Position(rows[Len(rows)]))
  BY <1>2, <1>3, <1>5, NewestAre
<1> HIDE DEF rows
<1>7. T \in SUBSET RowIds /\ \A r \in T : Below(Pos(index, r), after)
  BY <1>5, <1>6
<1>8. FoundIn(index, found, T)
  <2>1. kept \in SUBSET RowIds /\ kept = {r \in T : ~index[r].malformed}
    BY <1>6, <1>7
  <2> HIDE DEF T, kept
  <2>2. /\ valid \in Seq(RowIds) /\ {valid[i] : i \in 1..Len(valid)} = kept
        /\ \A i, j \in 1..Len(valid) : i < j => Below(Position(valid[j]), Position(valid[i]))
    BY <1>3, <2>1, NewestFirstSorts
  <2> HIDE DEF valid
  <2>3. Len(valid) \in Nat /\ \A i \in 1..Len(valid) : valid[i] \in RowIds
    BY <2>2, ElementOfSeq, LenProperties
  <2>4. \A r \in RowIds : Position(r) \in Placed
    BY <1>3 DEF Placed, Pos, AnyPosition
  <2>5. found \in Seq(Placed) /\ Len(found) = Len(valid) /\ \A i \in 1..Len(valid) : found[i] = Position(valid[i])
    <3>1. found \in [1..Len(valid) -> Placed]
      BY <2>3, <2>4
    <3> QED
      BY <2>3, <3>1
  <2> HIDE DEF found
  <2>6. \A i \in 1..Len(found) : found[i].id \in T /\ found[i] = Pos(index, found[i].id)
    BY <1>3, <2>1, <2>2, <2>3, <2>5
  <2>7. \A r \in T : ~index[r].malformed => \E i \in 1..Len(found) : found[i] = Pos(index, r)
    BY <1>3, <2>1, <2>2, <2>3, <2>5
  <2>8. \A i, j \in 1..Len(found) : i < j => Below(found[j], found[i])
    BY <2>2, <2>5
  <2> QED
    BY <2>5, <2>6, <2>7, <2>8 DEF FoundIn
<1> HIDE DEF found, T
<1>9. ASSUME Len(rows) >= PageSize + 1
      PROVE  SearchHolds(index, shown, touched, results, Position(rows[Len(rows)]))
  <2> DEFINE next == Position(rows[Len(rows)])
  <2>1. Len(rows) \in 1..Len(rows)
    BY <1>2, <1>6, <1>9
  <2>2. rows[Len(rows)] \in T /\ rows[Len(rows)] \in RowIds
    BY <1>6, <2>1, ElementOfSeq DEF T
  <2>3. next \in AnyPosition /\ Below(next, after)
    BY <1>3, <1>7, <2>2
  <2>4. ~Below(after, next) /\ \A r \in T : ~Below(Pos(index, r), next)
    BY <1>3, <1>4, <1>6, <1>7, <1>9, <2>3, BelowOrders
  <2>5. \A r \in ListedIn(index) \ T : Below(Pos(index, r), after) => Below(Pos(index, r), next)
    BY <1>3, <1>5, <1>6, <1>9 DEF ListedIn
  <2> HIDE DEF next
  <2>6. SearchHolds(index, shown, touched, reader.results \o found, next)
    BY <1>1, <1>7, <1>8, <2>3, <2>4, <2>5, RoundAdds DEF after
  <2> QED
    BY <2>6 DEF next
<1>10. ASSUME Len(rows) < PageSize + 1
       PROVE  \E next \in AnyPosition : /\ SearchHolds(index, shown, touched, results, next)
                                        /\ \A r \in RowIds : ~Below(Pos(index, r), next)
  <2> DEFINE next == [stamp |-> 0, id |-> 0]
  <2>1. next \in AnyPosition /\ \A p \in AnyPosition : ~Below(p, next)
    BY QueryAssumption DEF AnyPosition, Below
  <2>2. ~Below(after, next) /\ \A r \in RowIds : ~Below(Pos(index, r), next)
    BY <1>3, <1>4, <2>1
  <2>3. \A r \in ListedIn(index) \ T : Below(Pos(index, r), after) => Below(Pos(index, r), next)
    BY <1>5, <1>6, <1>10 DEF ListedIn
  <2> HIDE DEF next
  <2>4. SearchHolds(index, shown, touched, reader.results \o found, next)
    BY <1>1, <1>7, <1>8, <2>1, <2>2, <2>3, RoundAdds DEF after
  <2> QED
    BY <2>1, <2>2, <2>4
<1>11. \E next \in AnyPosition : SearchHolds(index, shown, touched, results, next)
  <2>1. Len(rows) \in Nat
    BY <1>6, LenProperties
  <2>2. CASE Len(rows) < PageSize + 1
    BY <1>10, <2>2, SMTT(60)
  <2>3. CASE Len(rows) >= PageSize + 1
    <3>1. SearchHolds(index, shown, touched, results, Position(rows[Len(rows)]))
      BY <1>9, <2>3, SMTT(60)
    <3> QED
      BY <3>1, SMTT(60) DEF SearchHolds, Waits
  <2> QED
    BY <1>2, <2>1, <2>2, <2>3
<1> DEFINE page == SubSeq(results, 1, PageSize)
<1>12. IF ~PageEnds(results, rows)
       THEN /\ reader' = [reader EXCEPT !.after = Position(rows[Len(rows)]), !.results = results]
            /\ shown' = shown
       ELSE IF Len(results) > PageSize
       THEN /\ shown' = shown \o [i \in 1..PageSize |-> page[i].id]
            /\ reader' = [reader EXCEPT !.after = page[PageSize], !.results = <<>>]
       ELSE /\ shown' = shown \o [i \in 1..Len(results) |-> results[i].id]
            /\ reader' = [op |-> "searched"]
  BY DEF SearchFetch, after, S, rows, kept, valid, found
<1>13. results \in Seq(Placed) /\ Len(results) \in Nat /\ Len(rows) \in Nat
  BY <1>6, <1>11, LenProperties DEF SearchHolds, Waits
<1> HIDE DEF results
<1>14. CASE ~PageEnds(results, rows)
  <2>1. Len(rows) >= PageSize + 1
    BY <1>2, <1>13, <1>14 DEF PageEnds
  <2>2. SearchHolds(index, shown, touched, results, Position(rows[Len(rows)]))
    BY <1>9, <2>1
  <2>3. /\ reader'.op = "search" /\ DOMAIN reader' = {"op", "after", "results"}
        /\ reader'.after = Position(rows[Len(rows)]) /\ reader'.results = results /\ shown' = shown
    BY <1>1, <1>12, <1>14
  <2> QED
    BY <1>1, <2>2, <2>3 DEF SearchInv
<1>15. CASE PageEnds(results, rows) /\ Len(results) > PageSize
  <2>1. PageSize \in 1..Len(results)
    BY <1>2, <1>13, <1>15
  <2>2. \A i \in 1..PageSize : page[i] = results[i]
    <3>1. \A i \in 1..PageSize : results[i] \in Placed
      BY <1>13, <2>1, ElementOfSeq
    <3>2. \A i \in 1..PageSize - 1 + 1 : page[i] = results[1 + i - 1]
      BY <1>2, <3>1, SubSeqProperties
    <3>3. PageSize - 1 + 1 = PageSize /\ \A i \in 1..PageSize : 1 + i - 1 = i
      BY <1>2
    <3> QED
      BY <3>2, <3>3
  <2> HIDE DEF page
  <2> DEFINE more == Adds(shown, results, PageSize)
  <2>3. more \in Seq(RowIds) /\ Distinct(more) /\ SearchHolds(index, more, touched, <<>>, results[PageSize])
    BY <1>1, <1>11, <2>1, PageShown
  <2>4. shown' = more
    BY <1>12, <1>15, <2>2 DEF Adds
  <2>5. page[PageSize] = results[PageSize]
    BY <1>2, <2>2
  <2>6. /\ reader'.op = "search" /\ DOMAIN reader' = {"op", "after", "results"}
        /\ reader'.after = results[PageSize] /\ reader'.results = <<>>
    BY <1>1, <1>12, <1>15, <2>5
  <2> HIDE DEF more
  <2> QED
    BY <1>1, <2>3, <2>4, <2>6 DEF SearchInv
<1>16. CASE PageEnds(results, rows) /\ ~(Len(results) > PageSize)
  <2>1. Len(rows) < PageSize + 1
    BY <1>16 DEF PageEnds
  <2> DEFINE more == Adds(shown, results, Len(results))
  <2>2. more \in Seq(RowIds) /\ Distinct(more) /\ AllShown(index, more, touched)
    BY <1>1, <1>10, <2>1, LastPageShown
  <2>3. shown' = more /\ reader'.op = "searched" /\ "op" \in DOMAIN reader'
    BY <1>12, <1>16, SMTT(20) DEF Adds
  <2> HIDE DEF more
  <2> QED
    BY <1>1, <2>2, <2>3 DEF SearchInv
<1> QED
  BY <1>14, <1>15, <1>16, SMTT(60)

\* A list leaves what the search claims alone.
LEMMA ListingKeeps == SearchInv /\ (OpenList \/ ListFetch) => SearchInv'
<1> SUFFICES ASSUME SearchInv, OpenList \/ ListFetch PROVE SearchInv'
  OBVIOUS
<1>1. CASE OpenList
  <2>1. reader' = [op |-> "list", cursor |-> 0] /\ index' = index /\ shown' = shown
    BY <1>1 DEF OpenList
  <2> QED
    BY <2>1 DEF SearchInv
<1>2. CASE ListFetch
  <2> DEFINE from == IF reader.cursor = 0 THEN Top ELSE Position(reader.cursor)
             rows == Newest({r \in RowIds : Below(Position(r), from)}, 4 * PageSize + 1)
             visible == NewestFirst(ToSet(rows) \cap Listed)
             page == SubSeq(visible, 1, IF Len(visible) < PageSize THEN Len(visible) ELSE PageSize)
  <2>1. /\ shown' = shown \o page /\ index' = index
        /\ reader' = [op |-> "list", cursor |-> page[PageSize]] \/ reader' = [op |-> "listed"]
    BY <1>2, Zenon DEF ListFetch
  <2>2. ToSet(rows) \cap Listed \in SUBSET RowIds /\ IndexOK
    BY DEF Listed, SearchInv, IsIndex, IndexOK
  <2> HIDE DEF rows
  <2>3. visible \in Seq(RowIds)
    BY <2>2, NewestFirstSorts
  <2> HIDE DEF visible
  <2>4. page \in Seq(RowIds)
    <3> DEFINE k == IF Len(visible) < PageSize THEN Len(visible) ELSE PageSize
    <3>1. Len(visible) \in Nat
      BY <2>3, LenProperties
    <3>2. k \in Int /\ \A i \in 1..k : i \in 1..Len(visible)
      BY <3>1, QueryAssumption
    <3> HIDE DEF k
    <3>3. \A i \in 1..k : visible[i] \in RowIds
      BY <2>3, <3>2, ElementOfSeq
    <3>4. SubSeq(visible, 1, k) \in Seq(RowIds)
      BY <3>2, <3>3, SubSeqProperties
    <3> QED
      BY <3>4 DEF k
  <2> HIDE DEF page
  <2>5. shown' \in Seq(RowIds)
    BY <2>1, <2>4, ConcatProperties DEF SearchInv
  <2>6. reader'.op \in {"list", "listed"} /\ "op" \in DOMAIN reader'
    BY <2>1
  <2> QED
    BY <2>1, <2>5, <2>6 DEF SearchInv
<1> QED
  BY <1>1, <1>2

LEMMA SearchStep == SearchInv /\ [QueryNext]_queryVars => SearchInv'
<1> SUFFICES ASSUME SearchInv, [QueryNext]_queryVars PROVE SearchInv'
  OBVIOUS
<1>1. CASE UNCHANGED <<index, reader, shown, touched>>
  BY <1>1 DEF SearchInv
<1>2. ASSUME NEW e \in Editors, OpenReport(e) \/ SaveReport(e) \/ CreateRevision(e) PROVE SearchInv'
  BY <1>1, <1>2 DEF OpenReport, SaveReport, CreateRevision
<1>3. CASE UNCHANGED queryVars
  BY <1>1, <1>3 DEF queryVars
<1> QED
  BY <1>2, <1>3, OpenSearchKeeps, SearchFetchKeeps, ListingKeeps, TouchRowKeeps DEF QueryNext

(* Whatever moves while its pages are read, a search shows no row twice, and *)
(* one that has ended has shown every visible row that did not move          *)
(* (search_sessions, match_rows).                                            *)
THEOREM SearchIsComplete == QuerySpec => []SearchComplete
BY SearchInit, SearchStep, SearchInvShows, PTL DEF QuerySpec
-----------------------------------------------------------------------------
(***************************************************************************)
(* The trace: what the log of a session holds. A call has the id of its    *)
(* place or none; a response answers an earlier call of its tool, alone,   *)
(* under the call's id or none.                                            *)
(***************************************************************************)
Entry(log, i) ==
    /\ log[i].kind = "call" => log[i].of = 0 /\ log[i].id \in {0, i}
    /\ log[i].kind = "response" =>
          /\ log[i].of \in 1..(i - 1)
          /\ log[log[i].of].kind = "call" /\ log[log[i].of].name = log[i].name
          /\ log[i].id # 0 => log[i].id = log[i].of /\ log[log[i].of].id = log[i].of
    /\ log[i].kind \notin {"call", "response"} => log[i].of = 0

AnsweredOnce(log) ==
    \A i, j \in 1..Len(log) : log[i].kind = "response" /\ log[j].kind = "response"
                              /\ log[i].of = log[j].of => i = j

LogHolds(log) ==
    /\ \E S : log \in Seq(S)
    /\ \A i \in 1..Len(log) : Entry(log, i)
    /\ AnsweredOnce(log)

ViewInv == LogHolds(parts)

LEMMA LogGrows ==
    ASSUME NEW log, LogHolds(log), NEW part2, Entry(Append(log, part2), Len(log) + 1),
           part2.kind = "response" => \A j \in 1..Len(log) : log[j].of # part2.of
    PROVE  LogHolds(Append(log, part2))
<1> DEFINE n == Len(log)
           longer == Append(log, part2)
<1>1. PICK S : log \in Seq(S)
  BY DEF LogHolds
<1>2. longer \in Seq(S \cup {part2}) /\ n \in Nat /\ log \in Seq(S \cup {part2})
  <2>1. log \in Seq(S \cup {part2})
    BY <1>1
  <2> QED
    BY <2>1, AppendProperties, LenProperties
<1>3. Len(longer) = n + 1 /\ (\A i \in 1..n : longer[i] = log[i]) /\ longer[n + 1] = part2
  BY <1>2, AppendProperties
<1>4. Entry(longer, n + 1)
  OBVIOUS
<1> HIDE DEF longer
<1>5. \A i \in 1..n + 1 : i \in 1..n \/ i = n + 1
  BY <1>2
<1>6. ASSUME NEW i \in 1..n PROVE Entry(longer, i)
  <2>1. Entry(log, i) /\ longer[i] = log[i]
    BY <1>3 DEF LogHolds, n
  <2>2. \A o \in 1..(i - 1) : longer[o] = log[o]
    BY <1>2, <1>3
  <2> QED
    BY <2>1, <2>2, Zenon DEF Entry
<1>7. AnsweredOnce(longer)
  <2> SUFFICES ASSUME NEW i \in 1..n + 1, NEW j \in 1..n + 1, longer[i].kind = "response",
                      longer[j].kind = "response", longer[i].of = longer[j].of
               PROVE  i = j
    BY <1>3 DEF AnsweredOnce
  <2>1. CASE i \in 1..n /\ j \in 1..n
    BY <1>3, <2>1 DEF LogHolds, AnsweredOnce, n
  <2>2. CASE i = n + 1 /\ j \in 1..n
    BY <1>3, <2>2 DEF n
  <2>3. CASE j = n + 1 /\ i \in 1..n
    BY <1>3, <2>3 DEF n
  <2> QED
    BY <1>5, <2>1, <2>2, <2>3
<1> QED
  BY <1>2, <1>3, <1>4, <1>5, <1>6, <1>7 DEF LogHolds, longer

LEMMA ViewInits == ViewInit => ViewInv
<1> SUFFICES ASSUME parts = <<>> PROVE ViewInv
  BY DEF ViewInit
<1>1. parts \in Seq({}) /\ Len(parts) = 0 /\ \A i \in 1..Len(parts) : FALSE
  OBVIOUS
<1> QED
  BY <1>1 DEF ViewInv, LogHolds, AnsweredOnce

LEMMA ViewStep == ViewInv /\ [ViewNext]_viewVars => ViewInv'
<1> SUFFICES ASSUME ViewInv, [ViewNext]_viewVars PROVE ViewInv'
  OBVIOUS
<1> DEFINE n == Len(parts)
<1>1. n \in Nat
  BY LenProperties DEF ViewInv, LogHolds
<1>2. \A q : Append(parts, q)[n + 1] = q /\ \A i \in 1..n : Append(parts, q)[i] = parts[i]
  BY AppendProperties DEF ViewInv, LogHolds
<1>3. ASSUME NEW q, Say(q), q.kind # "response", q.of = 0, q.kind = "call" => q.id \in {0, n + 1}
      PROVE  ViewInv'
  <2>1. Entry(Append(parts, q), n + 1)
    <3> DEFINE longer == Append(parts, q)
               top == n + 1
    <3>1. longer[top] = q
      BY <1>2
    <3>2. q.kind # "response" /\ q.of = 0 /\ (q.kind = "call" => q.id \in {0, top})
      BY <1>3
    <3> HIDE DEF longer, top
    <3>3. Entry(longer, top)
      BY <3>1, <3>2 DEF Entry
    <3> QED
      BY <3>3 DEF longer, top
  <2>2. parts' = Append(parts, q)
    BY <1>3 DEF Say
  <2> QED
    BY <1>3, <2>1, <2>2, LogGrows DEF ViewInv
<1>4. ASSUME NEW name, NEW identified \in BOOLEAN, CallTool(name, identified) PROVE ViewInv'
  <2> DEFINE q == Call(name, IF identified THEN n + 1 ELSE 0)
  <2>1. Say(q)
    BY <1>4 DEF CallTool
  <2>2. q.kind # "response" /\ q.of = 0 /\ q.id \in {0, n + 1}
    BY DEF Call
  <2> HIDE DEF q
  <2> QED
    BY <1>3, <2>1, <2>2
<1>5. ASSUME NEW i, NEW identified \in BOOLEAN, AnswerTool(i, identified) PROVE ViewInv'
  <2> DEFINE q == Response(parts[i].name, IF identified THEN parts[i].id ELSE 0, i)
  <2>1. /\ Say(q) /\ i \in DOMAIN parts /\ parts[i].kind = "call" /\ (identified => parts[i].id # 0)
        /\ \A j \in DOMAIN parts : parts[j].of # i
    BY <1>5 DEF AnswerTool
  <2>2. DOMAIN parts = 1..n
    BY LenProperties DEF ViewInv, LogHolds
  <2>3. q.kind = "response" /\ q.of = i /\ q.name = parts[i].name /\ q.id = IF identified THEN parts[i].id ELSE 0
    BY DEF Response
  <2> HIDE DEF q
  <2>4. i \in 1..n /\ i \in 1..(n + 1 - 1) /\ (parts[i].id # 0 => parts[i].id = i)
    BY <1>1, <2>1, <2>2 DEF ViewInv, LogHolds, Entry
  <2>5. Append(parts, q)[n + 1] = q /\ Append(parts, q)[i] = parts[i]
    BY <1>2, <2>4
  <2>6. Entry(Append(parts, q), n + 1)
    <3> DEFINE longer == Append(parts, q)
               top == n + 1
    <3>1. longer[top] = q /\ longer[i] = parts[i] /\ i \in 1..(top - 1) /\ top # i
      BY <1>1, <2>4, <2>5
    <3>2. q.id # 0 => q.id = i /\ parts[i].id = i
      BY <2>1, <2>3, <2>4
    <3> HIDE DEF longer, top
    <3>3. Entry(longer, top)
      BY <2>1, <2>3, <3>1, <3>2 DEF Entry
    <3> QED
      BY <3>3 DEF longer, top
  <2>7. parts' = Append(parts, q)
    BY <2>1 DEF Say
  <2> QED
    BY <2>1, <2>2, <2>3, <2>6, <2>7, LogGrows DEF ViewInv
<1>6. ASSUME NEW a, SayText(a) PROVE ViewInv'
  <2>1. Say(Text(a)) /\ Text(a).kind = "text" /\ Text(a).of = 0
    BY <1>6 DEF SayText, Text
  <2> QED
    BY <1>3, <2>1
<1>7. ASSUME NEW a, Delegate(a) PROVE ViewInv'
  <2>1. Say(Delegation(a)) /\ Delegation(a).kind = "delegation" /\ Delegation(a).of = 0
    BY <1>7 DEF Delegate, Delegation
  <2> QED
    BY <1>3, <2>1
<1>8. CASE UNCHANGED parts
  BY <1>8 DEF ViewInv
<1> QED
  BY <1>4, <1>5, <1>6, <1>7, <1>8 DEF ViewNext, StashSurface, viewVars

(***************************************************************************)
(* Ranks: the places of a finite set of numbers are counted without a gap. *)
(***************************************************************************)
LEMMA RanksCount ==
    ASSUME NEW T, T \subseteq Nat, IsFiniteSet(T)
    PROVE  /\ [i \in T |-> Rank(i, T)] \in Bijection(T, 1..Cardinality(T))
           /\ \A i \in T : Rank(i, T) \in 1..Cardinality(T)
           /\ \A i, j \in T : i < j => Rank(i, T) < Rank(j, T)
<1> DEFINE Upto(d) == {e \in T : e <= d}
           n == Cardinality(T)
           rank == [d \in T |-> Rank(d, T)]
<1>1. n \in Nat /\ IsFiniteSet(1..n) /\ Cardinality(1..n) = n
  BY FS_CardinalityType, FS_Interval
<1>2. ASSUME NEW d \in T PROVE IsFiniteSet(Upto(d)) /\ Cardinality(Upto(d)) \in 1..n /\ Rank(d, T) = Cardinality(Upto(d))
  <2>1. Upto(d) \in SUBSET T /\ d \in Upto(d)
    OBVIOUS
  <2>2. IsFiniteSet(Upto(d)) /\ Cardinality(Upto(d)) <= n /\ Cardinality(Upto(d)) \in Nat
    BY <2>1, FS_Subset, FS_CardinalityType
  <2>3. Cardinality(Upto(d)) # 0
    BY <2>1, <2>2, FS_EmptySet
  <2>4. Rank(d, T) = Cardinality(Upto(d))
    BY DEF Rank
  <2> HIDE DEF Upto, n
  <2> QED
    BY <1>1, <2>2, <2>3, <2>4
<1>2a. \A d \in T : Cardinality(Upto(d)) \in Nat
  <2> HIDE DEF Upto, n
  <2> QED
    BY <1>1, <1>2
<1>3. ASSUME NEW d \in T, NEW e \in T, d < e PROVE Rank(d, T) < Rank(e, T)
  <2>1. Upto(d) \in SUBSET (Upto(e) \ {e}) /\ e \in Upto(e)
    <3>1. \A x \in T : x <= d => x <= e /\ x # e
      <4> SUFFICES ASSUME NEW x \in T, x <= d PROVE x <= e /\ x # e
        OBVIOUS
      <4>1. x \in Nat /\ d \in Nat /\ e \in Nat
        OBVIOUS
      <4> QED
        BY <1>3, <4>1
    <3>2. e <= e
      <4>1. e \in Nat
        OBVIOUS
      <4> QED
        BY <4>1
    <3> QED
      BY <3>1, <3>2
  <2>2. IsFiniteSet(Upto(e)) /\ Cardinality(Upto(e)) \in Nat
    BY <1>1, <1>2
  <2>3. IsFiniteSet(Upto(e) \ {e}) /\ Cardinality(Upto(e) \ {e}) = Cardinality(Upto(e)) - 1
    BY <2>1, <2>2, FS_RemoveElement
  <2>4. Cardinality(Upto(d)) <= Cardinality(Upto(e)) - 1
    BY <2>1, <2>3, FS_Subset
  <2>5. Cardinality(Upto(d)) \in Nat /\ Rank(d, T) = Cardinality(Upto(d)) /\ Rank(e, T) = Cardinality(Upto(e))
    BY <1>2, <1>2a
  <2> HIDE DEF Upto
  <2> QED
    BY <2>2, <2>4, <2>5
<1> HIDE DEF Upto, n
<1>4. \A d \in T : Rank(d, T) \in 1..n
  BY <1>2
<1>5. rank \in Injection(T, 1..n)
  <2>1. rank \in [T -> 1..n]
    BY <1>4
  <2>2. ASSUME NEW d \in T, NEW e \in T, rank[d] = rank[e] PROVE d = e
    <3>1. Rank(d, T) = Rank(e, T) /\ Rank(d, T) \in Nat /\ d \in Nat /\ e \in Nat
      BY <1>1, <1>4, <2>2
    <3>2. ~(d < e) /\ ~(e < d)
      <4>1. \A u, v \in Nat : u = v => ~(u < v)
        OBVIOUS
      <4> QED
        BY <1>3, <3>1, <4>1
    <3> QED
      BY <3>1, <3>2
  <2> HIDE DEF rank
  <2> QED
    BY <2>1, <2>2 DEF Injection, IsInjective
<1>6. rank \in Surjection(T, 1..n)
  BY <1>1, <1>5, FS_Injection DEF n
<1> QED
  BY <1>3, <1>4, <1>5, <1>6 DEF Bijection, n

\* As many of them rank among the first m as there are, up to m.
LEMMA RankedFirst ==
    ASSUME NEW T, T \subseteq Nat, IsFiniteSet(T), NEW m \in Nat, m <= Cardinality(T)
    PROVE  Cardinality({i \in T : Rank(i, T) <= m}) = m
<1> DEFINE F == {i \in T : Rank(i, T) <= m}
           n == Cardinality(T)
           rank == [i \in T |-> Rank(i, T)]
           f == [i \in F |-> Rank(i, T)]
<1>1. rank \in Bijection(T, 1..n) /\ n \in Nat /\ \A i \in T : Rank(i, T) \in 1..n
  BY RanksCount, FS_CardinalityType
<1>2. f \in [F -> 1..m]
  <2>1. \A i \in F : Rank(i, T) \in 1..n /\ Rank(i, T) <= m
    BY <1>1
  <2> HIDE DEF F, n
  <2> QED
    BY <1>1, <2>1
<1>3. \A a, b \in F : f[a] = f[b] => a = b
  <2>1. \A a, b \in T : rank[a] = rank[b] => a = b
    BY <1>1 DEF Bijection, Injection, IsInjective
  <2>2. \A a \in F : a \in T /\ f[a] = rank[a]
    OBVIOUS
  <2> HIDE DEF f, rank, F
  <2> QED
    BY <2>1, <2>2
<1>4. \A k \in 1..m : \E a \in F : f[a] = k
  <2> SUFFICES ASSUME NEW k \in 1..m PROVE \E a \in F : f[a] = k
    OBVIOUS
  <2>1. k \in 1..n /\ k <= m
    BY <1>1
  <2>2. PICK a \in T : rank[a] = k
    BY <1>1, <2>1 DEF Bijection, Surjection
  <2> QED
    BY <2>1, <2>2
<1> HIDE DEF f, F
<1>5. f \in Bijection(F, 1..m)
  BY <1>2, <1>3, <1>4 DEF Bijection, Injection, IsInjective, Surjection
<1>6. IsFiniteSet(F)
  BY FS_Subset DEF F
<1>7. Cardinality(1..m) = Cardinality(F)
  BY <1>5, <1>6, FS_Bijection DEF ExistsBijection
<1> QED
  BY <1>7, FS_Interval DEF F

(***************************************************************************)
(* Pairing: what the log says of a call and its answer.                    *)
(***************************************************************************)
LEMMA Answering ==
    ASSUME ViewInv
    PROVE  /\ Len(parts) \in Nat /\ DOMAIN parts = 1..Len(parts)
           /\ \A j \in Places("response") :
                 /\ parts[j].of \in Places("call") /\ parts[j].of \in Nat /\ j \in Nat /\ parts[j].of < j
                 /\ parts[parts[j].of].name = parts[j].name
           /\ \A j, k \in Places("response") : parts[j].of = parts[k].of => j = k
           /\ \A i \in Places("call") :
                 ById(i) = {j \in Places("response") : parts[j].id # 0 /\ parts[j].of = i}
<1> DEFINE n == Len(parts)
<1>1. n \in Nat /\ DOMAIN parts = 1..n
  BY LenProperties DEF ViewInv, LogHolds
<1> HIDE DEF n
<1>2. ASSUME NEW j \in Places("response")
      PROVE  /\ j \in 1..n /\ parts[j].of \in Places("call") /\ parts[j].of \in Nat /\ j \in Nat /\ parts[j].of < j
             /\ parts[parts[j].of].name = parts[j].name
             /\ parts[j].id # 0 => parts[j].id = parts[j].of /\ parts[parts[j].of].id = parts[j].of
  <2>1. j \in 1..n /\ parts[j].kind = "response" /\ Entry(parts, j)
    BY <1>1 DEF Places, ViewInv, LogHolds, n
  <2>2. /\ parts[j].of \in 1..(j - 1) /\ parts[parts[j].of].kind = "call"
        /\ parts[parts[j].of].name = parts[j].name
        /\ parts[j].id # 0 => parts[j].id = parts[j].of /\ parts[parts[j].of].id = parts[j].of
    BY <2>1 DEF Entry
  <2> DEFINE o == parts[j].of
  <2>3. o \in 1..(j - 1)
    BY <2>2
  <2> HIDE DEF o
  <2>4. o \in 1..n /\ o \in Nat /\ j \in Nat /\ o < j
    BY <1>1, <2>1, <2>3
  <2> QED
    BY <1>1, <2>1, <2>2, <2>4 DEF Places, o
<1>3. ASSUME NEW i \in Places("call") PROVE parts[i].id \in {0, i} /\ i # 0
  <2>1. i \in 1..n /\ parts[i].kind = "call" /\ Entry(parts, i)
    BY <1>1 DEF Places, ViewInv, LogHolds, n
  <2> QED
    BY <1>1, <2>1 DEF Entry
<1>4. \A j, k \in Places("response") : parts[j].of = parts[k].of => j = k
  BY <1>1 DEF Places, ViewInv, LogHolds, AnsweredOnce, n
<1>5. ASSUME NEW i \in Places("call")
      PROVE  ById(i) = {j \in Places("response") : parts[j].id # 0 /\ parts[j].of = i}
  <2>1. ASSUME NEW j \in Places("response"), parts[j].id # 0
        PROVE  parts[j].id = parts[i].id <=> parts[j].of = i
    <3>1. parts[j].id = parts[j].of /\ parts[parts[j].of].id = parts[j].of
      BY <1>2, <2>1
    <3> QED
      BY <1>3, <2>1, <3>1
  <2> QED
    BY <2>1 DEF ById
<1> QED
  BY <1>1, <1>2, <1>4, <1>5 DEF n

LEMMA ShownById ==
    ASSUME ViewInv, NEW i \in Places("call"), ById(i) # {}
    PROVE  Paired(i) /\ i < ResponseOf(i) /\ parts[ResponseOf(i)].of = i
<1>1. ResponseOf(i) \in ById(i)
  BY DEF ResponseOf
<1>2. ResponseOf(i) \in Places("response") /\ parts[ResponseOf(i)].of = i
  BY <1>1, Answering
<1> QED
  BY <1>2, Answering DEF Paired

\* A response without an id answers a call that is left over, one each.
LEMMA QueuedAnswers ==
    ASSUME ViewInv, NEW name
    PROVE  /\ Queued(name) \subseteq Nat /\ IsFiniteSet(Queued(name))
           /\ LeftOver(name) \subseteq Nat /\ IsFiniteSet(LeftOver(name))
           /\ \A j \in Queued(name) : parts[j].of \in LeftOver(name) /\ parts[j].of < j
           /\ \A j, k \in Queued(name) : parts[j].of = parts[k].of => j = k
           /\ Queued(name) \cap LeftOver(name) = {}
           /\ Cardinality(Queued(name)) <= Cardinality(LeftOver(name))
           /\ Cardinality(Queued(name)) \in Nat /\ Cardinality(LeftOver(name)) \in Nat
<1>1. /\ Queued(name) \in SUBSET (1..Len(parts)) /\ LeftOver(name) \in SUBSET (1..Len(parts))
      /\ IsFiniteSet(1..Len(parts)) /\ 1..Len(parts) \subseteq Nat
  BY Answering, FS_Interval DEF Queued, LeftOver, Places
<1>2. /\ Queued(name) \subseteq Nat /\ IsFiniteSet(Queued(name))
      /\ LeftOver(name) \subseteq Nat /\ IsFiniteSet(LeftOver(name))
      /\ Cardinality(Queued(name)) \in Nat /\ Cardinality(LeftOver(name)) \in Nat
  BY <1>1, FS_Subset, FS_CardinalityType
<1>3. ASSUME NEW j \in Queued(name) PROVE parts[j].of \in LeftOver(name) /\ parts[j].of < j
  <2>1. /\ j \in Places("response") /\ parts[j].name = name /\ parts[j].id = 0
        /\ parts[j].of \in Places("call") /\ parts[j].of < j /\ parts[parts[j].of].name = name
    BY Answering DEF Queued
  <2>2. ASSUME NEW k \in ById(parts[j].of) PROVE FALSE
    <3>1. k \in Places("response") /\ parts[k].id # 0 /\ parts[k].of = parts[j].of
      BY <2>1, Answering
    <3> QED
      BY <2>1, <3>1, Answering
  <2> QED
    BY <2>1, <2>2 DEF LeftOver
<1>4. \A j, k \in Queued(name) : parts[j].of = parts[k].of => j = k
  BY Answering DEF Queued
<1>5. Queued(name) \cap LeftOver(name) = {}
  BY DEF Queued, LeftOver, Places
<1>6. Cardinality(Queued(name)) <= Cardinality(LeftOver(name))
  <2> DEFINE f == [j \in Queued(name) |-> parts[j].of]
  <2>1. f \in Injection(Queued(name), LeftOver(name))
    BY <1>3, <1>4 DEF Injection, IsInjective
  <2> HIDE DEF f
  <2> QED
    BY <1>2, <2>1, FS_Injection
<1> QED
  BY <1>2, <1>3, <1>4, <1>5, <1>6

\* The k-th response without an id comes after the k-th call that is left
\* over: every earlier one answers an earlier call.
LEMMA ShownInOrder ==
    ASSUME ViewInv, NEW i \in Places("call"), ById(i) = {}, Paired(i)
    PROVE  i < ResponseOf(i)
<1> DEFINE Q == Queued(parts[i].name)
           T == LeftOver(parts[i].name)
           r == Rank(i, T)
           j == ResponseOf(i)
<1>1. i \in T /\ r <= Cardinality(Q)
  BY DEF LeftOver, Paired
<1>2. /\ Q \subseteq Nat /\ IsFiniteSet(Q) /\ T \subseteq Nat /\ IsFiniteSet(T)
      /\ \A k \in Q : parts[k].of \in T /\ parts[k].of < k
      /\ \A k, l \in Q : parts[k].of = parts[l].of => k = l
      /\ Q \cap T = {} /\ Cardinality(Q) \in Nat /\ Cardinality(T) \in Nat
  BY QueuedAnswers
<1>3. j = CHOOSE k \in Q : Rank(k, Q) = r
  BY DEF ResponseOf
<1> HIDE DEF Q, T, j, r
<1>4. r \in 1..Cardinality(T)
  BY <1>1, <1>2, RanksCount DEF r
<1>5. \E k \in Q : Rank(k, Q) = r
  <2>1. r \in 1..Cardinality(Q)
    BY <1>1, <1>2, <1>4
  <2>2. [k \in Q |-> Rank(k, Q)] \in Bijection(Q, 1..Cardinality(Q))
    BY <1>2, RanksCount
  <2>3. PICK k \in Q : [l \in Q |-> Rank(l, Q)][k] = r
    BY <2>1, <2>2 DEF Bijection, Surjection
  <2> QED
    BY <2>3
<1>6. j \in Q /\ Rank(j, Q) = r
  BY <1>3, <1>5
<1>7. ASSUME ~(i < j) PROVE FALSE
  <2> DEFINE A == {k \in Q : k <= j}
             B == {k \in T : k <= i}
             f == [k \in A |-> parts[k].of]
  <2>1. i \in Nat /\ j \in Nat /\ j < i
    <3>1. i \in Nat /\ j \in Nat /\ i # j
      BY <1>1, <1>2, <1>6
    <3> QED
      BY <1>7, <3>1
  <2>2. \A k \in A : parts[k].of \in T /\ parts[k].of \in Nat /\ parts[k].of < i
    <3> SUFFICES ASSUME NEW k \in A PROVE parts[k].of \in T /\ parts[k].of \in Nat /\ parts[k].of < i
      OBVIOUS
    <3> DEFINE o == parts[k].of
    <3>1. k \in Nat /\ k <= j /\ o \in T /\ o \in Nat /\ o < k
      BY <1>2
    <3> HIDE DEF o
    <3>2. o < i
      BY <2>1, <3>1
    <3> QED
      BY <3>1, <3>2 DEF o
  <2>3. \A k \in A : parts[k].of \in B \ {i}
    <3>1. \A o \in Nat : o < i => o <= i /\ o # i
      BY <2>1
    <3> QED
      BY <2>2, <3>1
  <2>4. B \in SUBSET T /\ i \in B
    BY <1>1, <2>1
  <2>5. IsFiniteSet(B) /\ Cardinality(B) \in Nat /\ IsFiniteSet(B \ {i}) /\ Cardinality(B \ {i}) = Cardinality(B) - 1
    BY <1>2, <2>4, FS_Subset, FS_CardinalityType, FS_RemoveElement
  <2>6. f \in Injection(A, B \ {i})
    <3>1. f \in [A -> B \ {i}] /\ \A k, l \in A : f[k] = f[l] => k = l
      BY <1>2, <2>3
    <3> QED
      BY <3>1 DEF Injection, IsInjective
  <2>7. Cardinality(A) <= Cardinality(B) - 1
    BY <2>5, <2>6, FS_Injection
  <2>8. Cardinality(A) = r /\ Cardinality(B) = r
    BY <1>6 DEF Rank, r
  <2> QED
    BY <1>2, <1>4, <2>7, <2>8
<1> QED
  BY <1>7 DEF j

\* A tool's successful calls are as many as its responses.
LEMMA AsManyAsAnswers ==
    ASSUME ViewInv, NEW name
    PROVE  Cardinality({i \in Places("call") : parts[i].name = name /\ ToolStatus(i) = "success"})
               = Cardinality({j \in Places("response") : parts[j].name = name})
<1> DEFINE good == {i \in Places("call") : parts[i].name = name /\ ToolStatus(i) = "success"}
           answers == {j \in Places("response") : parts[j].name = name}
           T == LeftOver(name)
           Q == Queued(name)
           m == Cardinality(Q)
           P == {i \in Places("call") : parts[i].name = name /\ ById(i) # {}}
           F == {i \in T : Rank(i, T) <= m}
           I == {j \in Places("response") : parts[j].name = name /\ parts[j].id # 0}
           f == [j \in I |-> parts[j].of]
<1>1. /\ IsFiniteSet(Q) /\ T \subseteq Nat /\ IsFiniteSet(T) /\ m \in Nat /\ m <= Cardinality(T)
  BY QueuedAnswers
<1>2. good = P \cup F /\ P \cap F = {}
  <2>1. \A i \in Places("call") : ToolStatus(i) = "success" <=> Paired(i)
    BY DEF ToolStatus
  <2>2. \A i \in Places("call") : parts[i].name = name =>
           (Paired(i) <=> ById(i) # {} \/ Rank(i, T) <= m)
    BY DEF Paired
  <2>3. T = {i \in Places("call") : parts[i].name = name /\ ById(i) = {}}
    BY DEF LeftOver
  <2> HIDE DEF T, m
  <2> QED
    BY <2>1, <2>2, <2>3
<1>3. answers = I \cup Q /\ I \cap Q = {}
  BY DEF Queued
<1>4. Cardinality(F) = m /\ IsFiniteSet(F)
  <2>1. IsFiniteSet(F)
    BY <1>1, FS_Subset
  <2>2. Cardinality(F) = m
    BY <1>1, RankedFirst
  <2> QED
    BY <2>1, <2>2
<1>5. f \in Bijection(I, P)
  <2>1. \A j \in I : /\ parts[j].of \in Places("call") /\ parts[parts[j].of].name = name
                     /\ j \in ById(parts[j].of)
    BY Answering
  <2>2. \A i \in P : \E j \in I : parts[j].of = i
    <3> SUFFICES ASSUME NEW i \in P PROVE \E j \in I : parts[j].of = i
      OBVIOUS
    <3>1. PICK j : j \in ById(i)
      OBVIOUS
    <3> QED
      BY <3>1, Answering
  <2>3. f \in [I -> P]
    BY <2>1
  <2>4. \A j, k \in I : f[j] = f[k] => j = k
    BY Answering
  <2>5. \A i \in P : \E j \in I : f[j] = i
    BY <2>2
  <2> HIDE DEF f, P, I
  <2> QED
    BY <2>3, <2>4, <2>5 DEF Bijection, Injection, IsInjective, Surjection
<1>6. IsFiniteSet(I)
  <2>1. I \in SUBSET (1..Len(parts)) /\ IsFiniteSet(1..Len(parts))
    BY Answering, FS_Interval DEF Places
  <2> QED
    BY <2>1, FS_Subset
<1> HIDE DEF good, answers, P, F, I, f, Q, T, m
<1>7. IsFiniteSet(P) /\ Cardinality(P) = Cardinality(I)
  BY <1>5, <1>6, FS_Bijection DEF ExistsBijection
<1>8. Cardinality(good) = Cardinality(P) + Cardinality(F) - Cardinality(P \cap F)
  BY <1>2, <1>4, <1>7, FS_Union
<1>9. Cardinality(answers) = Cardinality(I) + Cardinality(Q) - Cardinality(I \cap Q)
  BY <1>1, <1>3, <1>6, FS_Union
<1>10. Cardinality(P \cap F) = 0 /\ Cardinality(I \cap Q) = 0
  BY <1>2, <1>3, FS_EmptySet
<1> QED
  BY <1>4, <1>7, <1>8, <1>9, <1>10 DEF good, answers, m

LEMMA TraceShown == ViewInv => TraceTruthful
<1> SUFFICES ASSUME ViewInv PROVE TraceTruthful
  OBVIOUS
<1>1. \A i \in Places("call") : Paired(i) => i < ResponseOf(i)
  BY ShownById, ShownInOrder
<1>2. ASSUME ReconcileFindings = {}, NEW i \in Places("call") PROVE Paired(i) /\ parts[ResponseOf(i)].of = i
  <2>1. \A j \in Places("response") : parts[j].id # 0
    <3>1. "RESPONSE_ID_MISSING" \notin ReconcileFindings
      BY <1>2
    <3> QED
      BY <3>1, Zenon DEF ReconcileFindings
  <2>2. ToolStatus(i) # "error"
    <3>1. "TOOLS_RENDER_ERRORED" \notin ReconcileFindings
      BY <1>2
    <3> QED
      BY <3>1, Zenon DEF ReconcileFindings
  <2>3. Paired(i)
    BY <2>2 DEF ToolStatus
  <2>4. ASSUME ById(i) = {} PROVE FALSE
    <3> DEFINE T == LeftOver(parts[i].name)
    <3>1. Queued(parts[i].name) = {}
      BY <2>1 DEF Queued
    <3>2. Rank(i, T) <= 0
      BY <2>3, <2>4, <3>1, FS_EmptySet DEF Paired
    <3>3. i \in T
      BY <2>4 DEF LeftOver
    <3>4. T \subseteq Nat /\ IsFiniteSet(T) /\ Cardinality(T) \in Nat
      BY QueuedAnswers
    <3> HIDE DEF T
    <3>5. Rank(i, T) \in 1..Cardinality(T)
      BY <3>3, <3>4, RanksCount
    <3> QED
      BY <3>2, <3>4, <3>5
  <2> QED
    BY <2>4, ShownById
<1> QED
  BY <1>1, <1>2, AsManyAsAnswers DEF TraceTruthful

LEMMA ResultsShown == ResultsHonest
<1> SUFFICES ASSUME Incomplete = {}, NEW k \in Replayed,
                    \/ stash[k].artifact = "workbench"
                    \/ stash[k].id = "workspace" /\ stash[k].artifact = "none" /\ stash[k].messages # "deleted"
             PROVE  stash[k].id \in ResultIds
  BY DEF ResultsHonest
<1>1. k \in StashKeys /\ stash[k] \in Surfaces /\ stash[k].messages # "none"
  BY DEF Replayed
<1>2. ~WorkspaceUnreadable(stash[k])
  BY <1>1 DEF Incomplete
<1>3. stash[k].messages \in {"none", "active", "deleted", "invalid"}
  BY <1>1 DEF Surfaces
<1>4. IsResult(stash[k])
  BY <1>1, <1>2, <1>3 DEF WorkspaceUnreadable, IsResult
<1> QED
  BY <1>1, <1>4 DEF ResultIds

\* The trace of a session shows what its event log holds, whichever ids a
\* provider leaves out, and its results list what its surfaces replay
\* (_events_to_tool_activity, _reconcile_findings, _state_to_session_results).
THEOREM TraceIsTruthful == ViewSpec => [](TraceTruthful /\ ResultsHonest)
BY ViewInits, ViewStep, TraceShown, ResultsShown, PTL DEF ViewSpec
-----------------------------------------------------------------------------
(* The history of a session: whatever claims a range of events, a stored    *)
(* summary or one being written, was derived from all of that range.        *)
Summary(last) == {c \in [from : Nat, to : Nat, facts : SUBSET Nat, second : BOOLEAN, task : Nat] :
                      1 <= c.from /\ c.from <= c.to /\ c.to <= last /\ c.from..c.to \subseteq c.facts}

LiveStates(last) == {[op |-> "idle"]} \cup
    {l \in [op : {"summarising"}, from : Nat, to : Nat, facts : SUBSET Nat] :
        1 <= l.from /\ l.from <= l.to /\ l.to <= last /\ l.from..l.to \subseteq l.facts}

PassStates(last) == {[op |-> "idle"]} \cup [op : {"noop"}, task : Nat] \cup
    {p \in [op : {"summarising"}, task : Nat, dry : BOOLEAN, to : Nat, facts : SUBSET Nat] :
        1 <= p.to /\ p.to <= last /\ 1..p.to \subseteq p.facts}

SummaryInv ==
    /\ events \in 0..MaxSessionEvents /\ unanswered \subseteq 1..events
    /\ comps \in Seq(Summary(events))
    /\ live \in LiveStates(events)
    /\ pass \in [TaskWorkers -> PassStates(events)]

LEMMA SummaryElements ==
    ASSUME SummaryInv, NEW i \in DOMAIN comps
    PROVE  /\ comps[i] \in Summary(events) /\ comps[i].from \in Nat /\ comps[i].to \in Nat
           /\ 1 <= comps[i].from /\ comps[i].from <= comps[i].to /\ comps[i].to <= events
           /\ comps[i].facts \subseteq Nat /\ comps[i].from..comps[i].to \subseteq comps[i].facts
BY DEF SummaryInv, Summary

LEMMA SomeSummary ==
    ASSUME SummaryInv, comps # <<>>
    PROVE  DOMAIN comps # {} /\ DOMAIN comps \subseteq Nat /\ \A i \in DOMAIN comps : i <= Len(comps)
<1>1. comps \in Seq(Summary(events))
  BY DEF SummaryInv
<1> HIDE DEF SummaryInv
<1>2. Len(comps) \in Nat /\ Len(comps) # 0 /\ DOMAIN comps = 1..Len(comps)
  BY <1>1, EmptySeq
<1> QED
  BY <1>2

LEMMA SummaryGrows == ASSUME NEW m \in Nat, NEW n \in Nat, m <= n
                      PROVE  /\ Summary(m) \subseteq Summary(n)
                             /\ LiveStates(m) \subseteq LiveStates(n)
                             /\ PassStates(m) \subseteq PassStates(n)
<1>1. Summary(m) \subseteq Summary(n)
  BY DEF Summary
<1>2. LiveStates(m) \subseteq LiveStates(n)
  BY DEF LiveStates
<1>3. PassStates(m) \subseteq PassStates(n)
  BY DEF PassStates
<1> QED
  BY <1>1, <1>2, <1>3

(* There is a latest compaction: of those that end last, of the widest of   *)
(* these, the last one, which no other contains.                            *)
LEMMA LatestIsOne ==
    ASSUME SummaryInv, comps # <<>>
    PROVE  \E i \in DOMAIN comps : Latest(comps) = comps[i] /\ i \in Effective(comps)
<1> DEFINE D == DOMAIN comps
           ends == {comps[i].to : i \in D}
<1>1. D # {} /\ D \subseteq Nat /\ \A i \in D : i <= Len(comps)
  BY SomeSummary
<1>2. \A i \in D : comps[i].from \in Nat /\ comps[i].to \in Nat /\ comps[i].to <= events
  BY SummaryElements
<1>3. events \in Nat /\ Len(comps) \in Nat
  BY CompactionAssumption DEF SummaryInv
<1>4. PICK t \in ends : \A u \in ends : u <= t
  <2>1. ends \in SUBSET Nat /\ ends # {} /\ \A u \in ends : u <= events
    BY <1>1, <1>2
  <2> HIDE DEF ends
  <2> QED
    BY <1>3, <2>1, NatGreatest
<1> DEFINE widest == {comps[i].from : i \in {j \in D : comps[j].to = t}}
<1>5. PICK f \in widest : \A g \in widest : f <= g
  <2>1. widest \in SUBSET Nat /\ widest # {}
    BY <1>2, <1>4
  <2> HIDE DEF widest
  <2> QED
    BY <2>1, NatLeast
<1> DEFINE same == {i \in D : comps[i].to = t /\ comps[i].from = f}
<1>6. PICK l \in same : \A k \in same : k <= l
  <2>1. same \in SUBSET Nat /\ same # {} /\ \A k \in same : k <= Len(comps)
    BY <1>1, <1>5
  <2> HIDE DEF same
  <2> QED
    BY <1>3, <2>1, NatGreatest
<1>7. l \in D /\ comps[l].to = t /\ comps[l].from = f
  BY <1>6
<1>8. \A j \in D : Covers(comps[j], comps[l]) => comps[j].to = t /\ comps[j].from = f
  <2> SUFFICES ASSUME NEW j \in D, comps[j].from <= f, t <= comps[j].to
               PROVE  comps[j].to = t /\ comps[j].from = f
    BY <1>7 DEF Covers
  <2>1. comps[j].to <= t /\ t \in Nat /\ f \in Nat
    BY <1>2, <1>4, <1>7
  <2>2. comps[j].to = t
    BY <1>2, <2>1
  <2>3. f <= comps[j].from
    BY <1>5, <2>2
  <2> QED
    BY <1>2, <2>1, <2>2, <2>3
<1>9. \A j \in D \ {l} : Covers(comps[j], comps[l]) => Covers(comps[l], comps[j]) /\ ~(j > l)
  <2> SUFFICES ASSUME NEW j \in D \ {l}, Covers(comps[j], comps[l])
               PROVE  Covers(comps[l], comps[j]) /\ ~(j > l)
    OBVIOUS
  <2>1. comps[j].to = t /\ comps[j].from = f
    BY <1>8
  <2>2. j <= l
    BY <1>6, <2>1
  <2>3. Covers(comps[l], comps[j])
    BY <1>2, <1>7, <2>1 DEF Covers
  <2> QED
    BY <1>1, <1>7, <2>2, <2>3
<1>10. l \in Effective(comps)
  BY <1>7, <1>9 DEF Effective
<1>11. \A j \in Effective(comps) : comps[j].to <= comps[l].to
  BY <1>4, <1>7 DEF Effective
<1> DEFINE i == CHOOSE i \in Effective(comps) : \A j \in Effective(comps) : comps[j].to <= comps[i].to
<1>12. i \in Effective(comps)
  BY <1>10, <1>11
<1>13. Latest(comps) = comps[i]
  BY DEF Latest
<1> HIDE DEF i
<1> QED
  BY <1>12, <1>13 DEF Effective

(* The greatest number of a range, and the end of what a live compaction    *)
(* selects.                                                                 *)
LEMMA RangeMax ==
    ASSUME NEW a \in Int, NEW b \in Int, a..b # {}
    PROVE  Max(a..b) = b /\ Min(a..b) = a /\ a <= b
<1>1. a <= b /\ a \in a..b /\ b \in a..b
  OBVIOUS
<1> QED
  BY <1>1 DEF Max, Min

LEMMA SelectedRange ==
    ASSUME SummaryInv
    PROVE  \E stop \in Int : Selected = (LatestEnd(comps) + 1)..stop /\ stop <= events
<1> DEFINE waiting == {u - 1 : u \in unanswered}
           S == {events - Retention} \cup waiting
           stop == Min(S)
<1>1. events \in Nat /\ Retention \in Nat /\ unanswered \subseteq Nat /\ waiting \subseteq Int
  BY CompactionAssumption DEF SummaryInv
<1>2. \E x \in S : \A y \in S : x <= y
  <2>0. \A y \in waiting : \E u \in unanswered : y = u - 1
    OBVIOUS
  <2>1. CASE unanswered = {}
    <3>1. S = {events - Retention}
      BY <2>1
    <3> QED
      BY <1>1, <3>1
  <2>2. CASE unanswered # {}
    <3>1. PICK u \in unanswered : \A v \in unanswered : u <= v
      BY <1>1, <2>2, NatLeast
    <3>4. u - 1 \in S /\ events - Retention \in S /\ u \in Nat
      BY <1>1
    <3>5. \A y \in S : y = events - Retention \/ u - 1 <= y
      BY <1>1, <2>0, <3>1
    <3>6. S = {events - Retention} \cup waiting
      OBVIOUS
    <3> HIDE DEF S
    <3>2. CASE u - 1 <= events - Retention
      BY <3>2, <3>4, <3>5
    <3>3. CASE ~(u - 1 <= events - Retention)
      <4>1. \A y \in S : events - Retention <= y
        <5>1. events - Retention \in Int /\ u - 1 \in Int /\ events - Retention < u - 1
          BY <1>1, <3>3
        <5>2. S \subseteq Int
          BY <1>1, <2>0, <3>6
        <5> QED
          BY <3>5, <5>1, <5>2
      <4> QED
        BY <3>4, <4>1
    <3> QED
      BY <3>2, <3>3
  <2> QED
    BY <2>1, <2>2
<1>3. stop \in S /\ \A y \in S : stop <= y
  <2> HIDE DEF S
  <2> QED
    BY <1>2 DEF Min
<1>4. stop \in Int /\ stop <= events
  BY <1>1, <1>3
<1>5. Selected = (LatestEnd(comps) + 1)..stop
  BY DEF Selected
<1> HIDE DEF stop
<1> QED
  BY <1>4, <1>5

(* The summary a live compaction begins claims no more than it reads.       *)
LEMMA LiveClaims ==
    ASSUME SummaryInv, LiveBegins
    PROVE  live' \in LiveStates(events)
<1>1. PICK stop \in Int : Selected = (LatestEnd(comps) + 1)..stop /\ stop <= events
  BY SelectedRange
<1>2. Selected # {}
  BY DEF LiveBegins
<1>3. CASE comps = <<>>
  <2>1. LatestEnd(comps) = 0
    BY <1>3 DEF LatestEnd
  <2>2. Selected = 1..stop /\ 1 <= stop /\ Max(Selected) = stop /\ Min(Selected) = 1
    BY <1>1, <1>2, <2>1, RangeMax
  <2>3. live' = [op |-> "summarising", from |-> 1, to |-> stop, facts |-> 1..stop]
    BY <1>3, <2>2 DEF LiveBegins
  <2> QED
    BY <1>1, <2>2, <2>3 DEF LiveStates
<1>4. CASE comps # <<>>
  <2>1. PICK i \in DOMAIN comps : Latest(comps) = comps[i]
    BY <1>4, LatestIsOne
  <2> DEFINE c == comps[i]
  <2>2. /\ c.from \in Nat /\ c.to \in Nat /\ 1 <= c.from /\ c.from <= c.to /\ c.to <= events
        /\ c.facts \subseteq Nat /\ c.from..c.to \subseteq c.facts
    BY <2>1, SummaryElements
  <2>3. LatestEnd(comps) = c.to
    BY <1>4, <2>1 DEF LatestEnd
  <2>4. live' = [op |-> "summarising", from |-> c.from, to |-> Max(Selected), facts |-> Selected \cup c.facts]
    BY <1>4, <2>1 DEF LiveBegins
  <2> HIDE DEF c
  <2>5. Max(Selected) = stop /\ c.to + 1 <= stop
    <3>1. Selected = (c.to + 1) .. stop
      BY <1>1, <2>3
    <3>2. c.to + 1 \in Int /\ stop \in Int
      BY <1>1, <2>2
    <3> QED
      BY <1>2, <3>1, <3>2, RangeMax
  <2>6. c.from..stop \subseteq Selected \cup c.facts /\ Selected \cup c.facts \subseteq Nat
    BY <1>1, <2>2, <2>3, <2>5
  <2> QED
    BY <1>1, <2>2, <2>4, <2>5, <2>6 DEF LiveStates
<1> QED
  BY <1>3, <1>4

(* A second pass re-derives all that was claimed.                           *)
LEMMA PassClaims ==
    ASSUME SummaryInv, SelectRange # {}
    PROVE  /\ ClaimedEnd \in Nat /\ 1 <= ClaimedEnd /\ ClaimedEnd <= events
           /\ SelectRange = 1..ClaimedEnd
<1>1. comps # <<>> /\ SelectRange = 1..ClaimedEnd
  BY DEF SelectRange, ClaimedEnd
<1> DEFINE ends == {comps[i].to : i \in DOMAIN comps}
<1>2. ends \in SUBSET Nat /\ ends # {} /\ \A u \in ends : u <= events
  <2>1. DOMAIN comps # {}
    BY <1>1, SomeSummary
  <2> QED
    BY <2>1, SummaryElements
<1>3. events \in Nat
  BY CompactionAssumption DEF SummaryInv
<1>4. ClaimedEnd = Max(ends)
  BY DEF ClaimedEnd
<1> HIDE DEF ends
<1>5. ClaimedEnd \in ends
  BY <1>2, <1>3, <1>4, NatGreatest DEF Max
<1> QED
  BY <1>1, <1>2, <1>5

LEMMA SummaryInit == CompactionInit => SummaryInv
BY CompactionAssumption DEF CompactionInit, SummaryInv, LiveStates, PassStates

LEMMA PassBegins ==
    ASSUME SummaryInv, NEW w \in TaskWorkers, NEW end \in Nat, NEW dry \in BOOLEAN, BeginPass(w, end, dry)
    PROVE  pass' \in [TaskWorkers -> PassStates(events)]
<1>1. CASE pass' = [pass EXCEPT ![w] = [op |-> "noop", task |-> end]]
  BY <1>1 DEF SummaryInv, PassStates
<1>2. CASE /\ SelectRange # {}
           /\ pass' = [pass EXCEPT ![w] = [op |-> "summarising", task |-> end, dry |-> dry,
                                           to |-> ClaimedEnd, facts |-> SelectRange]]
  <2>1. [op |-> "summarising", task |-> end, dry |-> dry, to |-> ClaimedEnd, facts |-> SelectRange]
            \in PassStates(events)
    BY <1>2, PassClaims DEF PassStates
  <2> QED
    BY <1>2, <2>1 DEF SummaryInv
<1> QED
  BY <1>1, <1>2 DEF BeginPass

LEMMA SummaryStep == SummaryInv /\ [CompactionNext]_compactionVars => SummaryInv'
<1> SUFFICES ASSUME SummaryInv, [CompactionNext]_compactionVars PROVE SummaryInv'
  OBVIOUS
<1>0. events \in Nat /\ MaxSessionEvents \in Nat
  BY CompactionAssumption DEF SummaryInv
<1>1. ASSUME SessionTurn PROVE SummaryInv'
  <2>1. events' = events + 1 /\ events' \in 0..MaxSessionEvents
    BY <1>0, <1>1 DEF SessionTurn
  <2>2. unanswered' \subseteq 1..events'
    <3>1. unanswered \subseteq 1..(events + 1) /\ events + 1 \in 1..(events + 1)
      BY <1>0 DEF SummaryInv
    <3>2. unanswered' = unanswered \cup {events + 1} \/ unanswered' = {}
      BY <1>1 DEF SessionTurn
    <3> QED
      BY <2>1, <3>1, <3>2
  <2>3. /\ Summary(events) \subseteq Summary(events') /\ LiveStates(events) \subseteq LiveStates(events')
        /\ PassStates(events) \subseteq PassStates(events')
    BY <1>0, <2>1, SummaryGrows
  <2> QED
    BY <1>1, <2>1, <2>2, <2>3 DEF SessionTurn, SummaryInv
<1>2. ASSUME LiveBegins PROVE SummaryInv'
  BY <1>2, LiveClaims DEF LiveBegins, SummaryInv
<1>3. ASSUME LiveEnds PROVE SummaryInv'
  <2>1. live' \in LiveStates(events)
    BY <1>3 DEF LiveEnds, LiveStates
  <2>2. [from |-> live.from, to |-> live.to, facts |-> live.facts, second |-> FALSE, task |-> 0]
           \in Summary(events)
    BY <1>3 DEF LiveEnds, SummaryInv, LiveStates, Summary
  <2>3. comps' \in Seq(Summary(events))
    <3>1. CASE UNCHANGED comps
      BY <3>1 DEF SummaryInv
    <3>2. CASE comps' = Append(comps, [from |-> live.from, to |-> live.to, facts |-> live.facts,
                                       second |-> FALSE, task |-> 0])
      BY <2>2, <3>2 DEF SummaryInv
    <3> QED
      BY <1>3, <3>1, <3>2 DEF LiveEnds
  <2> QED
    BY <1>3, <2>1, <2>3 DEF LiveEnds, SummaryInv
<1>4. ASSUME NEW w \in TaskWorkers, NEW end \in 1..MaxSessionEvents, Deliver(w, end) PROVE SummaryInv'
  <2>1. pass' \in [TaskWorkers -> PassStates(events)]
    <3>1. ASSUME BeginPass(w, end, FALSE) PROVE pass' \in [TaskWorkers -> PassStates(events)]
      <4> DEFINE dry == FALSE
      <4>1. end \in Nat
        BY <1>0
      <4>2. dry \in BOOLEAN
        OBVIOUS
      <4>3. BeginPass(w, end, dry)
        BY <3>1
      <4> HIDE DEF dry
      <4> QED
        BY <4>1, <4>2, <4>3, PassBegins
    <3>2. CASE UNCHANGED pass
      BY <3>2 DEF SummaryInv
    <3> QED
      BY <1>4, <3>1, <3>2 DEF Deliver
  <2> QED
    BY <1>4, <2>1 DEF Deliver, SummaryInv
<1>5. ASSUME NEW w \in TaskWorkers, AdminRecompact(w) PROVE SummaryInv'
  <2>1. pass' \in [TaskWorkers -> PassStates(events)]
    <3>1. ASSUME NEW dry \in BOOLEAN, BeginPass(w, 0, dry) PROVE pass' \in [TaskWorkers -> PassStates(events)]
      <4> DEFINE end == 0
      <4>1. end \in Nat /\ BeginPass(w, end, dry)
        BY <3>1
      <4> HIDE DEF end
      <4> QED
        BY <4>1, PassBegins
    <3>2. CASE UNCHANGED pass
      BY <3>2 DEF SummaryInv
    <3> QED
      BY <1>5, <3>1, <3>2 DEF AdminRecompact
  <2> QED
    BY <1>5, <2>1 DEF AdminRecompact, SummaryInv
<1>6. ASSUME NEW w \in TaskWorkers, PassIsNoop(w) \/ PassDeclined(w) PROVE SummaryInv'
  <2>1. [op |-> "idle"] \in PassStates(events)
    BY DEF PassStates
  <2> QED
    BY <1>6, <2>1 DEF PassIsNoop, PassDeclined, SummaryInv
<1>7. ASSUME NEW w \in TaskWorkers, PassAppends(w) PROVE SummaryInv'
  <2>1. [from |-> 1, to |-> pass[w].to, facts |-> pass[w].facts, second |-> TRUE, task |-> pass[w].task]
           \in Summary(events)
    BY <1>7 DEF PassAppends, SummaryInv, PassStates, Summary
  <2>2. pass' \in [TaskWorkers -> PassStates(events)]
    BY <1>7 DEF PassAppends, SummaryInv, PassStates
  <2> QED
    BY <1>7, <2>1, <2>2 DEF PassAppends, SummaryInv
<1>8. ASSUME Tune \/ UNCHANGED compactionVars PROVE SummaryInv'
  BY <1>8 DEF Tune, compactionVars, SummaryInv
<1> QED
  BY <1>1, <1>2, <1>3, <1>4, <1>5, <1>6, <1>7, <1>8 DEF CompactionNext

(* Every event is shown raw or is part of a summary the model sees, with    *)
(* live compactions, deliveries and passes by hand in any order.            *)
THEOREM NothingIsForgotten == CompactionSpec => [](CompactionTypeOK /\ NothingForgotten)
<1>1. SummaryInv => CompactionTypeOK
  <2> SUFFICES ASSUME SummaryInv, NEW i \in DOMAIN comps
               PROVE  comps[i].from \in 1..events /\ comps[i].to \in comps[i].from..events
    BY DEF CompactionTypeOK, SummaryInv
  <2> QED
    BY SummaryElements, CompactionAssumption DEF SummaryInv
<1>2. SummaryInv => NothingForgotten
  <2> SUFFICES ASSUME SummaryInv, NEW e \in 1..events, NEW i \in Effective(comps),
                      e \in comps[i].from..comps[i].to
               PROVE  e \in comps[i].facts
    BY DEF NothingForgotten
  <2>1. i \in DOMAIN comps
    BY DEF Effective
  <2> QED
    BY <2>1, SummaryElements
<1> QED
  BY <1>1, <1>2, SummaryInit, SummaryStep, PTL DEF CompactionSpec
-----------------------------------------------------------------------------
Words == Seq(Characters)

\* The letters of the first n characters of a text.
LettersRun(text, f) ==
    /\ f \in [0..Len(text) -> Words] /\ f[0] = <<>>
    /\ \A n \in 1..Len(text) :
          f[n] = WithLetter(f[n - 1], text[n])

LEMMA WithLetterType ==
    ASSUME NEW letters \in Words, NEW c \in Characters
    PROVE  /\ WithLetter(letters, c) \in Words
           /\ \A w \in Words : WithLetter(w \o letters, c) = w \o WithLetter(letters, c)
<1>1. Append(letters, c) \in Words
  BY AppendProperties DEF Words
<1>2. ASSUME NEW w \in Words PROVE Append(w \o letters, c) = w \o Append(letters, c)
  <2>1. w \o letters \in Seq(Characters) /\ <<c>> \in Seq(Characters)
    BY ConcatProperties DEF Words
  <2>2. Append(w \o letters, c) = (w \o letters) \o <<c>> /\ Append(letters, c) = letters \o <<c>>
    BY <2>1, AppendIsConcat DEF Words
  <2>3. (w \o letters) \o <<c>> = w \o (letters \o <<c>>)
    BY <2>1, ConcatAssociative DEF Words
  <2> QED
    BY <2>2, <2>3
<1> QED
  BY <1>1, <1>2 DEF WithLetter

LEMMA LettersExist == ASSUME NEW text \in Words PROVE \E f : LettersRun(text, f)
<1> DEFINE n == Len(text)
           step == [k \in 1..n |-> [w \in Words |-> WithLetter(w, text[k])]]
<1>1. n \in Nat /\ \A k \in 1..n : text[k] \in Characters
  BY LenProperties DEF Words
<1>2. \A k \in 1..n : \A w \in Words : WithLetter(w, text[k]) \in Words
  BY <1>1, WithLetterType
<1>3. step \in [1..n -> [Words -> Words]]
  BY <1>2
<1> DEFINE none == <<>>
<1>4. none \in Words
  BY DEF Words
<1>5. \A k \in 1..n : \A w \in Words : step[k][w] = WithLetter(w, text[k])
  OBVIOUS
<1> HIDE DEF step, n, none
<1>5a. PICK f : IsRecursion(n, Words, none, step, f)
  BY <1>1, <1>3, <1>4, RecursionExists
<1>6. f \in [0..n -> Words] /\ f[0] = none /\ \A m \in 1..n : f[m] = step[m][f[m - 1]]
  BY <1>5a DEF IsRecursion
<1>7. \A m \in 1..n : f[m - 1] \in Words
  BY <1>1, <1>6
<1>8. \A m \in 1..n : f[m] = WithLetter(f[m - 1], text[m])
  BY <1>5, <1>6, <1>7
<1> QED
  BY <1>6, <1>8 DEF LettersRun, n, none

LEMMA LettersUnique == ASSUME NEW text \in Words, NEW f, LettersRun(text, f) PROVE Letters(text) = f[Len(text)]
<1> DEFINE Unfold(g) == [n \in 0..Len(text) |-> IF n = 0 THEN <<>> ELSE WithLetter(g[n - 1], text[n])]
           first == CHOOSE g : g = Unfold(g)
<1>1. Len(text) \in Nat
  BY DEF Words
<1>2. f = Unfold(f)
  <2>1. \A n \in 0..Len(text) : f[n] = IF n = 0 THEN <<>> ELSE WithLetter(f[n - 1], text[n])
    BY <1>1 DEF LettersRun
  <2> QED
    BY <2>1 DEF LettersRun
<1>3. first = Unfold(first)
  <2> HIDE DEF Unfold
  <2> QED
    BY <1>2
<1>4. Letters(text) = first[Len(text)]
  BY DEF Letters
<1> HIDE DEF first
<1> DEFINE S == {n \in 0..Len(text) : first[n] = f[n]}
<1>5. 0 \in S
  BY <1>1, <1>3 DEF LettersRun
<1>6. ASSUME NEW n \in 1..Len(text), n - 1 \in S PROVE n \in S
  <2>1. first[n] = WithLetter(first[n - 1], text[n])
    BY <1>1, <1>3
  <2> QED
    BY <1>1, <1>6, <2>1 DEF LettersRun
<1>7. Len(text) \in S
  <2> HIDE DEF S
  <2>1. 0..Len(text) \subseteq S
    BY <1>1, <1>5, <1>6, UpTo
  <2> QED
    BY <1>1, <2>1
<1> QED
  BY <1>4, <1>7

LEMMA LettersType == ASSUME NEW text \in Words PROVE Letters(text) \in Words
<1>1. PICK f : LettersRun(text, f)
  BY LettersExist
<1>2. Len(text) \in Nat
  BY DEF Words
<1> QED
  BY <1>1, <1>2, LettersUnique DEF LettersRun

\* Letters that are taken from two texts in a row.
LEMMA LettersConcat ==
    ASSUME NEW a \in Words, NEW b \in Words
    PROVE  a \o b \in Words /\ Letters(a \o b) = Letters(a) \o Letters(b)
<1> DEFINE m == Len(a)
           n == Len(b)
<1>1. /\ m \in Nat /\ n \in Nat /\ a \o b \in Words /\ Len(a \o b) = m + n
      /\ \A i \in 1..m : (a \o b)[i] = a[i]
      /\ \A i \in 1..n : (a \o b)[m + i] = b[i]
  <2>1. /\ a \o b \in Words /\ Len(a \o b) = m + n
        /\ \A i \in 1..m + n : (a \o b)[i] = IF i <= m THEN a[i] ELSE b[i - m]
    BY ConcatProperties DEF Words
  <2>2. m \in Nat /\ n \in Nat
    BY DEF Words
  <2> QED
    BY <2>1, <2>2
<1>2. PICK f : LettersRun(a, f)
  BY LettersExist
<1>3. PICK g : LettersRun(a \o b, g)
  BY <1>1, LettersExist
<1>4. PICK h : LettersRun(b, h)
  BY LettersExist
<1> HIDE DEF m, n
<1>5. m \in {k \in 0..m : g[k] = f[k]}
  <2> DEFINE S == {k \in 0..m : g[k] = f[k]}
  <2>1. 0 \in S
    BY <1>1, <1>2, <1>3 DEF LettersRun
  <2>2. ASSUME NEW k \in 1..m, k - 1 \in S PROVE k \in S
    <3>1. k \in 1..m + n /\ (a \o b)[k] = a[k] /\ k \in 1..Len(a) /\ k \in 1..Len(a \o b)
      BY <1>1 DEF m
    <3> QED
      BY <1>2, <1>3, <2>2, <3>1 DEF LettersRun
  <2> HIDE DEF S
  <2>3. 0..m \subseteq S
    BY <1>1, <2>1, <2>2, UpTo
  <2>4. m \in S
    BY <1>1, <2>3
  <2> QED
    BY <2>4 DEF S
<1>6. n \in {k \in 0..n : g[m + k] = f[m] \o h[k]}
  <2> DEFINE S == {k \in 0..n : g[m + k] = f[m] \o h[k]}
  <2>0. f[m] \in Words /\ \A k \in 0..n : h[k] \in Words
    <3>1. f \in [0..m -> Words] /\ h \in [0..n -> Words]
      BY <1>2, <1>4 DEF LettersRun, m, n
    <3> QED
      BY <1>1, <3>1
  <2>1. 0 \in S
    <3>1. g[m + 0] = f[m] /\ h[0] = <<>>
      BY <1>1, <1>4, <1>5 DEF LettersRun
    <3>2. f[m] \o <<>> = f[m]
      BY <2>0 DEF Words
    <3>3. g[m + 0] = f[m] \o h[0]
      BY <3>1, <3>2
    <3>4. 0 \in 0..n
      BY <1>1
    <3> QED
      BY <3>3, <3>4, Zenon
  <2>2. ASSUME NEW k \in 1..n, k - 1 \in S PROVE k \in S
    <3>1. m + k \in 1..Len(a \o b) /\ k \in 1..Len(b) /\ (a \o b)[m + k] = b[k] /\ m + k - 1 = m + (k - 1)
      BY <1>1 DEF n
    <3>2. g[m + (k - 1)] = f[m] \o h[k - 1] /\ h[k - 1] \in Words
      BY <1>1, <2>2, <2>0
    <3>3. g[m + k] = WithLetter(g[m + (k - 1)], b[k])
      <4>1. \A i \in 1..Len(a \o b) : g[i] = WithLetter(g[i - 1], (a \o b)[i])
        BY <1>3, Zenon DEF LettersRun
      <4>2. PICK j : j = m + k
        OBVIOUS
      <4>3. j \in 1..Len(a \o b) /\ (a \o b)[j] = b[k] /\ j - 1 = m + (k - 1)
        BY <1>1, <3>1, <4>2
      <4>4. g[j] = WithLetter(g[j - 1], (a \o b)[j])
        BY <4>1, <4>3, Zenon
      <4> QED
        BY <4>2, <4>3, <4>4, Zenon
    <3>4. h[k] = WithLetter(h[k - 1], b[k])
      BY <1>4, <3>1 DEF LettersRun
    <3>5. b[k] \in Characters
      BY <3>1, ElementOfSeq DEF Words
    <3>6. WithLetter(f[m] \o h[k - 1], b[k]) = f[m] \o WithLetter(h[k - 1], b[k])
      BY <2>0, <3>2, <3>5, WithLetterType
    <3>7. g[m + k] = f[m] \o h[k]
      BY <3>2, <3>3, <3>4, <3>6
    <3>8. k \in 0..n
      BY <1>1
    <3> QED
      BY <3>7, <3>8, Zenon
  <2> HIDE DEF S
  <2>3. 0..n \subseteq S
    BY <1>1, <2>1, <2>2, UpTo
  <2>4. n \in S
    BY <1>1, <2>3
  <2> QED
    BY <2>4 DEF S
<1>7. Letters(a) = f[m] /\ Letters(b) = h[n] /\ Letters(a \o b) = g[m + n]
  BY <1>1, <1>2, <1>3, <1>4, LettersUnique DEF m, n
<1> QED
  BY <1>1, <1>6, <1>7

\* The letters of short and of blank texts.
LEMMA LettersOfOne ==
    /\ Letters(<<>>) = <<>>
    /\ \A c \in Characters : Letters(<<c>>) = IF c \in {"gap", "S"} THEN <<>> ELSE <<c>>
<1>1. Letters(<<>>) = <<>>
  <2>1. <<>> \in Words /\ Len(<<>>) = 0
    BY DEF Words
  <2>2. PICK f : LettersRun(<<>>, f)
    BY <2>1, LettersExist
  <2> QED
    BY <2>1, <2>2, LettersUnique DEF LettersRun
<1>2. ASSUME NEW c \in Characters PROVE Letters(<<c>>) = IF c \in {"gap", "S"} THEN <<>> ELSE <<c>>
  <2>1. <<c>> \in Words /\ Len(<<c>>) = 1 /\ <<c>>[1] = c /\ 1 \in 1..1
    BY DEF Words
  <2>2. PICK f : LettersRun(<<c>>, f)
    BY <2>1, LettersExist
  <2>3. f[1] = IF c \in {"gap", "S"} THEN <<>> ELSE Append(<<>>, c)
    BY <2>1, <2>2 DEF LettersRun, WithLetter
  <2>4. Append(<<>>, c) = <<c>>
    OBVIOUS
  <2> QED
    BY <2>1, <2>2, <2>3, <2>4, LettersUnique
<1> QED
  BY <1>1, <1>2

LEMMA LettersOfBlank ==
    ASSUME NEW text \in Words, \A i \in 1..Len(text) : text[i] = "gap"
    PROVE  Letters(text) = <<>>
<1>1. PICK f : LettersRun(text, f)
  BY LettersExist
<1>2. Len(text) \in Nat
  BY DEF Words
<1> DEFINE S == {k \in 0..Len(text) : f[k] = <<>>}
<1>3. 0 \in S
  BY <1>1, <1>2 DEF LettersRun
<1>4. ASSUME NEW k \in 1..Len(text), k - 1 \in S PROVE k \in S
  BY <1>1, <1>2, <1>4 DEF LettersRun, WithLetter
<1> HIDE DEF S
<1>5. 0..Len(text) \subseteq S
  BY <1>2, <1>3, <1>4, UpTo
<1>6. f[Len(text)] = <<>>
  BY <1>2, <1>5 DEF S
<1> QED
  BY <1>1, <1>6, LettersUnique

\* The text of the first n messages.
Chunks == Seq(Words)

FlatRun(s, f) ==
    /\ f \in [0..Len(s) -> Words] /\ f[0] = <<>>
    /\ \A n \in 1..Len(s) : f[n] = f[n - 1] \o s[n]

LEMMA FlatExist == ASSUME NEW s \in Chunks PROVE \E f : FlatRun(s, f)
<1> DEFINE n == Len(s)
           step == [k \in 1..n |-> [w \in Words |-> w \o s[k]]]
           none == <<>>
<1>1. n \in Nat /\ \A k \in 1..n : s[k] \in Words
  BY LenProperties DEF Chunks
<1>2. \A k \in 1..n : \A w \in Words : w \o s[k] \in Words
  BY <1>1, LettersConcat
<1>3. step \in [1..n -> [Words -> Words]]
  BY <1>2
<1>4. none \in Words
  BY DEF Words
<1>5. \A k \in 1..n : \A w \in Words : step[k][w] = w \o s[k]
  OBVIOUS
<1> HIDE DEF step, n, none
<1>6. PICK f : IsRecursion(n, Words, none, step, f)
  BY <1>1, <1>3, <1>4, RecursionExists
<1>7. f \in [0..n -> Words] /\ f[0] = none /\ \A m \in 1..n : f[m] = step[m][f[m - 1]]
  BY <1>6 DEF IsRecursion
<1>8. \A m \in 1..n : f[m - 1] \in Words
  BY <1>1, <1>7
<1>9. \A m \in 1..n : f[m] = f[m - 1] \o s[m]
  BY <1>5, <1>7, <1>8
<1> QED
  BY <1>7, <1>9 DEF FlatRun, n, none

LEMMA FlatUnique == ASSUME NEW s \in Chunks, NEW f, FlatRun(s, f) PROVE FlattenSeq(s) = f[Len(s)]
<1> DEFINE Unfold(g) == [i \in 1..Len(s) |-> IF i = 1 THEN s[i] ELSE g[i - 1] \o s[i]]
           flatten == CHOOSE g : g = Unfold(g)
           part0 == [i \in 1..Len(s) |-> f[i]]
<1>1. Len(s) \in Nat /\ \A i \in 1..Len(s) : s[i] \in Words
  BY LenProperties DEF Chunks
<1>2. f[0] = <<>> /\ \A i \in 1..Len(s) : f[i] = f[i - 1] \o s[i]
  BY DEF FlatRun
<1>3. \A i \in 1..Len(s) : i = 1 => f[i] = s[i]
  <2> SUFFICES ASSUME 1 \in 1..Len(s) PROVE f[1] = s[1]
    OBVIOUS
  <2>1. f[1] = f[0] \o s[1]
    <3>1. PICK i : i = 1
      OBVIOUS
    <3>2. i \in 1..Len(s) /\ i - 1 = 0
      BY <3>1
    <3> QED
      BY <1>2, <3>1, <3>2, Zenon
  <2>2. <<>> \o s[1] = s[1]
    BY <1>1, ConcatEmptySeq DEF Words
  <2> QED
    BY <1>2, <2>1, <2>2
<1>4. part0 = Unfold(part0)
  <2>1. \A i \in 1..Len(s) : part0[i] = IF i = 1 THEN s[i] ELSE part0[i - 1] \o s[i]
    <3> SUFFICES ASSUME NEW i \in 1..Len(s) PROVE part0[i] = IF i = 1 THEN s[i] ELSE part0[i - 1] \o s[i]
      OBVIOUS
    <3>1. i # 1 => i - 1 \in 1..Len(s)
      BY <1>1
    <3> QED
      BY <1>2, <1>3, <3>1
  <2> HIDE DEF part0
  <2>2. part0 = [i \in 1..Len(s) |-> part0[i]]
    BY DEF part0
  <2> QED
    BY <2>1, <2>2
<1>5. flatten = Unfold(flatten)
  <2> HIDE DEF Unfold, part0
  <2> QED
    BY <1>4
<1>6. Len(s) # 0 => FlattenSeq(s) = flatten[Len(s)]
  BY DEF FlattenSeq
<1>7. Len(s) = 0 => FlattenSeq(s) = <<>>
  BY EmptySeq DEF FlattenSeq, Chunks
<1> HIDE DEF flatten, part0
<1> DEFINE S == {i \in 0..Len(s) : i # 0 => flatten[i] = f[i]}
<1>8. 0 \in S
  BY <1>1
<1>9. ASSUME NEW i \in 1..Len(s), i - 1 \in S PROVE i \in S
  <2>1. flatten[i] = IF i = 1 THEN s[i] ELSE flatten[i - 1] \o s[i]
    BY <1>5
  <2>2. i # 1 => i - 1 # 0 /\ flatten[i - 1] = f[i - 1]
    BY <1>9
  <2>3. flatten[i] = f[i]
    BY <1>2, <1>3, <2>1, <2>2
  <2>4. i \in 0..Len(s)
    BY <1>1
  <2> QED
    BY <2>3, <2>4, Zenon
<1>10. Len(s) \in S
  <2> HIDE DEF S
  <2>1. 0..Len(s) \subseteq S
    BY <1>1, <1>8, <1>9, UpTo
  <2> QED
    BY <1>1, <2>1
<1> QED
  BY <1>1, <1>2, <1>6, <1>7, <1>10

LEMMA FlatType == ASSUME NEW s \in Chunks PROVE FlattenSeq(s) \in Words
<1>1. PICK f : FlatRun(s, f)
  BY FlatExist
<1>2. Len(s) \in Nat
  BY LenProperties DEF Chunks
<1> QED
  BY <1>1, <1>2, FlatUnique DEF FlatRun

LEMMA WordsAssociate == \A u, v, w \in Words : (u \o v) \o w = u \o (v \o w)
BY ConcatAssociative DEF Words

LEMMA FlatConcat ==
    ASSUME NEW s \in Chunks, NEW t \in Chunks
    PROVE  s \o t \in Chunks /\ FlattenSeq(s \o t) = FlattenSeq(s) \o FlattenSeq(t)
<1> DEFINE m == Len(s)
           n == Len(t)
<1>1. /\ m \in Nat /\ n \in Nat /\ s \o t \in Chunks /\ Len(s \o t) = m + n
      /\ \A i \in 1..m : (s \o t)[i] = s[i] /\ s[i] \in Words
      /\ \A i \in 1..n : (s \o t)[m + i] = t[i] /\ t[i] \in Words
  <2>1. /\ s \o t \in Chunks /\ Len(s \o t) = m + n
        /\ \A i \in 1..m + n : (s \o t)[i] = IF i <= m THEN s[i] ELSE t[i - m]
    BY ConcatProperties DEF Chunks
  <2>2. m \in Nat /\ n \in Nat /\ (\A i \in 1..m : s[i] \in Words) /\ \A i \in 1..n : t[i] \in Words
    BY LenProperties DEF Chunks
  <2> HIDE DEF m, n
  <2>3. \A i \in 1..n : m + i \in 1..m + n /\ ~(m + i <= m) /\ m + i - m = i
    BY <2>2
  <2>4. \A i \in 1..m : i \in 1..m + n /\ i <= m
    BY <2>2
  <2> QED
    BY <2>1, <2>2, <2>3, <2>4
<1>2. PICK f : FlatRun(s, f)
  BY FlatExist
<1>3. PICK g : FlatRun(s \o t, g)
  BY <1>1, FlatExist
<1>4. PICK h : FlatRun(t, h)
  BY FlatExist
<1>5. /\ f \in [0..m -> Words] /\ f[0] = <<>> /\ \A i \in 1..m : f[i] = f[i - 1] \o s[i]
      /\ h \in [0..n -> Words] /\ h[0] = <<>> /\ \A i \in 1..n : h[i] = h[i - 1] \o t[i]
      /\ g[0] = <<>> /\ \A i \in 1..m + n : g[i] = g[i - 1] \o (s \o t)[i]
  BY <1>1, <1>2, <1>3, <1>4, Zenon DEF FlatRun, m, n
<1> HIDE DEF m, n
<1>6. g[m] = f[m]
  <2> DEFINE S == {k \in 0..m : g[k] = f[k]}
  <2>1. 0 \in S
    BY <1>1, <1>5
  <2>2. ASSUME NEW k \in 1..m, k - 1 \in S PROVE k \in S
    <3>1. k \in 1..m + n /\ (s \o t)[k] = s[k] /\ k \in 0..m
      BY <1>1
    <3>2. g[k] = f[k]
      BY <1>5, <2>2, <3>1
    <3> QED
      BY <3>1, <3>2, Zenon
  <2> HIDE DEF S
  <2>3. 0..m \subseteq S
    BY <1>1, <2>1, <2>2, UpTo
  <2>4. m \in S
    BY <1>1, <2>3
  <2> QED
    BY <2>4 DEF S
<1>7. g[m + n] = f[m] \o h[n]
  <2> DEFINE S == {k \in 0..n : g[m + k] = f[m] \o h[k]}
  <2>0. f[m] \in Words /\ \A k \in 0..n : h[k] \in Words
    BY <1>1, <1>5
  <2>1. 0 \in S
    <3>1. f[m] \o <<>> = f[m]
      BY <2>0, ConcatEmptySeq DEF Words
    <3>2. g[m + 0] = f[m] \o h[0]
      BY <1>1, <1>5, <1>6, <3>1
    <3>3. 0 \in 0..n
      BY <1>1
    <3> QED
      BY <3>2, <3>3, Zenon
  <2>2. ASSUME NEW k \in 1..n, k - 1 \in S PROVE k \in S
    <3>1. PICK j : j = m + k
      OBVIOUS
    <3>2. j \in 1..m + n /\ (s \o t)[j] = t[k] /\ j - 1 = m + (k - 1) /\ t[k] \in Words /\ k \in 0..n
      <4>1. j \in 1..m + n /\ j - 1 = m + (k - 1) /\ k \in 0..n
        BY <1>1, <3>1
      <4>2. (s \o t)[j] = t[k] /\ t[k] \in Words
        BY <1>1, <3>1, Zenon
      <4> QED
        BY <4>1, <4>2
    <3>3. g[j] = g[m + (k - 1)] \o t[k]
      BY <1>5, <3>2, Zenon
    <3>4. g[m + (k - 1)] = f[m] \o h[k - 1] /\ h[k - 1] \in Words
      BY <1>1, <2>0, <2>2
    <3>5. (f[m] \o h[k - 1]) \o t[k] = f[m] \o (h[k - 1] \o t[k])
      <4>1. h[k - 1] \in Words /\ t[k] \in Words
        BY <3>2, <3>4
      <4> QED
        BY <2>0, <4>1, WordsAssociate, Zenon
    <3>6. h[k] = h[k - 1] \o t[k]
      BY <1>5
    <3>7. g[m + k] = f[m] \o h[k]
      BY <3>1, <3>3, <3>4, <3>5, <3>6, Zenon
    <3> QED
      BY <3>2, <3>7, Zenon
  <2> HIDE DEF S
  <2>3. 0..n \subseteq S
    BY <1>1, <2>1, <2>2, UpTo
  <2>4. n \in S
    BY <1>1, <2>3
  <2> QED
    BY <2>4 DEF S
<1>8. FlattenSeq(s) = f[m] /\ FlattenSeq(t) = h[n] /\ FlattenSeq(s \o t) = g[m + n]
  BY <1>1, <1>2, <1>3, <1>4, FlatUnique DEF m, n
<1> QED
  BY <1>1, <1>7, <1>8

LEMMA FlatOfOne ==
    /\ FlattenSeq(<<>>) = <<>>
    /\ \A w \in Words : <<w>> \in Chunks /\ FlattenSeq(<<w>>) = w
<1>1. FlattenSeq(<<>>) = <<>>
  BY DEF FlattenSeq
<1>2. ASSUME NEW w \in Words PROVE <<w>> \in Chunks /\ FlattenSeq(<<w>>) = w
  <2>1. <<w>> \in Chunks /\ Len(<<w>>) = 1 /\ <<w>>[1] = w
    BY DEF Chunks
  <2>2. PICK f : FlatRun(<<w>>, f)
    BY <2>1, FlatExist
  <2>3. f[0] = <<>> /\ f[1] = f[0] \o w
    <3>1. f[0] = <<>> /\ \A n \in 1..1 : f[n] = f[n - 1] \o <<w>>[n]
      BY <2>1, <2>2 DEF FlatRun
    <3>2. 1 \in 1..1 /\ 1 - 1 = 0
      OBVIOUS
    <3> QED
      BY <2>1, <3>1, <3>2
  <2>4. f[1] = w
    BY <2>3, ConcatEmptySeq DEF Words
  <2> QED
    BY <2>1, <2>2, <2>4, FlatUnique
<1> QED
  BY <1>1, <1>2

\* Counting the characters of a kind.
LEMMA CountType == ASSUME NEW text \in Words, NEW S
                   PROVE  /\ IsFiniteSet({i \in 1..Len(text) : text[i] \in S}) /\ Count(text, S) \in Nat
<1>1. Len(text) \in Nat
  BY LenProperties DEF Words
<1>2. IsFiniteSet(1..Len(text))
  BY <1>1, FS_Interval
<1>3. {i \in 1..Len(text) : text[i] \in S} \in SUBSET (1..Len(text))
  OBVIOUS
<1> QED
  BY <1>2, <1>3, FS_Subset, FS_CardinalityType DEF Count

LEMMA CountConcat ==
    ASSUME NEW a \in Words, NEW b \in Words, NEW S
    PROVE  Count(a \o b, S) = Count(a, S) + Count(b, S)
<1> DEFINE m == Len(a)
           n == Len(b)
           A == {i \in 1..m : a[i] \in S}
           B == {i \in 1..n : b[i] \in S}
           C == {i \in 1..m + n : (a \o b)[i] \in S}
           D == {m + i : i \in B}
           f == [i \in B |-> m + i]
<1>1. /\ m \in Nat /\ n \in Nat /\ Len(a \o b) = m + n
      /\ \A i \in 1..m + n : (a \o b)[i] = IF i <= m THEN a[i] ELSE b[i - m]
  BY ConcatProperties, LenProperties DEF Words
<1>2. IsFiniteSet(A) /\ IsFiniteSet(B)
  BY CountType
<1> HIDE DEF m, n
<1>3. C = A \cup D
  <2>1. ASSUME NEW i \in C PROVE i \in A \cup D
    <3>1. CASE i <= m
      BY <1>1, <2>1, <3>1
    <3>2. CASE ~(i <= m)
      <4>1. i - m \in 1..n /\ i = m + (i - m) /\ b[i - m] \in S
        BY <1>1, <2>1, <3>2
      <4> QED
        BY <4>1
    <3> QED
      BY <3>1, <3>2
  <2>2. ASSUME NEW i \in A PROVE i \in C
    BY <1>1
  <2>3. ASSUME NEW i \in B PROVE m + i \in C
    <3>1. m + i \in 1..m + n /\ ~(m + i <= m) /\ m + i - m = i
      BY <1>1
    <3> QED
      BY <1>1, <3>1
  <2> HIDE DEF A, B, C
  <2> QED
    BY <2>1, <2>2, <2>3
<1>4. A \cap D = {}
  BY <1>1
<1>5. f \in Bijection(B, D)
  <2>1. \A i, j \in B : m + i = m + j => i = j
    BY <1>1
  <2>2. f \in [B -> D] /\ \A i \in B : f[i] = m + i
    OBVIOUS
  <2> HIDE DEF f, B
  <2>3. IsInjective(f)
    BY <2>1, <2>2 DEF IsInjective
  <2>4. \A d \in D : \E i \in B : f[i] = d
    BY <2>2
  <2> HIDE DEF D
  <2> QED
    BY <2>2, <2>3, <2>4 DEF Bijection, Injection, Surjection
<1>6. IsFiniteSet(D) /\ Cardinality(D) = Cardinality(B)
  <2>1. ExistsBijection(B, D)
    BY <1>5 DEF ExistsBijection
  <2> HIDE DEF B, D
  <2> QED
    BY <1>2, <2>1, FS_Bijection
<1>7. Count(a \o b, S) = Cardinality(C) /\ Count(a, S) = Cardinality(A) /\ Count(b, S) = Cardinality(B)
  BY <1>1 DEF Count, m, n
<1> HIDE DEF A, B, C, D
<1>8. Cardinality(A \cup D) = Cardinality(A) + Cardinality(D) - Cardinality(A \cap D)
  BY <1>2, <1>6, FS_Union
<1>9. Cardinality(A \cap D) = 0 /\ Cardinality(A) \in Nat /\ Cardinality(B) \in Nat
  BY <1>2, <1>4, FS_EmptySet, FS_CardinalityType
<1> QED
  BY <1>3, <1>6, <1>7, <1>8, <1>9

LEMMA CountOfNone ==
    ASSUME NEW text \in Words, NEW S, \A i \in 1..Len(text) : text[i] \notin S
    PROVE  Count(text, S) = 0
<1>1. {i \in 1..Len(text) : text[i] \in S} = {}
  OBVIOUS
<1> QED
  BY <1>1, FS_EmptySet DEF Count

LEMMA CountOfOne ==
    ASSUME NEW S
    PROVE  /\ Count(<<>>, S) = 0
           /\ \A c : Count(<<c>>, S) = IF c \in S THEN 1 ELSE 0
<1>1. Count(<<>>, S) = 0
  <2>1. {i \in 1..Len(<<>>) : <<>>[i] \in S} = {}
    OBVIOUS
  <2> QED
    BY <2>1, FS_EmptySet DEF Count
<1>2. ASSUME NEW c PROVE Count(<<c>>, S) = IF c \in S THEN 1 ELSE 0
  <2>1. Len(<<c>>) = 1 /\ <<c>>[1] = c
    OBVIOUS
  <2>2. CASE c \in S
    <3>1. {i \in 1..Len(<<c>>) : <<c>>[i] \in S} = {1}
      BY <2>1, <2>2
    <3> QED
      BY <2>2, <3>1, FS_Singleton DEF Count
  <2>3. CASE c \notin S
    <3>1. {i \in 1..Len(<<c>>) : <<c>>[i] \in S} = {}
      BY <2>1, <2>3
    <3> QED
      BY <2>3, <3>1, FS_EmptySet DEF Count
  <2> QED
    BY <2>2, <2>3
<1> QED
  BY <1>1, <1>2

\* Two texts with the same letters and as many surfaces.
Alike(u, v) == Letters(u) = Letters(v) /\ Count(u, {"s", "S"}) = Count(v, {"s", "S"})

LEMMA AlikeConcat ==
    ASSUME NEW u \in Words, NEW v \in Words, NEW x \in Words, NEW y \in Words, Alike(u, x), Alike(v, y)
    PROVE  Alike(u \o v, x \o y)
<1>1. /\ Letters(u \o v) = Letters(u) \o Letters(v) /\ Letters(x \o y) = Letters(x) \o Letters(y)
      /\ Letters(u) = Letters(x) /\ Letters(v) = Letters(y)
  BY LettersConcat DEF Alike
<1> DEFINE shapes == {"s", "S"}
<1>2. /\ Count(u \o v, shapes) = Count(u, shapes) + Count(v, shapes)
      /\ Count(x \o y, shapes) = Count(x, shapes) + Count(y, shapes)
  BY CountConcat
<1>3. Count(u, shapes) = Count(x, shapes) /\ Count(v, shapes) = Count(y, shapes)
  BY DEF Alike
<1>4. Letters(u \o v) = Letters(x \o y) /\ Count(u \o v, shapes) = Count(x \o y, shapes)
  BY <1>1, <1>2, <1>3
<1> QED
  BY <1>4 DEF Alike

LEMMA BlankIsNothing ==
    ASSUME NEW blank \in Words, \A i \in 1..Len(blank) : blank[i] = "gap"
    PROVE  Alike(blank, <<>>)
<1>1. Count(blank, {"s", "S"}) = 0
  BY CountOfNone
<1> QED
  BY <1>1, LettersOfBlank, LettersOfOne, CountOfOne DEF Alike

\* Taking blanks out of a text, or from its start.
LEMMA BlanksDropped ==
    ASSUME NEW u \in Words, NEW blank \in Words, NEW v \in Words, NEW w \in Words,
           \A i \in 1..Len(blank) : blank[i] = "gap", Alike(w, v)
    PROVE  Alike(u \o w, u \o (blank \o v))
<1>1. <<>> \in Words /\ Alike(blank, <<>>) /\ <<>> \o v = v /\ blank \o v \in Words
  BY BlankIsNothing, ConcatEmptySeq, LettersConcat DEF Words
<1>2. Alike(u, u) /\ Alike(v, v)
  BY DEF Alike
<1>3. Alike(blank \o v, <<>> \o v)
  BY <1>1, <1>2, AlikeConcat
<1>4. Alike(w, blank \o v)
  BY <1>1, <1>3 DEF Alike
<1> QED
  BY <1>1, <1>2, <1>4, AlikeConcat

-----------------------------------------------------------------------------
(* Chunks: where a chunk that starts at i is cut, and where the next starts. *)
GapsIn(text, i) == {p \in (i + 1)..(i + MaxLength) : p <= Len(text) /\ text[p] = "gap"}
CutOf(text, i) == IF GapsIn(text, i) = {} THEN i + MaxLength ELSE Max(GapsIn(text, i))
After(text, i) == Min({j \in CutOf(text, i)..Len(text) : text[j] # "gap"} \cup {Len(text) + 1})

ChunksFrom(text, chunks, i) ==
    IF i > Len(text) THEN <<>>
    ELSE IF Len(text) - i < MaxLength THEN <<SubSeq(text, i, Len(text))>>
    ELSE <<SubSeq(text, i, CutOf(text, i) - 1)>> \o chunks[After(text, i)]

LEMMA CutIsRight ==
    ASSUME NEW text \in Words, NEW i \in 1..Len(text), ~(Len(text) - i < MaxLength)
    PROVE  /\ CutOf(text, i) \in (i + 1)..(i + MaxLength) /\ CutOf(text, i) <= Len(text)
           /\ After(text, i) \in CutOf(text, i)..(Len(text) + 1)
           /\ \A j \in CutOf(text, i)..(After(text, i) - 1) : text[j] = "gap"
<1> DEFINE n == Len(text)
           gaps == GapsIn(text, i)
           cut == CutOf(text, i)
           next == After(text, i)
<1>1. n \in Nat /\ MaxLength \in Nat \ {0}
  BY ChannelAssumption, LenProperties DEF Words
<1>2. gaps \in SUBSET Nat /\ \A p \in gaps : p \in (i + 1)..(i + MaxLength) /\ p <= n
  BY <1>1 DEF GapsIn
<1> HIDE DEF n, gaps
<1>3. cut \in (i + 1)..(i + MaxLength) /\ cut <= n
  <2>1. CASE gaps = {}
    BY <1>1, <2>1 DEF CutOf, n, gaps
  <2>2. CASE gaps # {}
    <3>1. \E p \in gaps : \A q \in gaps : q <= p
      BY <1>1, <1>2, <2>2, NatGreatest
    <3>2. \E p \in gaps : \A q \in gaps : p >= q
      BY <1>2, <3>1
    <3>3. cut \in gaps
      BY <2>2, <3>2 DEF CutOf, Max, gaps
    <3> QED
      BY <1>2, <3>3
  <2> QED
    BY <2>1, <2>2
<1> HIDE DEF cut
<1> DEFINE T == {j \in cut..n : text[j] # "gap"} \cup {n + 1}
<1>4. T \in SUBSET Nat /\ T # {}
  BY <1>1, <1>3
<1>5. next = CHOOSE x \in T : \A y \in T : x =< y
  BY DEF After, Min, n, cut
<1> HIDE DEF next
<1>6. next \in T /\ \A y \in T : next <= y
  <2> HIDE DEF T
  <2>1. \E x \in T : \A y \in T : x <= y
    BY <1>4, NatLeast
  <2> QED
    BY <1>5, <2>1
<1>7. next \in cut..(n + 1)
  BY <1>1, <1>3, <1>6
<1>8. ASSUME NEW j \in cut..(next - 1) PROVE text[j] = "gap"
  <2>1. j \in cut..n /\ j < next
    BY <1>1, <1>3, <1>7
  <2> QED
    BY <1>6, <2>1
<1> QED
  BY <1>3, <1>7, <1>8 DEF n, cut, next

LEMMA ChunksExist ==
    ASSUME NEW text \in Words
    PROVE  \E c : c = [i \in 1..Len(text) + 1 |-> ChunksFrom(text, c, i)]
<1> DEFINE n == Len(text)
           Solves(k, c) == /\ c \in [n + 1 - k..n + 1 -> Chunks]
                           /\ \A i \in n + 1 - k..n + 1 : c[i] = ChunksFrom(text, c, i)
           S == {k \in 0..n : \E c : Solves(k, c)}
<1>1. n \in Nat /\ MaxLength \in Nat \ {0}
  BY ChannelAssumption, LenProperties DEF Words
<1>2. 0 \in S
  <2> DEFINE c == [i \in n + 1 - 0..n + 1 |-> <<>>]
  <2>1. Solves(0, c)
    BY <1>1 DEF ChunksFrom, Chunks
  <2> HIDE DEF c, Solves
  <2> QED
    BY <1>1, <2>1
<1>3. ASSUME NEW k \in 1..n, k - 1 \in S PROVE k \in S
  <2>1. PICK c : Solves(k - 1, c)
    BY <1>3
  <2> DEFINE at == n + 1 - k
             first == ChunksFrom(text, c, at)
             d == [i \in at..n + 1 |-> IF i = at THEN first ELSE c[i]]
  <2>2. /\ at \in 1..n /\ c \in [at + 1..n + 1 -> Chunks]
        /\ \A i \in at + 1..n + 1 : c[i] = ChunksFrom(text, c, i)
    BY <1>1, <2>1
  <2> HIDE DEF Solves
  <2>3. ASSUME NEW i \in at..n
        PROVE  Len(text) - i < MaxLength \/ (After(text, i) \in i + 1..n + 1 /\ After(text, i) \in at + 1..n + 1)
    <3>1. CASE Len(text) - i < MaxLength
      BY <3>1
    <3>2. CASE ~(Len(text) - i < MaxLength)
      <4>1. i \in 1..Len(text)
        BY <2>2
      <4>2. CutOf(text, i) \in (i + 1)..(i + MaxLength) /\ After(text, i) \in CutOf(text, i)..(Len(text) + 1)
        BY <3>2, <4>1, CutIsRight
      <4> QED
        BY <1>1, <2>2, <4>2
    <3> QED
      BY <3>1, <3>2
  <2> HIDE DEF at
  <2>4. first \in Chunks
    <3>1. CASE Len(text) - at < MaxLength
      <4>1. \A j \in at..n : text[j] \in Characters
        BY <1>1, <2>2, ElementOfSeq DEF Words
      <4>2. SubSeq(text, at, n) \in Words
        BY <1>1, <2>2, <4>1, SubSeqProperties DEF Words
      <4>3. first = <<SubSeq(text, at, n)>>
        BY <1>1, <2>2, <3>1 DEF ChunksFrom
      <4> QED
        BY <4>2, <4>3, FlatOfOne
    <3>2. CASE ~(Len(text) - at < MaxLength)
      <4>1. /\ CutOf(text, at) \in (at + 1)..(at + MaxLength) /\ CutOf(text, at) <= n
            /\ c[After(text, at)] \in Chunks
        BY <1>1, <2>2, <2>3, <3>2, CutIsRight
      <4>2. CutOf(text, at) - 1 \in Int /\ at \in Int /\ \A j \in at..CutOf(text, at) - 1 : text[j] \in Characters
        BY <1>1, <2>2, <4>1, ElementOfSeq DEF Words
      <4>3. SubSeq(text, at, CutOf(text, at) - 1) \in Words
        BY <4>2, SubSeqProperties DEF Words
      <4>4. first = <<SubSeq(text, at, CutOf(text, at) - 1)>> \o c[After(text, at)]
        BY <1>1, <2>2, <3>2 DEF ChunksFrom
      <4> QED
        BY <4>1, <4>3, <4>4, FlatOfOne, FlatConcat
    <3> QED
      BY <3>1, <3>2
  <2> HIDE DEF first
  <2>5. d \in [at..n + 1 -> Chunks]
    <3>1. \A i \in at..n + 1 : i # at => i \in at + 1..n + 1
      BY <1>1, <2>2
    <3> QED
      BY <2>2, <2>4, <3>1
  <2>6. ASSUME NEW i \in at..n + 1 PROVE d[i] = ChunksFrom(text, d, i)
    <3>1. ChunksFrom(text, d, i) = ChunksFrom(text, c, i)
      <4>1. i <= n /\ ~(Len(text) - i < MaxLength) => d[After(text, i)] = c[After(text, i)]
        BY <1>1, <2>2, <2>3
      <4> HIDE DEF d
      <4> QED
        BY <1>1, <2>2, <4>1 DEF ChunksFrom
    <3>2. i # at => i \in at + 1..n + 1
      BY <1>1, <2>2
    <3> QED
      BY <2>2, <3>1, <3>2 DEF first
  <2> HIDE DEF d
  <2>7. Solves(k, d)
    BY <2>5, <2>6 DEF Solves, at
  <2>8. k \in 0..n
    BY <1>1
  <2> QED
    BY <2>7, <2>8, Zenon
<1>4. \E c : Solves(n, c)
  <2>1. 0..n \subseteq S
    <3> HIDE DEF S
    <3> QED
      BY <1>1, <1>2, <1>3, UpTo
  <2> HIDE DEF Solves
  <2> QED
    BY <1>1, <2>1
<1>5. PICK c : Solves(n, c)
  BY <1>4
<1>6. c \in [1..n + 1 -> Chunks] /\ \A i \in 1..n + 1 : c[i] = ChunksFrom(text, c, i)
  BY <1>1, <1>5
<1>7. c = [i \in 1..n + 1 |-> c[i]]
  BY <1>6
<1>8. c = [i \in 1..n + 1 |-> ChunksFrom(text, c, i)]
  <2> DEFINE e == [i \in 1..n + 1 |-> ChunksFrom(text, c, i)]
  <2>1. DOMAIN e = 1..n + 1 /\ \A i \in 1..n + 1 : e[i] = c[i]
    BY <1>6, Zenon
  <2>2. e = [i \in 1..n + 1 |-> e[i]]
    OBVIOUS
  <2> HIDE DEF e
  <2>3. e = c
    BY <1>7, <2>1, <2>2
  <2> QED
    BY <2>3 DEF e
<1> QED
  BY <1>8

\* The chunks of what is left of a text from i on.
RightChunks(text, i, ms) ==
    /\ ms \in Chunks /\ (i <= Len(text) => ms # <<>>)
    /\ \A k \in 1..Len(ms) : Len(ms[k]) <= MaxLength
    /\ Alike(FlattenSeq(ms), SubSeq(text, i, Len(text)))

LEMMA PieceOf ==
    ASSUME NEW text \in Words, NEW i \in 1..Len(text) + 1, NEW j \in i - 1..Len(text)
    PROVE  SubSeq(text, i, j) \in Words /\ Len(SubSeq(text, i, j)) = j - i + 1
           /\ \A k \in 1..j - i + 1 : SubSeq(text, i, j)[k] = text[i + k - 1]
<1>1. Len(text) \in Nat /\ \A k \in 1..Len(text) : text[k] \in Characters
  BY LenProperties DEF Words
<1>2. i \in Int /\ j \in Int /\ \A k \in i..j : text[k] \in Characters
  BY <1>1
<1>3. /\ SubSeq(text, i, j) \in Seq(Characters) /\ Len(SubSeq(text, i, j)) = IF i <= j THEN j - i + 1 ELSE 0
      /\ \A k \in 1..j - i + 1 : SubSeq(text, i, j)[k] = text[i + k - 1]
  BY <1>2, SubSeqProperties
<1>4. (IF i <= j THEN j - i + 1 ELSE 0) = j - i + 1
  BY <1>1
<1> QED
  BY <1>3, <1>4 DEF Words

LEMMA ChunkStep ==
    ASSUME NEW text \in Words, NEW i \in 1..Len(text) + 1, NEW chunks,
           \A j \in 1..Len(text) + 1 : i < j => RightChunks(text, j, chunks[j])
    PROVE  RightChunks(text, i, ChunksFrom(text, chunks, i))
<1> DEFINE n == Len(text)
           ms == ChunksFrom(text, chunks, i)
<1>1. n \in Nat /\ MaxLength \in Nat \ {0}
  BY ChannelAssumption, LenProperties DEF Words
<1>2. CASE i > Len(text)
  <2>1. ms = <<>> /\ SubSeq(text, i, n) = <<>> /\ FlattenSeq(ms) = <<>> /\ Len(ms) = 0 /\ ms \in Chunks
    <3>1. ms = <<>>
      BY <1>2 DEF ChunksFrom
    <3>2. SubSeq(text, i, n) = <<>>
      BY <1>1, <1>2, SubSeqEmpty
    <3> HIDE DEF ms
    <3> QED
      BY <3>1, <3>2, FlatOfOne DEF Chunks
  <2>2. Alike(FlattenSeq(ms), SubSeq(text, i, Len(text)))
    <3> HIDE DEF ms
    <3>1. FlattenSeq(ms) = SubSeq(text, i, Len(text))
      BY <2>1
    <3> QED
      BY <3>1 DEF Alike
  <2>3. ~(i <= Len(text))
    BY <1>1, <1>2
  <2>4. \A k \in 1..Len(ms) : Len(ms[k]) <= MaxLength
    <3> HIDE DEF ms
    <3> QED
      BY <2>1
  <2> QED
    BY <2>1, <2>2, <2>3, <2>4, Zenon DEF RightChunks
<1>3. CASE i <= n /\ n - i < MaxLength
  <2> DEFINE rest == SubSeq(text, i, n)
  <2>1. rest \in Words /\ Len(rest) = n - i + 1
    BY <1>1, <1>3, PieceOf
  <2>2. ms = <<rest>>
    BY <1>1, <1>3 DEF ChunksFrom
  <2>3. Len(rest) <= MaxLength
    BY <1>1, <1>3, <2>1
  <2> HIDE DEF rest, ms
  <2>4. ms \in Chunks /\ ms # <<>> /\ FlattenSeq(ms) = rest /\ Len(ms) = 1 /\ ms[1] = rest
    BY <2>1, <2>2, FlatOfOne
  <2> QED
    BY <2>3, <2>4 DEF RightChunks, Alike, ms, rest
<1>4. CASE i <= n /\ ~(n - i < MaxLength)
  <2> DEFINE cut == CutOf(text, i)
             next == After(text, i)
             piece == SubSeq(text, i, cut - 1)
             blank == SubSeq(text, cut, next - 1)
             rest == SubSeq(text, next, n)
             later == chunks[next]
  <2>1. /\ cut \in (i + 1)..(i + MaxLength) /\ cut <= n
        /\ next \in cut..(n + 1) /\ \A j \in cut..(next - 1) : text[j] = "gap"
    BY <1>1, <1>4, CutIsRight
  <2>2. ms = <<piece>> \o later
    BY <1>1, <1>4 DEF ChunksFrom
  <2> HIDE DEF cut, next, ms
  <2>3. RightChunks(text, next, later)
    BY <1>1, <2>1
  <2>4. /\ piece \in Words /\ Len(piece) = cut - 1 - i + 1 /\ blank \in Words /\ Len(blank) = next - 1 - cut + 1
        /\ \A k \in 1..next - 1 - cut + 1 : blank[k] = text[cut + k - 1]
        /\ rest \in Words
    BY <1>1, <2>1, PieceOf
  <2>5. Len(piece) <= MaxLength /\ \A k \in 1..Len(blank) : blank[k] = "gap"
    <3>1. \A k \in 1..next - 1 - cut + 1 : cut + k - 1 \in cut..(next - 1)
      BY <1>1, <2>1
    <3> HIDE DEF blank, piece
    <3>2. \A k \in 1..Len(blank) : blank[k] = "gap"
      BY <2>1, <2>4, <3>1
    <3> QED
      BY <1>1, <2>1, <2>4, <3>2
  <2>6. SubSeq(text, i, n) = piece \o (blank \o rest)
    <3>1. SubSeq(text, cut, next - 1) \o SubSeq(text, next - 1 + 1, n) = SubSeq(text, cut, n)
      <4>1. cut \in 1..Len(text) + 1 /\ next - 1 \in cut - 1..Len(text) /\ n \in next - 1..Len(text)
        BY <1>1, <2>1
      <4> QED
        BY <4>1, ConcatAdjacentSubSeq DEF Words
    <3>2. SubSeq(text, i, cut - 1) \o SubSeq(text, cut - 1 + 1, n) = SubSeq(text, i, n)
      <4>1. i \in 1..Len(text) + 1 /\ cut - 1 \in i - 1..Len(text) /\ n \in cut - 1..Len(text)
        BY <1>1, <2>1
      <4> QED
        BY <4>1, ConcatAdjacentSubSeq DEF Words
    <3>3. next - 1 + 1 = next /\ cut - 1 + 1 = cut
      BY <1>1, <2>1
    <3> QED
      BY <3>1, <3>2, <3>3
  <2> HIDE DEF piece, blank, rest, later
  <2>7. later \in Chunks /\ Alike(FlattenSeq(later), rest) /\ \A k \in 1..Len(later) : Len(later[k]) <= MaxLength
    BY <2>3 DEF RightChunks, rest
  <2>8. ms \in Chunks /\ FlattenSeq(ms) = piece \o FlattenSeq(later)
    <3>1. <<piece>> \in Chunks /\ FlattenSeq(<<piece>>) = piece
      BY <2>4, FlatOfOne DEF Chunks
    <3>2. <<piece>> \o later \in Chunks /\ FlattenSeq(<<piece>> \o later) = FlattenSeq(<<piece>>) \o FlattenSeq(later)
      BY <2>7, <3>1, FlatConcat
    <3> QED
      BY <2>2, <3>1, <3>2
  <2>9. FlattenSeq(later) \in Words
    BY <2>7, FlatType
  <2>10. Alike(piece \o FlattenSeq(later), piece \o (blank \o rest))
    BY <2>4, <2>5, <2>7, <2>9, BlanksDropped
  <2>11. ms # <<>> /\ \A k \in 1..Len(ms) : Len(ms[k]) <= MaxLength
    <3>1. /\ Len(ms) = 1 + Len(later) /\ Len(later) \in Nat
          /\ \A k \in 1..1 + Len(later) : ms[k] = IF k <= 1 THEN piece ELSE later[k - 1]
      <4>1. <<piece>> \in Seq(Words) /\ later \in Seq(Words) /\ Len(<<piece>>) = 1 /\ <<piece>>[1] = piece
        BY <2>4, <2>7 DEF Chunks
      <4>2. /\ Len(ms) = Len(<<piece>>) + Len(later)
            /\ \A k \in 1..Len(<<piece>>) + Len(later) :
                  ms[k] = IF k <= Len(<<piece>>) THEN <<piece>>[k] ELSE later[k - Len(<<piece>>)]
        BY <2>2, <4>1, ConcatProperties
      <4>3. Len(later) \in Nat
        BY <4>1, LenProperties
      <4> QED
        BY <4>1, <4>2, <4>3
    <3>2. \A k \in 1..Len(ms) : ~(k <= 1) => k - 1 \in 1..Len(later)
      BY <3>1
    <3> QED
      BY <2>5, <2>7, <3>1, <3>2
  <2> QED
    BY <2>6, <2>8, <2>10, <2>11 DEF RightChunks, ms
<1>5. i > n \/ (i <= n /\ n - i < MaxLength) \/ (i <= n /\ ~(n - i < MaxLength))
  BY <1>1
<1> QED
  BY <1>2, <1>3, <1>4, <1>5

\* A message is cut into chunks that hold all of it and that the channel takes.
LEMMA ChunksAreWhole ==
    ASSUME NEW text \in Words
    PROVE  LET ms == ChunkMessage(text)
           IN  /\ ms \in Chunks /\ (ms = <<>> => \A i \in 1..Len(text) : text[i] = "gap")
               /\ \A k \in 1..Len(ms) : Len(ms[k]) <= MaxLength
               /\ Alike(FlattenSeq(ms), text)
<1> DEFINE n == Len(text)
           ms == ChunkMessage(text)
           chunks == CHOOSE c : c = [i \in 1..n + 1 |-> ChunksFrom(text, c, i)]
<1>1. n \in Nat
  BY LenProperties DEF Words
<1>2. chunks = [i \in 1..n + 1 |-> ChunksFrom(text, chunks, i)]
  BY ChunksExist
<1>3. ms = IF \A i \in 1..n : text[i] = "gap" THEN <<>> ELSE chunks[1]
  BY DEF ChunkMessage, ChunksFrom, After, CutOf, GapsIn
<1> HIDE DEF ms, chunks
<1>4. CASE \A i \in 1..n : text[i] = "gap"
  <2>1. ms = <<>> /\ ms \in Chunks /\ Len(ms) = 0 /\ FlattenSeq(ms) = <<>>
    BY <1>3, <1>4, FlatOfOne DEF Chunks
  <2>2. Alike(text, <<>>)
    BY <1>4, BlankIsNothing
  <2> QED
    BY <1>4, <2>1, <2>2 DEF ms, Alike
<1>5. CASE ~\A i \in 1..n : text[i] = "gap"
  <2> DEFINE S == {k \in 0..n : \A i \in n + 1 - k..n + 1 : RightChunks(text, i, chunks[i])}
  <2>1. ASSUME NEW i \in 1..n + 1, \A j \in 1..n + 1 : i < j => RightChunks(text, j, chunks[j])
        PROVE  RightChunks(text, i, chunks[i])
    <3>1. chunks[i] = ChunksFrom(text, chunks, i)
      BY <1>2
    <3>2. RightChunks(text, i, ChunksFrom(text, chunks, i))
      BY <2>1, ChunkStep
    <3> QED
      BY <3>1, <3>2
  <2>2. 0 \in S
    <3>1. RightChunks(text, n + 1, chunks[n + 1])
      BY <1>1, <2>1
    <3> QED
      BY <1>1, <3>1
  <2>3. ASSUME NEW k \in 1..n, k - 1 \in S PROVE k \in S
    <3>1. PICK at : at = n + 1 - k
      OBVIOUS
    <3>2. at \in 1..n + 1 /\ \A j \in 1..n + 1 : at < j => j \in n + 1 - (k - 1)..n + 1
      BY <1>1, <3>1
    <3>3. \A j \in n + 1 - (k - 1)..n + 1 : RightChunks(text, j, chunks[j])
      BY <2>3
    <3>4. RightChunks(text, at, chunks[at])
      BY <2>1, <3>2, <3>3
    <3>5. \A j \in at..n + 1 : j = at \/ j \in n + 1 - (k - 1)..n + 1
      BY <1>1, <3>1
    <3>6. \A j \in n + 1 - k..n + 1 : RightChunks(text, j, chunks[j])
      BY <3>1, <3>3, <3>4, <3>5
    <3>7. k \in 0..n
      BY <1>1
    <3> QED
      BY <3>6, <3>7, Zenon
  <2>4. n \in S
    <3> HIDE DEF S
    <3>1. 0..n \subseteq S
      BY <1>1, <2>2, <2>3, UpTo
    <3> QED
      BY <1>1, <3>1
  <2>5. RightChunks(text, 1, chunks[1])
    <3>1. 1 \in n + 1 - n..n + 1
      BY <1>1
    <3> QED
      BY <2>4, <3>1
  <2>6. SubSeq(text, 1, n) = text
    BY SubSeqFull DEF Words
  <2>7. ms = chunks[1] /\ 1 <= n
    BY <1>1, <1>3, <1>5
  <2> QED
    BY <2>5, <2>6, <2>7 DEF RightChunks, ms
<1> QED
  BY <1>4, <1>5

\* Taking the blanks off both ends.
LEMMA StrippedIsWhole ==
    ASSUME NEW text \in Words
    PROVE  /\ Stripped(text) \in Words /\ Alike(Stripped(text), text)
           /\ Stripped(text) # <<>> => \E i \in 1..Len(Stripped(text)) : Stripped(text)[i] # "gap"
<1> DEFINE n == Len(text)
           kept == {i \in 1..n : text[i] # "gap"}
<1>1. n \in Nat /\ kept \in SUBSET Nat /\ \A i \in kept : i <= n
  BY LenProperties DEF Words
<1>2. CASE kept = {}
  <2>1. Stripped(text) = <<>> /\ <<>> \in Words
    BY <1>2 DEF Stripped, Words
  <2>2. Alike(text, <<>>)
    BY <1>2, BlankIsNothing
  <2> QED
    BY <2>1, <2>2 DEF Alike
<1>3. CASE kept # {}
  <2> DEFINE a == Min(kept)
             b == Max(kept)
             front == SubSeq(text, 1, a - 1)
             core == SubSeq(text, a, b)
             back == SubSeq(text, b + 1, n)
  <2>1. a \in kept /\ \A i \in kept : a <= i
    <3>1. \E x \in kept : \A y \in kept : x <= y
      BY <1>1, <1>3, NatLeast
    <3> HIDE DEF kept
    <3> QED
      BY <3>1 DEF Min
  <2>2. b \in kept /\ \A i \in kept : i <= b
    <3>1. \E x \in kept : \A y \in kept : y <= x
      BY <1>1, <1>3, NatGreatest
    <3> HIDE DEF kept
    <3>2. \E x \in kept : \A y \in kept : x >= y
      BY <1>1, <3>1
    <3>3. b \in kept /\ \A y \in kept : b >= y
      BY <3>2 DEF Max
    <3> QED
      BY <1>1, <3>3
  <2>3. Stripped(text) = core
    BY <1>3 DEF Stripped
  <2> HIDE DEF a, b
  <2>4. a \in 1..n /\ b \in a..n /\ text[a] # "gap"
    BY <1>1, <2>1, <2>2
  <2>5. (\A i \in 1..a - 1 : text[i] = "gap") /\ \A i \in b + 1..n : text[i] = "gap"
    <3>1. \A i \in 1..a - 1 : i \in 1..n /\ ~(a <= i)
      BY <1>1, <2>4
    <3>2. \A i \in b + 1..n : i \in 1..n /\ ~(i <= b)
      BY <1>1, <2>4
    <3> QED
      BY <2>1, <2>2, <3>1, <3>2
  <2>6. /\ front \in Words /\ Len(front) = a - 1 - 1 + 1 /\ \A k \in 1..a - 1 - 1 + 1 : front[k] = text[1 + k - 1]
        /\ core \in Words /\ Len(core) = b - a + 1 /\ \A k \in 1..b - a + 1 : core[k] = text[a + k - 1]
        /\ back \in Words /\ Len(back) = n - (b + 1) + 1 /\ \A k \in 1..n - (b + 1) + 1 : back[k] = text[b + 1 + k - 1]
    <3>1. 1 \in 1..n + 1 /\ a - 1 \in 1 - 1..n /\ a \in 1..n + 1 /\ b \in a - 1..n /\ b + 1 \in 1..n + 1 /\ n \in b + 1 - 1..n
      BY <1>1, <2>4
    <3> QED
      BY <3>1, PieceOf
  <2>7. text = front \o (core \o back)
    <3>1. core \o back = SubSeq(text, a, n)
      <4>1. a \in 1..Len(text) + 1 /\ b \in a - 1..Len(text) /\ n \in b..Len(text)
        BY <1>1, <2>4
      <4> QED
        BY <4>1, ConcatAdjacentSubSeq DEF Words
    <3>2. SubSeq(text, 1, a - 1) \o SubSeq(text, a - 1 + 1, n) = SubSeq(text, 1, n)
      <4>1. 1 \in 1..Len(text) + 1 /\ a - 1 \in 1 - 1..Len(text) /\ n \in a - 1..Len(text)
        BY <1>1, <2>4
      <4> QED
        BY <4>1, ConcatAdjacentSubSeq DEF Words
    <3>3. SubSeq(text, 1, n) = text /\ a - 1 + 1 = a
      BY <2>4, SubSeqFull DEF Words
    <3> QED
      BY <3>1, <3>2, <3>3
  <2> HIDE DEF front, core, back
  <2>8. (\A k \in 1..Len(front) : front[k] = "gap") /\ \A k \in 1..Len(back) : back[k] = "gap"
    <3>1. \A k \in 1..a - 1 - 1 + 1 : 1 + k - 1 \in 1..a - 1
      BY <2>4
    <3>2. \A k \in 1..n - (b + 1) + 1 : b + 1 + k - 1 \in b + 1..n
      BY <1>1, <2>4
    <3> QED
      BY <2>5, <2>6, <3>1, <3>2
  <2>9. Alike(core, text)
    <3>1. Alike(front, <<>>) /\ Alike(back, <<>>) /\ <<>> \in Words /\ Alike(core, core)
      BY <2>6, <2>8, BlankIsNothing DEF Words, Alike
    <3>2. Alike(core \o back, core \o <<>>) /\ core \o back \in Words /\ core \o <<>> = core
      BY <2>6, <3>1, AlikeConcat, LettersConcat, ConcatEmptySeq DEF Words
    <3>3. Alike(front \o (core \o back), <<>> \o core) /\ <<>> \o core = core
      BY <2>6, <3>1, <3>2, AlikeConcat, ConcatEmptySeq DEF Words
    <3> QED
      BY <2>7, <3>3 DEF Alike
  <2>10. core[1] # "gap" /\ 1 \in 1..Len(core)
    <3>1. 1 \in 1..b - a + 1 /\ a + 1 - 1 = a
      BY <1>1, <2>4
    <3> QED
      BY <2>4, <2>6, <3>1
  <2> QED
    BY <2>3, <2>6, <2>9, <2>10
<1> QED
  BY <1>2, <1>3

(***************************************************************************)
(* The inductive invariant of the channels, delivery by delivery: what has *)
(* been shown and what is still to be sent make up the whole reply.        *)
(***************************************************************************)
BoxFields == {"op", "ch", "user", "guild", "text", "file", "skill", "parts", "reply", "seen", "surfaces", "tries"}
Shapes == {"s", "S"}

Silent(c) == c.posts = <<>> /\ c.holder = None
Seen(c) == (IF c.holder = None THEN <<>> ELSE <<c.holder>>) \o c.posts

\* The messages show the reply of a run and its surfaces.
Complete(msgs, b) ==
    /\ Letters(FlattenSeq(msgs)) = Letters(b.reply)
    /\ Count(FlattenSeq(msgs), Shapes) = b.surfaces
    /\ b.ch # "email" => \A k \in DOMAIN msgs : Len(msgs[k]) <= MaxLength

\* A run going on: what was posted are surfaces, and the words of the others
\* are in the text collected so far.
Collecting(b, c) ==
    /\ b.reply = None /\ b.parts \in Words /\ c.posts \in Chunks
    /\ Letters(FlattenSeq(c.posts)) = <<>>
    /\ b.surfaces = Count(b.parts, Shapes) + Count(FlattenSeq(c.posts), Shapes)
    /\ \A k \in 1..Len(c.posts) : Len(c.posts[k]) <= MaxLength
    /\ IF b.ch = "discord" THEN c.holder # None ELSE Silent(c)

\* A reply, or the answer of a command, on its way out.
Outgoing(b, c) ==
    IF b.ch = "discord"
    THEN b.reply # None /\ c.lost = 0 =>
             /\ b.parts \in Chunks /\ c.posts \in Chunks /\ c.holder \in Words
             /\ Complete(<<c.holder>> \o (c.posts \o b.parts), b)
    ELSE /\ b.parts \in Words
         /\ b.reply # None => Silent(c) /\ b.parts = b.reply /\ b.surfaces = Count(b.reply, Shapes)

DeliveryInv(b, c) ==
    /\ DOMAIN c = {"holder", "posts", "lost"} /\ c.lost \in Nat /\ "op" \in DOMAIN b
    /\ b.op \notin {"idle", "refused", "skipped"} => DOMAIN b = BoxFields
    /\ b.op = "idle" => Silent(c)
    /\ b.op \in {"parsed", "stranger", "known", "uploaded", "begin"} =>
           Silent(c) /\ b.reply = None /\ b.parts = <<>> /\ b.surfaces = 0
    /\ b.op = "begin" => b.ch = "discord"
    /\ b.op = "running" => Collecting(b, c)
    /\ b.op = "sending" => Outgoing(b, c)
    /\ b.op = "ok" /\ b.reply # None /\ c.lost = 0 => Complete(Seen(c), b)
    /\ b.op = "failed" /\ b.ch # "discord" => Silent(c) /\ b.reply = None

RepliesInv ==
    /\ identities \in [Identity -> {None, TRUE, FALSE}]
    /\ defaults \in [Identity -> ChannelSkills \cup {None}]
    /\ allowlist \subseteq ChatUsers
    /\ DOMAIN box = Deliveries /\ DOMAIN chat = Deliveries
    /\ \A d \in Deliveries : DeliveryInv(box[d], chat[d])

LEMMA RepliesInvShows == RepliesInv => ChannelTypeOK /\ RepliesWhole
<1> SUFFICES ASSUME RepliesInv PROVE ChannelTypeOK /\ RepliesWhole
  OBVIOUS
<1>1. ChannelTypeOK
  BY DEF RepliesInv, ChannelTypeOK, DeliveryInv
<1>2. ASSUME NEW d \in Deliveries, box[d].op = "ok", box[d].reply # None, chat[d].lost = 0
      PROVE  LET all == FlattenSeq(Visible(d))
             IN  /\ Letters(all) = Letters(box[d].reply)
                 /\ Count(all, {"s", "S"}) = box[d].surfaces
                 /\ Chunked(box[d].ch) => \A k \in DOMAIN Visible(d) : Len(Visible(d)[k]) <= MaxLength
  <2>1. Complete(Visible(d), box[d])
    BY <1>2 DEF RepliesInv, DeliveryInv, Visible, Seen
  <2> QED
    BY <2>1 DEF Complete, Shapes, Chunked
<1> QED
  BY <1>1, <1>2 DEF RepliesWhole

LEMMA RepliesInit == ChannelInit => RepliesInv
<1> SUFFICES ASSUME ChannelInit PROVE RepliesInv
  OBVIOUS
<1>1. /\ identities \in [Identity -> {None, TRUE, FALSE}]
      /\ defaults \in [Identity -> ChannelSkills \cup {None}]
      /\ allowlist \subseteq ChatUsers
  BY DEF ChannelInit
<1>2. DOMAIN box = Deliveries /\ DOMAIN chat = Deliveries
  BY DEF ChannelInit
<1>3. ASSUME NEW d \in Deliveries PROVE DeliveryInv(box[d], chat[d])
  <2>1. box[d] = [op |-> "idle"] /\ chat[d] = [holder |-> None, posts |-> <<>>, lost |-> 0]
    BY DEF ChannelInit
  <2>2. DeliveryInv([op |-> "idle"], [holder |-> None, posts |-> <<>>, lost |-> 0])
    BY DEF DeliveryInv, Silent
  <2> QED
    BY <2>1, <2>2
<1> QED
  BY <1>1, <1>2, <1>3 DEF RepliesInv

\* A step of one delivery keeps the invariant when it keeps it of that one.
Alone(d) ==
    /\ DOMAIN box' = Deliveries /\ DOMAIN chat' = Deliveries
    /\ \A e \in Deliveries \ {d} : box'[e] = box[e] /\ chat'[e] = chat[e]

LEMMA DeliveryMoves ==
    ASSUME RepliesInv, NEW d \in Deliveries, Alone(d), DeliveryInv(box'[d], chat'[d]),
           identities' = identities \/ identities' = [identities EXCEPT ![Author(d)] = FALSE],
           allowlist' = allowlist,
           defaults' = defaults \/ \E s \in ChannelSkills : defaults' = [defaults EXCEPT ![Author(d)] = s]
    PROVE  RepliesInv'
<1>1. /\ (identities \in [Identity -> {None, TRUE, FALSE}])'
      /\ (defaults \in [Identity -> ChannelSkills \cup {None}])'
      /\ (allowlist \subseteq ChatUsers)'
  BY DEF RepliesInv
<1>2. DOMAIN box' = Deliveries /\ DOMAIN chat' = Deliveries
  BY DEF Alone
<1>3. ASSUME NEW e \in Deliveries PROVE DeliveryInv(box'[e], chat'[e])
  <2>1. e # d => box'[e] = box[e] /\ chat'[e] = chat[e]
    BY DEF Alone
  <2>2. DeliveryInv(box[e], chat[e])
    BY DEF RepliesInv
  <2> QED
    BY <2>1, <2>2
<1> QED
  BY <1>1, <1>2, <1>3 DEF RepliesInv
-----------------------------------------------------------------------------
FinalOf(b) ==
    LET joined == IF b.ch = "discord" THEN Stripped(b.parts) ELSE b.parts
    IN  IF joined = <<>> THEN NoResponseText ELSE joined

LEMMA FixedTexts ==
    /\ \A c \in Characters : <<c>> \in Words /\ Len(<<c>>) = 1 /\ <<c>>[1] = c
    /\ <<>> \in Words /\ <<>> \in Chunks /\ None \notin Words
    /\ Thinking \in Words /\ ErrorText \in Words /\ NoResponseText \in Words
    /\ Count(NoResponseText, Shapes) = 0
<1>1. \A c \in Characters : <<c>> \in Words /\ Len(<<c>>) = 1 /\ <<c>>[1] = c
  BY DEF Words
<1>2. "t" \in Characters /\ "e" \in Characters /\ "n" \in Characters /\ "n" \notin Shapes
  BY DEF Characters, Shapes
<1>3. Count(<<"n">>, Shapes) = 0
  BY <1>2, CountOfOne
<1>4. Thinking \in Words /\ ErrorText \in Words /\ NoResponseText \in Words
  BY <1>1, <1>2 DEF Thinking, ErrorText, NoResponseText
<1>5. <<>> \in Words /\ <<>> \in Chunks
  BY DEF Words, Chunks
<1> QED
  BY <1>1, <1>3, <1>4, <1>5, ChannelAssumption DEF Words, NoResponseText

LEMMA FinalIsWhole ==
    ASSUME NEW b, b.parts \in Words
    PROVE  /\ FinalOf(b) \in Words /\ Count(FinalOf(b), Shapes) = Count(b.parts, Shapes)
           /\ b.ch = "discord" => ChunkMessage(FinalOf(b)) # <<>>
<1> DEFINE joined == IF b.ch = "discord" THEN Stripped(b.parts) ELSE b.parts
<1>1. joined \in Words /\ Alike(joined, b.parts)
  BY StrippedIsWhole DEF Alike
<1>2. CASE joined = <<>>
  <2>1. FinalOf(b) = NoResponseText
    BY <1>2 DEF FinalOf
  <2>2. Count(b.parts, Shapes) = 0
    BY <1>1, <1>2, CountOfOne DEF Alike, Shapes
  <2>3. ChunkMessage(NoResponseText) # <<>>
    <3>1. NoResponseText[1] # "gap" /\ 1 \in 1..Len(NoResponseText)
      BY DEF NoResponseText
    <3> QED
      BY <3>1, FixedTexts, ChunksAreWhole
  <2> QED
    BY <2>1, <2>2, <2>3, FixedTexts
<1>3. CASE joined # <<>>
  <2>1. FinalOf(b) = joined
    BY <1>3 DEF FinalOf
  <2>2. b.ch = "discord" => \E i \in 1..Len(joined) : joined[i] # "gap"
    BY <1>3, StrippedIsWhole
  <2> HIDE DEF joined
  <2>3. b.ch = "discord" => ChunkMessage(joined) # <<>>
    BY <1>1, <2>2, ChunksAreWhole
  <2> QED
    BY <1>1, <2>1, <2>3 DEF Alike, Shapes
<1> QED
  BY <1>2, <1>3
-----------------------------------------------------------------------------
\* A delivery that only goes to another stage.
LEMMA GotoAlone ==
    ASSUME RepliesInv, NEW d \in Deliveries, NEW op, Goto(d, op), chat' = chat
    PROVE  /\ Alone(d) /\ chat'[d] = chat[d] /\ box'[d] = [box[d] EXCEPT !.op = op]
BY DEF RepliesInv, Goto, Alone

\* Up to the run nothing has been shown.
Waiting == {"parsed", "stranger", "known", "uploaded"}

LEMMA BeforeRun ==
    ASSUME RepliesInv, NEW d \in Deliveries, box[d].op \in Waiting, chat'[d] = chat[d],
           DOMAIN box'[d] = BoxFields, box'[d].parts = box[d].parts, box'[d].reply = box[d].reply,
           box'[d].surfaces = box[d].surfaces, box'[d].ch = box[d].ch,
           \/ box'[d].op \in Waiting \cup {"rejected"}
           \/ box'[d].op = "begin" /\ box[d].ch = "discord"
           \/ box'[d].op = "ok"
           \/ box'[d].op = "running" /\ box[d].ch # "discord"
    PROVE  DeliveryInv(box'[d], chat'[d])
<1>1. /\ DeliveryInv(box[d], chat[d]) /\ Silent(chat[d]) /\ box[d].reply = None
      /\ box[d].parts = <<>> /\ box[d].surfaces = 0
  BY DEF RepliesInv, DeliveryInv, Waiting
<1>2. "op" \in BoxFields
  BY DEF BoxFields
<1>3. box'[d].op = "running" => Collecting(box'[d], chat'[d])
  <2>1. Count(<<>>, Shapes) = 0 /\ Letters(<<>>) = <<>> /\ FlattenSeq(<<>>) = <<>>
    BY CountOfOne, LettersOfOne, FlatOfOne
  <2>2. <<>> \in Words /\ <<>> \in Chunks /\ Len(<<>>) = 0
    BY FixedTexts
  <2> QED
    BY <1>1, <2>1, <2>2 DEF Collecting, Silent, Waiting
<1> QED
  BY <1>1, <1>2, <1>3 DEF DeliveryInv, Waiting

LEMMA HandleWebhookKeeps ==
    ASSUME RepliesInv, NEW d \in Deliveries, HandleWebhook(d)
    PROVE  RepliesInv'
<1>1. PICK ch \in ChannelNames, u \in ChatUsers, e \in ChannelEvents, secret \in BOOLEAN :
          box' = [box EXCEPT ![d] =
               IF ~Verified(ch, e, secret) THEN [op |-> "refused"]
               ELSE IF ~Parsed(ch, e) THEN [op |-> "skipped"]
               ELSE [op |-> "parsed", ch |-> ch, user |-> u, guild |-> e.guild,
                     text |-> e.text, file |-> e.file, skill |-> None, parts |-> <<>>,
                     reply |-> None, seen |-> 0, surfaces |-> 0, tries |-> 1]]
  BY Zenon DEF HandleWebhook
<1>2. /\ box[d].op = "idle" /\ chat' = chat /\ identities' = identities
      /\ allowlist' = allowlist /\ defaults' = defaults
  BY DEF HandleWebhook
<1> DEFINE r == [op |-> "parsed", ch |-> ch, user |-> u, guild |-> e.guild,
                 text |-> e.text, file |-> e.file, skill |-> None, parts |-> <<>>,
                 reply |-> None, seen |-> 0, surfaces |-> 0, tries |-> 1]
<1>3. Alone(d) /\ (box'[d] = [op |-> "refused"] \/ box'[d] = [op |-> "skipped"] \/ box'[d] = r)
  BY <1>1, <1>2 DEF RepliesInv, Alone
<1>4. DOMAIN r = BoxFields /\ r.op = "parsed" /\ r.parts = <<>> /\ r.reply = None /\ r.surfaces = 0
  BY DEF BoxFields
<1> HIDE DEF r
<1>5. DeliveryInv(box[d], chat[d]) /\ Silent(chat[d]) /\ chat'[d] = chat[d]
  BY <1>2 DEF RepliesInv, DeliveryInv
<1>6. DeliveryInv(box'[d], chat'[d])
  <2>1. CASE box'[d] = [op |-> "refused"] \/ box'[d] = [op |-> "skipped"]
    BY <1>5, <2>1 DEF DeliveryInv
  <2>2. CASE box'[d] = r
    <3>1. "op" \in DOMAIN r
      BY <1>4 DEF BoxFields
    <3> QED
      BY <1>4, <1>5, <2>2, <3>1 DEF DeliveryInv
  <2> QED
    BY <1>3, <2>1, <2>2
<1> QED
  BY <1>2, <1>3, <1>6, DeliveryMoves

\* The steps between the webhook and the run.
LEMMA EarlyStepsKeep ==
    ASSUME RepliesInv, NEW d \in Deliveries,
           Resolve(d) \/ OnUnknownUser(d) \/ Upload(d) \/ DispatchInbound(d)
    PROVE  RepliesInv'
<1>1. DOMAIN box[d] = BoxFields \/ box[d].op \notin Waiting
  BY DEF RepliesInv, DeliveryInv, Waiting
<1>2. ASSUME NEW op \in Waiting \cup {"rejected"}, Goto(d, op), box[d].op \in Waiting, chat' = chat
      PROVE  Alone(d) /\ DeliveryInv(box'[d], chat'[d])
  <2>1. Alone(d) /\ chat'[d] = chat[d] /\ box'[d] = [box[d] EXCEPT !.op = op]
    BY <1>2, GotoAlone
  <2>2. /\ DOMAIN box'[d] = BoxFields /\ box'[d].parts = box[d].parts /\ box'[d].reply = box[d].reply
        /\ box'[d].surfaces = box[d].surfaces /\ box'[d].ch = box[d].ch /\ box'[d].op = op
    BY <1>1, <1>2, <2>1 DEF BoxFields
  <2> QED
    BY <1>2, <2>1, <2>2, BeforeRun
<1>3. CASE Resolve(d)
  <2>1. PICK op \in Waiting : Goto(d, op)
    BY <1>3 DEF Resolve, Waiting
  <2>2. box[d].op \in Waiting /\ chat' = chat
    BY <1>3 DEF Resolve, Waiting
  <2> QED
    BY <1>2, <1>3, <2>1, <2>2, DeliveryMoves DEF Resolve
<1>4. CASE OnUnknownUser(d)
  <2>1. PICK op \in Waiting \cup {"rejected"} : Goto(d, op)
    BY <1>4 DEF OnUnknownUser, Waiting
  <2>2. box[d].op \in Waiting /\ chat' = chat
    BY <1>4 DEF OnUnknownUser, Waiting
  <2>3. /\ identities' = identities \/ identities' = [identities EXCEPT ![Author(d)] = FALSE]
        /\ allowlist' = allowlist /\ defaults' = defaults
    BY <1>4 DEF OnUnknownUser, AutoCreate
  <2> QED
    BY <1>2, <2>1, <2>2, <2>3, DeliveryMoves
<1>5. CASE Upload(d)
  <2>1. Goto(d, "uploaded") /\ box[d].op \in Waiting /\ chat' = chat /\ "uploaded" \in Waiting
    BY <1>5 DEF Upload, Waiting
  <2> QED
    BY <1>2, <1>5, <2>1, DeliveryMoves DEF Upload
<1>6. CASE DispatchInbound(d)
  <2>1. PICK s, op : /\ box' = [box EXCEPT ![d].skill = s, ![d].op = op]
                     /\ op = IF box[d].ch # "discord" THEN "running" ELSE IF gatewayUp THEN "begin" ELSE "ok"
    BY <1>6, Zenon DEF DispatchInbound, Streams
  <2>2. /\ box[d].op \in Waiting /\ chat' = chat /\ identities' = identities
        /\ allowlist' = allowlist /\ defaults' = defaults
    BY <1>6 DEF DispatchInbound, Waiting
  <2>3. /\ DOMAIN box'[d] = BoxFields /\ box'[d].parts = box[d].parts /\ box'[d].reply = box[d].reply
        /\ box'[d].surfaces = box[d].surfaces /\ box'[d].ch = box[d].ch /\ box'[d].op = op
        /\ Alone(d)
    BY <1>1, <2>1, <2>2 DEF BoxFields, RepliesInv, Alone
  <2>4. DeliveryInv(box'[d], chat'[d])
    BY <2>1, <2>2, <2>3, BeforeRun
  <2> QED
    BY <2>2, <2>3, <2>4, DeliveryMoves
<1> QED
  BY <1>3, <1>4, <1>5, <1>6
-----------------------------------------------------------------------------
LEMMA OneMore ==
    ASSUME NEW text \in Words, NEW c \in Characters
    PROVE  /\ Append(text, c) \in Words
           /\ Count(Append(text, c), Shapes) = Count(text, Shapes) + (IF c \in Shapes THEN 1 ELSE 0)
<1>1. <<c>> \in Words
  BY FixedTexts
<1>2. Append(text, c) = text \o <<c>>
  BY AppendIsConcat DEF Words
<1>3. text \o <<c>> \in Words /\ Count(text \o <<c>>, Shapes) = Count(text, Shapes) + Count(<<c>>, Shapes)
  BY <1>1, LettersConcat, CountConcat
<1>4. Count(<<c>>, Shapes) = IF c \in Shapes THEN 1 ELSE 0
  BY CountOfOne
<1> QED
  BY <1>2, <1>3, <1>4

\* The command replies and the errors of a run go out as they are.
LEMMA ReplyOut ==
    ASSUME RepliesInv, NEW d \in Deliveries, NEW text \in Words,
           chat'[d] = chat[d], DOMAIN box'[d] = BoxFields, box'[d].op = "sending",
           box'[d].parts = text, box'[d].reply = None
    PROVE  DeliveryInv(box'[d], chat'[d])
<1>1. DeliveryInv(box[d], chat[d]) /\ "op" \in BoxFields
  BY DEF RepliesInv, BoxFields
<1>2. Outgoing(box'[d], chat'[d])
  BY DEF Outgoing
<1> QED
  BY <1>1, <1>2 DEF DeliveryInv

LEMMA HandleCommandKeeps ==
    ASSUME RepliesInv, NEW d \in Deliveries, HandleCommand(d)
    PROVE  RepliesInv'
<1>1. /\ DOMAIN box[d] = BoxFields /\ box[d].reply = None /\ chat' = chat
      /\ box' = [box EXCEPT ![d].op = "sending", ![d].parts = <<"w">>]
      /\ identities' = identities /\ allowlist' = allowlist
  BY DEF RepliesInv, DeliveryInv, HandleCommand
<1>2. /\ Alone(d) /\ DOMAIN box'[d] = BoxFields /\ box'[d].op = "sending"
      /\ box'[d].parts = <<"w">> /\ box'[d].reply = None
  BY <1>1 DEF RepliesInv, Alone, BoxFields
<1>3. <<"w">> \in Words
  BY FixedTexts DEF Characters
<1>4. DeliveryInv(box'[d], chat'[d])
  BY <1>1, <1>2, <1>3, ReplyOut
<1>5. defaults' = defaults \/ \E s \in ChannelSkills : defaults' = [defaults EXCEPT ![Author(d)] = s]
  BY DEF HandleCommand, CmdSkill, SetUserDefaultSkill
<1> QED
  BY <1>1, <1>2, <1>4, <1>5, DeliveryMoves

LEMMA BeginKeeps ==
    ASSUME RepliesInv, NEW d \in Deliveries, Begin(d)
    PROVE  RepliesInv'
<1>1. /\ DeliveryInv(box[d], chat[d]) /\ box[d].op = "begin" /\ DOMAIN box[d] = BoxFields
      /\ Silent(chat[d]) /\ box[d].reply = None /\ box[d].parts = <<>> /\ box[d].surfaces = 0
      /\ box[d].ch = "discord"
  BY DEF RepliesInv, DeliveryInv, Begin
<1>2. identities' = identities /\ allowlist' = allowlist /\ defaults' = defaults
  BY DEF Begin
<1>3. CASE chat' = [chat EXCEPT ![d].holder = Thinking] /\ Goto(d, "running")
  <2>1. /\ Alone(d) /\ DOMAIN box'[d] = BoxFields /\ box'[d].op = "running" /\ box'[d].reply = None
        /\ box'[d].parts = <<>> /\ box'[d].surfaces = 0 /\ box'[d].ch = "discord"
    BY <1>1, <1>3 DEF RepliesInv, Alone, Goto, BoxFields
  <2>2. /\ DOMAIN chat'[d] = {"holder", "posts", "lost"} /\ chat'[d].holder = Thinking
        /\ chat'[d].posts = <<>> /\ chat'[d].lost \in Nat
    BY <1>1, <1>3 DEF RepliesInv, DeliveryInv, Silent
  <2>3. Count(<<>>, Shapes) = 0 /\ Letters(<<>>) = <<>> /\ FlattenSeq(<<>>) = <<>> /\ Len(<<>>) = 0
    BY CountOfOne, LettersOfOne, FlatOfOne
  <2>4. Collecting(box'[d], chat'[d])
    BY <2>1, <2>2, <2>3, FixedTexts DEF Collecting
  <2>5. DeliveryInv(box'[d], chat'[d])
    BY <2>1, <2>2, <2>4 DEF DeliveryInv, BoxFields
  <2> QED
    BY <1>2, <2>1, <2>5, DeliveryMoves
<1>4. CASE Goto(d, "failed") /\ chat' = chat
  <2>1. Alone(d) /\ chat'[d] = chat[d] /\ box'[d] = [box[d] EXCEPT !.op = "failed"]
    BY <1>4, GotoAlone
  <2>2. DOMAIN box'[d] = BoxFields /\ box'[d].op = "failed" /\ box'[d].ch = "discord"
    BY <1>1, <2>1 DEF BoxFields
  <2>3. DeliveryInv(box'[d], chat'[d])
    BY <1>1, <2>1, <2>2 DEF DeliveryInv, BoxFields
  <2> QED
    BY <1>2, <2>1, <2>3, DeliveryMoves
<1> QED
  BY <1>3, <1>4 DEF Begin
-----------------------------------------------------------------------------
\* The run goes on: what is collected and shown stays in step.
LEMMA StillCollecting ==
    ASSUME RepliesInv, NEW d \in Deliveries, box[d].op = "running", Alone(d),
           DOMAIN box'[d] = BoxFields, box'[d].op = "running", box'[d].reply = None, box'[d].ch = box[d].ch,
           DOMAIN chat'[d] = {"holder", "posts", "lost"}, chat'[d].lost = chat[d].lost,
           Collecting(box[d], chat[d]) => Collecting(box'[d], chat'[d]),
           identities' = identities, allowlist' = allowlist, defaults' = defaults
    PROVE  RepliesInv'
<1>1. DeliveryInv(box[d], chat[d]) /\ Collecting(box[d], chat[d]) /\ chat[d].lost \in Nat
  BY DEF RepliesInv, DeliveryInv
<1>2. DeliveryInv(box'[d], chat'[d])
  BY <1>1 DEF DeliveryInv, BoxFields
<1> QED
  BY <1>2, DeliveryMoves

LEMMA Running ==
    ASSUME RepliesInv, NEW d \in Deliveries, box[d].op = "running"
    PROVE  /\ DOMAIN box[d] = BoxFields /\ DOMAIN chat[d] = {"holder", "posts", "lost"}
           /\ Collecting(box[d], chat[d]) /\ box[d].reply = None /\ box[d].parts \in Words
           /\ chat[d].lost \in Nat
BY DEF RepliesInv, DeliveryInv, Collecting

LEMMA CollectMore ==
    ASSUME NEW b, NEW c, NEW b2, NEW c2, NEW n \in Nat, Collecting(b, c),
           b2.reply = None, b2.ch = b.ch, b2.parts \in Words, b2.surfaces = b.surfaces + n,
           Count(b2.parts, Shapes) = Count(b.parts, Shapes) + n, c2.posts = c.posts,
           c2.holder = c.holder \/ (b.ch = "discord" /\ c2.holder # None)
    PROVE  Collecting(b2, c2)
<1>1. /\ c.posts \in Chunks /\ Letters(FlattenSeq(c.posts)) = <<>> /\ b.parts \in Words
      /\ b.surfaces = Count(b.parts, Shapes) + Count(FlattenSeq(c.posts), Shapes)
      /\ \A k \in 1..Len(c.posts) : Len(c.posts[k]) <= MaxLength
      /\ IF b.ch = "discord" THEN c.holder # None ELSE c.posts = <<>> /\ c.holder = None
  BY DEF Collecting, Silent
<1>2. Count(b.parts, Shapes) \in Nat /\ Count(FlattenSeq(c.posts), Shapes) \in Nat
  BY <1>1, CountType, FlatType
<1>3. b2.surfaces = Count(b2.parts, Shapes) + Count(FlattenSeq(c2.posts), Shapes)
  BY <1>1, <1>2
<1> QED
  BY <1>1, <1>3 DEF Collecting, Silent

LEMMA CollectTypes ==
    ASSUME NEW b, NEW c, Collecting(b, c)
    PROVE  b.surfaces \in Nat /\ Count(b.parts, Shapes) \in Nat
<1>1. Count(b.parts, Shapes) \in Nat /\ Count(FlattenSeq(c.posts), Shapes) \in Nat
  BY CountType, FlatType DEF Collecting
<1>2. b.surfaces = Count(b.parts, Shapes) + Count(FlattenSeq(c.posts), Shapes)
  BY DEF Collecting
<1> QED
  BY <1>1, <1>2

LEMMA TextContentKeeps ==
    ASSUME RepliesInv, NEW d \in Deliveries, TextContent(d)
    PROVE  RepliesInv'
<1>1. PICK c \in {"w", "gap"} :
          /\ Splice(d, c)
          /\ \/ chat' = chat
             \/ /\ box[d].ch = "discord"
                /\ chat' = [chat EXCEPT ![d].holder =
                       SubSeq(Append(box[d].parts, c), 1, Min({Len(Append(box[d].parts, c)), MaxLength}))]
  BY DEF TextContent, Streams
<1>2. box[d].op = "running" /\ identities' = identities /\ allowlist' = allowlist /\ defaults' = defaults
  BY DEF TextContent, Hear
<1>3. /\ DOMAIN box[d] = BoxFields /\ DOMAIN chat[d] = {"holder", "posts", "lost"}
      /\ Collecting(box[d], chat[d]) /\ box[d].reply = None /\ box[d].parts \in Words
  BY <1>2, Running
<1>4. /\ Alone(d) /\ DOMAIN box'[d] = BoxFields /\ box'[d].op = "running" /\ box'[d].reply = None
      /\ box'[d].ch = box[d].ch /\ box'[d].surfaces = box[d].surfaces /\ box'[d].parts = Append(box[d].parts, c)
  BY <1>1, <1>2, <1>3 DEF RepliesInv, Alone, Splice, BoxFields
<1>5. /\ DOMAIN chat'[d] = {"holder", "posts", "lost"} /\ chat'[d].lost = chat[d].lost
      /\ chat'[d].posts = chat[d].posts
      /\ chat'[d].holder = chat[d].holder \/ (box[d].ch = "discord" /\ chat'[d].holder # None)
  <2> DEFINE all == Append(box[d].parts, c)
             h == SubSeq(all, 1, Min({Len(all), MaxLength}))
  <2>1. h # None
    <3>1. all \in Words
      BY <1>3, OneMore DEF Characters
    <3> HIDE DEF all
    <3>2. Len(all) \in Nat /\ MaxLength \in Nat /\ all \in Seq(Characters)
      BY <3>1, LenProperties, ChannelAssumption DEF Words
    <3>3. Min({Len(all), MaxLength}) \in 0..Len(all)
      BY <3>2 DEF Min
    <3>4. h \in Words
      <4> DEFINE m == Min({Len(all), MaxLength})
      <4>0. m \in 0..Len(all)
        BY <3>3
      <4> HIDE DEF m
      <4>1. m \in Int /\ \A i \in 1..m : i \in 1..Len(all)
        BY <3>2, <4>0
      <4>2. \A i \in 1..m : all[i] \in Characters
        BY <3>2, <4>1, ElementOfSeq
      <4>3. SubSeq(all, 1, m) \in Seq(Characters)
        BY <4>1, <4>2, SubSeqProperties
      <4> QED
        BY <4>3 DEF m, Words
    <3> QED
      BY <3>4, FixedTexts
  <2> HIDE DEF h
  <2>2. chat' = chat \/ (box[d].ch = "discord" /\ chat' = [chat EXCEPT ![d].holder = h])
    BY <1>1 DEF h
  <2> QED
    BY <1>3, <2>1, <2>2 DEF RepliesInv
<1>6. Collecting(box'[d], chat'[d])
  <2>1. c \in Characters /\ c \notin Shapes
    BY DEF Characters, Shapes
  <2>2. Count(box[d].parts, Shapes) \in Nat /\ box[d].surfaces \in Nat
    BY <1>3, CollectTypes
  <2>3. /\ box'[d].parts \in Words
        /\ Count(box'[d].parts, Shapes) = Count(box[d].parts, Shapes) + 0
    BY <1>3, <1>4, <2>1, <2>2, OneMore
  <2>4. box'[d].surfaces = box[d].surfaces + 0
    BY <1>4, <2>2
  <2> QED
    BY <1>3, <1>4, <1>5, <2>3, <2>4, CollectMore
<1> QED
  BY <1>2, <1>4, <1>5, <1>6, StillCollecting

LEMMA ShowProgressKeeps ==
    ASSUME RepliesInv, NEW d \in Deliveries, ShowProgress(d)
    PROVE  RepliesInv'
<1>1. /\ box[d].op = "running" /\ chat' = chat
      /\ identities' = identities /\ allowlist' = allowlist /\ defaults' = defaults
      /\ Splice(d, "p") \/ Unspliced(d)
  BY DEF ShowProgress, Hear
<1>2. /\ DOMAIN box[d] = BoxFields /\ DOMAIN chat[d] = {"holder", "posts", "lost"}
      /\ Collecting(box[d], chat[d]) /\ box[d].reply = None /\ box[d].parts \in Words
  BY <1>1, Running
<1>3. /\ Alone(d) /\ DOMAIN box'[d] = BoxFields /\ box'[d].op = "running" /\ box'[d].reply = None
      /\ box'[d].ch = box[d].ch /\ box'[d].surfaces = box[d].surfaces
      /\ box'[d].parts = box[d].parts \/ box'[d].parts = Append(box[d].parts, "p")
  BY <1>1, <1>2 DEF RepliesInv, Alone, Splice, Unspliced, BoxFields
<1>4. Collecting(box'[d], chat'[d])
  <2>1. "p" \in Characters /\ "p" \notin Shapes
    BY DEF Characters, Shapes
  <2>2. Count(box[d].parts, Shapes) \in Nat /\ box[d].surfaces \in Nat
    BY <1>2, CollectTypes
  <2>3. Append(box[d].parts, "p") \in Words /\ Count(Append(box[d].parts, "p"), Shapes) = Count(box[d].parts, Shapes) + 0
    BY <1>2, <2>1, <2>2, OneMore
  <2>4. box'[d].parts \in Words /\ Count(box'[d].parts, Shapes) = Count(box[d].parts, Shapes) + 0
    <3>1. Count(box[d].parts, Shapes) + 0 = Count(box[d].parts, Shapes)
      BY <2>2
    <3> QED
      BY <1>2, <1>3, <2>3, <3>1
  <2>5. box'[d].surfaces = box[d].surfaces + 0
    BY <1>3, <2>2
  <2> QED
    BY <1>1, <1>2, <1>3, <2>4, <2>5, CollectMore
<1> QED
  BY <1>1, <1>2, <1>3, <1>4, StillCollecting

LEMMA RenderSurfaceKeeps ==
    ASSUME RepliesInv, NEW d \in Deliveries, RenderSurface(d)
    PROVE  RepliesInv'
<1>1. /\ box[d].op = "running"
      /\ identities' = identities /\ allowlist' = allowlist /\ defaults' = defaults
  BY DEF RenderSurface, Hear
<1>2. /\ DOMAIN box[d] = BoxFields /\ DOMAIN chat[d] = {"holder", "posts", "lost"}
      /\ Collecting(box[d], chat[d]) /\ box[d].reply = None /\ box[d].parts \in Words
  BY <1>1, Running
<1>3. /\ Count(box[d].parts, Shapes) \in Nat /\ chat[d].posts \in Chunks
      /\ FlattenSeq(chat[d].posts) \in Words /\ Count(FlattenSeq(chat[d].posts), Shapes) \in Nat
      /\ Letters(FlattenSeq(chat[d].posts)) = <<>>
      /\ box[d].surfaces = Count(box[d].parts, Shapes) + Count(FlattenSeq(chat[d].posts), Shapes)
  BY <1>2, CountType, FlatType DEF Collecting
<1>4. CASE /\ chat' = chat
           /\ box' = [box EXCEPT ![d].parts = Append(@, "s"), ![d].seen = @ + 1, ![d].surfaces = @ + 1]
  <2>1. /\ Alone(d) /\ DOMAIN box'[d] = BoxFields /\ box'[d].op = "running" /\ box'[d].reply = None
        /\ box'[d].ch = box[d].ch /\ box'[d].surfaces = box[d].surfaces + 1
        /\ box'[d].parts = Append(box[d].parts, "s")
    BY <1>1, <1>2, <1>4 DEF RepliesInv, Alone, BoxFields
  <2>2. box'[d].parts \in Words /\ Count(box'[d].parts, Shapes) = Count(box[d].parts, Shapes) + 1
    <3>1. "s" \in Characters /\ "s" \in Shapes
      BY DEF Characters, Shapes
    <3> QED
      BY <1>2, <2>1, <3>1, OneMore
  <2>3. Collecting(box'[d], chat'[d])
    BY <1>2, <1>4, <2>1, <2>2, CollectMore
  <2> QED
    BY <1>1, <1>2, <1>4, <2>1, <2>3, StillCollecting
<1>5. CASE /\ box[d].ch = "discord" /\ chat' = [chat EXCEPT ![d].posts = Append(@, <<"S">>)]
           /\ box' = [box EXCEPT ![d].seen = @ + 1, ![d].surfaces = @ + 1]
  <2> DEFINE posts == chat[d].posts
             more == Append(posts, <<"S">>)
  <2>1. /\ Alone(d) /\ DOMAIN box'[d] = BoxFields /\ box'[d].op = "running" /\ box'[d].reply = None
        /\ box'[d].ch = box[d].ch /\ box'[d].surfaces = box[d].surfaces + 1
        /\ box'[d].parts = box[d].parts
    BY <1>1, <1>2, <1>5 DEF RepliesInv, Alone, BoxFields
  <2>2. /\ DOMAIN chat'[d] = {"holder", "posts", "lost"} /\ chat'[d].lost = chat[d].lost
        /\ chat'[d].holder = chat[d].holder /\ chat'[d].posts = more
    BY <1>2, <1>5 DEF RepliesInv
  <2>3. <<"S">> \in Words /\ Len(<<"S">>) = 1 /\ Letters(<<"S">>) = <<>> /\ Count(<<"S">>, Shapes) = 1
    <3>1. "S" \in Characters /\ "S" \in Shapes
      BY DEF Characters, Shapes
    <3>2. Letters(<<"S">>) = <<>>
      BY <3>1, LettersOfOne
    <3>3. Count(<<"S">>, Shapes) = 1
      BY <3>1, CountOfOne
    <3> QED
      BY <3>1, <3>2, <3>3, FixedTexts
  <2>4. more = posts \o <<<<"S">>>> /\ <<<<"S">>>> \in Chunks /\ FlattenSeq(<<<<"S">>>>) = <<"S">>
    BY <1>3, <2>3, AppendIsConcat, FlatOfOne DEF Chunks
  <2>5. more \in Chunks /\ FlattenSeq(more) = FlattenSeq(posts) \o <<"S">>
    BY <1>3, <2>4, FlatConcat
  <2>6. /\ Letters(FlattenSeq(more)) = <<>>
        /\ Count(FlattenSeq(more), Shapes) = Count(FlattenSeq(posts), Shapes) + 1
    <3> DEFINE all == FlattenSeq(posts)
    <3>1. all \in Words /\ Letters(all) = <<>>
      BY <1>3
    <3> HIDE DEF all
    <3>2. Letters(all \o <<"S">>) = <<>> \o <<>> /\ Count(all \o <<"S">>, Shapes) = Count(all, Shapes) + 1
      BY <2>3, <3>1, LettersConcat, CountConcat
    <3>3. <<>> \o <<>> = <<>>
      BY FixedTexts, ConcatEmptySeq DEF Words
    <3> QED
      BY <2>5, <3>2, <3>3 DEF all
  <2>7. \A k \in 1..Len(more) : Len(more[k]) <= MaxLength
    <3>1. \A k \in 1..Len(posts) : Len(posts[k]) <= MaxLength
      BY <1>2 DEF Collecting
    <3>2. /\ Len(more) = Len(posts) + 1 /\ Len(posts) \in Nat
          /\ \A k \in 1..Len(posts) : more[k] = posts[k]
          /\ more[Len(posts) + 1] = <<"S">>
      BY <1>3, <2>3, AppendProperties, LenProperties DEF Chunks
    <3> HIDE DEF posts, more
    <3>3. \A k \in 1..Len(more) : k \in 1..Len(posts) \/ k = Len(posts) + 1
      BY <3>2
    <3>4. Len(more[Len(posts) + 1]) = 1 /\ 1 <= MaxLength
      BY <2>3, <3>2, ChannelAssumption
    <3> QED
      BY <3>1, <3>2, <3>3, <3>4
  <2> HIDE DEF posts, more
  <2>8. chat[d].holder # None
    BY <1>2, <1>5 DEF Collecting
  <2>9. Collecting(box'[d], chat'[d])
    <3> DEFINE b == box'[d]
               c == chat'[d]
    <3>1. /\ b.reply = None /\ b.parts = box[d].parts /\ b.parts \in Words /\ b.ch = "discord" /\ c.posts = more
          /\ c.holder # None
      BY <1>2, <1>5, <2>1, <2>2, <2>8
    <3>2. b.surfaces = Count(b.parts, Shapes) + Count(FlattenSeq(c.posts), Shapes)
      BY <1>3, <2>1, <2>2, <2>6 DEF posts
    <3> HIDE DEF b, c
    <3>3. Collecting(b, c)
      BY <2>5, <2>6, <2>7, <3>1, <3>2 DEF Collecting
    <3> QED
      BY <3>3 DEF b, c
  <2> QED
    BY <1>1, <2>1, <2>2, <2>9, StillCollecting
<1> QED
  BY <1>4, <1>5 DEF RenderSurface, Streams
-----------------------------------------------------------------------------
\* Where nothing more is claimed of what the author sees.
LEMMA NothingClaimed ==
    ASSUME RepliesInv, NEW d \in Deliveries, Alone(d), DOMAIN box'[d] = BoxFields,
           DOMAIN chat'[d] = {"holder", "posts", "lost"}, chat'[d].lost \in Nat,
           \/ box'[d].op = "ok" /\ (box'[d].reply = None \/ chat'[d].lost # 0)
           \/ box'[d].op = "failed" /\ (box'[d].ch = "discord" \/ (Silent(chat'[d]) /\ box'[d].reply = None))
           \/ box'[d].op = "sending" /\ Outgoing(box'[d], chat'[d]),
           identities' = identities, allowlist' = allowlist, defaults' = defaults
    PROVE  RepliesInv'
<1>1. DeliveryInv(box'[d], chat'[d])
  BY DEF DeliveryInv, BoxFields
<1> QED
  BY <1>1, DeliveryMoves

LEMMA RunEndsBadly ==
    ASSUME RepliesInv, NEW d \in Deliveries, RunError(d) \/ RunRaises(d)
    PROVE  RepliesInv'
<1>1. /\ box[d].op = "running"
      /\ identities' = identities /\ allowlist' = allowlist /\ defaults' = defaults
  BY DEF RunError, RunRaises
<1>2. /\ DOMAIN box[d] = BoxFields /\ DOMAIN chat[d] = {"holder", "posts", "lost"}
      /\ Collecting(box[d], chat[d]) /\ box[d].reply = None /\ chat[d].lost \in Nat
  BY <1>1, Running
<1>3. CASE RunError(d) /\ box[d].ch = "discord"
  <2>1. SafeEdit(d, ErrorText) /\ box' = [box EXCEPT ![d].op = "ok"]
    BY <1>3 DEF RunError, Streams, Goto
  <2>2. /\ Alone(d) /\ DOMAIN box'[d] = BoxFields /\ box'[d].op = "ok" /\ box'[d].reply = None
        /\ DOMAIN chat'[d] = {"holder", "posts", "lost"} /\ chat'[d].lost \in Nat
    BY <1>2, <2>1 DEF SafeEdit, RepliesInv, Alone, BoxFields
  <2> QED
    BY <1>1, <2>2, NothingClaimed
<1>4. CASE RunError(d) /\ box[d].ch # "discord"
  <2>1. /\ box' = [box EXCEPT ![d].op = "sending", ![d].parts = ErrorText, ![d].surfaces = 0]
        /\ chat' = chat
    BY <1>4 DEF RunError, Streams
  <2>2. /\ Alone(d) /\ DOMAIN box'[d] = BoxFields /\ box'[d].op = "sending" /\ box'[d].reply = None
        /\ box'[d].parts = ErrorText /\ chat'[d] = chat[d] /\ box'[d].ch # "discord"
    BY <1>2, <1>4, <2>1 DEF RepliesInv, Alone, BoxFields
  <2>3. Outgoing(box'[d], chat'[d])
    BY <2>2, FixedTexts DEF Outgoing
  <2> QED
    BY <1>1, <1>2, <2>2, <2>3, NothingClaimed
<1>5. CASE RunRaises(d)
  <2>1. Goto(d, "failed") /\ chat' = chat
    BY <1>5 DEF RunRaises
  <2>2. Alone(d) /\ chat'[d] = chat[d] /\ box'[d] = [box[d] EXCEPT !.op = "failed"]
    BY <2>1, GotoAlone
  <2>3. DOMAIN box'[d] = BoxFields /\ box'[d].op = "failed" /\ box'[d].ch = box[d].ch /\ box'[d].reply = None
    BY <1>2, <2>2 DEF BoxFields
  <2>4. box[d].ch # "discord" => Silent(chat[d])
    BY <1>2 DEF Collecting
  <2> QED
    BY <1>1, <1>2, <2>2, <2>3, <2>4, NothingClaimed
<1> QED
  BY <1>3, <1>4, <1>5

LEMMA LengthsOfConcat ==
    ASSUME NEW s \in Chunks, NEW t \in Chunks,
           \A k \in 1..Len(s) : Len(s[k]) <= MaxLength, \A k \in 1..Len(t) : Len(t[k]) <= MaxLength
    PROVE  \A k \in 1..Len(s \o t) : Len((s \o t)[k]) <= MaxLength
<1>1. /\ Len(s) \in Nat /\ Len(t) \in Nat /\ Len(s \o t) = Len(s) + Len(t)
      /\ \A k \in 1..Len(s) + Len(t) : (s \o t)[k] = IF k <= Len(s) THEN s[k] ELSE t[k - Len(s)]
  BY LenProperties, ConcatProperties DEF Chunks
<1>2. \A k \in 1..Len(s) + Len(t) : IF k <= Len(s) THEN k \in 1..Len(s) ELSE k - Len(s) \in 1..Len(t)
  BY <1>1
<1> QED
  BY <1>1, <1>2

\* Discord: the first chunk in the placeholder and the others behind what was
\* posted meanwhile are the whole reply.
LEMMA FirstChunkShown ==
    ASSUME NEW b, NEW c, Collecting(b, c), b.ch = "discord", NEW b2, NEW c2,
           b2.ch = "discord", b2.reply = FinalOf(b), b2.surfaces = b.surfaces,
           b2.parts = Tail(ChunkMessage(FinalOf(b))), c2.holder = ChunkMessage(FinalOf(b))[1],
           c2.posts = c.posts
    PROVE  Outgoing(b2, c2)
<1> DEFINE final == FinalOf(b)
           chunks == ChunkMessage(final)
           first == chunks[1]
           others == Tail(chunks)
           posts == c.posts
<1>1. /\ b.parts \in Words /\ posts \in Chunks /\ Letters(FlattenSeq(posts)) = <<>>
      /\ b.surfaces = Count(b.parts, Shapes) + Count(FlattenSeq(posts), Shapes)
      /\ \A k \in 1..Len(posts) : Len(posts[k]) <= MaxLength
  BY DEF Collecting
<1>2. final \in Words /\ Count(final, Shapes) = Count(b.parts, Shapes) /\ chunks # <<>>
  BY <1>1, FinalIsWhole
<1>3. /\ chunks \in Chunks /\ \A k \in 1..Len(chunks) : Len(chunks[k]) <= MaxLength
      /\ Alike(FlattenSeq(chunks), final)
  BY <1>2, ChunksAreWhole
<1> HIDE DEF final, chunks, posts
<1>4. /\ first \in Words /\ others \in Chunks /\ Len(others) = Len(chunks) - 1 /\ Len(chunks) \in Nat \ {0}
      /\ \A k \in 1..Len(others) : others[k] = chunks[k + 1]
      /\ chunks = <<first>> \o others
  <2>1. chunks \in Seq(Words) /\ Len(chunks) \in Nat \ {0}
    BY <1>2, <1>3, EmptySeq DEF Chunks
  <2>2. /\ others \in Seq(Words) /\ Len(others) = Len(chunks) - 1
        /\ \A k \in 1..Len(others) : others[k] = chunks[k + 1]
    BY <1>2, <2>1, HeadTailProperties
  <2>3. first \in Words
    BY <2>1, ElementOfSeq
  <2>4. SubSeq(chunks, 1, Len(chunks)) = <<chunks[1]>> \o SubSeq(chunks, 2, Len(chunks))
    <3>1. 1 \in 1..Len(chunks) /\ Len(chunks) \in 1..Len(chunks) /\ 1 + 1 = 2
      BY <2>1
    <3> QED
      BY <2>1, <3>1, SubSeqRecursiveFirst
  <2>5. SubSeq(chunks, 1, Len(chunks)) = chunks /\ SubSeq(chunks, 2, Len(chunks)) = others
    BY <1>2, <2>1, SubSeqFull, TailIsSubSeq
  <2> QED
    BY <2>1, <2>2, <2>3, <2>4, <2>5 DEF Chunks
<1> HIDE DEF first, others
<1> DEFINE rest == posts \o others
           msgs == <<first>> \o rest
<1>5. /\ <<first>> \in Chunks /\ FlattenSeq(<<first>>) = first
      /\ FlattenSeq(others) \in Words /\ FlattenSeq(posts) \in Words
  BY <1>1, <1>4, FlatOfOne, FlatType
<1>6. rest \in Chunks /\ FlattenSeq(rest) = FlattenSeq(posts) \o FlattenSeq(others)
  BY <1>1, <1>4, FlatConcat
<1>7. msgs \in Chunks /\ FlattenSeq(msgs) = first \o (FlattenSeq(posts) \o FlattenSeq(others))
  BY <1>5, <1>6, FlatConcat
<1>8. FlattenSeq(chunks) = first \o FlattenSeq(others)
  BY <1>4, <1>5, FlatConcat
<1> DEFINE p == FlattenSeq(posts)
           o == FlattenSeq(others)
<1>9. /\ Letters(first \o (p \o o)) = Letters(first) \o (Letters(p) \o Letters(o))
      /\ Letters(first \o o) = Letters(first) \o Letters(o)
      /\ Count(first \o (p \o o), Shapes) = Count(first, Shapes) + (Count(p, Shapes) + Count(o, Shapes))
      /\ Count(first \o o, Shapes) = Count(first, Shapes) + Count(o, Shapes)
      /\ Letters(o) \in Words
  <2>1. p \in Words /\ o \in Words
    BY <1>5
  <2> HIDE DEF p, o
  <2>2. p \o o \in Words
    BY <2>1, LettersConcat
  <2>3. /\ Letters(first \o (p \o o)) = Letters(first) \o Letters(p \o o)
        /\ Letters(p \o o) = Letters(p) \o Letters(o) /\ Letters(first \o o) = Letters(first) \o Letters(o)
    BY <1>4, <2>1, <2>2, LettersConcat
  <2>4. /\ Count(first \o (p \o o), Shapes) = Count(first, Shapes) + Count(p \o o, Shapes)
        /\ Count(p \o o, Shapes) = Count(p, Shapes) + Count(o, Shapes)
        /\ Count(first \o o, Shapes) = Count(first, Shapes) + Count(o, Shapes)
    BY <1>4, <2>1, <2>2, CountConcat
  <2>5. Letters(o) \in Words
    BY <2>1, LettersType
  <2> QED
    BY <2>3, <2>4, <2>5
<1>10. Letters(FlattenSeq(msgs)) = Letters(final)
  <2>1. Letters(p) = <<>> /\ <<>> \o Letters(o) = Letters(o)
    BY <1>1, <1>9, ConcatEmptySeq DEF Words
  <2>2. Letters(FlattenSeq(chunks)) = Letters(final)
    BY <1>3 DEF Alike
  <2> QED
    BY <1>7, <1>8, <1>9, <2>1, <2>2
<1>11. Count(FlattenSeq(msgs), Shapes) = b.surfaces
  <2>1. Count(first \o o, Shapes) = Count(final, Shapes)
    BY <1>3, <1>8 DEF Alike, Shapes
  <2>2. Count(first, Shapes) \in Nat /\ Count(o, Shapes) \in Nat /\ Count(p, Shapes) \in Nat
    BY <1>4, <1>5, CountType
  <2>3. Count(FlattenSeq(msgs), Shapes) = Count(first, Shapes) + (Count(p, Shapes) + Count(o, Shapes))
    BY <1>7, <1>9
  <2>4. Count(b.parts, Shapes) = Count(first, Shapes) + Count(o, Shapes)
    BY <1>2, <1>9, <2>1
  <2>5. b.surfaces = Count(b.parts, Shapes) + Count(p, Shapes)
    BY <1>1
  <2> HIDE DEF msgs, p, o
  <2> QED
    BY <2>2, <2>3, <2>4, <2>5
<1>12. \A k \in DOMAIN msgs : Len(msgs[k]) <= MaxLength
  <2>1. \A k \in 1..Len(others) : Len(others[k]) <= MaxLength
    <3>1. \A k \in 1..Len(others) : k + 1 \in 1..Len(chunks)
      BY <1>4
    <3> QED
      BY <1>3, <1>4, <3>1
  <2>2. Len(first) <= MaxLength
    <3>1. 1 \in 1..Len(chunks)
      BY <1>4
    <3> QED
      BY <1>3, <3>1 DEF first
  <2>3. \A k \in 1..Len(rest) : Len(rest[k]) <= MaxLength
    BY <1>1, <1>4, <2>1, LengthsOfConcat
  <2>4. \A k \in 1..Len(<<first>>) : Len(<<first>>[k]) <= MaxLength
    BY <2>2
  <2>5. \A k \in 1..Len(msgs) : Len(msgs[k]) <= MaxLength
    BY <1>5, <1>6, <2>3, <2>4, LengthsOfConcat
  <2>6. DOMAIN msgs = 1..Len(msgs)
    BY <1>7, LenProperties DEF Chunks
  <2> QED
    BY <2>5, <2>6
<1>13. /\ b2.parts = others /\ c2.posts = posts /\ c2.holder = first /\ b2.reply = final
       /\ b2.surfaces = b.surfaces /\ b2.ch = "discord"
  BY DEF final, chunks, first, others, posts
<1> HIDE DEF msgs
<1>14. Complete(msgs, b2)
  BY <1>10, <1>11, <1>12, <1>13 DEF Complete
<1> QED
  BY <1>1, <1>4, <1>13, <1>14 DEF Outgoing, msgs
LEMMA RunFinishedKeeps ==
    ASSUME RepliesInv, NEW d \in Deliveries, RunFinished(d)
    PROVE  RepliesInv'
<1> DEFINE final == FinalOf(box[d])
<1>1. /\ box[d].op = "running" /\ FinalText(d) = final
      /\ identities' = identities /\ allowlist' = allowlist /\ defaults' = defaults
  BY DEF RunFinished, FinalText, FinalOf, Streams
<1>2. /\ DOMAIN box[d] = BoxFields /\ DOMAIN chat[d] = {"holder", "posts", "lost"}
      /\ Collecting(box[d], chat[d]) /\ box[d].reply = None /\ box[d].parts \in Words
      /\ chat[d].lost \in Nat
  BY <1>1, Running
<1> HIDE DEF final
<1>3. CASE box[d].ch = "discord"
  <2> DEFINE chunks == ChunkMessage(final)
  <2>1. /\ SafeEdit(d, chunks[1])
        /\ box' = [box EXCEPT ![d].op = "sending", ![d].parts = Tail(chunks), ![d].reply = final]
    BY <1>1, <1>3 DEF RunFinished, Streams
  <2> HIDE DEF chunks
  <2>2. /\ Alone(d) /\ DOMAIN box'[d] = BoxFields /\ box'[d].op = "sending" /\ box'[d].reply = final
        /\ box'[d].parts = Tail(chunks) /\ box'[d].ch = "discord" /\ box'[d].surfaces = box[d].surfaces
        /\ DOMAIN chat'[d] = {"holder", "posts", "lost"} /\ chat'[d].lost \in Nat
        /\ chat'[d].posts = chat[d].posts
        /\ chat'[d].lost # 0 \/ chat'[d].holder = chunks[1]
    BY <1>2, <1>3, <2>1 DEF SafeEdit, RepliesInv, Alone, BoxFields
  <2>3. Outgoing(box'[d], chat'[d])
    <3>1. CASE chat'[d].lost # 0
      BY <2>2, <3>1 DEF Outgoing
    <3>2. CASE chat'[d].holder = chunks[1]
      BY <1>2, <1>3, <2>2, <3>2, FirstChunkShown DEF final, chunks
    <3> QED
      BY <2>2, <3>1, <3>2
  <2> QED
    BY <1>1, <2>2, <2>3, NothingClaimed
<1>4. CASE box[d].ch # "discord"
  <2>1. /\ chat' = chat
        /\ box' = [box EXCEPT ![d].op = "sending", ![d].parts = final, ![d].reply = final]
    BY <1>1, <1>4 DEF RunFinished, Streams
  <2>2. /\ Alone(d) /\ DOMAIN box'[d] = BoxFields /\ box'[d].op = "sending" /\ box'[d].reply = final
        /\ box'[d].parts = final /\ box'[d].ch # "discord" /\ box'[d].surfaces = box[d].surfaces
        /\ chat'[d] = chat[d]
    BY <1>2, <1>4, <2>1 DEF RepliesInv, Alone, BoxFields
  <2>3. final \in Words /\ Count(final, Shapes) = Count(box[d].parts, Shapes)
    BY <1>2, FinalIsWhole DEF final
  <2>4. Silent(chat[d]) /\ box[d].surfaces = Count(box[d].parts, Shapes)
    <3>1. Silent(chat[d]) /\ chat[d].posts = <<>>
      BY <1>2, <1>4 DEF Collecting, Silent
    <3>2. Count(FlattenSeq(<<>>), Shapes) = 0
      BY FlatOfOne, CountOfOne
    <3>3. box[d].surfaces = Count(box[d].parts, Shapes) + 0 /\ Count(box[d].parts, Shapes) \in Nat
      BY <1>2, <3>1, <3>2, CollectTypes DEF Collecting
    <3> QED
      BY <3>1, <3>3
  <2>5. Outgoing(box'[d], chat'[d])
    BY <2>2, <2>3, <2>4 DEF Outgoing
  <2> QED
    BY <1>1, <1>2, <2>2, <2>5, NothingClaimed
<1> QED
  BY <1>3, <1>4
-----------------------------------------------------------------------------
LEMMA Sending ==
    ASSUME RepliesInv, NEW d \in Deliveries, box[d].op = "sending"
    PROVE  /\ DOMAIN box[d] = BoxFields /\ DOMAIN chat[d] = {"holder", "posts", "lost"}
           /\ chat[d].lost \in Nat /\ Outgoing(box[d], chat[d])
BY DEF RepliesInv, DeliveryInv

\* The last of the reply is out.
LEMMA AllSent ==
    ASSUME RepliesInv, NEW d \in Deliveries, Alone(d), DOMAIN box'[d] = BoxFields, box'[d].op = "ok",
           DOMAIN chat'[d] = {"holder", "posts", "lost"}, chat'[d].lost \in Nat,
           box'[d].reply # None /\ chat'[d].lost = 0 => Complete(Seen(chat'[d]), box'[d]),
           identities' = identities, allowlist' = allowlist, defaults' = defaults
    PROVE  RepliesInv'
<1>1. DeliveryInv(box'[d], chat'[d])
  BY SMTT(60) DEF DeliveryInv, BoxFields
<1> QED
  BY <1>1, DeliveryMoves, SMTT(60)

LEMMA SendDiscordKeeps ==
    ASSUME RepliesInv, NEW d \in Deliveries, SendDiscord(d)
    PROVE  RepliesInv'
<1> DEFINE chunks == IF box[d].reply # None THEN box[d].parts ELSE ChunkMessage(box[d].parts)
<1>1. /\ box[d].op = "sending" /\ box[d].ch = "discord"
      /\ identities' = identities /\ allowlist' = allowlist /\ defaults' = defaults
  BY DEF SendDiscord
<1> DEFINE Post(n, lost, op) ==
               /\ chat' = [chat EXCEPT ![d].posts = @ \o SubSeq(chunks, 1, n), ![d].lost = @ + lost]
               /\ Goto(d, op)
<1>0. \E n : \E lost \in {0, 1}, op \in {"ok", "failed"} :
          Post(n, lost, op) /\ (lost = 0 => n = Len(chunks) /\ op = "ok")
  <2>1. \/ Post(Len(chunks), 0, "ok") \/ Post(0, 1, "ok")
        \/ \E n \in 0..(Len(chunks) - 1) : Post(n, 1, "failed")
    BY Zenon DEF SendDiscord
  <2> HIDE DEF Post, chunks
  <2>2. CASE Post(Len(chunks), 0, "ok")
    <3>1. 0 \in {0, 1} /\ "ok" \in {"ok", "failed"}
      OBVIOUS
    <3> QED
      BY <2>2, <3>1, Zenon
  <2>3. ASSUME NEW n, NEW op \in {"ok", "failed"}, Post(n, 1, op)
        PROVE  \E m : \E lost \in {0, 1}, o \in {"ok", "failed"} :
                   Post(m, lost, o) /\ (lost = 0 => m = Len(chunks) /\ o = "ok")
    <3>1. 1 \in {0, 1} /\ 1 # 0
      OBVIOUS
    <3> QED
      BY <2>3, <3>1, Zenon
  <2>4. "ok" \in {"ok", "failed"} /\ "failed" \in {"ok", "failed"}
    OBVIOUS
  <2> QED
    BY <2>1, <2>2, <2>3, <2>4, Zenon
<1>2. PICK n : \E lost \in {0, 1}, op \in {"ok", "failed"} :
          Post(n, lost, op) /\ (lost = 0 => n = Len(chunks) /\ op = "ok")
  BY <1>0
<1>8. PICK lost \in {0, 1}, op \in {"ok", "failed"} :
          Post(n, lost, op) /\ (lost = 0 => n = Len(chunks) /\ op = "ok")
  BY <1>2
<1>3. /\ DOMAIN box[d] = BoxFields /\ DOMAIN chat[d] = {"holder", "posts", "lost"}
      /\ chat[d].lost \in Nat /\ Outgoing(box[d], chat[d])
  BY <1>1, Sending
<1> HIDE DEF chunks
<1>4. /\ Alone(d) /\ DOMAIN box'[d] = BoxFields /\ box'[d].op = op /\ box'[d].reply = box[d].reply
      /\ box'[d].ch = "discord" /\ box'[d].surfaces = box[d].surfaces
      /\ DOMAIN chat'[d] = {"holder", "posts", "lost"} /\ chat'[d].lost = chat[d].lost + lost
      /\ chat'[d].holder = chat[d].holder /\ chat'[d].posts = chat[d].posts \o SubSeq(chunks, 1, n)
  BY <1>1, <1>8, <1>3 DEF Goto, RepliesInv, Alone, BoxFields
<1>5. chat'[d].lost \in Nat /\ (chat'[d].lost = 0 => chat[d].lost = 0 /\ lost = 0)
  BY <1>3, <1>4
<1>6. CASE op = "failed"
  BY <1>1, <1>4, <1>5, <1>6, NothingClaimed
<1>7. CASE op = "ok"
  <2>1. ASSUME box'[d].reply # None, chat'[d].lost = 0 PROVE Complete(Seen(chat'[d]), box'[d])
    <3>1. chat[d].lost = 0 /\ n = Len(chunks) /\ chunks = box[d].parts /\ box[d].reply # None
      BY <1>8, <1>4, <1>5, <2>1 DEF chunks
    <3>2. /\ box[d].parts \in Chunks /\ chat[d].posts \in Chunks /\ chat[d].holder \in Words
          /\ Complete(<<chat[d].holder>> \o (chat[d].posts \o box[d].parts), box[d])
      BY <1>1, <1>3, <3>1 DEF Outgoing
    <3>3. chat'[d].posts = chat[d].posts \o box[d].parts
      BY <1>4, <3>1, <3>2, SubSeqFull DEF Chunks
    <3>4. Seen(chat'[d]) = <<chat[d].holder>> \o (chat[d].posts \o box[d].parts)
      BY <1>4, <3>2, <3>3, FixedTexts DEF Seen
    <3> QED
      BY <1>1, <1>4, <3>2, <3>4 DEF Complete
  <2> QED
    BY <1>1, <1>4, <1>5, <1>7, <2>1, AllSent
<1> QED
  BY <1>6, <1>7, SMTT(60)

\* One message that is the reply shows the reply.
LEMMA OneMessage ==
    ASSUME NEW b, b.reply \in Words, b.surfaces = Count(b.reply, Shapes), NEW msgs \in Chunks,
           Alike(FlattenSeq(msgs), b.reply), b.ch # "email" => \A k \in 1..Len(msgs) : Len(msgs[k]) <= MaxLength
    PROVE  Complete(msgs, b)
<1>1. DOMAIN msgs = 1..Len(msgs)
  BY LenProperties DEF Chunks
<1> QED
  BY <1>1 DEF Complete, Alike, Shapes

LEMMA SendEmailKeeps ==
    ASSUME RepliesInv, NEW d \in Deliveries, SendEmail(d)
    PROVE  RepliesInv'
<1>1. /\ box[d].op = "sending" /\ box[d].ch = "email" /\ Goto(d, "ok")
      /\ identities' = identities /\ allowlist' = allowlist /\ defaults' = defaults
      /\ \/ chat' = [chat EXCEPT ![d].posts = Append(@, box[d].parts)]
         \/ chat' = [chat EXCEPT ![d].lost = @ + 1]
  BY DEF SendEmail
<1>2. /\ DOMAIN box[d] = BoxFields /\ DOMAIN chat[d] = {"holder", "posts", "lost"}
      /\ chat[d].lost \in Nat /\ Outgoing(box[d], chat[d])
  BY <1>1, Sending
<1>3. /\ Alone(d) /\ DOMAIN box'[d] = BoxFields /\ box'[d].op = "ok" /\ box'[d].reply = box[d].reply
      /\ box'[d].ch = "email" /\ box'[d].surfaces = box[d].surfaces
      /\ DOMAIN chat'[d] = {"holder", "posts", "lost"} /\ chat'[d].lost \in Nat
      /\ chat'[d].holder = chat[d].holder
      /\ chat'[d].lost # 0 \/ chat'[d].posts = Append(chat[d].posts, box[d].parts)
  BY <1>1, <1>2 DEF Goto, RepliesInv, Alone, BoxFields
<1>4. ASSUME box'[d].reply # None, chat'[d].lost = 0 PROVE Complete(Seen(chat'[d]), box'[d])
  <2> DEFINE reply == box[d].reply
  <2>1. /\ reply \in Words /\ chat[d].posts = <<>> /\ chat[d].holder = None
        /\ box[d].parts = reply /\ box[d].surfaces = Count(reply, Shapes)
    BY <1>1, <1>2, <1>3, <1>4 DEF Outgoing, Silent
  <2>2. Seen(chat'[d]) = <<reply>>
    <3>1. <<>> \o <<reply>> = <<reply>>
      OBVIOUS
    <3>2. Append(<<>>, reply) = <<reply>>
      OBVIOUS
    <3> QED
      BY <1>3, <1>4, <2>1, <3>1, <3>2 DEF Seen
  <2>3. <<reply>> \in Chunks /\ FlattenSeq(<<reply>>) = reply
    BY <2>1, FlatOfOne
  <2>4. Alike(FlattenSeq(<<reply>>), reply)
    BY <2>3 DEF Alike
  <2> QED
    BY <1>3, <2>1, <2>2, <2>3, <2>4, OneMessage
<1> QED
  BY <1>1, <1>3, <1>4, AllSent

\* Where nothing was lost, the chunks that got through are all of them.
LEMMA AllOfThem ==
    ASSUME NEW chunks \in Chunks, NEW got \in SUBSET DOMAIN chunks
    PROVE  /\ Len(chunks) - Cardinality(got) \in Nat
           /\ Len(chunks) - Cardinality(got) = 0 =>
                  [k \in 1..Cardinality(got) |-> chunks[Nth(got, k)]] = chunks
<1> DEFINE n == Len(chunks)
<1>1. n \in Nat /\ DOMAIN chunks = 1..n /\ chunks = [k \in 1..n |-> chunks[k]]
  BY LenProperties DEF Chunks
<1> HIDE DEF n
<1>2. IsFiniteSet(1..n) /\ Cardinality(1..n) = n
  BY <1>1, FS_Interval
<1>3. IsFiniteSet(got) /\ Cardinality(got) <= n /\ Cardinality(got) \in Nat
  BY <1>1, <1>2, FS_Subset, FS_CardinalityType
<1>4. ASSUME n - Cardinality(got) = 0 PROVE [k \in 1..Cardinality(got) |-> chunks[Nth(got, k)]] = chunks
  <2>1. got = 1..n
    <3>1. Cardinality(1..n \ got) = Cardinality(1..n) - Cardinality(1..n \cap got) /\ IsFiniteSet(1..n \ got)
      BY <1>2, FS_Difference
    <3>2. 1..n \cap got = got
      BY <1>1
    <3>3. Cardinality(1..n \ got) = 0
      BY <1>1, <1>2, <1>3, <1>4, <3>1, <3>2
    <3>4. 1..n \ got = {}
      BY <3>1, <3>3, FS_EmptySet
    <3> QED
      BY <1>1, <3>4
  <2>2. ASSUME NEW k \in 1..n PROVE Nth(1..n, k) = k
    <3>1. ASSUME NEW m \in 1..n PROVE Cardinality({j \in 1..n : j <= m}) = m
      <4>1. {j \in 1..n : j <= m} = 1..m
        BY <1>1
      <4>2. Cardinality(1..m) = m
        BY <1>1, FS_Interval
      <4> QED
        BY <4>1, <4>2
    <3> QED
      BY <3>1 DEF Nth
  <2>3. Cardinality(got) = n
    BY <1>1, <1>3, <1>4
  <2>4. [k \in 1..n |-> chunks[Nth(1..n, k)]] = [k \in 1..n |-> chunks[k]]
    BY <2>2
  <2> QED
    BY <1>1, <2>1, <2>3, <2>4
<1> QED
  BY <1>1, <1>3, <1>4 DEF n

LEMMA SendChunksKeeps ==
    ASSUME RepliesInv, NEW d \in Deliveries, SendChunks(d)
    PROVE  RepliesInv'
<1> DEFINE chunks == ChunkMessage(box[d].parts)
<1>1. /\ box[d].op = "sending" /\ box[d].ch \in {"telegram", "whatsapp"} /\ Goto(d, "ok")
      /\ identities' = identities /\ allowlist' = allowlist /\ defaults' = defaults
  BY DEF SendChunks
<1>2. PICK got \in SUBSET DOMAIN chunks :
          chat' = [chat EXCEPT ![d].posts = @ \o [k \in 1..Cardinality(got) |-> chunks[Nth(got, k)]],
                               ![d].lost = @ + Len(chunks) - Cardinality(got)]
  BY DEF SendChunks
<1>3. /\ DOMAIN box[d] = BoxFields /\ DOMAIN chat[d] = {"holder", "posts", "lost"}
      /\ chat[d].lost \in Nat /\ Outgoing(box[d], chat[d])
  BY <1>1, Sending
<1>4. box[d].parts \in Words
  BY <1>1, <1>3 DEF Outgoing
<1>5. /\ chunks \in Chunks /\ \A k \in 1..Len(chunks) : Len(chunks[k]) <= MaxLength
      /\ Alike(FlattenSeq(chunks), box[d].parts)
  BY <1>4, ChunksAreWhole
<1> HIDE DEF chunks
<1> DEFINE sent == [k \in 1..Cardinality(got) |-> chunks[Nth(got, k)]]
           missed == Len(chunks) - Cardinality(got)
<1>6. missed \in Nat /\ (missed = 0 => sent = chunks)
  BY <1>5, AllOfThem
<1>7. chat' = [chat EXCEPT ![d].posts = @ \o sent, ![d].lost = @ + Len(chunks) - Cardinality(got)]
  BY <1>2
<1>8. chat[d].lost + Len(chunks) - Cardinality(got) = chat[d].lost + missed
  <2>1. Len(chunks) \in Nat /\ Cardinality(got) \in Int
    <3>1. Len(chunks) \in Nat /\ DOMAIN chunks = 1..Len(chunks)
      BY <1>5, LenProperties DEF Chunks
    <3>2. IsFiniteSet(1..Len(chunks))
      BY <3>1, FS_Interval
    <3> QED
      BY <3>1, <3>2, FS_Subset, FS_CardinalityType
  <2> QED
    BY <1>3, <2>1
<1> HIDE DEF sent, missed
<1>9. /\ Alone(d) /\ DOMAIN box'[d] = BoxFields /\ box'[d].op = "ok" /\ box'[d].reply = box[d].reply
      /\ box'[d].ch = box[d].ch /\ box'[d].surfaces = box[d].surfaces
      /\ DOMAIN chat'[d] = {"holder", "posts", "lost"} /\ chat'[d].lost = chat[d].lost + missed
      /\ chat'[d].holder = chat[d].holder /\ chat'[d].posts = chat[d].posts \o sent
  BY <1>1, <1>3, <1>7, <1>8 DEF Goto, RepliesInv, Alone, BoxFields
<1>10. chat'[d].lost \in Nat /\ (chat'[d].lost = 0 => missed = 0)
  BY <1>3, <1>6, <1>9
<1>11. ASSUME box'[d].reply # None, chat'[d].lost = 0 PROVE Complete(Seen(chat'[d]), box'[d])
  <2>1. /\ chat[d].posts = <<>> /\ chat[d].holder = None
        /\ box[d].parts = box[d].reply /\ box[d].surfaces = Count(box[d].reply, Shapes)
    BY <1>1, <1>3, <1>9, <1>11 DEF Outgoing, Silent
  <2>2. sent = chunks
    BY <1>6, <1>10, <1>11
  <2>3. <<>> \o chunks = chunks /\ <<>> \o (<<>> \o chunks) = chunks
    BY <1>5, ConcatEmptySeq DEF Chunks
  <2>4. Seen(chat'[d]) = chunks
    BY <1>9, <2>1, <2>2, <2>3 DEF Seen
  <2> QED
    BY <1>4, <1>5, <1>9, <2>1, <2>4, OneMessage
<1> QED
  BY <1>1, <1>9, <1>10, <1>11, AllSent

LEMMA RedeliverKeeps ==
    ASSUME RepliesInv, NEW d \in Deliveries, Redeliver(d)
    PROVE  RepliesInv'
<1>1. /\ box[d].op = "failed" /\ box[d].ch # "discord" /\ chat' = chat
      /\ identities' = identities /\ allowlist' = allowlist /\ defaults' = defaults
      /\ box' = [box EXCEPT ![d] = [@ EXCEPT !.op = "parsed", !.parts = <<>>, !.seen = 0,
                                             !.surfaces = 0, !.tries = @ + 1]]
  BY DEF Redeliver
<1>2. DeliveryInv(box[d], chat[d]) /\ DOMAIN box[d] = BoxFields /\ Silent(chat[d]) /\ box[d].reply = None
  BY <1>1 DEF RepliesInv, DeliveryInv
<1>3. /\ Alone(d) /\ DOMAIN box'[d] = BoxFields /\ box'[d].op = "parsed" /\ box'[d].parts = <<>>
      /\ box'[d].surfaces = 0 /\ box'[d].reply = None /\ chat'[d] = chat[d]
  BY <1>1, <1>2 DEF RepliesInv, Alone, BoxFields
<1>4. DeliveryInv(box'[d], chat'[d])
  BY <1>2, <1>3 DEF DeliveryInv, BoxFields
<1> QED
  BY <1>1, <1>3, <1>4, DeliveryMoves

\* Every step of the channels keeps the invariant.
LEMMA RepliesStep == RepliesInv /\ [ChannelNext]_channelVars => RepliesInv'
<1> SUFFICES ASSUME RepliesInv, [ChannelNext]_channelVars PROVE RepliesInv'
  OBVIOUS
<1>1. ASSUME NEW d \in Deliveries,
             \/ HandleWebhook(d) \/ Resolve(d) \/ OnUnknownUser(d) \/ HandleCommand(d)
             \/ Upload(d) \/ DispatchInbound(d) \/ Begin(d) \/ TextContent(d)
             \/ ShowProgress(d) \/ RenderSurface(d) \/ RunError(d) \/ RunRaises(d)
             \/ RunFinished(d) \/ SendDiscord(d) \/ SendChunks(d) \/ SendEmail(d)
             \/ Redeliver(d)
      PROVE  RepliesInv'
  BY <1>1, HandleWebhookKeeps, EarlyStepsKeep, HandleCommandKeeps, BeginKeeps, TextContentKeeps,
     ShowProgressKeeps, RenderSurfaceKeeps, RunEndsBadly, RunFinishedKeeps, SendDiscordKeeps,
     SendChunksKeeps, SendEmailKeeps, RedeliverKeeps
<1>2. ASSUME NEW i \in Identity, ImportMapping(i) PROVE RepliesInv'
  <2>1. identities' = [identities EXCEPT ![i] = TRUE] /\ UNCHANGED <<allowlist, defaults, box, chat>>
    BY <1>2 DEF ImportMapping
  <2> QED
    BY <2>1 DEF RepliesInv
<1>3. ASSUME NEW n \in Instances, RegisterSlashCommands(n) PROVE RepliesInv'
  <2>1. UNCHANGED <<identities, allowlist, defaults, box, chat>>
    BY <1>3 DEF RegisterSlashCommands
  <2> QED
    BY <2>1 DEF RepliesInv
<1>4. CASE UNCHANGED channelVars
  BY <1>4 DEF channelVars, RepliesInv
<1> QED
  BY <1>1, <1>2, <1>3, <1>4 DEF ChannelNext

(* Every finished reply was shown whole, with its surfaces and within the   *)
(* limit of the channel, unless a send was reported lost (ChunkMessage,     *)
(* RunFinished, Send...), for any message length and any deliveries.        *)
THEOREM RepliesAreWhole == ChannelSpec => [](RepliesWhole /\ ChannelTypeOK)
<1> HIDE DEF RepliesInv
<1>1. RepliesInv => RepliesWhole /\ ChannelTypeOK
  BY RepliesInvShows
<1> QED
  BY <1>1, RepliesInit, RepliesStep, PTL DEF ChannelSpec
-----------------------------------------------------------------------------

(***************************************************************************)
(* The composed system: every step is a step of each part or leaves it     *)
(* alone.                                                                  *)
(***************************************************************************)
conversationVars == <<part, sessionVars, queryVars, viewVars, compactionVars, channelVars>>

LEMMA ConversationsInParts ==
    ASSUME [ConversationsNext]_conversationVars
    PROVE  /\ [SessionNext]_sessionVars /\ [QueryNext]_queryVars /\ [ViewNext]_viewVars
           /\ [CompactionNext]_compactionVars /\ [ChannelNext]_channelVars
<1>1. CASE ConversationsNext
  BY <1>1 DEF ConversationsNext
<1>2. CASE UNCHANGED conversationVars
  BY <1>2 DEF conversationVars
<1> QED
  BY <1>1, <1>2

LEMMA ConversationPartsAreSpecs ==
    ConversationsSpec => SessionSpec /\ QuerySpec /\ ViewSpec /\ CompactionSpec /\ ChannelSpec
<1>1. ConversationsInit => SessionInit /\ QueryInit /\ ViewInit /\ CompactionInit /\ ChannelInit
  BY DEF ConversationsInit
<1> QED
  BY <1>1, ConversationsInParts, PTL
  DEF ConversationsSpec, conversationVars, SessionSpec, QuerySpec, ViewSpec, CompactionSpec, ChannelSpec

(* What history and traces show is what happened: a search neither skips nor *)
(* repeats a row that stayed put, a tool result is shown with its own call,  *)
(* the results list holds what would be replayed, and the rows, summaries    *)
(* and messages they are read from are well formed (search_sessions,         *)
(* _events_to_tool_activity, _state_to_session_results).                     *)
THEOREM HistoryIsHonest == ConversationsSpec => []HistoryHonest
<1>1. (SearchComplete /\ TraceTruthful /\ ResultsHonest) /\ SessionTypeOK /\ CompactionTypeOK /\ ChannelTypeOK
      => HistoryHonest
  BY DEF HistoryHonest
<1> QED
  BY <1>1, ConversationPartsAreSpecs, SearchIsComplete, TraceIsTruthful, SelectionAgrees, NothingIsForgotten,
     RepliesAreWhole, PTL

(* The selection, the summaries, the replies and the revisions, in the       *)
(* composed system: what its run checks on a small instance.                 *)
THEOREM ConversationsAreKept ==
    ConversationsSpec => [](SelectionConsistent /\ NothingForgotten /\ RepliesWhole) /\ RevisionsKept
BY ConversationPartsAreSpecs, SelectionAgrees, NothingIsForgotten, RepliesAreWhole, RevisionsAreKept, PTL
=============================================================================
