---------------------------- MODULE DocumentStore ----------------------------
(***************************************************************************)
(* The three persistence backends behind db.persistence, operation by      *)
(* operation: which steps of a call are separate store accesses, which     *)
(* locks they hold, and what the callers are told.  PostgreSQL calls take  *)
(* a connection of the pool and read-modify-write under a row lock;        *)
(* Firestore applies transforms on the server; the memory backend reads    *)
(* and then writes.  DocumentContract is what each should look like.       *)
(*                                                                         *)
(* db/persistence.py, db/repository.py, db/repositories/*.py,              *)
(* db/firestore.py, db/firestore_inmemory.py, scripts/migrate_persistence  *)
(***************************************************************************)
EXTENDS Integers, Sequences, FiniteSets, SequencesExt, Store

CONSTANTS
    DocIds, Members,  \* as in DocumentContract
    Callers,          \* threads that use the repository
    PoolMax,          \* POSTGRES_POOL_MAX_SIZE
    PageLimit,        \* documents in a page of a query
    MaxStoreOps       \* operations in a behaviour

ASSUME StoreAssumption ==
    /\ PoolMax \in Nat \ {0} /\ PageLimit \in Nat \ {0} /\ MaxStoreOps \in Nat
    /\ None \notin Callers /\ None \notin [count : Nat, members : SUBSET Members]
    /\ IsFiniteSet(DocIds) /\ None \notin DocIds

VARIABLES
    docs, acked,  \* as in DocumentContract
    backend,      \* the backend selected at start-up
    shared,       \* it is the memory backend on the client db.firestore uses
    order,        \* documents in the order an unordered scan meets them
    call,         \* caller -> None or [kind, doc, arg, seen, at]
    rowLock,      \* document -> None or the caller that locked it
    createLock,   \* the memory backend's create lock: None or its holder
    pager,        \* a client paging through the collection: None or
                  \* [seen, cursor, done, all, whole]
    target,       \* the documents a migration has copied
    copying,      \* the migration: None or the documents still to copy
    storeOps      \* operations so far

storeVars == <<docs, acked, backend, shared, order, call, rowLock, createLock, pager, target,
               copying, storeOps>>
sideVars == <<backend, shared, pager, target, copying>>

Contract == INSTANCE DocumentContract

(***************************************************************************)
(* Selection.  An explicit DATA_BACKEND wins, then LOCAL_MODE.             *)
(***************************************************************************)
DataBackend(env, local) ==
    IF env # "" THEN env ELSE IF local THEN "memory" ELSE "firestore"
\* LOCAL_MODE's memory repository shares the client of db.firestore.
BuildRepository(env, local) ==
    /\ backend = DataBackend(env, local)
    /\ shared = (DataBackend(env, local) = "memory" /\ local)

(***************************************************************************)
(* Calls.                                                                  *)
(***************************************************************************)

\* A PostgreSQL call holds a connection from its first step to its last.
Acquired == {c \in Callers : call[c] # None}
Connection == backend = "postgres" => Cardinality(Acquired) < PoolMax
Begin(c) == call[c] = None /\ storeOps < MaxStoreOps /\ Connection /\ storeOps' = storeOps + 1
Return(c) == call' = [call EXCEPT ![c] = None]
\* A statement on a row waits for the transaction that locked it.
RowFree(d) == rowLock[d] = None

\* An update rewrites the row, which moves it in an unordered scan (heap) of
\* PostgreSQL; elsewhere an existing document keeps its place.
Scan(d) ==
    order' = IF backend # "postgres" /\ Contains(order, d) THEN order
             ELSE Append(RemoveFirst(order, d), d)
Unscan(d) == order' = RemoveFirst(order, d)
Put(d, doc) ==
    /\ docs' = [docs EXCEPT ![d] = doc] /\ acked' = [acked EXCEPT ![d] = doc]
    /\ Scan(d)

\* One-statement operations.  A missing document makes update raise.
SetDocument(c, d) ==
    /\ Begin(c) /\ RowFree(d) /\ Put(d, Contract!Blank)
    /\ UNCHANGED <<call, rowLock, createLock, sideVars>>
SetMerge(c, d, m) ==
    /\ Begin(c) /\ RowFree(d)
    /\ Put(d, [Contract!Known(d) EXCEPT !.members = {m}])
    /\ UNCHANGED <<call, rowLock, createLock, sideVars>>
UpdateDocument(c, d, m) ==
    /\ Begin(c) /\ RowFree(d)
    /\ IF docs[d] = None THEN UNCHANGED <<docs, acked, order>>
       ELSE Put(d, [docs[d] EXCEPT !.members = {m}])
    /\ UNCHANGED <<call, rowLock, createLock, sideVars>>
DeleteDocument(c, d) ==
    /\ Begin(c) /\ RowFree(d)
    /\ docs' = [docs EXCEPT ![d] = None] /\ acked' = [acked EXCEPT ![d] = Contract!Blank]
    /\ Unscan(d)
    /\ UNCHANGED <<call, rowLock, createLock, sideVars>>

\* create_document: INSERT ... ON CONFLICT DO NOTHING, or Firestore's create.
CreateDocument(c, d) ==
    /\ backend # "memory" /\ Begin(c)
    /\ IF docs[d] # None THEN UNCHANGED <<docs, acked, order>> ELSE Put(d, Contract!Blank)
    /\ UNCHANGED <<call, rowLock, createLock, sideVars>>

\* In memory: look, then set, under a lock that only creations take.
MemoryCreate(c, d) ==
    /\ backend = "memory"
    /\ \/ /\ Begin(c) /\ createLock = None
          /\ IF docs[d] # None THEN UNCHANGED <<call, createLock>>
             ELSE /\ createLock' = c
                  /\ call' = [call EXCEPT ![c] = [kind |-> "create", doc |-> d, arg |-> None,
                                                  seen |-> Contract!Blank]]
          /\ UNCHANGED <<docs, acked, order>>
       \/ /\ call[c] # None /\ call[c].kind = "create" /\ call[c].doc = d
          /\ Put(d, Contract!Blank) /\ createLock' = None /\ Return(c)
          /\ UNCHANGED storeOps
    /\ UNCHANGED <<rowLock, sideVars>>

(***************************************************************************)
(* increment_field and array_union_field.                                  *)
(***************************************************************************)

Added(doc, kind, arg) ==
    IF kind = "increment" THEN [doc EXCEPT !.count = @ + 1]
    ELSE [doc EXCEPT !.members = @ \cup {arg}]

\* Firestore: one transform on the server.
TransformField(c, d, kind, arg) ==
    /\ backend = "firestore" /\ Begin(c)
    /\ IF docs[d] = None THEN UNCHANGED <<docs, acked, order>>
       ELSE Put(d, Added(docs[d], kind, arg))
    /\ UNCHANGED <<call, rowLock, createLock, sideVars>>

\* db.firestore's own increment on the shared in-memory client: the sentinel
\* is resolved under the client's lock.
ApplySentinel(c, d) ==
    /\ shared /\ Begin(c)
    /\ IF docs[d] = None THEN UNCHANGED <<docs, acked, order>>
       ELSE Put(d, Added(docs[d], "increment", None))
    /\ UNCHANGED <<call, rowLock, createLock, sideVars>>

(* Faulty variant of SelectForUpdate: the row is read without its lock.     *)
SelectUnlocked(c, d, kind, arg) ==
    /\ backend = "postgres" /\ Begin(c)
    /\ IF docs[d] = None THEN UNCHANGED call
       ELSE call' = [call EXCEPT ![c] = [kind |-> kind, doc |-> d, arg |-> arg, seen |-> docs[d]]]
    /\ UNCHANGED <<docs, acked, order, rowLock, createLock, sideVars>>

\* PostgreSQL: SELECT ... FOR UPDATE locks the row for the transaction; a
\* missing row makes the call raise and the transaction end.
SelectForUpdate(c, d, kind, arg) ==
    /\ backend = "postgres" /\ Begin(c) /\ RowFree(d)
    /\ IF docs[d] = None THEN UNCHANGED <<call, rowLock>>
       ELSE /\ call' = [call EXCEPT ![c] = [kind |-> kind, doc |-> d, arg |-> arg,
                                            seen |-> docs[d]]]
            /\ rowLock' = [rowLock EXCEPT ![d] = c]
    /\ UNCHANGED <<docs, acked, order, createLock, sideVars>>

\* The acknowledgement is of what the caller asked: one more than what was
\* acknowledged before, or one member more.
WriteBack(c) ==
    LET k == call[c].kind
        d == call[c].doc
    IN /\ docs' = [docs EXCEPT ![d] = Added(call[c].seen, k, call[c].arg)]
       /\ acked' = [acked EXCEPT ![d] = Added(@, k, call[c].arg)]
       /\ Scan(d)

UpdateAndCommit(c) ==
    /\ backend = "postgres" /\ call[c] # None
    /\ WriteBack(c) /\ Return(c)
    /\ rowLock' = [rowLock EXCEPT ![call[c].doc] = None]
    /\ UNCHANGED <<createLock, sideVars, storeOps>>

\* In memory: get, then update, with no lock in between.  A document deleted
\* meanwhile makes the update raise.
MemoryGet(c, d, kind, arg) ==
    /\ backend = "memory" /\ Begin(c)
    /\ IF docs[d] = None THEN UNCHANGED call
       ELSE call' = [call EXCEPT ![c] = [kind |-> kind, doc |-> d, arg |-> arg, seen |-> docs[d]]]
    /\ UNCHANGED <<docs, acked, order, rowLock, createLock, sideVars>>
MemoryUpdate(c) ==
    /\ backend = "memory" /\ call[c] # None /\ call[c].kind # "create"
    /\ IF docs[call[c].doc] = None THEN UNCHANGED <<docs, acked, order>> ELSE WriteBack(c)
    /\ Return(c)
    /\ UNCHANGED <<rowLock, createLock, sideVars, storeOps>>

(***************************************************************************)
(* Queries, ordered by a field whose values are all different, newest (the *)
(* largest) first.                                                         *)
(***************************************************************************)
Key(d) == CHOOSE i \in 1 .. Cardinality(DocIds) : SetToSeq(DocIds)[i] = d
Sorted(scan) ==
    CHOOSE rows \in SetToSeqs(ToSet(scan)) :
        \A i, j \in DOMAIN rows : i < j => Key(rows[i]) > Key(rows[j])
Position(seq, d) == CHOOSE i \in DOMAIN seq : seq[i] = d

(* Faulty variant of ApplyQuery: the page starts one document late.         *)
ApplyQuerySkips(cursor) ==
    LET rows == Sorted(order)
        rest == IF cursor = None \/ ~Contains(rows, cursor) THEN rows
                ELSE SubSeq(rows, Position(rows, cursor) + 2, Len(rows))
    IN SubSeq(rest, 1, IF Len(rest) < PageLimit THEN Len(rest) ELSE PageLimit)

\* Filter, sort, drop up to and including the cursor (all of it stays when the
\* cursor is gone), limit.
ApplyQuery(cursor) ==
    LET rows == Sorted(order)
        rest == IF cursor = None \/ ~Contains(rows, cursor) THEN rows
                ELSE SubSeq(rows, Position(rows, cursor) + 1, Len(rows))
    IN SubSeq(rest, 1, IF Len(rest) < PageLimit THEN Len(rest) ELSE PageLimit)

\* A client pages to the end: each page starts after the last document of the
\* one before.  whole says that no page met other documents than the first.
QueryDocuments ==
    /\ storeOps < MaxStoreOps /\ storeOps' = storeOps + 1
    /\ LET from == IF pager = None \/ pager.done
                   THEN [seen |-> <<>>, cursor |-> None, done |-> FALSE, all |-> ToSet(order),
                         whole |-> TRUE]
                   ELSE pager
           page == ApplyQuery(from.cursor)
       IN pager' = [from EXCEPT !.seen = @ \o page, !.done = Len(page) < PageLimit,
                                !.whole = @ /\ from.all = ToSet(order),
                                !.cursor = IF page = <<>> THEN @ ELSE Last(page)]
    /\ UNCHANGED <<docs, acked, order, call, rowLock, createLock, target, copying, backend, shared>>

(***************************************************************************)
(* Migration to another backend: read all, then upsert one by one.         *)
(***************************************************************************)
MigrateRead ==
    /\ copying = None /\ storeOps < MaxStoreOps /\ storeOps' = storeOps + 1
    /\ copying' = [d \in {e \in DocIds : docs[e] # None} |-> docs[d]]
    /\ UNCHANGED <<docs, acked, order, call, rowLock, createLock, pager, target, backend, shared>>
MigrateWrite ==
    /\ copying # None
    /\ IF DOMAIN copying = {} THEN copying' = None /\ UNCHANGED target
       ELSE \E d \in DOMAIN copying :
                /\ target' = [target EXCEPT ![d] = copying[d]]
                /\ copying' = [e \in DOMAIN copying \ {d} |-> copying[e]]
    /\ UNCHANGED <<docs, acked, order, call, rowLock, createLock, pager, backend, shared, storeOps>>
MigrateCrash ==
    /\ copying # None /\ copying' = None
    /\ UNCHANGED <<docs, acked, order, call, rowLock, createLock, pager, target, backend, shared, storeOps>>

StoreInit ==
    /\ \E env \in {"", "memory", "firestore", "postgres"}, local \in BOOLEAN :
           BuildRepository(env, local)
    /\ Contract!ContractInit
    /\ order = <<>> /\ call = [c \in Callers |-> None]
    /\ rowLock = [d \in DocIds |-> None] /\ createLock = None
    /\ pager = None /\ target = [d \in DocIds |-> None] /\ copying = None /\ storeOps = 0

StoreNext ==
    \/ \E c \in Callers, d \in DocIds :
           \/ SetDocument(c, d) \/ DeleteDocument(c, d)
           \/ CreateDocument(c, d) \/ MemoryCreate(c, d) \/ ApplySentinel(c, d)
           \/ \E m \in Members : SetMerge(c, d, m) \/ UpdateDocument(c, d, m)
           \/ \E m \in Members, kind \in {"increment", "union"} :
                  \/ TransformField(c, d, kind, m) \/ SelectForUpdate(c, d, kind, m)
                  \/ MemoryGet(c, d, kind, m)
    \/ \E c \in Callers : UpdateAndCommit(c) \/ MemoryUpdate(c)
    \/ QueryDocuments
    \/ MigrateRead \/ MigrateWrite \/ MigrateCrash

StoreSpec == StoreInit /\ [][StoreNext]_storeVars

(***************************************************************************)
(* Properties.                                                             *)
(***************************************************************************)

\* PostgreSQL and Firestore implement the repository contract: no acknowledged
\* increment, union or creation is lost to a concurrent call.
ContractKept == [][backend # "memory" => Contract!ContractNext]_<<docs, acked>>

\* A client that pages to the end of a collection nobody changes meanwhile has
\* seen every document once, wherever updates move the rows.
PagesWhole ==
    (pager # None /\ pager.done /\ pager.whole) =>
        /\ ToSet(pager.seen) = pager.all
        /\ Len(pager.seen) = Cardinality(pager.all)
=============================================================================
