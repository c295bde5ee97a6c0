------------------------------ MODULE StoreProofs ------------------------------
(***************************************************************************)
(* Proofs about what the platform stores: the repository implements its    *)
(* contract (DocumentStore), seeds converge (PlatformSeed), users get their*)
(* own rows (UserStores), what is listed exists and may be listed          *)
(* (DocumentFiles, Buckets, SkillDirectory), objects are read whole        *)
(* (ObjectStore), files are parsed whole and PDFium runs once at a time    *)
(* (DocumentParsing), for every set of callers, documents, templates,      *)
(* users and requests.                                                     *)
(***************************************************************************)
EXTENDS MCStores, NumberLemmas, FiniteSetTheorems, SequenceTheorems, TLAPS

-----------------------------------------------------------------------------
(* The repository: what is acknowledged is what is stored, and a call that   *)
(* has read a row holds its lock until it has written it.                    *)
DocRecord == [count : Nat, members : SUBSET Members]

StoredRight ==
    /\ backend # "memory" /\ ~shared
    /\ docs \in [DocIds -> DocRecord \cup {None}] /\ acked \in [DocIds -> DocRecord]
    /\ rowLock \in [DocIds -> Callers \cup {None}]
    /\ DOMAIN call = Callers
    /\ backend = "firestore" => \A c \in Callers : call[c] = None
    /\ \A d \in DocIds : docs[d] # None => acked[d] = docs[d]
    /\ \A c \in Callers : call[c] # None =>
          /\ call[c].kind \in {"increment", "union"} /\ call[c].arg \in Members
          /\ call[c].doc \in DocIds /\ rowLock[call[c].doc] = c
          /\ docs[call[c].doc] # None /\ call[c].seen = docs[call[c].doc]

\* The memory backend promises none of it.
ContractInv == backend # "memory" => StoredRight

LEMMA ContractStarts == StoreInit => ContractInv
<1> SUFFICES ASSUME StoreInit PROVE ContractInv
  OBVIOUS
<1>1. backend # "memory" => ~shared
  BY DEF StoreInit, BuildRepository
<1>2. Contract!Blank \in DocRecord
  BY DEF Contract!Blank, DocRecord
<1> QED
  BY <1>1, <1>2 DEF StoreInit, ContractInv, StoredRight, Contract!ContractInit

\* One document changes, in one statement, while no call is between its read and its write.
Stores(d, doc) ==
    /\ d \in DocIds /\ \A c \in Callers : call[c] # None => call[c].doc # d
    /\ docs' = [docs EXCEPT ![d] = doc] /\ acked' = [acked EXCEPT ![d] = IF doc = None THEN Contract!Blank ELSE doc]
    /\ doc \in DocRecord \cup {None}
    /\ UNCHANGED <<call, rowLock, backend, shared>>

LEMMA StatementKeeps ==
  ASSUME StoredRight, None \notin Callers, NEW d, NEW doc, Stores(d, doc)
  PROVE  StoredRight'
<1> USE DEF StoredRight, Stores
<1>1. Contract!Blank \in DocRecord
  BY DEF Contract!Blank, DocRecord
<1>2. /\ docs' \in [DocIds -> DocRecord \cup {None}] /\ acked' \in [DocIds -> DocRecord]
      /\ rowLock' \in [DocIds -> Callers \cup {None}] /\ DOMAIN call' = Callers
      /\ backend' = "firestore" => \A o \in Callers : call'[o] = None
      /\ backend' # "memory" /\ ~shared'
  BY <1>1
<1>3. \A e \in DocIds : docs'[e] # None => acked'[e] = docs'[e]
  BY <1>1
<1>4. \A c \in Callers : call'[c] # None =>
                /\ call'[c].kind \in {"increment", "union"} /\ call'[c].arg \in Members
                /\ call'[c].doc \in DocIds /\ rowLock'[call'[c].doc] = c
                /\ docs'[call'[c].doc] # None /\ call'[c].seen = docs'[call'[c].doc]
  OBVIOUS
<1> QED
  BY <1>2, <1>3, <1>4

\* A call acquires the row it has read, or gives back the row it wrote.
LEMMA LockKeeps ==
  ASSUME StoredRight, None \notin Callers, NEW c \in Callers, NEW d \in DocIds,
         NEW kind \in {"increment", "union"}, NEW m \in Members, SelectForUpdate(c, d, kind, m)
  PROVE  StoredRight' /\ UNCHANGED <<docs, acked>>
<1> USE DEF StoredRight
<1>1. UNCHANGED <<docs, acked, backend, shared>> /\ backend = "postgres" /\ rowLock[d] = None /\ call[c] = None
  BY DEF SelectForUpdate, sideVars, RowFree, Begin
<1>2. CASE docs[d] = None
  <2>1. UNCHANGED <<call, rowLock>>
    BY <1>2 DEF SelectForUpdate
  <2> QED
    BY <1>1, <2>1
<1>3. CASE docs[d] # None
  <2>1. PICK q : q = [kind |-> kind, doc |-> d, arg |-> m, seen |-> docs[d]]
    OBVIOUS
  <2>2. call' = [call EXCEPT ![c] = q] /\ rowLock' = [rowLock EXCEPT ![d] = c]
    BY <1>3, <2>1 DEF SelectForUpdate
  <2>3. q.kind = kind /\ q.doc = d /\ q.arg = m /\ q.seen = docs[d]
    BY <2>1
  <2>4. \A o \in Callers : call'[o] # None =>
                /\ call'[o].kind \in {"increment", "union"} /\ call'[o].arg \in Members
                /\ call'[o].doc \in DocIds /\ rowLock'[call'[o].doc] = o
                /\ docs'[call'[o].doc] # None /\ call'[o].seen = docs'[call'[o].doc]
    <3> SUFFICES ASSUME NEW o \in Callers, call'[o] # None
                 PROVE  /\ call'[o].kind \in {"increment", "union"} /\ call'[o].arg \in Members
                        /\ call'[o].doc \in DocIds /\ rowLock'[call'[o].doc] = o
                        /\ docs'[call'[o].doc] # None /\ call'[o].seen = docs'[call'[o].doc]
      OBVIOUS
    <3>1. CASE o = c
      BY <1>1, <1>3, <2>2, <2>3, <3>1
    <3>2. CASE o # c
      BY <1>1, <2>2, <3>2
    <3> QED
      BY <3>1, <3>2
  <2> QED
    BY <1>1, <2>2, <2>4
<1> QED
  BY <1>1, <1>2, <1>3

LEMMA CommitKeeps ==
  ASSUME StoredRight, None \notin Callers, NEW c \in Callers, UpdateAndCommit(c)
  PROVE  StoredRight' /\ Contract!ContractNext
<1> USE DEF StoredRight
<1> DEFINE d == call[c].doc
           kind == call[c].kind
           arg == call[c].arg
<1>1. /\ call[c] # None /\ d \in DocIds /\ rowLock[d] = c /\ docs[d] # None
      /\ call[c].seen = docs[d] /\ acked[d] = docs[d] /\ docs[d] \in DocRecord
      /\ kind \in {"increment", "union"} /\ arg \in Members
  BY DEF UpdateAndCommit
<1>2. /\ docs' = [docs EXCEPT ![d] = Added(docs[d], kind, arg)]
      /\ acked' = [acked EXCEPT ![d] = Added(docs[d], kind, arg)]
      /\ call' = [call EXCEPT ![c] = None] /\ rowLock' = [rowLock EXCEPT ![d] = None]
      /\ UNCHANGED <<backend, shared>> /\ backend = "postgres"
  BY <1>1 DEF UpdateAndCommit, WriteBack, Return, sideVars
<1>3. Added(docs[d], kind, arg) \in DocRecord
  BY <1>1 DEF Added, DocRecord
<1>4. PICK new : new = Added(docs[d], kind, arg)
  OBVIOUS
<1> HIDE DEF d, kind, arg
<1>5. StoredRight'
  <2>1. /\ docs' \in [DocIds -> DocRecord \cup {None}] /\ acked' \in [DocIds -> DocRecord]
        /\ rowLock' \in [DocIds -> Callers \cup {None}] /\ DOMAIN call' = Callers
        /\ backend' = "firestore" => \A o \in Callers : call'[o] = None
        /\ backend' # "memory" /\ ~shared'
    BY <1>1, <1>2, <1>3
  <2>2. \A e \in DocIds : docs'[e] # None => acked'[e] = docs'[e]
    BY <1>1, <1>2, <1>3
  <2>3. \A o \in Callers : call'[o] # None =>
                /\ call'[o].kind \in {"increment", "union"} /\ call'[o].arg \in Members
                /\ call'[o].doc \in DocIds /\ rowLock'[call'[o].doc] = o
                /\ docs'[call'[o].doc] # None /\ call'[o].seen = docs'[call'[o].doc]
    <3> SUFFICES ASSUME NEW o \in Callers, call'[o] # None
                 PROVE  /\ call'[o].kind \in {"increment", "union"} /\ call'[o].arg \in Members
                        /\ call'[o].doc \in DocIds /\ rowLock'[call'[o].doc] = o
                        /\ docs'[call'[o].doc] # None /\ call'[o].seen = docs'[call'[o].doc]
      OBVIOUS
    <3>1. o # c /\ call'[o] = call[o]
      BY <1>2
    <3>2. call[o].doc # d
      BY <1>1, <3>1
    <3> QED
      BY <1>2, <3>1, <3>2
  <2> QED
    BY <1>2, <2>1, <2>2, <2>3
<1>6. CASE kind = "increment"
  <2>1. Contract!Increment(d)
    BY <1>1, <1>2, <1>6 DEF Added, Contract!Increment, Contract!Put
  <2> QED
    BY <1>1, <1>5, <2>1 DEF Contract!ContractNext
<1>7. CASE kind = "union"
  <2>1. Contract!Union(d, arg)
    BY <1>1, <1>2, <1>7 DEF Added, Contract!Union, Contract!Put
  <2> QED
    BY <1>1, <1>5, <2>1 DEF Contract!ContractNext
<1> QED
  BY <1>1, <1>6, <1>7

\* Every one-statement call is a step of the contract, or changes nothing.
StatementStep == UNCHANGED <<docs, acked, call, rowLock, backend, shared>>
                 \/ (Contract!ContractNext /\ \E d, doc : Stores(d, doc))

LEMMA StatementsMap ==
  ASSUME StoredRight, None \notin Callers, NEW c \in Callers, NEW d \in DocIds,
         \/ SetDocument(c, d) \/ DeleteDocument(c, d) \/ CreateDocument(c, d)
         \/ \E m \in Members : SetMerge(c, d, m) \/ UpdateDocument(c, d, m)
         \/ \E m \in Members, kind \in {"increment", "union"} : TransformField(c, d, kind, m)
  PROVE  StatementStep
<1> USE DEF StoredRight
<1>0. /\ Contract!Blank \in DocRecord /\ docs[d] \in DocRecord \cup {None}
      /\ docs[d] # None => acked[d] = docs[d]
      /\ None \notin DocRecord
  BY StoreAssumption DEF Contract!Blank, DocRecord
<1>1. rowLock[d] = None => \A o \in Callers : call[o] # None => call[o].doc # d
  OBVIOUS
<1>2. docs[d] = None => \A o \in Callers : call[o] # None => call[o].doc # d
  OBVIOUS
<1>3. CASE SetDocument(c, d)
  <2>1. Contract!Overwrite(d) /\ Stores(d, Contract!Blank)
    BY <1>0, <1>1, <1>3 DEF SetDocument, RowFree, Put, sideVars, Contract!Overwrite, Contract!Put, Stores
  <2> QED
    BY <2>1 DEF StatementStep, Contract!ContractNext
<1>4. CASE DeleteDocument(c, d)
  <2>1. Contract!Remove(d) /\ Stores(d, None)
    BY <1>0, <1>1, <1>4 DEF DeleteDocument, RowFree, sideVars, Contract!Remove, Stores
  <2> QED
    BY <2>1 DEF StatementStep, Contract!ContractNext
<1>5. CASE CreateDocument(c, d)
  <2>1. CASE docs[d] # None
    BY <1>5, <2>1 DEF CreateDocument, sideVars, StatementStep
  <2>2. CASE docs[d] = None
    <3>1. Contract!Create(d) /\ Stores(d, Contract!Blank)
      BY <1>0, <1>2, <1>5, <2>2 DEF CreateDocument, Put, sideVars, Contract!Create, Contract!Put, Stores
    <3> QED
      BY <3>1 DEF StatementStep, Contract!ContractNext
  <2> QED
    BY <2>1, <2>2
<1>6. ASSUME NEW m \in Members, SetMerge(c, d, m) PROVE StatementStep
  <2>1. PICK new : new = [Contract!Known(d) EXCEPT !.members = {m}]
    OBVIOUS
  <2>2. new \in DocRecord
    BY <1>0, <2>1 DEF Contract!Known, DocRecord
  <2>3. docs' = [docs EXCEPT ![d] = new] /\ acked' = [acked EXCEPT ![d] = new]
    BY <1>6, <2>1 DEF SetMerge, Put
  <2>4. Contract!Merge(d, m)
    BY <2>1, <2>3 DEF Contract!Merge, Contract!Put
  <2>5. Stores(d, new)
    BY <1>0, <1>1, <1>6, <2>2, <2>3 DEF SetMerge, RowFree, sideVars, Stores
  <2> QED
    BY <2>4, <2>5 DEF StatementStep, Contract!ContractNext
<1>7. ASSUME NEW m \in Members, UpdateDocument(c, d, m) PROVE StatementStep
  <2>1. CASE docs[d] = None
    BY <1>7, <2>1 DEF UpdateDocument, sideVars, StatementStep
  <2>2. CASE docs[d] # None
    <3>1. PICK new : new = [docs[d] EXCEPT !.members = {m}]
      OBVIOUS
    <3>2. new \in DocRecord
      BY <1>0, <2>2, <3>1 DEF DocRecord
    <3>3. docs' = [docs EXCEPT ![d] = new] /\ acked' = [acked EXCEPT ![d] = new]
      BY <1>7, <2>2, <3>1 DEF UpdateDocument, Put
    <3>4. Contract!Update(d, m)
      BY <2>2, <3>1, <3>3 DEF Contract!Update, Contract!Put
    <3>5. Stores(d, new)
      BY <1>0, <1>1, <1>7, <3>2, <3>3 DEF UpdateDocument, RowFree, sideVars, Stores
    <3> QED
      BY <3>4, <3>5 DEF StatementStep, Contract!ContractNext
  <2> QED
    BY <2>1, <2>2
<1>8. ASSUME NEW m \in Members, NEW kind \in {"increment", "union"}, TransformField(c, d, kind, m)
      PROVE  StatementStep
  <2>1. CASE docs[d] = None
    BY <1>8, <2>1 DEF TransformField, sideVars, StatementStep
  <2>2. CASE docs[d] # None
    <3>1. PICK new : new = Added(docs[d], kind, m)
      OBVIOUS
    <3>2. new \in DocRecord
      BY <1>0, <2>2, <3>1 DEF DocRecord, Added
    <3>3. docs' = [docs EXCEPT ![d] = new] /\ acked' = [acked EXCEPT ![d] = new]
      BY <1>8, <2>2, <3>1 DEF TransformField, Put
    <3>4. Contract!Increment(d) \/ Contract!Union(d, m)
      BY <2>2, <3>1, <3>3 DEF Contract!Increment, Contract!Union, Contract!Put, Added
    <3>5. \A o \in Callers : call[o] = None \/ call[o].doc # d
      BY <1>8 DEF TransformField
    <3>6. Stores(d, new)
      BY <1>0, <1>8, <3>2, <3>3, <3>5 DEF TransformField, sideVars, Stores
    <3> QED
      BY <3>4, <3>6 DEF StatementStep, Contract!ContractNext
  <2> QED
    BY <2>1, <2>2
<1> QED
  BY <1>3, <1>4, <1>5, <1>6, <1>7, <1>8

\* The backend is chosen once, at start-up.
LEMMA BackendStays == ASSUME [StoreNext]_storeVars PROVE backend' = backend
<1> USE DEF sideVars
<1>1. ASSUME NEW c \in Callers, NEW d \in DocIds,
             \/ SetDocument(c, d) \/ DeleteDocument(c, d)
             \/ CreateDocument(c, d) \/ MemoryCreate(c, d) \/ ApplySentinel(c, d)
      PROVE  backend' = backend
  BY <1>1 DEF SetDocument, DeleteDocument, CreateDocument, MemoryCreate, ApplySentinel
<1>2. ASSUME NEW c \in Callers, NEW d \in DocIds, NEW m \in Members,
             SetMerge(c, d, m) \/ UpdateDocument(c, d, m)
      PROVE  backend' = backend
  BY <1>2 DEF SetMerge, UpdateDocument
<1>3. ASSUME NEW c \in Callers, NEW d \in DocIds, NEW m \in Members, NEW kind \in {"increment", "union"},
             TransformField(c, d, kind, m) \/ SelectForUpdate(c, d, kind, m) \/ MemoryGet(c, d, kind, m)
      PROVE  backend' = backend
  BY <1>3 DEF TransformField, SelectForUpdate, MemoryGet
<1>4. ASSUME NEW c \in Callers, UpdateAndCommit(c) \/ MemoryUpdate(c) PROVE backend' = backend
  BY <1>4 DEF UpdateAndCommit, MemoryUpdate
<1>5. CASE QueryDocuments \/ MigrateRead \/ MigrateWrite \/ MigrateCrash
  BY <1>5 DEF QueryDocuments, MigrateRead, MigrateWrite, MigrateCrash
<1>6. CASE UNCHANGED storeVars
  BY <1>6 DEF storeVars
<1> QED
  BY <1>1, <1>2, <1>3, <1>4, <1>5, <1>6, Zenon DEF StoreNext

LEMMA ContractStep ==
  ASSUME ContractInv, [StoreNext]_storeVars
  PROVE  ContractInv' /\ (backend # "memory" => Contract!ContractNext \/ UNCHANGED <<docs, acked>>)
<1>1. None \notin Callers
  BY StoreAssumption
<1>2. backend' = backend
  BY BackendStays
<1>3. SUFFICES ASSUME StoredRight
               PROVE  StoredRight' /\ (Contract!ContractNext \/ UNCHANGED <<docs, acked>>)
  BY <1>2 DEF ContractInv, StoredRight
<1>4. ASSUME UNCHANGED <<docs, acked, call, rowLock, backend, shared>>
      PROVE  StoredRight' /\ UNCHANGED <<docs, acked>>
  BY <1>4, <1>3 DEF StoredRight
<1>5. CASE UNCHANGED storeVars
  BY <1>4, <1>5 DEF storeVars
<1>6. CASE QueryDocuments \/ MigrateRead \/ MigrateWrite \/ MigrateCrash
  BY <1>4, <1>6 DEF QueryDocuments, MigrateRead, MigrateWrite, MigrateCrash
<1>7. ASSUME NEW c \in Callers, NEW d \in DocIds,
             \/ SetDocument(c, d) \/ DeleteDocument(c, d) \/ CreateDocument(c, d)
             \/ \E m \in Members : SetMerge(c, d, m) \/ UpdateDocument(c, d, m)
             \/ \E m \in Members, kind \in {"increment", "union"} : TransformField(c, d, kind, m)
      PROVE  StoredRight' /\ (Contract!ContractNext \/ UNCHANGED <<docs, acked>>)
  <2>1. StatementStep
    BY <1>1, <1>3, <1>7, StatementsMap
  <2> QED
    BY <1>1, <1>3, <1>4, <2>1, StatementKeeps DEF StatementStep
<1>8. ASSUME NEW c \in Callers, NEW d \in DocIds
      PROVE  /\ ~MemoryCreate(c, d) /\ ~ApplySentinel(c, d) /\ ~MemoryUpdate(c)
             /\ \A m \in Members, kind \in {"increment", "union"} : ~MemoryGet(c, d, kind, m)
  BY <1>3 DEF StoredRight, MemoryCreate, ApplySentinel, MemoryUpdate, MemoryGet
<1>9. ASSUME NEW c \in Callers, NEW d \in DocIds, NEW m \in Members,
             NEW kind \in {"increment", "union"}, SelectForUpdate(c, d, kind, m)
      PROVE  StoredRight' /\ (Contract!ContractNext \/ UNCHANGED <<docs, acked>>)
  BY <1>1, <1>3, <1>9, LockKeeps
<1>10. ASSUME NEW c \in Callers, UpdateAndCommit(c)
       PROVE  StoredRight' /\ (Contract!ContractNext \/ UNCHANGED <<docs, acked>>)
  BY <1>1, <1>3, <1>10, CommitKeeps
<1>11. ASSUME NEW c \in Callers PROVE ~MemoryUpdate(c)
  BY <1>3 DEF StoredRight, MemoryUpdate
<1> QED
  BY <1>5, <1>6, <1>7, <1>8, <1>9, <1>10, <1>11, Zenon DEF StoreNext

\* A caller of PostgreSQL or Firestore never loses an acknowledged increment,
\* union or creation to another call: each step of the repository
\* (DocumentStore) is a step of what db/repository.py promises.
THEOREM ContractIsKept == StoreSpec => ContractKept
<1>1. StoreInit => ContractInv
  BY ContractStarts
<1>2. ContractInv /\ [StoreNext]_storeVars => ContractInv'
  BY ContractStep
<1>3. ContractInv /\ [StoreNext]_storeVars
        => [backend # "memory" => Contract!ContractNext]_<<docs, acked>>
  BY ContractStep
<1> QED
  BY <1>1, <1>2, <1>3, PTL DEF StoreSpec, ContractKept

\* As a refinement: started on PostgreSQL or Firestore, the repository is an
\* implementation of DocumentContract.
THEOREM RepositoryRefines == StoreSpec /\ backend # "memory" => Contract!ContractSpec
<1>1. StoreInit /\ backend # "memory" => ContractInv /\ StoredRight /\ Contract!ContractInit
  BY ContractStarts DEF ContractInv, StoreInit
<1>2. StoredRight /\ [StoreNext]_storeVars
        => StoredRight' /\ [Contract!ContractNext]_Contract!contractVars
  <2> SUFFICES ASSUME StoredRight, [StoreNext]_storeVars
               PROVE  StoredRight' /\ [Contract!ContractNext]_Contract!contractVars
    OBVIOUS
  <2>1. ContractInv /\ backend' = backend
    BY BackendStays DEF StoredRight, ContractInv
  <2> QED
    BY <2>1, ContractStep DEF ContractInv, StoredRight, Contract!contractVars
<1> QED
  BY <1>1, <1>2, PTL DEF StoreSpec, Contract!ContractSpec

-----------------------------------------------------------------------------
(* Seeding: while seeds do not overlap, the rows of the templates still to  *)
(* do are the ones the seeder listed, and those done have one row each.     *)
RowNames == Templates \cup Durable \cup {CHOOSE n \in Templates : TRUE}
SeedIds == {"kept", "old", "new"} \X (RowNames \cup Nat)
Row == [id : SeedIds, name : RowNames, owner : {"platform", "previous"},
        managed : {"firestore", "template"}, body : Nat, slug : BOOLEAN]
Seeder == [at : {"wildcard", "grant", "purge", "list", "each", "done"}, dry : BOOLEAN, body : Nat,
           seen : SUBSET Row, todo : SUBSET Templates, failed : SUBSET Templates]

Named(some, n) == {q \in some : q.name = n}
Fresh(r, body) == r.managed = "firestore" \/ r.body = body

\* Ids are given out once.
RowsWell ==
    /\ rowIds \in Nat /\ platformRows \subseteq Row
    /\ \A p, q \in platformRows : p.id = q.id => p = q
    /\ \A r \in platformRows : r.id[1] = "new" => r.id[2] \in Nat /\ r.id[2] < rowIds

SeedersWell == release \in Nat /\ seeders \in [Seeders -> Seeder \cup {None}]

OneEach == \A p, q \in Owned("platform") : p.name = q.name => p = q
OneSeeder == \A s, o \in Seeders : seeders[s] # None /\ seeders[o] # None => s = o

\* What seeder s has listed and done.
Follows(s) ==
    (seeders[s] # None /\ seeders[s].at \in {"each", "done"}) =>
        /\ seeders[s].at = "done" => seeders[s].todo = {}
        /\ \A n \in seeders[s].todo : Named(seeders[s].seen, n) = Named(Owned("platform"), n)
        /\ ~seeders[s].dry => \A n \in Offered \ (seeders[s].todo \cup seeders[s].failed) :
               \E r \in Owned("platform") : r.name = n /\ Fresh(r, seeders[s].body)

SeedInv ==
    /\ RowsWell /\ SeedersWell
    /\ ~overlapped => OneEach /\ OneSeeder /\ \A s \in Seeders : Follows(s)

LEMMA SeedStarts == SeedInit => SeedInv
<1> SUFFICES ASSUME SeedInit PROVE SeedInv
  OBVIOUS
<1> DEFINE kept(n) == [id |-> <<"kept", n>>, name |-> n, owner |-> "platform", managed |-> "firestore",
                       body |-> 0, slug |-> TRUE]
           old(n) == [id |-> <<"old", n>>, name |-> n, owner |-> "previous", managed |-> "template",
                      body |-> 0, slug |-> FALSE]
<1>1. platformRows = {kept(n) : n \in Durable} \cup {old(n) : n \in {CHOOSE n \in Templates : TRUE}}
  BY DEF SeedInit
<1>2. \A n : /\ kept(n).id = <<"kept", n>> /\ kept(n).name = n /\ kept(n).owner = "platform"
             /\ old(n).id = <<"old", n>> /\ old(n).name = n /\ old(n).owner = "previous"
  OBVIOUS
<1>3. \A n \in RowNames : kept(n) \in Row /\ old(n) \in Row
  BY DEF Row, SeedIds
<1>4. \A n : <<"kept", n>>[1] = "kept" /\ <<"old", n>>[1] = "old"
  OBVIOUS
<1> HIDE DEF kept, old
<1>5. \A r \in platformRows : \/ r.id = <<"kept", r.name>> /\ r = kept(r.name) /\ r.owner = "platform"
                              \/ r.id = <<"old", r.name>> /\ r = old(r.name) /\ r.owner = "previous"
  BY <1>1, <1>2
<1>6. RowsWell
  <2>1. rowIds = 0 /\ platformRows \subseteq Row
    BY <1>1, <1>3 DEF SeedInit, RowNames
  <2>2. \A p, q \in platformRows : p.id = q.id => p = q
    BY <1>4, <1>5
  <2>3. \A r \in platformRows : r.id[1] # "new"
    BY <1>4, <1>5
  <2> QED
    BY <2>1, <2>2, <2>3 DEF RowsWell
<1>7. OneEach
  BY <1>5 DEF OneEach, Owned
<1>8. /\ release = 1 /\ seeders = [s \in Seeders |-> None]
  BY DEF SeedInit
<1> QED
  BY <1>6, <1>7, <1>8 DEF SeedInv, SeedersWell, OneSeeder, Follows

\* A step that leaves the platform's skills alone.
LEMMA SkillsStay ==
  ASSUME SeedInv, UNCHANGED <<rowIds, seeders>>, overlapped' = overlapped,
         release' \in Nat, platformRows' \subseteq platformRows, Owned("platform")' = Owned("platform")
  PROVE  SeedInv'
<1>1. RowsWell'
  BY DEF SeedInv, RowsWell
<1>2. SeedersWell'
  BY DEF SeedInv, SeedersWell
<1>3. OneEach => OneEach'
  BY DEF OneEach
<1>4. OneSeeder => OneSeeder'
  BY DEF OneSeeder
<1>5. \A s \in Seeders : Follows(s) => Follows(s)'
  BY DEF Follows
<1> QED
  BY <1>1, <1>2, <1>3, <1>4, <1>5 DEF SeedInv

\* Seeder s moves on, and the rows stay.
LEMMA SeederMoves ==
  ASSUME SeedInv, NEW s \in Seeders, NEW w \in Seeder \cup {None}, seeders' = [seeders EXCEPT ![s] = w],
         UNCHANGED <<platformRows, rowIds, release>>,
         ~overlapped' => ~overlapped /\ (seeders[s] = None => \A o \in Seeders \ {s} : seeders[o] = None),
         ~overlapped' => Follows(s)'
  PROVE  SeedInv'
<1>1. RowsWell' /\ SeedersWell'
  BY DEF SeedInv, RowsWell, SeedersWell
<1>2. ASSUME ~overlapped' PROVE OneEach' /\ OneSeeder' /\ \A o \in Seeders : Follows(o)'
  <2>0. seeders \in [Seeders -> Seeder \cup {None}] /\ OneEach /\ OneSeeder /\ \A o \in Seeders : Follows(o)
    BY <1>2 DEF SeedInv, SeedersWell
  <2>1. OneEach'
    BY <2>0 DEF OneEach, Owned
  <2>2. OneSeeder'
    BY <1>2, <2>0 DEF OneSeeder
  <2>3. ASSUME NEW o \in Seeders PROVE Follows(o)'
    <3>1. CASE o = s
      BY <1>2, <3>1
    <3>2. CASE o # s
      <4>1. seeders'[o] = seeders[o]
        BY <2>0, <3>2
      <4> QED
        BY <2>0, <4>1 DEF Follows, Owned
    <3> QED
      BY <3>1, <3>2
  <2> QED
    BY <2>1, <2>2, <2>3
<1> QED
  BY <1>1, <1>2 DEF SeedInv

\* The steps before the templates, the report and the end.
LEMMA SeederGoes ==
  ASSUME SeedInv, NEW s \in Seeders, seeders[s] # None,
         NEW at \in {"wildcard", "grant", "purge", "list", "done"}, Goes(s, at),
         UNCHANGED <<platformRows, rowIds, release, overlapped>>,
         at = "done" => seeders[s].at = "each" /\ seeders[s].todo = {}
  PROVE  SeedInv'
<1>1. seeders[s] \in Seeder /\ seeders \in [Seeders -> Seeder \cup {None}]
  BY DEF SeedInv, SeedersWell
<1>2. PICK w : w = [seeders[s] EXCEPT !.at = at]
  OBVIOUS
<1>3. /\ w \in Seeder /\ w.at = at /\ w.seen = seeders[s].seen /\ w.todo = seeders[s].todo
      /\ w.failed = seeders[s].failed /\ w.dry = seeders[s].dry /\ w.body = seeders[s].body
  BY <1>1, <1>2 DEF Seeder
<1>4. seeders' = [seeders EXCEPT ![s] = w]
  BY <1>2 DEF Goes
<1>5. seeders'[s] = w
  BY <1>1, <1>4
<1>6. ASSUME ~overlapped' PROVE Follows(s)'
  <2>1. Follows(s)
    BY <1>6 DEF SeedInv
  <2>2. CASE at = "done"
    BY <1>3, <1>5, <2>1, <2>2 DEF Follows, Owned
  <2>3. CASE at # "done"
    BY <1>3, <1>5, <2>3 DEF Follows
  <2> QED
    BY <2>2, <2>3
<1> QED
  BY <1>3, <1>4, <1>6, SeederMoves

\* One template is done: only rows of its name change.
TemplateStep(s, n, failed) ==
    /\ SeederAt(s, "each") /\ n \in seeders[s].todo /\ Next1(s, n, failed)
    /\ UNCHANGED <<release, overlapped>>
    /\ RowsWell'
    /\ ~overlapped =>
          /\ OneEach'
          /\ \A m : m # n => Named(Owned("platform"), m)' = Named(Owned("platform"), m)
          /\ (~failed /\ ~seeders[s].dry) =>
                \E r \in Owned("platform")' : r.name = n /\ Fresh(r, seeders[s].body)

LEMMA TemplateKeeps ==
  ASSUME SeedInv, NEW s \in Seeders, NEW n \in Templates, NEW failed \in BOOLEAN, TemplateStep(s, n, failed)
  PROVE  SeedInv'
<1>1. seeders[s] \in Seeder /\ seeders \in [Seeders -> Seeder \cup {None}] /\ seeders[s].at = "each"
  BY DEF SeedInv, SeedersWell, TemplateStep, SeederAt
<1>2. PICK bad : bad = (IF failed THEN {n} ELSE {})
  OBVIOUS
<1>3. PICK w : w = [seeders[s] EXCEPT !.todo = seeders[s].todo \ {n}, !.failed = seeders[s].failed \cup bad]
  OBVIOUS
<1>4. /\ w.at = "each" /\ w.seen = seeders[s].seen /\ w.todo = seeders[s].todo \ {n}
      /\ w.failed = seeders[s].failed \cup bad /\ w.dry = seeders[s].dry /\ w.body = seeders[s].body
  BY <1>1, <1>3 DEF Seeder
<1>5. w \in Seeder
  BY <1>1, <1>2, <1>3 DEF Seeder
<1>6. seeders' = [seeders EXCEPT ![s] = w]
  BY <1>1, <1>2, <1>3 DEF TemplateStep, Next1
<1>7. SeedersWell' /\ RowsWell'
  BY <1>1, <1>5, <1>6 DEF SeedInv, SeedersWell, TemplateStep
<1>8. ASSUME ~overlapped' PROVE OneEach' /\ OneSeeder' /\ \A o \in Seeders : Follows(o)'
  <2>0. /\ OneSeeder /\ Follows(s) /\ ~overlapped /\ seeders[s] # None
    BY <1>8 DEF SeedInv, TemplateStep, SeederAt
  <2>1. OneEach'
    BY <2>0 DEF TemplateStep
  <2>2. OneSeeder' /\ \A o \in Seeders \ {s} : seeders'[o] = None
    BY <1>1, <1>6, <2>0 DEF OneSeeder
  <2>3. Follows(s)'
    <3> DEFINE Is(m) == \E r \in Owned("platform") : r.name = m /\ Fresh(r, seeders[s].body)
    <3>1. \A m \in seeders[s].todo : Named(seeders[s].seen, m) = Named(Owned("platform"), m)
      BY <1>1, <2>0 DEF Follows
    <3>2. ~seeders[s].dry => \A m \in Offered \ (seeders[s].todo \cup seeders[s].failed) : Is(m)
      BY <1>1, <2>0 DEF Follows
    <3>3. \A m : m # n => Named(Owned("platform")', m) = Named(Owned("platform"), m)
      BY <2>0 DEF TemplateStep, Named
    <3>4. \A m : m # n /\ Is(m) => \E r \in Owned("platform")' : r.name = m /\ Fresh(r, seeders[s].body)
      BY <3>3 DEF Named
    <3>5. (~failed /\ ~seeders[s].dry) => \E r \in Owned("platform")' : r.name = n /\ Fresh(r, seeders[s].body)
      BY <2>0 DEF TemplateStep
    <3>6. \A m \in w.todo : Named(w.seen, m) = Named(Owned("platform")', m)
      BY <1>4, <3>1, <3>3
    <3>7. ASSUME ~w.dry, NEW m \in Offered \ (w.todo \cup w.failed)
          PROVE  \E r \in Owned("platform")' : r.name = m /\ Fresh(r, w.body)
      <4>1. m = n \/ m \in Offered \ (seeders[s].todo \cup seeders[s].failed)
        BY <1>4, <3>7
      <4>2. CASE m = n
        <5>1. ~failed
          BY <1>2, <1>4, <3>7, <4>2
        <5> QED
          BY <1>4, <3>5, <3>7, <4>2, <5>1
      <4>3. CASE m # n
        BY <1>4, <3>2, <3>4, <3>7, <4>1, <4>3
      <4> QED
        BY <4>2, <4>3
    <3>8. seeders'[s] = w
      BY <1>1, <1>6
    <3>9. Offered' = Offered
      BY DEF Offered
    <3> HIDE DEF Is
    <3> QED
      BY <1>4, <3>6, <3>7, <3>8, <3>9 DEF Follows, Named, Fresh
  <2>4. \A o \in Seeders : o # s => Follows(o)'
    BY <2>2 DEF Follows
  <2> QED
    BY <2>1, <2>2, <2>3, <2>4
<1> QED
  BY <1>7, <1>8 DEF SeedInv

LEMMA RefreshKeeps ==
  ASSUME SeedInv, NEW s \in Seeders, NEW n \in Templates, RefreshSkill(s, n)
  PROVE  SeedInv'
<1>1. /\ SeederAt(s, "each") /\ n \in seeders[s].todo /\ n \notin Unparseable
      /\ UNCHANGED <<rowIds, release, overlapped>>
  BY DEF RefreshSkill
<1>2. /\ seeders[s] \in Seeder /\ seeders[s].at = "each" /\ seeders[s] # None
  BY <1>1 DEF SeedInv, SeedersWell, SeederAt
<1>3. PICK r \in Known(s, n) :
          /\ r.managed # "firestore"
          /\ \/ /\ ~seeders[s].dry
                /\ platformRows' = {IF q.id = r.id THEN Refreshed(q, seeders[s].body) ELSE q : q \in platformRows}
                /\ Next1(s, n, FALSE)
             \/ seeders[s].dry /\ Next1(s, n, FALSE) /\ UNCHANGED platformRows
             \/ Next1(s, n, TRUE) /\ UNCHANGED platformRows
  BY DEF RefreshSkill
<1>4. ASSUME UNCHANGED platformRows, NEW failed \in BOOLEAN, Next1(s, n, failed), failed \/ seeders[s].dry
      PROVE  SeedInv'
  <2>1. RowsWell' /\ (~overlapped => OneEach')
    BY <1>1, <1>4 DEF SeedInv, RowsWell, OneEach, Owned
  <2>2. \A m : Named(Owned("platform"), m)' = Named(Owned("platform"), m)
    BY <1>4 DEF Named, Owned
  <2>3. TemplateStep(s, n, failed)
    BY <1>1, <1>4, <2>1, <2>2 DEF TemplateStep
  <2> QED
    BY <2>3, TemplateKeeps
<1>5. ASSUME platformRows' = {IF q.id = r.id THEN Refreshed(q, seeders[s].body) ELSE q : q \in platformRows},
             Next1(s, n, FALSE)
      PROVE  SeedInv'
  <2> DEFINE new(q) == IF q.id = r.id THEN Refreshed(q, seeders[s].body) ELSE q
  <2>1. platformRows' = {new(q) : q \in platformRows}
    BY <1>5
  <2>2. ASSUME NEW q \in platformRows
        PROVE  /\ new(q) \in Row /\ new(q).id = q.id /\ new(q).name = q.name /\ new(q).owner = q.owner
               /\ q.id # r.id => new(q) = q
               /\ q.id = r.id => new(q).body = seeders[s].body
    BY <1>2 DEF SeedInv, RowsWell, Row, Refreshed, Seeder
  <2> HIDE DEF new
  <2>3. RowsWell'
    <3>1. rowIds' = rowIds /\ platformRows' \subseteq Row
      BY <1>1, <2>1, <2>2
    <3>2. \A p, q \in platformRows' : p.id = q.id => p = q
      BY <2>1, <2>2 DEF SeedInv, RowsWell
    <3>3. \A p \in platformRows' : p.id[1] = "new" => p.id[2] \in Nat /\ p.id[2] < rowIds'
      BY <2>1, <2>2, <3>1 DEF SeedInv, RowsWell
    <3> QED
      BY <3>1, <3>2, <3>3 DEF RowsWell, SeedInv
  <2>4. ASSUME ~overlapped
        PROVE  /\ OneEach'
               /\ \A m : m # n => Named(Owned("platform"), m)' = Named(Owned("platform"), m)
               /\ \E o \in Owned("platform")' : o.name = n /\ Fresh(o, seeders[s].body)
    <3>1. OneEach /\ Follows(s)
      BY <2>4 DEF SeedInv
    <3>2. OneEach'
      BY <2>1, <2>2, <3>1 DEF OneEach, Owned
    <3>3. Named(seeders[s].seen, n) = Named(Owned("platform"), n)
      BY <1>1, <1>2, <3>1 DEF Follows
    <3>4. r \in platformRows /\ r.owner = "platform" /\ r.name = n
      BY <1>3, <3>3 DEF Known, Named, Owned
    <3>5. \A q \in platformRows : q.id = r.id => q = r
      BY <3>4 DEF SeedInv, RowsWell
    <3>6. ASSUME NEW m, m # n PROVE Named(Owned("platform"), m)' = Named(Owned("platform"), m)
      BY <2>1, <2>2, <3>4, <3>5, <3>6 DEF Named, Owned
    <3>7. new(r) \in Owned("platform")' /\ new(r).name = n /\ Fresh(new(r), seeders[s].body)
      BY <2>1, <2>2, <3>4 DEF Owned, Fresh
    <3> QED
      BY <3>2, <3>6, <3>7
  <2>5. TemplateStep(s, n, FALSE)
    BY <1>1, <1>5, <2>3, <2>4 DEF TemplateStep
  <2> QED
    BY <2>5, TemplateKeeps
<1> QED
  BY <1>3, <1>4, <1>5

LEMMA CreateKeeps ==
  ASSUME SeedInv, NEW s \in Seeders, NEW n \in Templates, CreateSeeded(s, n)
  PROVE  SeedInv'
<1>1. /\ SeederAt(s, "each") /\ n \in seeders[s].todo /\ n \notin Unparseable /\ Known(s, n) = {}
      /\ UNCHANGED <<release, overlapped>>
  BY DEF CreateSeeded
<1>2. /\ seeders[s] \in Seeder /\ seeders[s].at = "each" /\ seeders[s] # None
  BY <1>1 DEF SeedInv, SeedersWell, SeederAt
<1>3. ASSUME UNCHANGED <<platformRows, rowIds>>, NEW failed \in BOOLEAN, Next1(s, n, failed), failed \/ seeders[s].dry
      PROVE  SeedInv'
  <2>1. RowsWell' /\ (~overlapped => OneEach')
    BY <1>1, <1>3 DEF SeedInv, RowsWell, OneEach, Owned
  <2>2. \A m : Named(Owned("platform"), m)' = Named(Owned("platform"), m)
    BY <1>3 DEF Named, Owned
  <2>3. TemplateStep(s, n, failed)
    BY <1>1, <1>3, <2>1, <2>2 DEF TemplateStep
  <2> QED
    BY <2>3, TemplateKeeps
<1>4. PICK r : r = [id |-> <<"new", rowIds>>, name |-> n, owner |-> "platform", managed |-> "template",
                    body |-> seeders[s].body, slug |-> TRUE]
  OBVIOUS
<1>5. ASSUME platformRows' = platformRows \cup {r}, rowIds' = rowIds + 1, Next1(s, n, FALSE)
      PROVE  SeedInv'
  <2>1. /\ r.id = <<"new", rowIds>> /\ r.name = n /\ r.owner = "platform" /\ r.body = seeders[s].body
        /\ r.id[1] = "new" /\ r.id[2] = rowIds
    BY <1>4
  <2>2. rowIds \in Nat /\ platformRows \subseteq Row
    BY DEF SeedInv, RowsWell
  <2>3. r \in Row
    BY <1>2, <1>4, <2>2 DEF Row, SeedIds, RowNames, Seeder
  <2>4. RowsWell'
    <3>1. \A q \in platformRows : q.id # r.id
      BY <2>1, <2>2 DEF SeedInv, RowsWell
    <3>2. \A q \in platformRows' : q.id[1] = "new" => q.id[2] \in Nat /\ q.id[2] < rowIds'
      BY <1>5, <2>1, <2>2 DEF SeedInv, RowsWell
    <3> QED
      BY <1>5, <2>2, <2>3, <3>1, <3>2 DEF SeedInv, RowsWell
  <2>5. ASSUME ~overlapped
        PROVE  /\ OneEach'
               /\ \A m : m # n => Named(Owned("platform"), m)' = Named(Owned("platform"), m)
               /\ \E o \in Owned("platform")' : o.name = n /\ Fresh(o, seeders[s].body)
    <3>1. OneEach /\ Follows(s)
      BY <2>5 DEF SeedInv
    <3>2. Named(Owned("platform"), n) = {}
      BY <1>1, <1>2, <3>1 DEF Follows, Known, Named
    <3>3. OneEach'
      BY <1>5, <2>1, <3>1, <3>2 DEF OneEach, Owned, Named
    <3> QED
      BY <1>5, <2>1, <3>3 DEF Owned, Named, Fresh
  <2>6. TemplateStep(s, n, FALSE)
    BY <1>1, <1>5, <2>4, <2>5 DEF TemplateStep
  <2> QED
    BY <2>6, TemplateKeeps
<1> QED
  BY <1>3, <1>4, <1>5 DEF CreateSeeded

LEMMA AdminKeeps ==
  ASSUME SeedInv, NEW r \in Owned("platform"), AdminEdits(r)
  PROVE  SeedInv'
<1>1. UNCHANGED <<rowIds, seeders, release>> /\ r \in platformRows /\ r \in Row /\ r.owner = "platform"
  BY DEF AdminEdits, Owned, SeedInv, RowsWell
<1>2. PICK new : new = [r EXCEPT !.body = 0]
  OBVIOUS
<1>3. new \in Row /\ new.id = r.id /\ new.name = r.name /\ new.owner = r.owner
  BY <1>1, <1>2 DEF Row
<1>4. platformRows' = platformRows \ {r} \/ platformRows' = (platformRows \ {r}) \cup {new}
  BY <1>2 DEF AdminEdits
<1>5. RowsWell'
  BY <1>1, <1>3, <1>4 DEF SeedInv, RowsWell
<1>6. SeedersWell'
  BY <1>1 DEF SeedInv, SeedersWell
<1>7. ASSUME ~overlapped' PROVE OneEach' /\ OneSeeder' /\ \A s \in Seeders : Follows(s)'
  <2>1. ~overlapped /\ \A s \in Seeders : seeders[s] = None
    BY <1>7 DEF AdminEdits
  <2>2. OneEach
    BY <2>1 DEF SeedInv
  <2>3. OneEach'
    BY <1>1, <1>3, <1>4, <2>2 DEF OneEach, Owned
  <2> QED
    BY <1>1, <2>1, <2>3 DEF OneSeeder, Follows
<1> QED
  BY <1>5, <1>6, <1>7 DEF SeedInv

(* With one platform skill a name, a listing of the platform's skills is whole. *)
LEMMA ListingIsWhole ==
  ASSUME SeedInv, ~overlapped, NEW page \in Listed("platform")
  PROVE  page = Owned("platform")
<1> DEFINE f == [r \in Owned("platform") |-> r.name]
<1>1. \A r \in Owned("platform") : r.name \in Templates
  <2>1. RowNames = Templates
    BY SeedAssumption DEF RowNames
  <2> QED
    BY <2>1 DEF SeedInv, RowsWell, Owned, Row
<1>2. f \in Injection(Owned("platform"), Templates)
  BY <1>1 DEF SeedInv, OneEach, Injection, IsInjective
<1>3. Cardinality(Owned("platform")) <= Cardinality(Templates)
  <2> HIDE DEF f
  <2> QED
    BY <1>2, FS_Injection, SeedAssumption
<1>4. IsFiniteSet(Owned("platform"))
  <2> HIDE DEF f
  <2> QED
    BY <1>2, FS_Injection, SeedAssumption
<1>5. Cardinality(Owned("platform")) \in Nat /\ Cardinality(Templates) \in Nat
  BY <1>4, FS_CardinalityType, SeedAssumption
<1> QED
  BY <1>3, <1>5, SeedAssumption DEF Listed

LEMMA SeedStep ==
  ASSUME SeedInv, [SeedNext]_seedVars
  PROVE  SeedInv'
<1>1. ASSUME UNCHANGED <<platformRows, rowIds, seeders, overlapped>>, release' \in Nat PROVE SeedInv'
  BY <1>1, SkillsStay DEF Owned
<1>0. release \in Nat /\ seeders \in [Seeders -> Seeder \cup {None}]
  BY DEF SeedInv, SeedersWell
<1>2. CASE UNCHANGED seedVars
  BY <1>0, <1>1, <1>2 DEF seedVars
<1>3. ASSUME NEW s \in Seeders, NEW email \in {None, "set"}, NEW localMode \in BOOLEAN, NEW dry \in BOOLEAN,
             SeedBegins(s, email, localMode, dry)
      PROVE  SeedInv'
  <2>1. PICK w : w = [at |-> "wildcard", dry |-> dry, body |-> release, seen |-> {}, todo |-> {}, failed |-> {}]
    OBVIOUS
  <2>2. w \in Seeder /\ w.at = "wildcard"
    BY <1>0, <2>1 DEF Seeder
  <2>3. seeders' = [seeders EXCEPT ![s] = w] /\ UNCHANGED <<platformRows, rowIds, release>>
    BY <1>3, <2>1 DEF SeedBegins
  <2>4. ~overlapped' => ~overlapped /\ \A o \in Seeders \ {s} : seeders[o] = None
    BY <1>3 DEF SeedBegins, Alone
  <2>5. Follows(s)'
    BY <1>0, <2>2, <2>3 DEF Follows
  <2> QED
    BY <2>2, <2>3, <2>4, <2>5, SeederMoves
<1>4. ASSUME NEW s \in Seeders, EnsureWildcard(s) \/ GrantWildcard(s) \/ SeedReports(s)
      PROVE  SeedInv'
  <2>1. /\ seeders[s] # None /\ UNCHANGED <<platformRows, rowIds, release, overlapped>>
        /\ \/ Goes(s, "grant") \/ Goes(s, "purge")
           \/ Goes(s, "done") /\ seeders[s].at = "each" /\ seeders[s].todo = {}
    BY <1>4 DEF EnsureWildcard, GrantWildcard, SeedReports, SeederAt
  <2> QED
    BY <2>1, SeederGoes
<1>5. ASSUME NEW s \in Seeders, PurgeStaleOwnerSkills(s) PROVE SeedInv'
  <2>1. CASE Goes(s, "list") /\ UNCHANGED platformRows
    BY <1>5, <2>1, SeederGoes DEF PurgeStaleOwnerSkills, SeederAt
  <2>2. ASSUME NEW r \in Owned("previous"), platformRows' = platformRows \ {r}, UNCHANGED seeders
        PROVE  SeedInv'
    <3>1. Owned("platform")' = Owned("platform") /\ platformRows' \subseteq platformRows
      BY <2>2 DEF Owned
    <3> QED
      BY <1>0, <1>5, <2>2, <3>1, SkillsStay DEF PurgeStaleOwnerSkills
  <2> QED
    BY <1>5, <2>1, <2>2 DEF PurgeStaleOwnerSkills
<1>6. ASSUME NEW s \in Seeders, ExistingPlatformSkills(s) PROVE SeedInv'
  <2>1. seeders[s] # None /\ seeders[s] \in Seeder /\ UNCHANGED <<platformRows, rowIds, release, overlapped>>
    BY <1>0, <1>6 DEF ExistingPlatformSkills, SeederAt
  <2>0. PICK page \in Listed("platform") :
            seeders' = [seeders EXCEPT ![s].at = "each", ![s].seen = page, ![s].todo = Offered]
    BY <1>6, Zenon DEF ExistingPlatformSkills
  <2>2. PICK w : w = [seeders[s] EXCEPT !.at = "each", !.seen = page, !.todo = Offered]
    OBVIOUS
  <2>3. /\ w.at = "each" /\ w.seen = page /\ w.todo = Offered
        /\ w.failed = seeders[s].failed /\ w.dry = seeders[s].dry /\ w.body = seeders[s].body
    BY <2>1, <2>2 DEF Seeder
  <2>4. w \in Seeder
    <3>1. page \subseteq Row /\ Offered \subseteq Templates
      BY DEF SeedInv, RowsWell, Owned, Offered, Listed
    <3> QED
      BY <2>1, <2>2, <3>1 DEF Seeder
  <2>5. seeders' = [seeders EXCEPT ![s] = w]
    BY <2>0, <2>2
  <2>6. seeders'[s] = w
    BY <1>0, <2>5
  <2>7. ~overlapped' => Follows(s)'
    <3> SUFFICES ASSUME ~overlapped' PROVE Follows(s)'
      OBVIOUS
    <3>1. Owned("platform")' = Owned("platform") /\ Offered' = Offered
      BY <2>1 DEF Owned, Offered
    <3>2. page = Owned("platform")
      BY <2>1, ListingIsWhole
    <3> QED
      BY <2>3, <2>6, <3>1, <3>2 DEF Follows, Named
  <2> QED
    BY <2>1, <2>4, <2>5, <2>7, SeederMoves
<1>7. ASSUME NEW s \in Seeders, NEW n \in Templates, TemplateFails(s, n) \/ PreserveDurable(s, n)
      PROVE  SeedInv'
  <2>1. PICK failed \in BOOLEAN : /\ Next1(s, n, failed)
                                  /\ ~failed => \E r \in Known(s, n) : r.managed = "firestore"
    BY <1>7 DEF TemplateFails, PreserveDurable
  <2>2. /\ SeederAt(s, "each") /\ n \in seeders[s].todo /\ UNCHANGED <<platformRows, rowIds, release, overlapped>>
    BY <1>7 DEF TemplateFails, PreserveDurable
  <2>3. RowsWell' /\ (~overlapped => OneEach')
    BY <2>2 DEF SeedInv, RowsWell, OneEach, Owned
  <2>4. Owned("platform")' = Owned("platform") /\ \A m : Named(Owned("platform"), m)' = Named(Owned("platform"), m)
    BY <2>2 DEF Named, Owned
  <2>5. ASSUME ~overlapped, ~failed PROVE \E r \in Owned("platform")' : r.name = n /\ Fresh(r, seeders[s].body)
    <3>1. Named(seeders[s].seen, n) = Named(Owned("platform"), n)
      BY <2>2, <2>5 DEF SeedInv, Follows, SeederAt
    <3> QED
      BY <2>1, <2>4, <2>5, <3>1 DEF Known, Named, Fresh
  <2>6. TemplateStep(s, n, failed)
    BY <2>1, <2>2, <2>3, <2>4, <2>5 DEF TemplateStep
  <2> QED
    BY <2>6, TemplateKeeps
<1>8. ASSUME NEW s \in Seeders, NEW n \in Templates, RefreshSkill(s, n) \/ CreateSeeded(s, n) PROVE SeedInv'
  BY <1>8, RefreshKeeps, CreateKeeps
<1>9. ASSUME NEW s \in Seeders, SeedGone(s) PROVE SeedInv'
  <2>1. /\ seeders' = [seeders EXCEPT ![s] = None] /\ seeders[s] # None
        /\ UNCHANGED <<platformRows, rowIds, release, overlapped>>
    BY <1>9 DEF SeedGone
  <2>2. Follows(s)'
    BY <1>0, <2>1 DEF Follows
  <2> QED
    BY <2>1, <2>2, SeederMoves
<1>10. CASE CleanupLegacy
  <2>1. Owned("platform")' = Owned("platform") /\ platformRows' \subseteq platformRows
    BY <1>10 DEF CleanupLegacy, Owned
  <2> QED
    BY <1>0, <1>10, <2>1, SkillsStay DEF CleanupLegacy
<1>11. ASSUME NEW written, NEW dry, NEW current, SeedToolPermissions(written, dry, current) PROVE SeedInv'
  BY <1>0, <1>1, <1>11 DEF SeedToolPermissions
<1>12. ASSUME NEW o \in Registrars, NEW url, NEW current, RegistrarReads(o, url, current) PROVE SeedInv'
  BY <1>0, <1>1, <1>12 DEF RegistrarReads
<1>13. ASSUME NEW o \in Registrars, RegistrarWrites(o) \/ SeedToolbox(o) \/ SeedMapsGrounding(o) PROVE SeedInv'
  BY <1>0, <1>1, <1>13 DEF RegistrarWrites, SeedToolbox, SeedMapsGrounding
<1>14. ASSUME NEW r \in Owned("platform"), AdminEdits(r) PROVE SeedInv'
  BY <1>14, AdminKeeps
<1>15. CASE Deploy
  BY <1>0, <1>1, <1>15 DEF Deploy
<1> QED
  BY <1>2, <1>3, <1>4, <1>5, <1>6, <1>7, <1>8, <1>9, <1>10, <1>11, <1>12, <1>13, <1>14, <1>15, Zenon DEF SeedNext

\* A seed that reports success has left one skill of its release (or the
\* durable one) for every template it offered and did not fail, whatever
\* seeds died before it, when no other seed or edit ran meanwhile.
THEOREM SeedsConverge == SeedSpec => []SeedConverges
<1>1. SeedInv => SeedConverges
  <2> SUFFICES ASSUME SeedInv, NEW s \in Seeders, seeders[s] # None, seeders[s].at = "done", ~seeders[s].dry,
                      ~overlapped, NEW n \in Offered \ seeders[s].failed
               PROVE  \E r \in Owned("platform") :
                          /\ {q \in Owned("platform") : q.name = n} = {r}
                          /\ r.managed = "firestore" \/ r.body = seeders[s].body
    BY DEF SeedConverges
  <2>1. OneEach /\ Follows(s)
    BY DEF SeedInv
  <2>2. PICK r \in Owned("platform") : r.name = n /\ Fresh(r, seeders[s].body)
    BY <2>1 DEF Follows
  <2> QED
    BY <2>1, <2>2 DEF OneEach, Fresh
<1> QED
  BY <1>1, SeedStarts, SeedStep, PTL DEF SeedSpec

-----------------------------------------------------------------------------
(* The stores of the users: every row carries the user it was written for   *)
(* in its key, and a replacement that is alone knows what it has written.   *)
(* Of memory this is so where PostgreSQL keeps it.                          *)
MemoryRow == [coll : Apps \X StoreUsers, thread : Threads, event : StoredEvents, writer : StoreUsers]
Replacement == [coll : Apps \X StoreUsers, thread : Threads, drop : SUBSET MemoryRow,
                add : SUBSET StoredEvents, whole : SUBSET StoredEvents, alone : BOOLEAN, writer : StoreUsers]

RowsOwned ==
    /\ \A s \in sessionRows : s.app[1] = s.writer
    /\ \A a \in artifactRows : a.user[1] = a.writer
    /\ memoryStore = "postgres" =>
           memoryRows \subseteq MemoryRow /\ \A m \in memoryRows : m.coll[2] = m.writer

ReplacementFollows ==
    /\ replacing \in Replacement \cup {None}
    /\ stored # None => replacing = None
    /\ memoryStore # "postgres" => replacing = None /\ stored = None
    /\ replacing # None =>
          /\ replacing.coll[2] = replacing.writer
          /\ replacing.alone =>
                /\ replacing.add \subseteq replacing.whole
                /\ {m.event : m \in MemoryOf(replacing.coll, replacing.thread) \ replacing.drop}
                       = replacing.whole \ replacing.add

UserInv == RowsOwned /\ OnlyOwnRows /\ ReplacementFollows /\ MemoryIsSnapshot

\* A call that leaves memory alone.
LEMMA MemoryRests ==
  ASSUME ReplacementFollows, MemoryIsSnapshot, UNCHANGED <<memoryRows, memoryStore, replacing, stored>>
  PROVE  ReplacementFollows' /\ MemoryIsSnapshot'
  BY DEF ReplacementFollows, MemoryIsSnapshot, MemoryOf

\* Calls of a memory service that is not the platform's own.
LEMMA ElsewhereKeeps ==
  ASSUME UserInv, memoryStore # "postgres", UNCHANGED <<sessionRows, artifactRows, memoryStore>>,
         replacing' = None, stored' = None, returned' # None => returned'.store = "memory"
  PROVE  UserInv'
BY DEF UserInv, RowsOwned, OnlyOwnRows, ReplacementFollows, MemoryIsSnapshot

\* Calls of the session and artifact stores.
LEMMA SessionCalls ==
  ASSUME UserInv, NEW u \in StoreUsers, NEW app \in Apps, NEW id,
         ListSessions(app, u) \/ CreateSession(app, u, id) \/ GetSession(app, u, id) \/ DeleteSession(app, u, id)
  PROVE  UserInv'
<1>1. UNCHANGED <<memoryRows, memoryStore, replacing, stored, context>> /\ GetResourceUserId # None
      /\ context # None /\ artifactRows' = artifactRows
  BY DEF ListSessions, CreateSession, GetSession, DeleteSession, StoresKept, Rest, RequireResourceUser,
         GetResourceUserId
<1>2. ReplacementFollows' /\ MemoryIsSnapshot'
  BY <1>1, MemoryRests DEF UserInv
<1>3. GetResourceUserId' = GetResourceUserId
  BY <1>1 DEF GetResourceUserId
<1>4. RowsOwned'
  <2>1. CASE CreateSession(app, u, id)
    <3>1. PICK new : new = [app |-> App(app), user |-> u, id |-> id, writer |-> GetResourceUserId]
      OBVIOUS
    <3>2. sessionRows' \subseteq sessionRows \cup {new} /\ new.app[1] = new.writer
      BY <2>1, <3>1 DEF CreateSession, App
    <3> QED
      BY <1>1, <3>2 DEF UserInv, RowsOwned
  <2>2. CASE ~CreateSession(app, u, id)
    <3>1. sessionRows' \subseteq sessionRows
      BY <2>2 DEF ListSessions, GetSession, DeleteSession, StoresKept
    <3> QED
      BY <1>1, <3>1 DEF UserInv, RowsOwned
  <2> QED
    BY <2>1, <2>2
<1>5. OnlyOwnRows'
  <2>1. \A s \in Sessions(app, u) : s.writer = GetResourceUserId
    BY DEF Sessions, App, UserInv, RowsOwned
  <2>2. returned' = None \/ \E kept \in SUBSET Sessions(app, u) : Returns("sessions", kept)
    BY DEF ListSessions, CreateSession, GetSession, DeleteSession
  <2>3. returned' # None => returned'.writers \subseteq {GetResourceUserId}
    BY <2>1, <2>2 DEF Returns
  <2> QED
    BY <1>1, <1>3, <2>3 DEF OnlyOwnRows
<1> QED
  BY <1>2, <1>4, <1>5 DEF UserInv

LEMMA ArtifactCalls ==
  ASSUME UserInv, NEW u \in StoreUsers, NEW app \in Apps, NEW f,
         \/ ListArtifactKeys(app, u) \/ SaveUserArtifact(app, u, f) \/ LoadUserArtifact(app, u, f)
         \/ DeleteUserArtifact(app, u, f)
  PROVE  UserInv'
<1>1. UNCHANGED <<memoryRows, memoryStore, replacing, stored, context>> /\ GetResourceUserId # None
      /\ context # None /\ sessionRows' = sessionRows
  BY DEF ListArtifactKeys, SaveUserArtifact, LoadUserArtifact, DeleteUserArtifact, StoresKept, Rest,
         RequireResourceUser, GetResourceUserId
<1>2. ReplacementFollows' /\ MemoryIsSnapshot'
  BY <1>1, MemoryRests DEF UserInv
<1>3. GetResourceUserId' = GetResourceUserId
  BY <1>1 DEF GetResourceUserId
<1>4. RowsOwned'
  <2>1. CASE SaveUserArtifact(app, u, f)
    <3>1. PICK new : new = [app |-> ArtifactScope(app, u).app, user |-> ArtifactScope(app, u).user,
                            name |-> f, writer |-> GetResourceUserId]
      OBVIOUS
    <3>2. artifactRows' = artifactRows \cup {new} /\ new.user[1] = new.writer
      BY <2>1, <3>1 DEF SaveUserArtifact, ArtifactScope
    <3> QED
      BY <1>1, <3>2 DEF UserInv, RowsOwned
  <2>2. CASE ~SaveUserArtifact(app, u, f)
    <3>1. artifactRows' \subseteq artifactRows
      BY <2>2 DEF ListArtifactKeys, LoadUserArtifact, DeleteUserArtifact, StoresKept
    <3> QED
      BY <1>1, <3>1 DEF UserInv, RowsOwned
  <2> QED
    BY <2>1, <2>2
<1>5. OnlyOwnRows'
  <2>1. \A a \in Artifacts(app, u) : a.writer = GetResourceUserId
    BY DEF Artifacts, ArtifactScope, UserInv, RowsOwned
  <2>2. returned' = None \/ \E kept \in SUBSET Artifacts(app, u) : Returns("artifacts", kept)
    BY DEF ListArtifactKeys, SaveUserArtifact, LoadUserArtifact, DeleteUserArtifact
  <2>3. returned' # None => returned'.writers \subseteq {GetResourceUserId}
    BY <2>1, <2>2 DEF Returns
  <2> QED
    BY <1>1, <1>3, <2>3 DEF OnlyOwnRows
<1> QED
  BY <1>2, <1>4, <1>5 DEF UserInv

\* Calls of the memory store.
LEMMA MemoryCalls ==
  ASSUME UserInv, None \notin StoreUsers, memoryStore = "postgres", NEW u \in StoreUsers, NEW app \in Apps, NEW id \in Threads,
         \/ \E snapshot \in SUBSET StoredEvents : ReplaceBegins(app, u, id, snapshot)
         \/ \E e \in StoredEvents : AddEvents(app, u, id, e)
  PROVE  UserInv'
<1> DEFINE here == <<app, u>>
<1>1. /\ UNCHANGED <<sessionRows, artifactRows, memoryStore, context>> /\ context # None
      /\ GetResourceUserId = u /\ ScopeCollection(app, u) = here
  BY DEF ReplaceBegins, AddEvents, ScopeCollection, RequireResourceUser, GetResourceUserId, StoresKept, Rest
<1>2. here \in Apps \X StoreUsers /\ here[2] = u
  OBVIOUS
<1> HIDE DEF here
<1>3. ASSUME NEW snapshot \in SUBSET StoredEvents, ReplaceBegins(app, u, id, snapshot) PROVE UserInv'
  <2>1. PICK q : q = [coll |-> here, thread |-> id, drop |-> StaleRows(here, id), add |-> snapshot,
                      whole |-> snapshot, alone |-> TRUE, writer |-> u]
    OBVIOUS
  <2>2. replacing' = q /\ memoryRows' = memoryRows /\ stored' = None /\ returned' = None
    BY <1>1, <1>3, <2>1 DEF ReplaceBegins, StoresKept
  <2>3. StaleRows(here, id) \in SUBSET MemoryRow
    BY DEF StaleRows, UserInv, RowsOwned
  <2>4. q \in Replacement
    BY <1>2, <2>1, <2>3 DEF Replacement
  <2>5. /\ q.coll = here /\ q.writer = u /\ q.add = snapshot /\ q.whole = snapshot
        /\ q.drop = MemoryOf(q.coll, q.thread)
    BY <2>1 DEF StaleRows, MemoryOf
  <2>6. MemoryOf(q.coll, q.thread)' = MemoryOf(q.coll, q.thread)
    BY <2>2 DEF MemoryOf
  <2>7. ReplacementFollows'
    BY <1>1, <1>2, <2>2, <2>4, <2>5, <2>6 DEF ReplacementFollows, MemoryOf
  <2> QED
    BY <1>1, <2>2, <2>7 DEF UserInv, RowsOwned, OnlyOwnRows, MemoryIsSnapshot
<1>4. ASSUME NEW e \in StoredEvents, AddEvents(app, u, id, e) PROVE UserInv'
  <2>1. PICK new : new = [coll |-> here, thread |-> id, event |-> e, writer |-> u]
    OBVIOUS
  <2>0. MemoryRows(here, id, {e}) = {new}
    BY <1>1, <2>1 DEF MemoryRows
  <2>2. /\ memoryRows' = memoryRows \cup {new} /\ stored' = None /\ returned' = None
        /\ replacing' = IF replacing = None THEN None ELSE [replacing EXCEPT !.alone = FALSE]
    BY <1>1, <1>4, <2>0 DEF AddEvents
  <2>3. new \in MemoryRow /\ new.coll[2] = new.writer
    BY <1>2, <2>1 DEF MemoryRow
  <2>4. ReplacementFollows'
    <3>1. CASE replacing = None
      BY <1>1, <2>2, <3>1 DEF ReplacementFollows
    <3>2. CASE replacing # None
      <4>1. replacing \in Replacement /\ replacing.coll[2] = replacing.writer
        BY <3>2 DEF UserInv, ReplacementFollows
      <4>2. /\ replacing' \in Replacement /\ replacing'.coll = replacing.coll
            /\ replacing'.writer = replacing.writer /\ ~replacing'.alone
        BY <2>2, <3>2, <4>1 DEF Replacement
      <4> QED
        BY <1>1, <2>2, <4>1, <4>2 DEF ReplacementFollows
    <3> QED
      BY <3>1, <3>2
  <2> QED
    BY <1>1, <2>2, <2>3, <2>4 DEF UserInv, RowsOwned, OnlyOwnRows, MemoryIsSnapshot
<1> QED
  BY <1>3, <1>4

LEMMA SearchCall ==
  ASSUME UserInv, memoryStore = "postgres", NEW u \in StoreUsers, NEW app \in Apps, NEW query,
         SearchMemory(app, u, query)
  PROVE  UserInv'
<1>1. UNCHANGED <<sessionRows, artifactRows, memoryRows, memoryStore, replacing, stored, context>>
  BY DEF SearchMemory, StoresKept, Rest
<1>2. context # None /\ GetResourceUserId = u /\ ScopeCollection(app, u) = <<app, u>>
  BY DEF SearchMemory, ScopeCollection, RequireResourceUser, GetResourceUserId
<1>3. \A m \in memoryRows : m.coll = <<app, u>> => m.writer = u
  BY DEF UserInv, RowsOwned
<1>4. returned' # None => returned'.writers \subseteq {u}
  BY <1>2, <1>3 DEF SearchMemory, Returns
<1>5. GetResourceUserId' = u
  BY <1>1, <1>2 DEF GetResourceUserId
<1> QED
  BY <1>1, <1>2, <1>4, <1>5, MemoryRests DEF UserInv, RowsOwned, OnlyOwnRows

\* A replacement deletes what it listed, then writes its snapshot.
LEMMA ReplaceSteps ==
  ASSUME UserInv, ReplaceStep
  PROVE  UserInv'
<1>1. /\ replacing # None /\ replacing \in Replacement /\ replacing.coll[2] = replacing.writer /\ stored = None
      /\ UNCHANGED <<context, sessionRows, artifactRows, memoryStore>> /\ returned' = None
      /\ memoryStore = "postgres"
      /\ replacing.alone =>
                /\ replacing.add \subseteq replacing.whole
                /\ {m.event : m \in MemoryOf(replacing.coll, replacing.thread) \ replacing.drop}
                       = replacing.whole \ replacing.add
  BY DEF ReplaceStep, Rest, UserInv, ReplacementFollows
<1>2. ASSUME NEW m \in replacing.drop, memoryRows' = memoryRows \ {m},
             replacing' = [replacing EXCEPT !.drop = @ \ {m}], UNCHANGED stored
      PROVE  UserInv'
  <2>1. PICK q : q = [replacing EXCEPT !.drop = replacing.drop \ {m}]
    OBVIOUS
  <2>2. /\ q.coll = replacing.coll /\ q.thread = replacing.thread /\ q.drop = replacing.drop \ {m}
        /\ q.add = replacing.add /\ q.whole = replacing.whole /\ q.alone = replacing.alone
        /\ q.writer = replacing.writer
    BY <1>1, <2>1 DEF Replacement
  <2>3. q \in Replacement
    BY <1>1, <2>1 DEF Replacement
  <2>4. replacing' = q
    BY <1>2, <2>1
  <2>5. MemoryOf(q.coll, q.thread)' \ q.drop = MemoryOf(replacing.coll, replacing.thread) \ replacing.drop
    BY <1>2, <2>2 DEF MemoryOf
  <2>6. ReplacementFollows'
    BY <1>1, <1>2, <2>2, <2>3, <2>4, <2>5 DEF ReplacementFollows, MemoryOf
  <2> QED
    BY <1>1, <1>2, <2>6 DEF UserInv, RowsOwned, OnlyOwnRows, MemoryIsSnapshot
<1>3. ASSUME NEW e \in replacing.add, replacing.drop = {}, UNCHANGED stored,
             memoryRows' = memoryRows \cup {[coll |-> replacing.coll, thread |-> replacing.thread, event |-> e,
                                             writer |-> replacing.writer]},
             replacing' = [replacing EXCEPT !.add = @ \ {e}]
      PROVE  UserInv'
  <2>1. PICK q : q = [replacing EXCEPT !.add = replacing.add \ {e}]
    OBVIOUS
  <2>2. /\ q.coll = replacing.coll /\ q.thread = replacing.thread /\ q.drop = {}
        /\ q.add = replacing.add \ {e} /\ q.whole = replacing.whole /\ q.alone = replacing.alone
        /\ q.writer = replacing.writer
    BY <1>1, <1>3, <2>1 DEF Replacement
  <2>3. q \in Replacement
    BY <1>1, <2>1 DEF Replacement
  <2>4. PICK new : new = [coll |-> replacing.coll, thread |-> replacing.thread, event |-> e,
                          writer |-> replacing.writer]
    OBVIOUS
  <2>5. /\ new \in MemoryRow /\ new.coll[2] = new.writer /\ new.event = e
        /\ new.coll = replacing.coll /\ new.thread = replacing.thread
    BY <1>1, <2>4 DEF Replacement, MemoryRow
  <2>6. replacing' = q /\ memoryRows' = memoryRows \cup {new}
    BY <1>3, <2>1, <2>4
  <2>7. MemoryOf(q.coll, q.thread)' = MemoryOf(replacing.coll, replacing.thread) \cup {new}
    BY <2>2, <2>5, <2>6 DEF MemoryOf
  <2>8. replacing.alone =>
            {m.event : m \in MemoryOf(replacing.coll, replacing.thread) \cup {new}} = q.whole \ q.add
    BY <1>1, <1>3, <2>2, <2>5
  <2>9. ReplacementFollows'
    BY <1>1, <1>3, <2>2, <2>3, <2>6, <2>7, <2>8 DEF ReplacementFollows
  <2> QED
    BY <1>1, <1>3, <2>5, <2>6, <2>9 DEF UserInv, RowsOwned, OnlyOwnRows, MemoryIsSnapshot
<1>4. ASSUME replacing.drop = {}, replacing.add = {}, replacing' = None, UNCHANGED memoryRows,
             stored' = IF replacing.alone
                       THEN [coll |-> replacing.coll, thread |-> replacing.thread,
                             events |-> replacing.whole] ELSE None
      PROVE  UserInv'
  <2>1. ReplacementFollows'
    BY <1>1, <1>4 DEF ReplacementFollows
  <2>2. PICK q : q = replacing
    OBVIOUS
  <2>3. MemoryIsSnapshot'
    <3>1. CASE ~q.alone
      BY <1>4, <2>2, <3>1 DEF MemoryIsSnapshot
    <3>2. CASE q.alone
      <4>1. PICK w : w = [coll |-> q.coll, thread |-> q.thread, events |-> q.whole]
        OBVIOUS
      <4>2. stored' = w /\ w.coll = q.coll /\ w.thread = q.thread /\ w.events = q.whole
        BY <1>4, <2>2, <3>2, <4>1
      <4>3. MemoryOf(q.coll, q.thread)' = MemoryOf(q.coll, q.thread)
        BY <1>4 DEF MemoryOf
      <4>4. {m.event : m \in MemoryOf(q.coll, q.thread)} = q.whole
        BY <1>1, <1>4, <2>2, <3>2
      <4> QED
        BY <4>2, <4>3, <4>4 DEF MemoryIsSnapshot
    <3> QED
      BY <3>1, <3>2
  <2> QED
    BY <1>1, <1>4, <2>1, <2>3 DEF UserInv, RowsOwned, OnlyOwnRows
<1> QED
  BY <1>2, <1>3, <1>4 DEF ReplaceStep

LEMMA UserStep ==
  ASSUME UserInv, None \notin StoreUsers, [UserNext]_userVars
  PROVE  UserInv'
<1>1. ASSUME UNCHANGED <<sessionRows, artifactRows, memoryRows, memoryStore, replacing, stored>>, returned' = None
      PROVE  UserInv'
  BY <1>1, MemoryRests DEF UserInv, RowsOwned, OnlyOwnRows
<1>2. CASE UNCHANGED userVars
  BY <1>2, MemoryRests DEF userVars, UserInv, RowsOwned, OnlyOwnRows, GetResourceUserId
<1>3. ASSUME NEW u \in StoreUsers,
             \/ SetUserContext(u) \/ AuthorizedResourceUser(u)
             \/ \E users \in SUBSET StoreUsers : ChangeSharing(u, users)
      PROVE  UserInv'
  BY <1>1, <1>3 DEF SetUserContext, AuthorizedResourceUser, ChangeSharing, StoresKept, Rest
<1>4. CASE RequestEnds
  BY <1>1, <1>4 DEF RequestEnds, StoresKept, Rest
<1>5. CASE ProcessRestarts
  BY <1>5 DEF ProcessRestarts, Rest, GetSessionService, UserInv, RowsOwned, OnlyOwnRows, ReplacementFollows,
              MemoryIsSnapshot, MemoryOf
<1>6. CASE ReplaceStep
  BY <1>6, ReplaceSteps
<1>7. ASSUME NEW u \in StoreUsers, NEW app \in Apps,
             \/ ListSessions(app, u) \/ ListArtifactKeys(app, u)
             \/ \E id \in Threads : CreateSession(app, u, id) \/ GetSession(app, u, id)
                                    \/ DeleteSession(app, u, id)
             \/ \E f \in Files : SaveUserArtifact(app, u, f) \/ LoadUserArtifact(app, u, f)
                                 \/ DeleteUserArtifact(app, u, f)
      PROVE  UserInv'
  BY <1>7, SessionCalls, ArtifactCalls
<1>8. ASSUME NEW u \in StoreUsers, NEW app \in Apps, NEW id \in Threads, NEW snapshot \in SUBSET StoredEvents,
             ReplaceBegins(app, u, id, snapshot) \/ AddSessionElsewhere(app, u, id, snapshot)
      PROVE  UserInv'
  <2>1. CASE ReplaceBegins(app, u, id, snapshot)
    BY <2>1, MemoryCalls DEF ReplaceBegins
  <2>2. CASE AddSessionElsewhere(app, u, id, snapshot)
    <3>1. /\ memoryStore # "postgres" /\ UNCHANGED <<sessionRows, artifactRows, memoryStore, replacing>>
          /\ stored' = None /\ returned' = None
      BY <2>2 DEF AddSessionElsewhere, Rest
    <3> QED
      BY <3>1, ElsewhereKeeps DEF UserInv, ReplacementFollows
  <2> QED
    BY <1>8, <2>1, <2>2
<1>9. ASSUME NEW u \in StoreUsers, NEW app \in Apps, NEW id \in Threads, NEW e \in StoredEvents, AddEvents(app, u, id, e)
      PROVE  UserInv'
  <2>1. CASE memoryStore = "postgres"
    BY <1>9, <2>1, MemoryCalls
  <2>2. CASE memoryStore # "postgres"
    <3>1. replacing = None
      BY <2>2 DEF UserInv, ReplacementFollows
    <3>2. /\ UNCHANGED <<sessionRows, artifactRows, memoryStore>>
          /\ replacing' = None /\ stored' = None /\ returned' = None
      BY <1>9, <3>1 DEF AddEvents, Rest
    <3> QED
      BY <2>2, <3>2, ElsewhereKeeps
  <2> QED
    BY <2>1, <2>2
<1>10. ASSUME NEW u \in StoreUsers, NEW app \in Apps, NEW query \in SUBSET StoredEvents, SearchMemory(app, u, query)
       PROVE  UserInv'
  <2>1. CASE memoryStore = "postgres"
    BY <1>10, <2>1, SearchCall
  <2>2. CASE memoryStore # "postgres"
    <3>1. replacing = None /\ stored = None
      BY <2>2 DEF UserInv, ReplacementFollows
    <3>2. /\ UNCHANGED <<sessionRows, artifactRows, memoryStore>>
          /\ replacing' = None /\ stored' = None /\ returned'.store = "memory"
      BY <1>10, <3>1 DEF SearchMemory, StoresKept, Rest, Returns
    <3> QED
      BY <2>2, <3>2, ElsewhereKeeps
  <2> QED
    BY <2>1, <2>2
<1> QED
  BY <1>2, <1>3, <1>4, <1>5, <1>6, <1>7, <1>8, <1>9, <1>10, Zenon DEF UserNext

\* Whatever user a call of sessions, artifacts or PostgreSQL memory names, it
\* returns rows of the request's own user (or of the owner an access check
\* selected); and after an undisturbed replacement a session's memory there is
\* its snapshot, whatever died before.
THEOREM UsersGetTheirOwn == UserSpec => [](OnlyOwnRows /\ MemoryIsSnapshot)
<1>1. UserInit => UserInv
  <2> SUFFICES ASSUME UserInit PROVE UserInv
    OBVIOUS
  <2>1. sessionRows = {} /\ artifactRows = {} /\ memoryRows = {}
    BY Zenon DEF UserInit
  <2>2. replacing = None /\ stored = None /\ returned = None
    BY Zenon DEF UserInit
  <2> QED
    BY <2>1, <2>2 DEF UserInv, RowsOwned, OnlyOwnRows, ReplacementFollows, MemoryIsSnapshot
<1>2. None \notin StoreUsers
  BY UserStoreAssumption
<1>3. UserInv /\ [UserNext]_userVars => UserInv'
  BY <1>2, UserStep
<1>4. UserInv => OnlyOwnRows /\ MemoryIsSnapshot
  BY DEF UserInv
<1> QED
  BY <1>1, <1>3, <1>4, PTL DEF UserSpec

-----------------------------------------------------------------------------
(* Buckets: both writes of a folder resolve its access again.               *)
FolderFields == {"owner", "access", "effective"}
FoldersWell ==
    /\ folders = [k \in BucketIds \X FolderIds |-> folders[k]]
    /\ \A k \in BucketIds \X FolderIds : folders[k] # None => DOMAIN folders[k] = FolderFields
    /\ DOMAIN bucketReqs = BucketRequests
    /\ \A r \in BucketRequests : bucketReqs[r] # None =>
           bucketReqs[r].bucket \in BucketIds /\ bucketReqs[r].folder \in FolderIds
BucketsInv == BucketsTypeOK /\ DOMAIN signedUrls = BucketUsers /\ FoldersWell /\ EffectiveIsOwn

\* A step that leaves folders alone.
FoldersRest ==
    /\ UNCHANGED <<folders, bucketReqs, signedUrls>>
    /\ BucketOp \/ UNCHANGED bucketOps

LEMMA FoldersStay == BucketsInv /\ FoldersRest => BucketsInv'
<1> SUFFICES ASSUME BucketsInv, FoldersRest PROVE BucketsInv'
  OBVIOUS
<1>1. bucketOps' \in 0..MaxBucketOps
  BY BucketAssumption DEF BucketsInv, BucketsTypeOK, FoldersRest, BucketOp
<1> QED
  BY <1>1 DEF BucketsInv, BucketsTypeOK, FoldersWell, EffectiveIsOwn, FoldersRest

\* A step that writes one folder.
LEMMA FolderWritten ==
  ASSUME BucketsInv, NEW k \in BucketIds \X FolderIds, NEW row,
         folders' = [folders EXCEPT ![k] = row],
         row # None => DOMAIN row = FolderFields /\ (row.access # None => row.effective = row.access),
         UNCHANGED signedUrls, BucketOp \/ UNCHANGED bucketOps,
         \/ UNCHANGED bucketReqs
         \/ \E r \in BucketRequests : bucketReqs' = [bucketReqs EXCEPT ![r] = None]
  PROVE  BucketsInv'
<1>1. BucketsTypeOK'
  BY BucketAssumption DEF BucketsInv, BucketsTypeOK, BucketOp
<1>2. /\ folders' = [j \in BucketIds \X FolderIds |-> folders'[j]]
      /\ \A j \in BucketIds \X FolderIds : folders'[j] = IF j = k THEN row ELSE folders[j]
  BY DEF BucketsInv, FoldersWell
<1>3. FoldersWell' /\ EffectiveIsOwn'
  BY <1>2 DEF BucketsInv, FoldersWell, EffectiveIsOwn
<1> QED
  BY <1>1, <1>3 DEF BucketsInv

\* A request that read its parent is on its way to one folder.
LEMMA FolderAsked ==
  ASSUME BucketsInv, NEW r \in BucketRequests, NEW q, q.bucket \in BucketIds, q.folder \in FolderIds,
         bucketReqs' = [bucketReqs EXCEPT ![r] = q], UNCHANGED <<folders, signedUrls>>, BucketOp
  PROVE  BucketsInv'
<1>1. BucketsTypeOK'
  BY BucketAssumption DEF BucketsInv, BucketsTypeOK, BucketOp
<1> QED
  BY <1>1 DEF BucketsInv, FoldersWell, EffectiveIsOwn

LEMMA BucketsStep == BucketsInv /\ [BucketsNext]_bucketVars => BucketsInv'
<1> SUFFICES ASSUME BucketsInv, [BucketsNext]_bucketVars PROVE BucketsInv'
  OBVIOUS
<1>1. CASE UNCHANGED bucketVars
  BY <1>1, FoldersStay DEF bucketVars, FoldersRest
<1>2. ASSUME NEW u \in BucketUsers, NEW b \in BucketIds,
             \/ \E access \in SUBSET BucketUsers, domains \in BOOLEAN :
                    CreateBucket(u, b, access, domains) \/ UpdateBucket(u, b, access, domains)
             \/ DeleteBucket(u, b) \/ ListBucketObjects(u, b) \/ ListFolders(u, b) \/ ListBuckets(u)
      PROVE  BucketsInv'
  BY <1>2, FoldersStay DEF CreateBucket, UpdateBucket, DeleteBucket, ListBucketObjects, ListFolders, ListBuckets,
                           FoldersRest
<1>3. ASSUME NEW u \in BucketUsers, NEW r \in BucketRequests,
             GetOrCreateUserCorpus(r, u) \/ \E c \in Corpora : CreateCorpus(r, u, c)
      PROVE  BucketsInv'
  BY <1>3, FoldersStay DEF GetOrCreateUserCorpus, CreateCorpus, FoldersRest
<1>4. ASSUME NEW u \in BucketUsers, ListBuckets(u) PROVE BucketsInv'
  BY <1>4, FoldersStay DEF ListBuckets, FoldersRest
<1>5. ASSUME NEW u \in BucketUsers, NEW b \in BucketIds, NEW f \in FolderIds, DeleteFolder(u, b, f)
      PROVE  BucketsInv'
  BY <1>5, FolderWritten DEF DeleteFolder, DropFolder
<1>6. ASSUME NEW u \in BucketUsers, NEW b \in BucketIds, NEW r \in BucketRequests, FolderSteps(r, u, b)
      PROVE  BucketsInv'
  <2>1. PICK f \in FolderIds, access \in {None} \cup SUBSET BucketUsers :
            CreateFolderReads(r, u, b, f, access) \/ UpdateFolderReads(r, u, b, f, access)
    BY <1>6 DEF FolderSteps
  <2>2. PICK op \in {"create", "update"} :
            /\ bucketReqs' = [bucketReqs EXCEPT ![r] =
                   [op |-> op, user |-> u, bucket |-> b, folder |-> f, access |-> access, parent |-> buckets[b]]]
            /\ UNCHANGED <<folders, signedUrls>> /\ BucketOp
    BY <2>1 DEF CreateFolderReads, UpdateFolderReads
  <2>3. PICK q : q = [op |-> op, user |-> u, bucket |-> b, folder |-> f, access |-> access, parent |-> buckets[b]]
    OBVIOUS
  <2> QED
    BY <2>2, <2>3, FolderAsked
<1>7. ASSUME NEW r \in BucketRequests, CreateFolderWrites(r) PROVE BucketsInv'
  <2>1. PICK q : q = bucketReqs[r]
    OBVIOUS
  <2>2. /\ <<q.bucket, q.folder>> \in BucketIds \X FolderIds
        /\ bucketReqs' = [bucketReqs EXCEPT ![r] = None]
        /\ PutFolder(q.bucket, q.folder, q.user, q.access, q.parent) /\ UNCHANGED <<signedUrls, bucketOps>>
    BY <1>7, <2>1 DEF CreateFolderWrites, BucketsInv, FoldersWell
  <2>3. PICK row : row = [owner |-> q.user, access |-> q.access,
                          effective |-> ComputeEffectiveAccess(q.access, q.parent)]
    OBVIOUS
  <2>4. DOMAIN row = FolderFields /\ (row.access # None => row.effective = row.access)
    BY <2>3 DEF FolderFields, ComputeEffectiveAccess
  <2>5. folders' = [folders EXCEPT ![<<q.bucket, q.folder>>] = row]
    BY <2>2, <2>3 DEF PutFolder
  <2> QED
    BY <2>2, <2>4, <2>5, FolderWritten
<1>8. ASSUME NEW r \in BucketRequests, UpdateFolderWrites(r) PROVE BucketsInv'
  <2>1. PICK q : q = bucketReqs[r]
    OBVIOUS
  <2>2. /\ q.bucket \in BucketIds /\ q.folder \in FolderIds
        /\ bucketReqs' = [bucketReqs EXCEPT ![r] = None]
        /\ ChangeFolder(q.bucket, q.folder, q.access, q.parent) /\ UNCHANGED <<signedUrls, bucketOps>>
    BY <1>8, <2>1 DEF UpdateFolderWrites, BucketsInv, FoldersWell
  <2>3. PICK k \in BucketIds \X FolderIds : k = <<q.bucket, q.folder>>
    BY <2>2
  <2>4. PICK row : row = IF q.folder \notin StoredFolders(q.bucket) \/ q.access = None THEN folders[k]
                         ELSE [folders[k] EXCEPT !.access = q.access,
                                                 !.effective = ComputeEffectiveAccess(q.access, q.parent)]
    OBVIOUS
  <2>5. folders' = [folders EXCEPT ![k] = row]
    <3>1. CASE q.folder \notin StoredFolders(q.bucket) \/ q.access = None
      BY <2>2, <2>4, <3>1 DEF ChangeFolder, BucketsInv, FoldersWell
    <3>2. CASE ~(q.folder \notin StoredFolders(q.bucket) \/ q.access = None)
      BY <2>2, <2>3, <2>4, <3>2 DEF ChangeFolder
    <3> QED
      BY <3>1, <3>2
  <2>6. row # None => DOMAIN row = FolderFields /\ (row.access # None => row.effective = row.access)
    <3>1. CASE q.folder \notin StoredFolders(q.bucket) \/ q.access = None
      BY <2>4, <3>1 DEF BucketsInv, FoldersWell, EffectiveIsOwn
    <3>2. CASE ~(q.folder \notin StoredFolders(q.bucket) \/ q.access = None)
      <4>1. folders[k] # None
        BY <2>2, <2>3, <3>2 DEF StoredFolders
      <4>2. DOMAIN folders[k] = FolderFields
        BY <4>1 DEF BucketsInv, FoldersWell
      <4> QED
        BY <2>4, <3>2, <4>2 DEF FolderFields, ComputeEffectiveAccess
    <3> QED
      BY <3>1, <3>2
  <2> QED
    BY <2>2, <2>5, <2>6, FolderWritten
<1>9. ASSUME NEW u \in BucketUsers, NEW configured, NEW ownAccount, NEW failing, NEW asked \in {None, 0, MaxTtl + 1},
             BuildSignedUrls(u, BucketIds \X FolderIds, configured, ownAccount, failing, asked)
      PROVE  BucketsInv'
  <2>1. PICK urls, unavailable, ttl : /\ signedUrls' = [signedUrls EXCEPT ![u] =
                                              [urls |-> urls, unavailable |-> unavailable, ttl |-> ttl]]
                                      /\ ttl \in 0..MaxTtl
    <3>1. ClampedTtl(asked, None) \in 0..MaxTtl
      BY BucketAssumption DEF ClampedTtl, DefaultTtl
    <3>2. 0 \in 0..MaxTtl
      BY BucketAssumption
    <3>3. CASE SignerAvailable(configured, ownAccount)
      BY <1>9, <3>1, <3>3 DEF BuildSignedUrls
    <3>4. CASE ~SignerAvailable(configured, ownAccount)
      BY <1>9, <3>2, <3>4 DEF BuildSignedUrls
    <3> QED
      BY <3>3, <3>4
  <2>2. PICK w : w = [urls |-> urls, unavailable |-> unavailable, ttl |-> ttl]
    OBVIOUS
  <2>3. w.ttl \in 0..MaxTtl /\ signedUrls' = [signedUrls EXCEPT ![u] = w]
    BY <2>1, <2>2
  <2>4. BucketOp /\ UNCHANGED <<folders, bucketReqs>>
    BY <1>9 DEF BuildSignedUrls
  <2>5. BucketsTypeOK' /\ DOMAIN signedUrls' = BucketUsers
    BY <2>3, <2>4, BucketAssumption DEF BucketsInv, BucketsTypeOK, BucketOp
  <2> QED
    BY <2>4, <2>5 DEF BucketsInv, FoldersWell, EffectiveIsOwn
<1> QED
  BY <1>1, <1>2, <1>3, <1>4, <1>5, <1>6, <1>7, <1>8, <1>9, Zenon DEF BucketsNext

\* A folder's own access governs it, however edits of the folder and of its
\* bucket interleave; and a signed URL never outlives MAX_TTL_SECONDS.
THEOREM FoldersAreGoverned == BucketsSpec => [](BucketsTypeOK /\ EffectiveIsOwn)
<1>1. BucketsInit => BucketsInv
  BY BucketAssumption DEF BucketsInit, BucketsInv, BucketsTypeOK, FoldersWell, EffectiveIsOwn
<1>2. BucketsInv => BucketsTypeOK /\ EffectiveIsOwn
  BY DEF BucketsInv
<1> QED
  BY <1>1, <1>2, BucketsStep, PTL DEF BucketsSpec

-----------------------------------------------------------------------------
(* Documents: which requests stand for a row or a binary.                   *)

\* The document is a library object's: no upload ever writes its binary.
Referring(d) ==
    \/ fileRows[d] # None /\ fileRows[d].url # None
    \/ \E r \in FileRequests :
          /\ fileReqs[r] # None /\ fileReqs[r].doc = d
          /\ fileReqs[r].op = "import" \/ (fileReqs[r].op = "delete" /\ fileReqs[r].row.url # None)

DocsUsed ==
    \A r \in FileRequests : fileReqs[r] # None =>
        /\ fileReqs[r].doc # None => fileReqs[r].doc \in usedIds
        /\ fileReqs[r].op # "import" => fileReqs[r].doc # None
        /\ fileReqs[r].op = "delete" => fileReqs[r].row # None
        /\ fileReqs[r].op = "import" => fileReqs[r].kind \in Library

\* An upload that has stored its result left no pending row behind.
ParsedOnce ==
    \A r \in FileRequests :
        (fileReqs[r] # None /\ fileReqs[r].op = "upload" /\ fileReqs[r].pc \in {"count", "size"}) =>
            fileRows[fileReqs[r].doc] = None \/ fileRows[fileReqs[r].doc].status # "pending"

DeletesMarked ==
    \A r \in FileRequests :
        (fileReqs[r] # None /\ fileReqs[r].op = "delete" /\ Uploading(fileReqs[r].doc)) => fileReqs[r].doc \in raced

ReferencesApart == \A d \in FileIds : Referring(d) => d \notin objects \ Library /\ ~Uploading(d)

\* A delete that is about to remove the row has removed the binary.
RowsLast ==
    \A r \in FileRequests :
        (fileReqs[r] # None /\ fileReqs[r].op = "delete" /\ fileReqs[r].pc = "row") =>
            fileReqs[r].doc \notin objects \ (Library \cup raced)

\* Only a delete takes the row of an upload away.
UploadRows ==
    \A r \in FileRequests :
        (fileReqs[r] # None /\ fileReqs[r].op = "upload") =>
            fileRows[fileReqs[r].doc] # None \/ fileReqs[r].doc \in raced

FilesInv ==
    /\ FilesTypeOK /\ DocsUsed /\ ParsedOnce /\ DeletesMarked /\ ReferencesApart /\ RowsLast /\ UploadRows
    /\ PendingIsExplained /\ BinariesHaveRows

\* Request r goes from p to q (or ends, q being None) and writes row as d's row.
RequestMoves(r, p, q, d, row) ==
    /\ p = fileReqs[r] /\ p # None /\ fileReqs' = [fileReqs EXCEPT ![r] = q] /\ q \in FileRequest \cup {None}
    /\ q # None => q.op = p.op /\ q.doc = p.doc /\ q.row = p.row /\ q.kind = p.kind
    /\ d \in FileIds /\ row \in FileRow \cup {None} /\ fileRows' = [fileRows EXCEPT ![d] = row]
    /\ usedIds \subseteq usedIds' /\ usedIds' \subseteq FileIds /\ UNCHANGED <<raced, fileOps>>
    /\ objects' \subseteq objects \cup (IF p.op = "upload" THEN {p.doc} ELSE {})
    /\ row # None => d \in usedIds'
    /\ row # None /\ row.status = "pending" => fileRows[d] # None /\ fileRows[d].status = "pending"
    /\ cutShort \subseteq cutShort' /\ cutShort' \subseteq usedIds'
    /\ p.op = "upload" /\ (q = None \/ q.pc = "late") =>
           p.pc = "late" \/ p.doc \in cutShort' \/ (d = p.doc /\ (row = None \/ row.status # "pending"))
    /\ row = None => \/ fileRows[d] = None
                     \/ d = p.doc /\ p.op = "delete" /\ d \notin objects \ (Library \cup raced)
    /\ row # None /\ row.url # None => \/ Referring(d)
                                       \/ d \notin usedIds
    /\ q # None /\ q.op = "upload" /\ q.pc \in {"count", "size"} =>
           p.pc \in {"count", "size"} \/ (d = p.doc /\ row # None /\ row.status # "pending")
    /\ q # None /\ q.op = "delete" /\ q.pc = "row" => p.pc = "row" \/ p.doc \notin objects' \ (Library \cup raced)

LEMMA MovesKeep ==
  ASSUME FilesInv, NEW r \in FileRequests, NEW p, NEW q, NEW d, NEW row, RequestMoves(r, p, q, d, row)
  PROVE  FilesInv'
<1>1. /\ fileReqs \in [FileRequests -> FileRequest \cup {None}] /\ fileRows \in [FileIds -> FileRow \cup {None}]
      /\ p \in FileRequest /\ p # None /\ p = fileReqs[r] /\ q \in FileRequest \cup {None}
      /\ objects \subseteq usedIds \cup Library /\ usedIds \subseteq FileIds
      /\ q # None => q.op = p.op /\ q.doc = p.doc /\ q.row = p.row /\ q.kind = p.kind
  BY DEF FilesInv, FilesTypeOK, RequestMoves
<1>2. \A o \in FileRequests : fileReqs'[o] = IF o = r THEN q ELSE fileReqs[o]
  BY <1>1 DEF RequestMoves
<1>3. \A e \in FileIds : fileRows'[e] = IF e = d THEN row ELSE fileRows[e]
  BY <1>1 DEF RequestMoves
<1>4. p.doc # None => p.doc \in usedIds
  BY <1>1 DEF FilesInv, DocsUsed
<1>5. p.op # "import" => p.doc # None
  BY <1>1 DEF FilesInv, DocsUsed
<1>6. FilesTypeOK'
  BY <1>1, <1>4, <1>5 DEF FilesInv, FilesTypeOK, RequestMoves
<1>7. DocsUsed'
  BY <1>1, <1>2 DEF FilesInv, DocsUsed, RequestMoves
<1>8. \A e : Uploading(e)' => Uploading(e)
  BY <1>1, <1>2 DEF Uploading
<1>9. \A e : Uploading(e) /\ ~Uploading(e)' => q = None /\ p.op = "upload" /\ e = p.doc
  BY <1>1, <1>2 DEF Uploading
<1>10. ParsedOnce'
  BY <1>1, <1>2, <1>3 DEF FilesInv, ParsedOnce, RequestMoves, DocsUsed
<1>11. DeletesMarked'
  BY <1>1, <1>2, <1>8 DEF FilesInv, DeletesMarked, RequestMoves
<1>12. \A e \in FileIds : Referring(e)' => Referring(e) \/ e \notin usedIds
  <2> SUFFICES ASSUME NEW e \in FileIds, Referring(e)', e \in usedIds PROVE Referring(e)
    OBVIOUS
  <2>1. CASE fileRows'[e] # None /\ fileRows'[e].url # None
    BY <1>3, <2>1 DEF Referring, RequestMoves
  <2>2. CASE \E o \in FileRequests :
               /\ fileReqs'[o] # None /\ fileReqs'[o].doc = e
               /\ fileReqs'[o].op = "import" \/ (fileReqs'[o].op = "delete" /\ fileReqs'[o].row.url # None)
    BY <1>1, <1>2, <2>2 DEF Referring
  <2> QED
    BY <2>1, <2>2 DEF Referring
<1>13. \A e : Uploading(e) => e \in usedIds
  BY <1>1 DEF Uploading, FilesInv, DocsUsed
<1>14. ReferencesApart'
  <2> SUFFICES ASSUME NEW e \in FileIds, Referring(e)' PROVE e \notin objects' \ Library /\ ~Uploading(e)'
    BY DEF ReferencesApart
  <2>1. e \notin objects \ Library /\ ~Uploading(e)
    BY <1>1, <1>12, <1>13 DEF FilesInv, ReferencesApart
  <2>2. p.op = "upload" => Uploading(p.doc)
    BY <1>1 DEF Uploading
  <2> QED
    BY <1>8, <2>1, <2>2 DEF RequestMoves
<1>15. RowsLast'
  <2>1. p.op = "upload" => Uploading(p.doc)
    BY <1>1 DEF Uploading
  <2> SUFFICES ASSUME NEW o \in FileRequests, fileReqs'[o] # None, fileReqs'[o].op = "delete", fileReqs'[o].pc = "row"
               PROVE  fileReqs'[o].doc \notin objects' \ (Library \cup raced')
    BY DEF RowsLast
  <2>2. fileReqs[o] # None /\ fileReqs[o].op = "delete" /\ fileReqs[o].doc = fileReqs'[o].doc
    BY <1>1, <1>2
  <2>3. Uploading(fileReqs[o].doc) => fileReqs[o].doc \in raced
    BY <2>2 DEF FilesInv, DeletesMarked
  <2>4. CASE o # r \/ p.pc = "row"
    <3>1. fileReqs[o].doc \notin objects \ (Library \cup raced)
      BY <1>1, <1>2, <2>2, <2>4 DEF FilesInv, RowsLast
    <3> QED
      BY <2>1, <2>2, <2>3, <3>1 DEF RequestMoves
  <2>5. CASE o = r /\ p.pc # "row"
    BY <1>1, <1>2, <2>2, <2>5 DEF RequestMoves
  <2> QED
    BY <2>4, <2>5
<1>16. PendingIsExplained'
  <2>1. \A e : Working(e) /\ ~Working(e)' =>
            p.op = "upload" /\ p.pc # "late" /\ e = p.doc /\ (q = None \/ q.pc = "late")
    BY <1>1, <1>2 DEF Working
  <2> SUFFICES ASSUME NEW e \in FileIds, fileRows'[e] # None, fileRows'[e].status = "pending",
                      ~Working(e)', e \notin cutShort'
               PROVE  FALSE
    BY DEF PendingIsExplained
  <2>2. fileRows[e] # None /\ fileRows[e].status = "pending"
    BY <1>3 DEF RequestMoves
  <2>3. Working(e)
    BY <2>2 DEF FilesInv, PendingIsExplained, RequestMoves
  <2> QED
    BY <1>3, <2>1, <2>3 DEF RequestMoves
<1>18. UploadRows'
  <2> SUFFICES ASSUME NEW o \in FileRequests, fileReqs'[o] # None, fileReqs'[o].op = "upload",
                      fileReqs'[o].doc \notin raced', fileRows'[fileReqs'[o].doc] = None
               PROVE  FALSE
    BY DEF UploadRows
  <2>1. fileReqs[o] # None /\ fileReqs[o].op = "upload" /\ fileReqs[o].doc = fileReqs'[o].doc
    BY <1>1, <1>2
  <2>2. fileReqs[o].doc \in FileIds /\ fileRows[fileReqs[o].doc] # None
    BY <1>1, <2>1 DEF FilesInv, DocsUsed, UploadRows, RequestMoves
  <2>3. fileReqs[o].doc = p.doc /\ p.op = "delete"
    BY <1>3, <2>1, <2>2 DEF RequestMoves
  <2>4. Uploading(p.doc)
    BY <2>1, <2>3 DEF Uploading
  <2> QED
    BY <1>1, <2>1, <2>3, <2>4 DEF FilesInv, DeletesMarked, RequestMoves
<1>17. BinariesHaveRows'
  <2> SUFFICES ASSUME NEW e \in objects' \ (Library \cup raced'), fileRows'[e] = None PROVE Uploading(e)'
    BY DEF BinariesHaveRows
  <2>1. p.op = "upload" => Uploading(p.doc)
    BY <1>1 DEF Uploading
  <2>2. e \in FileIds
    BY <1>6 DEF FilesTypeOK
  <2>3. Uploading(e)
    BY <1>3, <2>1, <2>2 DEF FilesInv, BinariesHaveRows, RequestMoves
  <2>4. CASE ~Uploading(e)'
    <3>1. q = None /\ p.op = "upload" /\ e = p.doc
      BY <1>9, <2>3, <2>4
    <3>2. fileRows[e] # None
      BY <1>1, <3>1 DEF FilesInv, UploadRows, RequestMoves
    <3> QED
      BY <1>3, <2>2, <3>1, <3>2 DEF RequestMoves
  <2> QED
    BY <2>4
<1> QED
  BY <1>6, <1>7, <1>10, <1>11, <1>14, <1>15, <1>16, <1>17, <1>18 DEF FilesInv

\* What a step writes.
Written(owner, folder, url, status) ==
    [owner |-> owner, folder |-> folder, url |-> url, status |-> status, deletion |-> ""]

LEMMA BaseRow ==
  ASSUME FilesTypeOK, NEW d \in FileIds
  PROVE  /\ Base(d) \in FileRow /\ Base(d) # None
         /\ fileRows[d] = None => Base(d).url = None /\ Base(d).status = ""
         /\ fileRows[d] # None => Base(d) = fileRows[d]
<1>1. Fragment \in FileRow /\ Fragment.url = None /\ Fragment.status = ""
  BY DEF Fragment, FileRow
<1>2. Base(d) \in FileRow
  BY <1>1 DEF FilesTypeOK, Base
<1> QED
  BY <1>1, <1>2, FilesAssumption DEF Base

\* A step that writes no row.
LEMMA NoRowMoves ==
  ASSUME FilesInv, NEW r \in FileRequests, NEW p, NEW q, p = fileReqs[r], p # None,
         fileReqs' = [fileReqs EXCEPT ![r] = q], q \in FileRequest \cup {None},
         q # None => q.op = p.op /\ q.doc = p.doc /\ q.row = p.row /\ q.kind = p.kind,
         UNCHANGED <<fileRows, usedIds, raced, fileOps>>,
         objects' \subseteq objects \cup (IF p.op = "upload" THEN {p.doc} ELSE {}),
         p.doc # None, cutShort \subseteq cutShort', cutShort' \subseteq cutShort \cup {p.doc},
         p.op = "upload" /\ (q = None \/ q.pc = "late") =>
             p.doc \in cutShort' \/ p.pc \in {"late", "count", "size"},
         p.op = "upload" /\ q # None /\ q.pc \in {"count", "size"} => p.pc \in {"count", "size"},
         q # None /\ q.op = "delete" /\ q.pc = "row" => p.pc = "row" \/ p.doc \notin objects' \ (Library \cup raced)
  PROVE  FilesInv'
<1>1. p.doc \in FileIds /\ p.doc \in usedIds
  BY DEF FilesInv, FilesTypeOK, DocsUsed
<1>2. PICK row : row = fileRows[p.doc]
  OBVIOUS
<1>3. p.op = "upload" /\ p.pc \in {"count", "size"} => row = None \/ row.status # "pending"
  BY <1>1, <1>2 DEF FilesInv, ParsedOnce
<1>4. RequestMoves(r, p, q, p.doc, row)
  BY <1>1, <1>2, <1>3 DEF FilesInv, FilesTypeOK, RequestMoves, Referring
<1> QED
  BY <1>4, MovesKeep

LEMMA UploadKeeps ==
  ASSUME FilesInv, NEW r \in FileRequests, UploadSteps(r)
  PROVE  FilesInv'
<1>1. PICK p : p = fileReqs[r]
  OBVIOUS
<1>2. /\ p # None /\ p.op = "upload" /\ p \in FileRequest /\ fileReqs \in [FileRequests -> FileRequest \cup {None}]
      /\ p.pc \in {"put", "parse", "store", "count", "size", "late"}
      /\ UNCHANGED <<usedIds, raced, fileOps>> /\ (~UploadAbandoned(r) => cutShort' = cutShort)
      /\ cutShort \subseteq usedIds /\ p.doc \in FileIds /\ p.doc \in usedIds /\ p.user \in FileUsers
      /\ p.status \in {"", "parsed", "failed"}
  <2>1. /\ p # None /\ p.op = "upload" /\ p.pc \in {"put", "parse", "store", "count", "size", "late"}
        /\ UNCHANGED <<usedIds, raced, fileOps>> /\ (~UploadAbandoned(r) => cutShort' = cutShort)
    BY <1>1 DEF UploadSteps, PutFileobj, PutFails, UploadAbandoned, LatePut, StoreParsed, CountUpload, MergeSize,
                RunParse, On, Then, Ends
  <2>2. p \in FileRequest /\ fileReqs \in [FileRequests -> FileRequest \cup {None}]
    BY <1>1, <2>1 DEF FilesInv, FilesTypeOK
  <2>3. p.doc \in usedIds /\ usedIds \subseteq FileIds /\ cutShort \subseteq usedIds
    BY <1>1, <2>1 DEF FilesInv, FilesTypeOK, DocsUsed
  <2> QED
    BY <2>1, <2>2, <2>3 DEF FileRequest
<1>3. CASE PutFileobj(r)
  <2>1. PICK q : q = [p EXCEPT !.pc = "parse"]
    OBVIOUS
  <2>2. q \in FileRequest /\ q # None /\ q.op = p.op /\ q.doc = p.doc /\ q.row = p.row /\ q.kind = p.kind /\ q.pc = "parse"
    <3>1. q \in FileRequest /\ q.op = p.op /\ q.doc = p.doc /\ q.row = p.row /\ q.kind = p.kind /\ q.pc = "parse"
      BY <1>2, <2>1 DEF FileRequest
    <3> QED
      BY <3>1, FilesAssumption
  <2>3. /\ fileReqs' = [fileReqs EXCEPT ![r] = q] /\ objects' = objects \cup {p.doc} /\ UNCHANGED <<fileRows, cutShort>>
    BY <1>1, <1>3, <2>1 DEF PutFileobj, Then
  <2> QED
    BY <1>1, <1>2, <2>2, <2>3, NoRowMoves, FilesAssumption
<1>4. CASE PutFails(r)
  <2>1. PICK row : row = Written(p.user, TRUE, None, "failed")
    OBVIOUS
  <2>2. row \in FileRow /\ row # None /\ row.url = None /\ row.status = "failed"
    <3>1. row \in FileRow /\ row.url = None /\ row.status = "failed"
      BY <1>2, <2>1 DEF Written, FileRow
    <3> QED
      BY <3>1, FilesAssumption
  <2>3. /\ fileReqs' = [fileReqs EXCEPT ![r] = None] /\ fileRows' = [fileRows EXCEPT ![p.doc] = row]
        /\ objects' \subseteq objects \cup {p.doc} /\ UNCHANGED cutShort
    BY <1>1, <1>4, <2>1 DEF PutFails, Ends, StoreDocument, Written
  <2>4. RequestMoves(r, p, None, p.doc, row)
    BY <1>1, <1>2, <2>2, <2>3 DEF RequestMoves, FilesInv, FilesTypeOK
  <2> QED
    BY <2>4, MovesKeep
<1>5. ASSUME NEW status \in {"parsed", "failed"}, RunParse(r, status) PROVE FilesInv'
  <2>1. PICK q : q = [p EXCEPT !.pc = "store", !.status = status]
    OBVIOUS
  <2>2. q \in FileRequest /\ q # None /\ q.op = p.op /\ q.doc = p.doc /\ q.row = p.row /\ q.kind = p.kind /\ q.pc = "store"
    <3>1. q \in FileRequest /\ q.op = p.op /\ q.doc = p.doc /\ q.row = p.row /\ q.kind = p.kind /\ q.pc = "store"
      BY <1>2, <2>1 DEF FileRequest
    <3> QED
      BY <3>1, FilesAssumption
  <2>3. /\ fileReqs' = [fileReqs EXCEPT ![r] = q] /\ UNCHANGED <<objects, fileRows, cutShort>>
    BY <1>1, <1>2, <1>5, <2>1 DEF RunParse
  <2> QED
    BY <1>1, <1>2, <2>2, <2>3, NoRowMoves, FilesAssumption
<1>6. CASE StoreParsed(r)
  <2>1. PICK q : q = [p EXCEPT !.pc = "count"]
    OBVIOUS
  <2>2. q \in FileRequest /\ q # None /\ q.op = p.op /\ q.doc = p.doc /\ q.row = p.row /\ q.kind = p.kind /\ q.pc = "count"
    <3>1. q \in FileRequest /\ q.op = p.op /\ q.doc = p.doc /\ q.row = p.row /\ q.kind = p.kind /\ q.pc = "count"
      BY <1>2, <2>1 DEF FileRequest
    <3> QED
      BY <3>1, FilesAssumption
  <2>3. PICK row : row = Written(p.user, TRUE, None, p.status)
    OBVIOUS
  <2>5. row \in FileRow /\ row # None /\ row.url = None /\ row.status = p.status
    <3>1. row \in FileRow /\ row.url = None /\ row.status = p.status
      BY <1>2, <2>3 DEF Written, FileRow
    <3> QED
      BY <3>1, FilesAssumption
  <2>6. /\ fileReqs' = [fileReqs EXCEPT ![r] = q] /\ fileRows' = [fileRows EXCEPT ![p.doc] = row]
        /\ UNCHANGED <<objects, cutShort>>
    BY <1>1, <1>6, <2>1, <2>3 DEF StoreParsed, Then, StoreDocument, Written
  <2>7. RequestMoves(r, p, q, p.doc, row)
    BY <1>1, <1>2, <2>2, <2>5, <2>6 DEF RequestMoves, FilesInv, FilesTypeOK
  <2> QED
    BY <2>7, MovesKeep
<1>7. CASE CountUpload(r)
  <2>1. PICK q : q = [p EXCEPT !.pc = "size"]
    OBVIOUS
  <2>2. q \in FileRequest /\ q # None /\ q.op = p.op /\ q.doc = p.doc /\ q.row = p.row /\ q.kind = p.kind /\ q.pc = "size"
    <3>1. q \in FileRequest /\ q.op = p.op /\ q.doc = p.doc /\ q.row = p.row /\ q.kind = p.kind /\ q.pc = "size"
      BY <1>2, <2>1 DEF FileRequest
    <3> QED
      BY <3>1, FilesAssumption
  <2>3. /\ fileReqs' = [fileReqs EXCEPT ![r] = q] /\ UNCHANGED <<objects, fileRows, cutShort>> /\ p.pc = "count"
    BY <1>1, <1>7, <2>1 DEF CountUpload, Then, On
  <2> QED
    BY <1>1, <1>2, <2>2, <2>3, NoRowMoves, FilesAssumption
<1>8. CASE MergeSize(r)
  <2>1. PICK row : row = Base(p.doc)
    OBVIOUS
  <2>2. /\ row \in FileRow /\ row # None
        /\ fileRows[p.doc] = None => row.url = None /\ row.status = ""
        /\ fileRows[p.doc] # None => row = fileRows[p.doc]
    BY <1>2, <2>1, BaseRow DEF FilesInv
  <2>3. fileRows[p.doc] = None \/ fileRows[p.doc].status # "pending"
    BY <1>1, <1>2, <1>8 DEF FilesInv, ParsedOnce, MergeSize, On
  <2>4. /\ fileReqs' = [fileReqs EXCEPT ![r] = None] /\ fileRows' = [fileRows EXCEPT ![p.doc] = row]
        /\ UNCHANGED <<objects, cutShort>>
    BY <1>1, <1>8, <2>1 DEF MergeSize, Ends
  <2>5. RequestMoves(r, p, None, p.doc, row)
    BY <1>1, <1>2, <2>2, <2>3, <2>4 DEF RequestMoves, Referring, FilesInv, FilesTypeOK
  <2> QED
    BY <2>5, MovesKeep
<1>9. CASE UploadAbandoned(r)
  <2>1. PICK q : q = [p EXCEPT !.pc = "late"]
    OBVIOUS
  <2>2. q \in FileRequest /\ q # None /\ q.op = p.op /\ q.doc = p.doc /\ q.row = p.row /\ q.kind = p.kind /\ q.pc = "late"
    <3>1. q \in FileRequest /\ q.op = p.op /\ q.doc = p.doc /\ q.row = p.row /\ q.kind = p.kind /\ q.pc = "late"
      BY <1>2, <2>1 DEF FileRequest
    <3> QED
      BY <3>1, FilesAssumption
  <2>3. /\ fileReqs' = [fileReqs EXCEPT ![r] = q] /\ UNCHANGED <<objects, fileRows>>
        /\ cutShort' = cutShort \cup {p.doc}
    BY <1>1, <1>9, <2>1 DEF UploadAbandoned, Then
  <2> QED
    BY <1>1, <1>2, <2>2, <2>3, NoRowMoves, FilesAssumption
<1>10. CASE LatePut(r)
  <2>1. /\ fileReqs' = [fileReqs EXCEPT ![r] = None] /\ UNCHANGED fileRows /\ p.pc = "late"
        /\ objects' \subseteq objects \cup {p.doc} /\ UNCHANGED cutShort
    BY <1>1, <1>10 DEF LatePut, Ends, On
  <2> QED
    BY <1>1, <1>2, <2>1, NoRowMoves, FilesAssumption
<1> QED
  BY <1>3, <1>4, <1>5, <1>6, <1>7, <1>8, <1>9, <1>10 DEF UploadSteps

\* A step that merges a field into the row of p's document.
LEMMA MergeMoves ==
  ASSUME FilesInv, NEW r \in FileRequests, NEW p, NEW q, p = fileReqs[r], p # None, p.op # "upload", p.doc # None,
         fileReqs' = [fileReqs EXCEPT ![r] = q], q \in FileRequest \cup {None},
         q # None => q.op = p.op /\ q.doc = p.doc /\ q.row = p.row /\ q.kind = p.kind /\ q.pc # "row",
         NEW row \in FileRow, fileRows' = [fileRows EXCEPT ![p.doc] = row],
         row.url = Base(p.doc).url, row.status # "pending" \/ row.status = Base(p.doc).status,
         UNCHANGED <<objects, usedIds, raced, cutShort, fileOps>>
  PROVE  FilesInv'
<1>1. p.doc \in FileIds /\ p.doc \in usedIds /\ usedIds \subseteq FileIds /\ cutShort \subseteq usedIds
  BY DEF FilesInv, FilesTypeOK, DocsUsed
<1>2. fileRows[p.doc] = None => row.url = None /\ row.status # "pending"
  BY <1>1, BaseRow DEF FilesInv
<1>3. fileRows[p.doc] # None => row.url = fileRows[p.doc].url
                                /\ (row.status # "pending" \/ row.status = fileRows[p.doc].status)
  BY <1>1, BaseRow DEF FilesInv
<1>4. RequestMoves(r, p, q, p.doc, row)
  BY <1>1, <1>2, <1>3, FilesAssumption DEF RequestMoves, Referring
<1> QED
  BY <1>4, MovesKeep

LEMMA DeleteKeeps ==
  ASSUME FilesInv, NEW r \in FileRequests, DeleteSteps(r)
  PROVE  FilesInv'
<1>1. PICK p : p = fileReqs[r]
  OBVIOUS
<1>2. /\ p # None /\ p.op = "delete" /\ UNCHANGED <<usedIds, raced, cutShort, fileOps>>
  BY <1>1 DEF DeleteSteps, MarkDeleting, DeleteBinary, DeleteBinaryFails, DeleteRow, DeleteRowFails, CountDelete,
              On, Then, Ends
<1>3. /\ p \in FileRequest /\ fileReqs \in [FileRequests -> FileRequest \cup {None}]
      /\ p.doc # None /\ p.doc \in usedIds /\ p.doc \in FileIds /\ p.row \in FileRow
      /\ usedIds \subseteq FileIds /\ cutShort \subseteq usedIds /\ fileRows \in [FileIds -> FileRow \cup {None}]
  <2>1. p \in FileRequest
    BY <1>1, <1>2 DEF FilesInv, FilesTypeOK
  <2>2. p.row \in FileRow \cup {None}
    BY <2>1 DEF FileRequest
  <2> QED
    BY <1>1, <1>2, <2>1, <2>2 DEF FilesInv, FilesTypeOK, DocsUsed
<1>4. Base(p.doc) \in FileRow
  BY <1>3, BaseRow DEF FilesInv
<1>5. ASSUME NEW mark \in {"deleting", "failed", "binary_deleted_metadata_pending"}, NEW row,
             row = [Base(p.doc) EXCEPT !.deletion = mark]
      PROVE  row \in FileRow /\ row.url = Base(p.doc).url /\ row.status = Base(p.doc).status
  BY <1>4, <1>5 DEF FileRow
<1>6. CASE MarkDeleting(r)
  <2>1. PICK q : q = [p EXCEPT !.pc = "binary"]
    OBVIOUS
  <2>2. q \in FileRequest /\ q.op = p.op /\ q.doc = p.doc /\ q.row = p.row /\ q.kind = p.kind /\ q.pc = "binary"
    BY <1>3, <2>1 DEF FileRequest
  <2>3. PICK row : row = [Base(p.doc) EXCEPT !.deletion = "deleting"]
    OBVIOUS
  <2>4. /\ fileReqs' = [fileReqs EXCEPT ![r] = q] /\ fileRows' = [fileRows EXCEPT ![p.doc] = row]
        /\ UNCHANGED objects
    BY <1>1, <1>6, <2>1, <2>3 DEF MarkDeleting, MergeDeletion, Then
  <2>5. row \in FileRow /\ row.url = Base(p.doc).url /\ row.status = Base(p.doc).status
    BY <1>5, <2>3
  <2> QED
    BY <1>1, <1>2, <1>3, <2>2, <2>4, <2>5, MergeMoves
<1>7. CASE DeleteBinary(r)
  <2>1. PICK q : q = [p EXCEPT !.pc = "row"]
    OBVIOUS
  <2>2. q \in FileRequest /\ q # None /\ q.op = p.op /\ q.doc = p.doc /\ q.row = p.row /\ q.kind = p.kind /\ q.pc = "row"
    <3>1. q \in FileRequest /\ q.op = p.op /\ q.doc = p.doc /\ q.row = p.row /\ q.kind = p.kind /\ q.pc = "row"
      BY <1>3, <2>1 DEF FileRequest
    <3> QED
      BY <3>1, FilesAssumption
  <2>3. /\ fileReqs' = [fileReqs EXCEPT ![r] = q] /\ UNCHANGED fileRows
        /\ objects' = objects \ {StorageBinding(p.doc, p.row)}
    BY <1>1, <1>7, <2>1 DEF DeleteBinary, Then
  <2>4. p.doc \notin objects' \ (Library \cup raced)
    <3>1. CASE p.row.url = None
      BY <2>3, <3>1 DEF StorageBinding
    <3>2. CASE p.row.url # None
      <4>1. Referring(p.doc)
        BY <1>1, <1>2, <3>2 DEF Referring
      <4> QED
        BY <1>3, <2>3, <4>1 DEF FilesInv, ReferencesApart
    <3> QED
      BY <3>1, <3>2
  <2> QED
    BY <1>1, <1>2, <1>3, <2>2, <2>3, <2>4, NoRowMoves
<1>8. CASE DeleteBinaryFails(r)
  <2>1. PICK row : row = [Base(p.doc) EXCEPT !.deletion = "failed"]
    OBVIOUS
  <2>2. /\ fileReqs' = [fileReqs EXCEPT ![r] = None] /\ fileRows' = [fileRows EXCEPT ![p.doc] = row]
        /\ UNCHANGED objects
    BY <1>1, <1>8, <2>1 DEF DeleteBinaryFails, MergeDeletion, Ends
  <2>3. row \in FileRow /\ row.url = Base(p.doc).url /\ row.status = Base(p.doc).status
    BY <1>5, <2>1
  <2> QED
    BY <1>1, <1>2, <1>3, <2>2, <2>3, MergeMoves
<1>9. CASE DeleteRow(r)
  <2>1. PICK q : q = [p EXCEPT !.pc = "count"]
    OBVIOUS
  <2>2. q \in FileRequest /\ q.op = p.op /\ q.doc = p.doc /\ q.row = p.row /\ q.kind = p.kind /\ q.pc = "count"
    BY <1>3, <2>1 DEF FileRequest
  <2>3. /\ fileReqs' = [fileReqs EXCEPT ![r] = q] /\ fileRows' = [fileRows EXCEPT ![p.doc] = None]
        /\ UNCHANGED objects /\ p.pc = "row"
    BY <1>1, <1>9, <2>1 DEF DeleteRow, Then, On
  <2>4. p.doc \notin objects \ (Library \cup raced)
    BY <1>1, <1>2, <2>3 DEF FilesInv, RowsLast
  <2>5. RequestMoves(r, p, q, p.doc, None)
    BY <1>1, <1>2, <1>3, <2>2, <2>3, <2>4 DEF RequestMoves
  <2> QED
    BY <2>5, MovesKeep
<1>10. CASE DeleteRowFails(r)
  <2>1. PICK row : row = [Base(p.doc) EXCEPT !.deletion = "binary_deleted_metadata_pending"]
    OBVIOUS
  <2>2. /\ fileReqs' = [fileReqs EXCEPT ![r] = None] /\ UNCHANGED objects
        /\ fileRows' = [fileRows EXCEPT ![p.doc] = row] \/ fileRows' = fileRows
    BY <1>1, <1>10, <2>1 DEF DeleteRowFails, MergeDeletion, Ends
  <2>3. row \in FileRow /\ row.url = Base(p.doc).url /\ row.status = Base(p.doc).status
    BY <1>5, <2>1
  <2>4. CASE fileRows' = [fileRows EXCEPT ![p.doc] = row]
    BY <1>1, <1>2, <1>3, <2>2, <2>3, <2>4, MergeMoves
  <2>5. CASE fileRows' = fileRows
    BY <1>1, <1>2, <1>3, <2>2, <2>5, NoRowMoves
  <2> QED
    BY <2>2, <2>4, <2>5
<1>11. CASE CountDelete(r)
  <2>1. /\ fileReqs' = [fileReqs EXCEPT ![r] = None] /\ UNCHANGED <<fileRows, objects>>
    BY <1>11 DEF CountDelete, Ends
  <2> QED
    BY <1>1, <1>2, <1>3, <2>1, NoRowMoves
<1> QED
  BY <1>6, <1>7, <1>8, <1>9, <1>10, <1>11 DEF DeleteSteps

LEMMA ReparseKeeps ==
  ASSUME FilesInv, NEW r \in FileRequests,
         ReparseCount(r) \/ \E status \in {"parsed", "failed"} : ReparseStore(r, status)
  PROVE  FilesInv'
<1>1. PICK p : p = fileReqs[r]
  OBVIOUS
<1>2. /\ p # None /\ p.op = "reparse" /\ UNCHANGED <<usedIds, raced, cutShort, fileOps, objects>>
  BY <1>1 DEF ReparseCount, ReparseStore, On, Ends
<1>3. /\ p \in FileRequest /\ fileReqs \in [FileRequests -> FileRequest \cup {None}]
      /\ p.doc # None /\ p.doc \in usedIds /\ p.doc \in FileIds
  BY <1>1, <1>2 DEF FilesInv, FilesTypeOK, DocsUsed
<1>4. Base(p.doc) \in FileRow
  BY <1>3, BaseRow DEF FilesInv
<1>5. CASE ReparseCount(r)
  <2>1. fileReqs' = [fileReqs EXCEPT ![r] = None] /\ UNCHANGED fileRows
    BY <1>5 DEF ReparseCount, Ends
  <2> QED
    BY <1>1, <1>2, <1>3, <2>1, NoRowMoves
<1>6. ASSUME NEW status \in {"parsed", "failed"}, ReparseStore(r, status) PROVE FilesInv'
  <2>1. PICK q : q = [p EXCEPT !.pc = "count", !.status = status]
    OBVIOUS
  <2>2. q \in FileRequest /\ q.op = p.op /\ q.doc = p.doc /\ q.row = p.row /\ q.kind = p.kind /\ q.pc = "count"
    BY <1>3, <2>1 DEF FileRequest
  <2>3. PICK row : row = [Base(p.doc) EXCEPT !.status = status]
    OBVIOUS
  <2>4. row \in FileRow /\ row.url = Base(p.doc).url /\ row.status = status
    BY <1>4, <2>3 DEF FileRow
  <2>5. fileReqs' = [fileReqs EXCEPT ![r] = q] /\ fileRows' = [fileRows EXCEPT ![p.doc] = row]
    BY <1>1, <1>6, <2>1, <2>3 DEF ReparseStore, MergeStatus
  <2>6. row.status # "pending"
    BY <2>4
  <2> QED
    BY <1>1, <1>2, <1>3, <2>2, <2>4, <2>5, <2>6, MergeMoves
<1> QED
  BY <1>5, <1>6

\* A request begins that writes nothing yet.
LEMMA AskKeeps ==
  ASSUME FilesInv, NEW r \in FileRequests, NEW q \in FileRequest, fileReqs[r] = None, q.op # "upload",
         fileReqs' = [fileReqs EXCEPT ![r] = q], UNCHANGED <<fileRows, objects, usedIds, cutShort>>,
         raced \subseteq raced',
         fileOps' \in 0..MaxFileOps,
         q.doc # None => q.doc \in usedIds, q.op # "import" => q.doc # None,
         q.op = "import" => q.kind \in Library,
         q.op = "delete" => q.row # None /\ q.pc = "mark" /\ (Uploading(q.doc) => q.doc \in raced'),
         q.op = "import" \/ (q.op = "delete" /\ q.row.url # None) => q.doc = None \/ Referring(q.doc)
  PROVE  FilesInv'
<1>0. q # None
  BY FilesAssumption
<1>1. /\ fileReqs \in [FileRequests -> FileRequest \cup {None}] /\ fileRows \in [FileIds -> FileRow \cup {None}]
      /\ objects \subseteq usedIds \cup Library /\ usedIds \subseteq FileIds /\ None \notin FileIds
  BY FilesAssumption DEF FilesInv, FilesTypeOK
<1>2. \A o \in FileRequests : fileReqs'[o] = IF o = r THEN q ELSE fileReqs[o]
  BY <1>1
<1>3. FilesTypeOK'
  BY <1>1 DEF FilesInv, FilesTypeOK
<1>4. DocsUsed'
  BY <1>2 DEF FilesInv, DocsUsed
<1>5. \A e : Uploading(e)' <=> Uploading(e)
  BY <1>2 DEF Uploading
<1>6. ParsedOnce'
  BY <1>2 DEF FilesInv, ParsedOnce
<1>7. DeletesMarked'
  BY <1>2, <1>5 DEF FilesInv, DeletesMarked
<1>8. \A e \in FileIds : Referring(e)' => Referring(e)
  BY <1>1, <1>2 DEF Referring
<1>9. ReferencesApart'
  BY <1>5, <1>8 DEF FilesInv, ReferencesApart
<1>10. RowsLast'
  BY <1>2 DEF FilesInv, RowsLast
<1>11. \A e : Working(e) => Working(e)'
  BY <1>2 DEF Working
<1>12. PendingIsExplained' /\ BinariesHaveRows'
  BY <1>5, <1>11 DEF FilesInv, PendingIsExplained, BinariesHaveRows
<1>13. UploadRows'
  BY <1>2 DEF FilesInv, UploadRows
<1> QED
  BY <1>3, <1>4, <1>6, <1>7, <1>9, <1>10, <1>12, <1>13 DEF FilesInv

LEMMA BeginKeeps ==
  ASSUME FilesInv, NEW r \in FileRequests, NEW u \in FileUsers,
         \/ \E d \in FileIds : ReparseDocument(r, u, d) \/ DeleteRequest(r, u, d)
         \/ \E url \in Library : ImportByReference(r, u, url)
  PROVE  FilesInv'
<1>1. fileOps' \in 0..MaxFileOps /\ fileReqs[r] = None /\ UNCHANGED <<fileRows, objects, usedIds, cutShort>>
  BY FilesAssumption DEF ReparseDocument, DeleteRequest, ImportByReference, BeginRequest, FilesInv, FilesTypeOK
<1>2. /\ fileRows \in [FileIds -> FileRow \cup {None}] /\ None \notin FileIds
      /\ \A d \in FileIds : fileRows[d] # None => d \in usedIds
  BY FilesAssumption DEF FilesInv, FilesTypeOK
<1>3. ASSUME NEW d \in FileIds, ReparseDocument(r, u, d) PROVE FilesInv'
  <2>1. PICK q : q = Req("reparse", u, d, "store", fileRows[d])
    OBVIOUS
  <2>2. q \in FileRequest /\ q.op = "reparse" /\ q.doc = d
    BY <1>2, <2>1 DEF Req, FileRequest
  <2>3. fileReqs' = [fileReqs EXCEPT ![r] = q] /\ raced' = raced /\ d \in usedIds
    BY <1>2, <1>3, <2>1 DEF ReparseDocument, BeginRequest, OwnedDocument
  <2> QED
    BY <1>1, <1>2, <2>2, <2>3, AskKeeps
<1>4. ASSUME NEW d \in FileIds, DeleteRequest(r, u, d) PROVE FilesInv'
  <2>1. PICK q : q = Req("delete", u, d, "mark", fileRows[d])
    OBVIOUS
  <2>2. q \in FileRequest /\ q.op = "delete" /\ q.doc = d /\ q.row = fileRows[d] /\ q.pc = "mark"
    BY <1>2, <2>1 DEF Req, FileRequest
  <2>3. /\ fileReqs' = [fileReqs EXCEPT ![r] = q] /\ raced \subseteq raced' /\ d \in usedIds /\ fileRows[d] # None
        /\ Uploading(d) => d \in raced'
    BY <1>2, <1>4, <2>1 DEF DeleteRequest, BeginRequest, OwnedDocument
  <2>4. q.row.url # None => Referring(d)
    BY <2>2, <2>3 DEF Referring
  <2> QED
    BY <1>1, <1>2, <2>2, <2>3, <2>4, AskKeeps
<1>5. ASSUME NEW url \in Library, ImportByReference(r, u, url) PROVE FilesInv'
  <2>1. PICK row \in {None} \cup Hits(u, url) :
            BeginRequest(r, [Req("import", u, row, "sentinel", None) EXCEPT !.kind = url])
    BY <1>5 DEF ImportByReference
  <2>2. PICK q : q = [Req("import", u, row, "sentinel", None) EXCEPT !.kind = url]
    OBVIOUS
  <2>3. row \in FileIds \cup {None}
    BY <2>1 DEF Hits
  <2>4. q \in FileRequest /\ q.op = "import" /\ q.doc = row /\ q.kind = url
    BY <2>2, <2>3 DEF Req, FileRequest
  <2>5. fileReqs' = [fileReqs EXCEPT ![r] = q] /\ raced' = raced
    BY <1>5, <2>1, <2>2 DEF BeginRequest, ImportByReference
  <2>6. row # None => row \in usedIds /\ Referring(row)
    <3> SUFFICES ASSUME row # None PROVE row \in usedIds /\ Referring(row)
      OBVIOUS
    <3>1. row \in FileIds /\ fileRows[row] # None /\ fileRows[row].url = url
      BY <2>1 DEF Hits
    <3>2. url # None
      BY FilesAssumption
    <3> QED
      BY <1>2, <3>1, <3>2 DEF Referring
  <2> QED
    BY <1>1, <2>4, <2>5, <2>6, AskKeeps
<1> QED
  BY <1>3, <1>4, <1>5

LEMMA UploadBegins ==
  ASSUME FilesInv, NEW r \in FileRequests, NEW u \in FileUsers, NEW d \in FileIds, NEW kind \in UploadKinds,
         NEW named \in BOOLEAN, UploadDocument(r, u, d, kind, named)
  PROVE  FilesInv'
<1>1. /\ fileReqs \in [FileRequests -> FileRequest \cup {None}] /\ fileRows \in [FileIds -> FileRow \cup {None}]
      /\ objects \subseteq usedIds \cup Library /\ usedIds \subseteq FileIds
      /\ \A e \in FileIds : fileRows[e] # None => e \in usedIds
  BY DEF FilesInv, FilesTypeOK
<1>2. PICK q : q = [Req("upload", u, d, "put", None) EXCEPT !.kind = kind]
  OBVIOUS
<1>3. q \in FileRequest /\ q.op = "upload" /\ q.doc = d /\ q.pc = "put"
  BY <1>2 DEF Req, FileRequest
<1>4. PICK row : row = Written(u, TRUE, None, "pending")
  OBVIOUS
<1>5. row \in FileRow /\ row.url = None
  BY <1>4 DEF Written, FileRow
<1>6. q # None /\ row # None /\ None \notin FileIds
  BY <1>3, <1>5, FilesAssumption
<1>7. /\ fileReqs[r] = None /\ fileReqs' = [fileReqs EXCEPT ![r] = q] /\ fileRows' = [fileRows EXCEPT ![d] = row]
      /\ d \notin usedIds /\ usedIds' = usedIds \cup {d} /\ UNCHANGED <<objects, raced, cutShort>>
      /\ fileOps' \in 0..MaxFileOps
  <2>1. fileOps' \in 0..MaxFileOps
    BY FilesAssumption DEF UploadDocument, BeginRequest, FilesInv, FilesTypeOK
  <2>2. fileReqs[r] = None /\ fileReqs' = [fileReqs EXCEPT ![r] = q]
    BY <1>2 DEF UploadDocument, BeginRequest
  <2>3. fileRows' = [fileRows EXCEPT ![d] = row]
    BY <1>4 DEF UploadDocument, StoreDocument, Written
  <2>4. d \notin usedIds /\ usedIds' = usedIds \cup {d} /\ UNCHANGED <<objects, raced, cutShort>>
    BY DEF UploadDocument, FreshId
  <2> QED
    BY <2>1, <2>2, <2>3, <2>4
<1>8. \A o \in FileRequests : fileReqs'[o] = IF o = r THEN q ELSE fileReqs[o]
  BY <1>1, <1>7
<1>9. \A e \in FileIds : fileRows'[e] = IF e = d THEN row ELSE fileRows[e]
  BY <1>1, <1>7
<1>10. FilesTypeOK'
  BY <1>1, <1>3, <1>5, <1>7 DEF FilesInv, FilesTypeOK
<1>11. \A o \in FileRequests : fileReqs[o] # None => fileReqs[o].doc # d
  BY <1>6, <1>7 DEF FilesInv, DocsUsed
<1>12. DocsUsed'
  BY <1>3, <1>6, <1>7, <1>8 DEF FilesInv, DocsUsed
<1>13. \A e : Uploading(e)' <=> Uploading(e) \/ e = d
  BY <1>3, <1>6, <1>7, <1>8 DEF Uploading
<1>14. ParsedOnce'
  BY <1>1, <1>3, <1>7, <1>8, <1>9, <1>11 DEF FilesInv, ParsedOnce, DocsUsed
<1>15. DeletesMarked'
  BY <1>3, <1>7, <1>8, <1>11, <1>13 DEF FilesInv, DeletesMarked
<1>16. \A e \in FileIds : Referring(e)' => Referring(e) /\ e # d
  <2> SUFFICES ASSUME NEW e \in FileIds, Referring(e)' PROVE Referring(e) /\ e # d
    OBVIOUS
  <2>1. CASE fileRows'[e] # None /\ fileRows'[e].url # None
    BY <1>1, <1>5, <1>7, <1>9, <2>1 DEF Referring
  <2>2. CASE \E o \in FileRequests :
               /\ fileReqs'[o] # None /\ fileReqs'[o].doc = e
               /\ fileReqs'[o].op = "import" \/ (fileReqs'[o].op = "delete" /\ fileReqs'[o].row.url # None)
    BY <1>3, <1>8, <1>11, <2>2 DEF Referring
  <2> QED
    BY <2>1, <2>2 DEF Referring
<1>17. ReferencesApart'
  BY <1>7, <1>13, <1>16 DEF FilesInv, ReferencesApart
<1>18. RowsLast'
  BY <1>3, <1>7, <1>8 DEF FilesInv, RowsLast
<1>19. PendingIsExplained' /\ BinariesHaveRows'
  <2>1. \A e : Working(e) \/ e = d => Working(e)'
    BY <1>3, <1>6, <1>7, <1>8 DEF Working
  <2>2. PendingIsExplained'
    BY <1>7, <1>9, <2>1 DEF FilesInv, PendingIsExplained
  <2>3. BinariesHaveRows'
    BY <1>1, <1>7, <1>9, <1>13 DEF FilesInv, BinariesHaveRows
  <2> QED
    BY <2>2, <2>3
<1>20. UploadRows'
  BY <1>1, <1>3, <1>6, <1>7, <1>8, <1>9 DEF FilesInv, UploadRows, DocsUsed
<1> QED
  BY <1>10, <1>12, <1>14, <1>15, <1>17, <1>18, <1>19, <1>20 DEF FilesInv

\* An import goes on or ends without having written anything.
LEMMA ImportWaits ==
  ASSUME FilesInv, NEW r \in FileRequests, NEW p, NEW q, p = fileReqs[r], p # None, p.op = "import",
         fileReqs' = [fileReqs EXCEPT ![r] = q], q \in FileRequest \cup {None},
         q # None => q.op = p.op /\ q.doc = p.doc /\ q.row = p.row /\ q.kind = p.kind,
         UNCHANGED <<fileRows, usedIds, raced, cutShort, fileOps, objects>>
  PROVE  FilesInv'
<1>1. /\ fileReqs \in [FileRequests -> FileRequest \cup {None}] /\ p.kind \in Library
      /\ p.doc # None => p.doc \in usedIds
      /\ usedIds \subseteq FileIds /\ fileRows \in [FileIds -> FileRow \cup {None}] /\ None \notin FileIds
  BY FilesAssumption DEF FilesInv, FilesTypeOK, DocsUsed
<1>2. CASE FileIds = {}
  <2>1. \A s \in FileRequests : fileReqs'[s] # None =>
            fileReqs'[s].op = "import" /\ fileReqs'[s].kind \in Library /\ fileReqs'[s].doc = None
    BY <1>1, <1>2 DEF FilesInv, DocsUsed
  <2>2. FilesTypeOK'
    BY <1>1 DEF FilesInv, FilesTypeOK
  <2>3. DocsUsed' /\ ParsedOnce' /\ DeletesMarked' /\ RowsLast' /\ UploadRows'
    BY <2>1 DEF DocsUsed, ParsedOnce, DeletesMarked, RowsLast, UploadRows
  <2>4. ReferencesApart' /\ PendingIsExplained'
    BY <1>2 DEF ReferencesApart, PendingIsExplained
  <2>5. \A x : Uploading(x)' <=> Uploading(x)
    BY <1>1 DEF Uploading
  <2>6. BinariesHaveRows'
    BY <2>5 DEF FilesInv, BinariesHaveRows
  <2> QED
    BY <2>2, <2>3, <2>4, <2>6 DEF FilesInv
<1>3. CASE FileIds # {}
  <2>1. PICK d \in FileIds : TRUE
    BY <1>3
  <2>2. PICK row : row = fileRows[d]
    OBVIOUS
  <2>3. RequestMoves(r, p, q, d, row)
    BY <1>1, <2>1, <2>2 DEF RequestMoves, FilesInv, FilesTypeOK, Referring
  <2> QED
    BY <2>3, MovesKeep
<1> QED
  BY <1>2, <1>3

LEMMA ImportKeeps ==
  ASSUME FilesInv, NEW r \in FileRequests,
         ImportParses(r) \/ \E d \in FileIds : CloneSentinelToUser(r, d) \/ ImportStore(r, d)
  PROVE  FilesInv'
<1>1. PICK p : p = fileReqs[r]
  OBVIOUS
<1>2. /\ p # None /\ p.op = "import" /\ UNCHANGED <<raced, cutShort, fileOps, objects>> /\ p.pc \in {"sentinel", "store"}
  BY <1>1 DEF ImportParses, CloneSentinelToUser, ImportStore, On, Ends, Then
<1>3. /\ p \in FileRequest /\ fileReqs \in [FileRequests -> FileRequest \cup {None}]
      /\ p.doc # None => p.doc \in usedIds
      /\ p.kind \in Library /\ p.user \in FileUsers /\ usedIds \subseteq FileIds /\ cutShort \subseteq usedIds
      /\ fileRows \in [FileIds -> FileRow \cup {None}] /\ None \notin FileIds
  <2>1. p \in FileRequest
    BY <1>1, <1>2 DEF FilesInv, FilesTypeOK
  <2>2. p.user \in FileUsers
    BY <2>1 DEF FileRequest
  <2> QED
    BY <1>1, <1>2, <2>1, <2>2, FilesAssumption DEF FilesInv, FilesTypeOK, DocsUsed
<1>4. ASSUME NEW d \in FileIds, CloneSentinelToUser(r, d) \/ ImportStore(r, d) PROVE FilesInv'
  <2>1. PICK row : row = Written(p.user, FALSE, p.kind, "parsed")
    OBVIOUS
  <2>2. row \in FileRow /\ row # None /\ row.url = p.kind /\ row.status = "parsed"
    <3>1. row \in FileRow /\ row.url = p.kind /\ row.status = "parsed"
      BY <1>3, <2>1 DEF Written, FileRow
    <3> QED
      BY <3>1, FilesAssumption
  <2>3. fileReqs' = [fileReqs EXCEPT ![r] = None] /\ fileRows' = [fileRows EXCEPT ![d] = row]
    BY <1>1, <1>4, <2>1 DEF CloneSentinelToUser, ImportStore, Ends, StoreDocument, Written
  <2>4. \/ d = p.doc /\ usedIds' = usedIds /\ p.doc # None
        \/ d \notin usedIds /\ usedIds' = usedIds \cup {d}
    BY <1>1, <1>4 DEF CloneSentinelToUser, ImportStore, Target, FreshId
  <2>5. d = p.doc => Referring(d)
    BY <1>1, <1>2 DEF Referring
  <2>6. RequestMoves(r, p, None, d, row)
    BY <1>1, <1>2, <1>3, <2>2, <2>3, <2>4, <2>5 DEF RequestMoves
  <2> QED
    BY <2>6, MovesKeep
<1>5. CASE ImportParses(r)
  <2>2. PICK w : w = [p EXCEPT !.pc = "store"]
    OBVIOUS
  <2>3. w \in FileRequest /\ w.op = p.op /\ w.doc = p.doc /\ w.row = p.row /\ w.kind = p.kind
    BY <1>3, <2>2 DEF FileRequest
  <2>4. PICK e \in {w, None} : fileReqs' = [fileReqs EXCEPT ![r] = e]
    BY <1>1, <1>5, <2>2 DEF ImportParses, Then, Ends
  <2>5. UNCHANGED <<fileRows, usedIds>>
    BY <1>5 DEF ImportParses
  <2> QED
    BY <1>1, <1>2, <1>3, <2>3, <2>4, <2>5, ImportWaits
<1> QED
  BY <1>4, <1>5

\* A request of any kind breaks off.
LEMMA BreaksKeep ==
  ASSUME FilesInv, NEW r \in FileRequests, RequestBreaks(r)
  PROVE  FilesInv'
<1>1. PICK p : p = fileReqs[r]
  OBVIOUS
<1>2. /\ p # None /\ p.pc # "late" /\ fileReqs' = [fileReqs EXCEPT ![r] = None]
      /\ UNCHANGED <<fileRows, usedIds, raced, fileOps>>
      /\ objects' \subseteq objects \cup (IF p.op = "upload" THEN {p.doc} ELSE {})
      /\ p.op # "upload" => objects' = objects /\ cutShort' = cutShort
  BY <1>1 DEF RequestBreaks, Ends, Unsettled, On
<1>3. /\ cutShort \subseteq cutShort' /\ cutShort' \subseteq cutShort \cup {p.doc}
      /\ p.op = "upload" /\ p.pc \notin {"count", "size"} => p.doc \in cutShort'
  BY <1>1 DEF RequestBreaks, Unsettled
<1>4. p \in FileRequest /\ (p.op # "import" => p.doc # None)
  BY <1>1, <1>2 DEF FilesInv, FilesTypeOK, DocsUsed
<1>5. CASE p.op = "import"
  BY <1>1, <1>2, <1>5, ImportWaits
<1>6. CASE p.op # "import"
  <2> QED
    BY <1>1, <1>2, <1>3, <1>4, <1>6, NoRowMoves
<1> QED
  BY <1>5, <1>6

\* A library row that nobody's request writes: the prewarm job's.
LEMMA PrewarmKeeps ==
  ASSUME FilesInv, NEW url \in Library, NEW d \in FileIds, PrewarmFromBlocks(url, d)
  PROVE  FilesInv'
<1>1. /\ fileReqs \in [FileRequests -> FileRequest \cup {None}] /\ fileRows \in [FileIds -> FileRow \cup {None}]
      /\ objects \subseteq usedIds \cup Library /\ usedIds \subseteq FileIds /\ cutShort \subseteq usedIds
      /\ \A e \in FileIds : fileRows[e] # None => e \in usedIds
  BY DEF FilesInv, FilesTypeOK
<1>2. PICK row : row = Written(Platform, FALSE, url, "parsed")
  OBVIOUS
<1>3. row \in FileRow /\ row # None /\ row.url = url /\ row.status = "parsed"
  <2>1. row \in FileRow /\ row.url = url /\ row.status = "parsed"
    BY <1>2 DEF Written, FileRow
  <2> QED
    BY <2>1, FilesAssumption
<1>4. fileRows' = [fileRows EXCEPT ![d] = row] /\ UNCHANGED <<objects, fileReqs, raced, cutShort>>
  BY <1>2 DEF PrewarmFromBlocks, StoreDocument, Written
<1>5. \/ Referring(d) /\ d \in usedIds /\ usedIds' = usedIds
      \/ d \notin usedIds /\ usedIds' = usedIds \cup {d}
  <2>1. url # None
    BY FilesAssumption
  <2>2. d \in Hits(Platform, url) => Referring(d) /\ d \in usedIds
    BY <1>1, <2>1 DEF Hits, Referring
  <2> QED
    BY <2>2 DEF PrewarmFromBlocks, FreshId
<1>6. \A e \in FileIds : fileRows'[e] = IF e = d THEN row ELSE fileRows[e]
  BY <1>1, <1>4
<1>7. FilesTypeOK'
  <2>1. fileOps' \in 0..MaxFileOps
    BY FilesAssumption DEF PrewarmFromBlocks, FilesInv, FilesTypeOK
  <2> QED
    BY <1>1, <1>3, <1>4, <1>5, <2>1 DEF FilesTypeOK
<1>8. DocsUsed'
  BY <1>4, <1>5 DEF FilesInv, DocsUsed
<1>9. \A e : Uploading(e)' <=> Uploading(e)
  BY <1>4 DEF Uploading
<1>10. ParsedOnce'
  BY <1>1, <1>3, <1>4 DEF FilesInv, ParsedOnce
<1>11. DeletesMarked' /\ RowsLast'
  BY <1>4, <1>9 DEF FilesInv, DeletesMarked, RowsLast
<1>12. \A e \in FileIds : Referring(e)' => Referring(e) \/ (e = d /\ d \notin usedIds)
  BY <1>4, <1>5, <1>6 DEF Referring
<1>13. \A e : Uploading(e) => e \in usedIds
  BY <1>1 DEF Uploading, FilesInv, DocsUsed
<1>14. ReferencesApart'
  BY <1>1, <1>4, <1>9, <1>12, <1>13 DEF FilesInv, ReferencesApart
<1>15. PendingIsExplained' /\ UploadRows'
  <2>1. \A e : Working(e)' <=> Working(e)
    BY <1>4 DEF Working
  <2>2. PendingIsExplained'
    BY <1>3, <1>4, <1>6, <2>1 DEF FilesInv, PendingIsExplained
  <2>3. UploadRows'
    BY <1>1, <1>3, <1>4, <1>6 DEF FilesInv, UploadRows, DocsUsed
  <2> QED
    BY <2>2, <2>3
<1>16. BinariesHaveRows'
  BY <1>1, <1>3, <1>4, <1>6, <1>9 DEF FilesInv, BinariesHaveRows
<1> QED
  BY <1>7, <1>8, <1>10, <1>11, <1>14, <1>15, <1>16 DEF FilesInv

LEMMA FilesStep == FilesInv /\ [FilesNext]_fileVars => FilesInv'
<1> SUFFICES ASSUME FilesInv, [FilesNext]_fileVars PROVE FilesInv'
  OBVIOUS
<1>1. ASSUME UNCHANGED <<fileRows, objects, usedIds, fileReqs, raced, cutShort>>, fileOps' \in 0..MaxFileOps PROVE FilesInv'
  BY <1>1 DEF FilesInv, FilesTypeOK, DocsUsed, ParsedOnce, DeletesMarked, ReferencesApart, RowsLast,
              UploadRows, PendingIsExplained, BinariesHaveRows, Uploading, Working, Referring
<1>2. CASE UNCHANGED fileVars
  BY <1>1, <1>2 DEF fileVars, FilesInv, FilesTypeOK
<1>3. ASSUME NEW u \in FileUsers, CreateFolder(u) PROVE FilesInv'
  BY <1>1, <1>3, FilesAssumption DEF CreateFolder, FilesInv, FilesTypeOK
<1>4. ASSUME NEW url \in Library, NEW d \in FileIds, PrewarmFromBlocks(url, d) PROVE FilesInv'
  BY <1>4, PrewarmKeeps
<1>5. ASSUME NEW r \in FileRequests, UploadSteps(r) \/ DeleteSteps(r) \/ ReparseCount(r) \/ ImportParses(r) PROVE FilesInv'
  BY <1>5, UploadKeeps, DeleteKeeps, ReparseKeeps, ImportKeeps
<1>6. ASSUME NEW r \in FileRequests, NEW status \in {"parsed", "failed"}, ReparseStore(r, status) PROVE FilesInv'
  BY <1>6, ReparseKeeps
<1>7. ASSUME NEW r \in FileRequests, NEW u \in FileUsers, NEW d \in FileIds, NEW kind \in UploadKinds,
             NEW named \in BOOLEAN, UploadDocument(r, u, d, kind, named)
      PROVE  FilesInv'
  BY <1>7, UploadBegins
<1>8. ASSUME NEW r \in FileRequests, NEW u \in FileUsers, NEW d \in FileIds, ReparseDocument(r, u, d) \/ DeleteRequest(r, u, d)
      PROVE  FilesInv'
  BY <1>8, BeginKeeps
<1>9. ASSUME NEW r \in FileRequests, NEW u \in FileUsers, NEW url \in Library, ImportByReference(r, u, url) PROVE FilesInv'
  BY <1>9, BeginKeeps
<1>10. ASSUME NEW r \in FileRequests, NEW d \in FileIds, CloneSentinelToUser(r, d) \/ ImportStore(r, d) PROVE FilesInv'
  BY <1>10, ImportKeeps
<1>11. ASSUME NEW r \in FileRequests, RequestBreaks(r) PROVE FilesInv'
  BY <1>11, BreaksKeep
<1> QED
  BY <1>2, <1>3, <1>4, <1>5, <1>6, <1>7, <1>8, <1>9, <1>10, <1>11, Zenon DEF FilesNext

LEMMA FilesStart == FilesInit => FilesInv
<1> SUFFICES ASSUME FilesInit PROVE FilesInv
  OBVIOUS
<1>1. /\ fileRows = [d \in FileIds |-> None] /\ objects = Library /\ usedIds = {} /\ raced = {} /\ cutShort = {}
      /\ fileReqs = [r \in FileRequests |-> None] /\ fileOps = 0
  BY DEF FilesInit
<1> QED
  BY <1>1, FilesAssumption DEF FilesInv, FilesTypeOK, DocsUsed, ParsedOnce, DeletesMarked, ReferencesApart, RowsLast,
                               UploadRows, PendingIsExplained, BinariesHaveRows, Uploading, Working, Referring

\* A row is pending only while its upload works on it or because that upload was
\* cut short (a status write that raised, a cancellation, a dead process), and no
\* binary outlives its row, whatever uploads, re-parses, imports and deletes
\* interleave or break off.
THEOREM DocumentsAreAccountedFor == FilesSpec => [](FilesTypeOK /\ PendingIsExplained /\ BinariesHaveRows)
<1>1. FilesInv => FilesTypeOK /\ PendingIsExplained /\ BinariesHaveRows
  BY DEF FilesInv
<1> QED
  BY <1>1, FilesStart, FilesStep, PTL DEF FilesSpec

-----------------------------------------------------------------------------
(* The skill directory: what a cache, a card or a request holds was public  *)
(* recently enough.                                                         *)

\* The skill was public at most a cache lifetime ago.
SharedLately(s) == publicAt[s] >= 0 /\ skillClock - publicAt[s] < SkillTtl

PublicNow == \A s \in SkillIds : skillDocs[s] # None /\ skillDocs[s].public => publicAt[s] = skillClock

RowsWerePublic ==
    \A p \in Processes, s \in SkillIds : skillCache[p][s] # None =>
        /\ skillCache[p][s].at <= skillClock /\ skillClock - skillCache[p][s].at < SkillTtl
        /\ skillCache[p][s].doc.public => publicAt[s] >= skillCache[p][s].at

CardsWerePublic ==
    /\ DOMAIN cardCache = Processes
    /\ \A p \in Processes : \A c \in cardCache[p] :
           c.bucket \in Nat /\ \A s \in c.skills : s \in SkillIds /\ publicAt[s] >= SkillTtl * c.bucket

\* A request that read the store did so since the last tick, one that read the
\* cache has a row that had not lapsed.
JobWasPublic(j) == j # None =>
    /\ j.at # "card" => j.skill \in SkillIds /\ j.doc \in SkillDoc
    /\ j.at = "card" => \A s \in j.listing : publicAt[s] = skillClock
    /\ j.op = "fork" => j.user \in Owners
    /\ j.at \in {"fill", "refill"} /\ j.doc.public => publicAt[j.skill] = skillClock
    /\ j.at = "have" /\ j.doc.public => SharedLately(j.skill)

JobsWerePublic == \A r \in Requests : JobWasPublic(job[r])

DirectoryInv ==
    /\ DirectoryTypeOK /\ PublicNow /\ RowsWerePublic /\ CardsWerePublic /\ JobsWerePublic /\ SharedOnly

\* What stays true as skills are published: a skill's last public tick grows.
LEMMA PublicGrows ==
  ASSUME DirectoryInv, skillClock' = skillClock,
         publicAt' \in [SkillIds -> -1 .. skillClock], \A s \in SkillIds : publicAt'[s] >= publicAt[s]
  PROVE  /\ \A s \in SkillIds : publicAt[s] = skillClock => publicAt'[s] = skillClock
         /\ \A s \in SkillIds : SharedLately(s) => SharedLately(s)'
         /\ skillCache' = skillCache => RowsWerePublic'
         /\ cardCache' = cardCache => CardsWerePublic'
         /\ \A j \in SkillJob \cup {None} : JobWasPublic(j) => JobWasPublic(j)'
<1>1. publicAt \in [SkillIds -> -1 .. skillClock] /\ skillClock \in Nat /\ SkillTtl \in Nat
  BY DirectoryAssumption DEF DirectoryInv, DirectoryTypeOK
<1>2. \A s \in SkillIds : publicAt[s] = skillClock => publicAt'[s] = skillClock
  BY <1>1
<1>3. \A s \in SkillIds : SharedLately(s) => SharedLately(s)'
  BY <1>1 DEF SharedLately
<1>4. ASSUME skillCache' = skillCache PROVE RowsWerePublic'
  <2>1. SUFFICES ASSUME NEW p \in Processes, NEW s \in SkillIds, skillCache[p][s] # None
                 PROVE  /\ skillCache[p][s].at <= skillClock /\ skillClock - skillCache[p][s].at < SkillTtl
                        /\ skillCache[p][s].doc.public => publicAt'[s] >= skillCache[p][s].at
    BY <1>4 DEF RowsWerePublic
  <2>2. skillCache[p][s].at \in Nat
    BY <2>1 DEF DirectoryInv, DirectoryTypeOK, CachedSkill
  <2> QED
    BY <1>1, <2>1, <2>2 DEF DirectoryInv, RowsWerePublic
<1>5. ASSUME cardCache' = cardCache PROVE CardsWerePublic'
  <2>1. SUFFICES ASSUME NEW p \in Processes, NEW c \in cardCache[p]
                 PROVE  c.bucket \in Nat /\ \A s \in c.skills : s \in SkillIds /\ publicAt'[s] >= SkillTtl * c.bucket
    BY <1>5 DEF DirectoryInv, CardsWerePublic
  <2>2. c.bucket \in Nat /\ \A s \in c.skills : s \in SkillIds /\ publicAt[s] >= SkillTtl * c.bucket
    BY <2>1 DEF DirectoryInv, CardsWerePublic
  <2>3. PICK n \in Int : n = SkillTtl * c.bucket
    BY <1>1, <2>2
  <2> QED
    BY <1>1, <2>2, <2>3
<1>6. ASSUME NEW j \in SkillJob \cup {None}, JobWasPublic(j) PROVE JobWasPublic(j)'
  <2>1. j # None => j.listing \subseteq SkillIds
    BY DEF SkillJob
  <2> QED
    BY <1>2, <1>3, <1>6, <2>1 DEF JobWasPublic
<1> QED
  BY <1>2, <1>3, <1>4, <1>5, <1>6

\* One request moves on.
LEMMA JobMoves ==
  ASSUME DirectoryInv, skillClock' = skillClock,
         publicAt' \in [SkillIds -> -1 .. skillClock], \A s \in SkillIds : publicAt'[s] >= publicAt[s],
         NEW r \in Requests, NEW j \in SkillJob \cup {None}, job' = [job EXCEPT ![r] = j], JobWasPublic(j)',
         skillDocs' \in [SkillIds -> SkillDoc \cup {None}], PublicNow',
         skillCache' \in [Processes -> [SkillIds -> CachedSkill \cup {None}]], RowsWerePublic',
         mcpTools' \in [Processes -> SUBSET SkillIds], writes' \in 0 .. MaxSkillWrites,
         CardsWerePublic', SharedOnly'
  PROVE  DirectoryInv'
<1>1. job \in [Requests -> SkillJob \cup {None}] /\ job' \in [Requests -> SkillJob \cup {None}]
  BY DEF DirectoryInv, DirectoryTypeOK
<1>2. DirectoryTypeOK'
  BY <1>1 DEF DirectoryInv, DirectoryTypeOK
<1>3. JobsWerePublic'
  <2>1. SUFFICES ASSUME NEW t \in Requests PROVE JobWasPublic(job[t])'
    BY DEF JobsWerePublic
  <2>2. PICK k : k = job'[t]
    OBVIOUS
  <2>3. k \in SkillJob \cup {None} /\ (k = j \/ k = job[t])
    BY <1>1, <2>2
  <2>4. JobWasPublic(k)'
    <3>1. CASE k = j
      BY <3>1
    <3>2. CASE k = job[t]
      <4>1. JobWasPublic(k)
        BY <3>2 DEF DirectoryInv, JobsWerePublic
      <4> QED
        BY <4>1, <2>3, PublicGrows
    <3> QED
      BY <2>3, <3>1, <3>2
  <2> QED
    BY <2>2, <2>4 DEF JobWasPublic, SharedLately
<1> QED
  BY <1>2, <1>3 DEF DirectoryInv

\* One request moves on and nothing else does, but the registry of its process.
LEMMA JobMovesAlone ==
  ASSUME DirectoryInv, UNCHANGED <<skillDocs, skillCache, cardCache, skillClock, publicAt>>,
         NEW r \in Requests, NEW j \in SkillJob \cup {None}, job' = [job EXCEPT ![r] = j], JobWasPublic(j),
         mcpTools' \in [Processes -> SUBSET SkillIds], writes' \in 0 .. MaxSkillWrites, SharedOnly'
  PROVE  DirectoryInv'
<1>1. /\ publicAt' \in [SkillIds -> -1 .. skillClock] /\ \A s \in SkillIds : publicAt'[s] >= publicAt[s]
      /\ skillDocs' \in [SkillIds -> SkillDoc \cup {None}]
      /\ skillCache' \in [Processes -> [SkillIds -> CachedSkill \cup {None}]]
  BY DEF DirectoryInv, DirectoryTypeOK
<1>2. RowsWerePublic' /\ CardsWerePublic' /\ JobWasPublic(j)'
  BY <1>1, PublicGrows
<1>3. PublicNow'
  BY DEF DirectoryInv, PublicNow
<1> QED
  BY <1>1, <1>2, <1>3, JobMoves

LEMMA JobFacts ==
  ASSUME DirectoryInv, NEW r \in Requests, job[r] # None
  PROVE  job[r] \in SkillJob /\ JobWasPublic(job[r])
BY DEF DirectoryInv, DirectoryTypeOK, JobsWerePublic

\* There is a free number for every slug: fewer skills than numbers.
LEMMA SlugIsFree ==
  ASSUME NEW owner, NEW base \in Slugs, NEW self
  PROVE  UniqueSlug(owner, base, self) \in Slugs \X (1 .. Cardinality(SkillIds) + 2)
<1> DEFINE N == Cardinality(SkillIds)
           Free == {n \in 2 .. N + 2 : ~SlugTaken(owner, <<base, n>>, self)}
<1>1. IsFiniteSet(SkillIds) /\ N \in Nat
  BY FS_Interval, FS_CardinalityType, DirectoryAssumption DEF SkillIds
<1>2. Free # {}
  <2>1. SUFFICES ASSUME \A n \in 2 .. N + 2 : SlugTaken(owner, <<base, n>>, self) PROVE FALSE
    OBVIOUS
  <2> DEFINE f == [n \in 2 .. N + 2 |-> CHOOSE s \in SkillIds : skillDocs[s].slug = <<base, n>>]
  <2>2. \A n \in 2 .. N + 2 : \E s \in SkillIds : skillDocs[s].slug = <<base, n>>
    BY <2>1 DEF SlugTaken
  <2>3. \A n \in 2 .. N + 2 : f[n] \in SkillIds /\ skillDocs[f[n]].slug = <<base, n>>
    BY <2>2
  <2>4. f \in [2 .. N + 2 -> SkillIds]
    BY <2>3
  <2>5. IsFiniteSet(2 .. N + 2) /\ Cardinality(2 .. N + 2) = N + 1
    <3> HIDE DEF N
    <3> QED
      BY <1>1, FS_Interval
  <2>6. PICK x, y \in 2 .. N + 2 : x # y /\ f[x] = f[y]
    <3>1. N < Cardinality(2 .. N + 2)
      <4> HIDE DEF N
      <4> QED
        BY <1>1, <2>5
    <3> HIDE DEF f
    <3> QED
      BY <1>1, <2>4, <2>5, <3>1, FS_PigeonHole
  <2>7. <<base, x>> = <<base, y>>
    <3> HIDE DEF f, N
    <3> QED
      BY <2>3, <2>6
  <2> QED
    BY <2>6, <2>7
<1>3. PICK n \in Free : \A k \in Free : n <= k
  <2>1. Free \in SUBSET Nat
    BY <1>1
  <2> HIDE DEF Free
  <2> QED
    BY <1>2, <2>1, NatLeast
<1>4. n \in 2 .. N + 2 /\ ~SlugTaken(owner, <<base, n>>, self)
      /\ \A k \in 2 .. n - 1 : SlugTaken(owner, <<base, k>>, self)
  <2>1. n \in 2 .. N + 2 /\ n \in Nat
    BY <1>1
  <2>2. \A k \in 2 .. n - 1 : k \in 2 .. N + 2 /\ ~(n <= k)
    <3> HIDE DEF N
    <3> QED
      BY <1>1, <2>1
  <2> QED
    BY <1>3, <2>1, <2>2
<1>5. \E m \in 2 .. N + 2 : ~SlugTaken(owner, <<base, m>>, self)
                            /\ \A k \in 2 .. m - 1 : SlugTaken(owner, <<base, k>>, self)
  BY <1>4
<1>6. 1 \in 1 .. N + 2 /\ 2 .. N + 2 \subseteq 1 .. N + 2
  <2> HIDE DEF N
  <2> QED
    BY <1>1
<1> QED
  BY <1>5, <1>6 DEF UniqueSlug

\* A step that answers nothing leaves nothing to check.
LEMMA NothingServed == Silent => SharedOnly'
BY DEF Silent, SharedOnly

LEMMA GetKeeps ==
  ASSUME DirectoryInv, NEW r \in Requests, NEW p \in Processes, NEW user \in Owners \cup {Peer}, NEW s \in SkillIds,
         NEW op \in {"get", "fork", "update", "delete", "invoke"}, GetSkill(r, op, p, user, s)
  PROVE  DirectoryInv'
<1>1. /\ UNCHANGED <<skillDocs, skillCache, cardCache, mcpTools, skillClock, publicAt>> /\ SharedOnly'
      /\ op = "fork" => user \in Owners
  BY NothingServed DEF GetSkill
<1>2. mcpTools' \in [Processes -> SUBSET SkillIds] /\ writes' \in 0 .. MaxSkillWrites
  BY <1>1, DirectoryAssumption DEF GetSkill, DirectoryInv, DirectoryTypeOK
<1>3. skillClock \in Nat /\ SkillTtl \in Nat \ {0} /\ publicAt[s] \in -1 .. skillClock
  BY DirectoryAssumption DEF DirectoryInv, DirectoryTypeOK
<1>4. CASE CacheGet(p, s) # None /\ Start(r, Job(op, p, user, s, CacheGet(p, s), "have"))
  <2>1. PICK row : row = skillCache[p][s]
    OBVIOUS
  <2>2. PICK j : j = Job(op, p, user, s, row.doc, "have")
    OBVIOUS
  <2>3. row \in CachedSkill \cup {None} /\ row # None /\ CacheGet(p, s) = row.doc
    BY <1>4, <2>1 DEF CacheGet, DirectoryInv, DirectoryTypeOK
  <2>4. row.at \in Nat /\ row.doc \in SkillDoc
    BY <2>3 DEF CachedSkill
  <2>5. /\ j \in SkillJob /\ j.at = "have" /\ j.doc = row.doc /\ j.skill = s /\ j.op = op /\ j.user = user
    BY <2>2, <2>4 DEF Job, SkillJob, Asks
  <2>6. row.doc.public => SharedLately(s)
    BY <1>3, <2>1, <2>3, <2>4 DEF DirectoryInv, RowsWerePublic, SharedLately
  <2>7. JobWasPublic(j)
    BY <1>1, <2>4, <2>5, <2>6 DEF JobWasPublic
  <2>8. job' = [job EXCEPT ![r] = j]
    BY <1>4, <2>2, <2>3 DEF Start
  <2> QED
    BY <1>1, <1>2, <2>5, <2>7, <2>8, JobMovesAlone
<1>5. CASE skillDocs[s] # None /\ Start(r, Job(op, p, user, s, skillDocs[s], "fill"))
  <2>1. PICK j : j = Job(op, p, user, s, skillDocs[s], "fill")
    OBVIOUS
  <2>2. skillDocs[s] \in SkillDoc
    BY <1>5 DEF DirectoryInv, DirectoryTypeOK
  <2>3. j \in SkillJob /\ j.at = "fill" /\ j.doc = skillDocs[s] /\ j.skill = s /\ j.op = op /\ j.user = user
    BY <2>1, <2>2 DEF Job, SkillJob, Asks
  <2>4. JobWasPublic(j)
    BY <1>1, <1>5, <2>2, <2>3 DEF JobWasPublic, DirectoryInv, PublicNow
  <2>5. job' = [job EXCEPT ![r] = j]
    BY <1>5, <2>1 DEF Start
  <2> QED
    BY <1>1, <1>2, <2>3, <2>4, <2>5, JobMovesAlone
<1> QED
  BY <1>4, <1>5 DEF GetSkill

LEMMA ResolveKeeps ==
  ASSUME DirectoryInv, NEW r \in Requests, NEW p \in Processes, NEW user \in Owners, NEW slug \in Slugs,
         ResolveSkillRef(r, p, user, slug)
  PROVE  DirectoryInv'
<1>1. UNCHANGED <<skillDocs, skillCache, cardCache, mcpTools, skillClock, writes, publicAt>> /\ SharedOnly'
  BY NothingServed DEF ResolveSkillRef
<1>2. PICK s \in SkillIds : skillDocs[s] # None /\ Start(r, Job("get", p, user, s, skillDocs[s], "fill"))
  BY DEF ResolveSkillRef
<1>3. PICK j : j = Job("get", p, user, s, skillDocs[s], "fill")
  OBVIOUS
<1>4. skillDocs[s] \in SkillDoc /\ mcpTools' \in [Processes -> SUBSET SkillIds] /\ writes' \in 0 .. MaxSkillWrites
  BY <1>1, <1>2 DEF DirectoryInv, DirectoryTypeOK
<1>5. j \in SkillJob /\ j.at = "fill" /\ j.doc = skillDocs[s] /\ j.skill = s /\ j.op = "get"
  BY <1>3, <1>4 DEF Job, SkillJob, Asks
<1>6. JobWasPublic(j)
  BY <1>2, <1>4, <1>5 DEF JobWasPublic, DirectoryInv, PublicNow
<1>7. job' = [job EXCEPT ![r] = j]
  BY <1>2, <1>3 DEF Start
<1> QED
  BY <1>1, <1>4, <1>5, <1>6, <1>7, JobMovesAlone

\* A row is cached, or dropped.
LEMMA RowCached ==
  ASSUME DirectoryInv, skillClock' = skillClock,
         publicAt' \in [SkillIds -> -1 .. skillClock], \A s \in SkillIds : publicAt'[s] >= publicAt[s],
         NEW q \in Processes, NEW t \in SkillIds, NEW row \in CachedSkill \cup {None},
         row # None => row.at = skillClock /\ (row.doc.public => publicAt'[t] = skillClock),
         skillCache' = [skillCache EXCEPT ![q][t] = row]
  PROVE  skillCache' \in [Processes -> [SkillIds -> CachedSkill \cup {None}]] /\ RowsWerePublic'
<1>1. /\ skillClock \in Nat /\ SkillTtl \in Nat \ {0} /\ publicAt \in [SkillIds -> -1 .. skillClock]
      /\ skillCache \in [Processes -> [SkillIds -> CachedSkill \cup {None}]]
  BY DirectoryAssumption DEF DirectoryInv, DirectoryTypeOK
<1>2. skillCache' \in [Processes -> [SkillIds -> CachedSkill \cup {None}]]
  BY <1>1
<1>3. SUFFICES ASSUME NEW p \in Processes, NEW s \in SkillIds, skillCache'[p][s] # None
               PROVE  /\ skillCache'[p][s].at <= skillClock /\ skillClock - skillCache'[p][s].at < SkillTtl
                      /\ skillCache'[p][s].doc.public => publicAt'[s] >= skillCache'[p][s].at
  BY <1>2 DEF RowsWerePublic
<1>4. CASE p = q /\ s = t
  BY <1>1, <1>3, <1>4
<1>5. CASE ~(p = q /\ s = t)
  <2>1. skillCache'[p][s] = skillCache[p][s] /\ skillCache[p][s] \in CachedSkill
    BY <1>1, <1>3, <1>5
  <2>2. skillCache[p][s].at \in Nat
    BY <2>1 DEF CachedSkill
  <2> QED
    BY <1>1, <1>3, <2>1, <2>2 DEF DirectoryInv, RowsWerePublic
<1> QED
  BY <1>4, <1>5

LEMMA FillKeeps ==
  ASSUME DirectoryInv, NEW r \in Requests, FillCache(r)
  PROVE  DirectoryInv'
<1>1. PICK j : j = job[r]
  OBVIOUS
<1>2. /\ UNCHANGED <<skillDocs, cardCache, mcpTools, skillClock, writes, publicAt>> /\ SharedOnly'
      /\ j # None /\ j.at = "fill"
  BY <1>1, NothingServed DEF FillCache, At
<1>3. j \in SkillJob /\ JobWasPublic(j) /\ j.skill \in SkillIds /\ j.doc \in SkillDoc /\ j.proc \in Processes
  <2>1. j \in SkillJob /\ JobWasPublic(j)
    BY <1>1, <1>2, JobFacts
  <2> QED
    BY <1>2, <2>1 DEF JobWasPublic, SkillJob
<1>4. PICK row : row = [at |-> skillClock, doc |-> j.doc]
  OBVIOUS
<1>5. /\ skillClock \in Nat /\ SkillTtl \in Nat \ {0} /\ publicAt \in [SkillIds -> -1 .. skillClock]
      /\ mcpTools' \in [Processes -> SUBSET SkillIds] /\ writes' \in 0 .. MaxSkillWrites
      /\ skillDocs' \in [SkillIds -> SkillDoc \cup {None}]
      /\ publicAt' \in [SkillIds -> -1 .. skillClock] /\ \A s \in SkillIds : publicAt'[s] >= publicAt[s]
  BY <1>2, DirectoryAssumption DEF DirectoryInv, DirectoryTypeOK
<1>6. row \in CachedSkill /\ row.at = skillClock /\ row.doc = j.doc
  BY <1>3, <1>4, <1>5 DEF CachedSkill
<1>7. skillCache' = [skillCache EXCEPT ![j.proc][j.skill] = row]
  BY <1>1, <1>4 DEF FillCache, CacheSet
<1>8. j.doc.public => publicAt[j.skill] = skillClock
  BY <1>2, <1>3 DEF JobWasPublic
<1>9. skillCache' \in [Processes -> [SkillIds -> CachedSkill \cup {None}]] /\ RowsWerePublic'
  BY <1>2, <1>3, <1>5, <1>6, <1>7, <1>8, RowCached
<1>10. PICK k : k = [j EXCEPT !.at = "have"]
  OBVIOUS
<1>11. k \in SkillJob /\ k.at = "have" /\ k.doc = j.doc /\ k.skill = j.skill /\ k.op = j.op /\ k.user = j.user
  BY <1>3, <1>10 DEF SkillJob
<1>12. JobWasPublic(k)
  <2>1. j.doc.public => SharedLately(j.skill)
    BY <1>5, <1>8, <1>3 DEF SharedLately
  <2> QED
    BY <1>2, <1>3, <1>11, <2>1 DEF JobWasPublic
<1>13. JobWasPublic(k)' /\ CardsWerePublic'
  BY <1>2, <1>5, <1>11, <1>12, PublicGrows
<1>14. job' = [job EXCEPT ![r] = k]
  BY <1>1, <1>10 DEF FillCache, Go
<1>15. PublicNow'
  BY <1>2 DEF DirectoryInv, PublicNow
<1> QED
  BY <1>2, <1>5, <1>9, <1>11, <1>13, <1>14, <1>15, JobMoves

\* A read or a check that ends, goes on or turns into the insert of a copy.
LEMMA ServeKeeps ==
  ASSUME DirectoryInv, NEW r \in Requests, ServeSkill(r)
  PROVE  DirectoryInv'
<1>1. PICK j : j = job[r]
  OBVIOUS
<1>2. /\ UNCHANGED <<skillDocs, skillCache, cardCache, mcpTools, skillClock, writes, publicAt>>
      /\ j # None /\ j.at = "have" /\ job' = [job EXCEPT ![r] = None]
  BY <1>1 DEF ServeSkill, At, Drop
<1>3. JobWasPublic(j)
  BY <1>1, <1>2, JobFacts
<1>4. SharedOnly'
  <2>1. CASE Silent
    BY <2>1, NothingServed
  <2>2. CASE CanAccessSkill(j.user, j.doc) /\ Answer(IF j.doc.owner = j.user THEN {} ELSE {j.skill})
    <3>1. j.doc.owner # j.user => SharedLately(j.skill)
      BY <1>2, <1>3, <2>2 DEF CanAccessSkill, JobWasPublic
    <3>2. \A s \in served'.others : SharedLately(s)
      BY <2>2, <3>1 DEF Answer
    <3>3. served'.exts = <<>>
      BY <2>2 DEF Answer
    <3> QED
      BY <1>2, <3>2, <3>3 DEF SharedOnly, SharedLately
  <2> QED
    BY <1>1, <2>1, <2>2 DEF ServeSkill
<1>5. JobWasPublic(None) /\ mcpTools' \in [Processes -> SUBSET SkillIds] /\ writes' \in 0 .. MaxSkillWrites
  BY <1>2 DEF JobWasPublic, DirectoryInv, DirectoryTypeOK
<1> QED
  BY <1>2, <1>4, <1>5, JobMovesAlone

LEMMA ForkKeeps ==
  ASSUME DirectoryInv, NEW r \in Requests, ForkSkill(r)
  PROVE  DirectoryInv'
<1>1. PICK j : j = job[r]
  OBVIOUS
<1>2. /\ UNCHANGED <<skillDocs, skillCache, cardCache, mcpTools, skillClock, publicAt>> /\ SharedOnly'
      /\ j # None /\ j.op = "fork"
  BY <1>1, NothingServed DEF ForkSkill, At
<1>3. j \in SkillJob /\ JobWasPublic(j) /\ j.user \in Owners
  <2>1. j \in SkillJob /\ JobWasPublic(j)
    BY <1>1, <1>2, JobFacts
  <2> QED
    BY <1>2, <2>1 DEF JobWasPublic
<1>4. mcpTools' \in [Processes -> SUBSET SkillIds] /\ writes \in 0 .. MaxSkillWrites /\ MaxSkillWrites \in Nat
  BY <1>2, DirectoryAssumption DEF DirectoryInv, DirectoryTypeOK
<1>5. CASE job' = [job EXCEPT ![r] = None] /\ UNCHANGED writes
  BY <1>2, <1>4, <1>5, JobMovesAlone DEF JobWasPublic
<1>6. CASE /\ writes < MaxSkillWrites /\ writes' = writes + 1
           /\ job' = [job EXCEPT ![r] = Job("create", j.proc, j.user, writes + 1,
                                            [owner |-> j.user, slug |-> None, public |-> FALSE], "insert")]
  <2>1. PICK doc : doc = [owner |-> j.user, slug |-> None, public |-> FALSE]
    OBVIOUS
  <2>2. doc \in SkillDoc
    BY <1>3, <2>1 DEF SkillDoc
  <2>3. PICK k : k = Job("create", j.proc, j.user, writes + 1, doc, "insert")
    OBVIOUS
  <2>4. writes + 1 \in SkillIds /\ writes' \in 0 .. MaxSkillWrites
    BY <1>4, <1>6 DEF SkillIds
  <2>5. k \in SkillJob /\ k.at = "insert" /\ k.op = "create" /\ k.skill = writes + 1 /\ k.doc = doc
    BY <1>3, <2>2, <2>3, <2>4 DEF Job, SkillJob, Asks
  <2>6. JobWasPublic(k)
    BY <2>2, <2>4, <2>5 DEF JobWasPublic
  <2>7. job' = [job EXCEPT ![r] = k]
    BY <1>6, <2>1, <2>3
  <2> QED
    BY <1>2, <1>4, <2>4, <2>5, <2>6, <2>7, JobMovesAlone
<1> QED
  BY <1>1, <1>5, <1>6 DEF ForkSkill, Drop

LEMMA CreateSkillKeeps ==
  ASSUME DirectoryInv, NEW r \in Requests, NEW p \in Processes, NEW user \in Owners, NEW slug \in Slugs,
         NEW public \in BOOLEAN, CreateSkill(r, p, user, slug, public)
  PROVE  DirectoryInv'
<1>1. /\ UNCHANGED <<skillDocs, skillCache, cardCache, mcpTools, skillClock, publicAt>> /\ SharedOnly'
      /\ writes < MaxSkillWrites /\ writes' = writes + 1
  BY NothingServed DEF CreateSkill
<1>2. mcpTools' \in [Processes -> SUBSET SkillIds] /\ writes \in 0 .. MaxSkillWrites /\ MaxSkillWrites \in Nat
  BY <1>1, DirectoryAssumption DEF DirectoryInv, DirectoryTypeOK
<1>3. PICK name : name = UniqueSlug(user, slug, -1)
  OBVIOUS
<1>4. name \in Slugs \X (1 .. Cardinality(SkillIds) + 2)
  BY <1>3, SlugIsFree
<1>5. PICK doc : doc = [owner |-> user, slug |-> name, public |-> public]
  OBVIOUS
<1>6. doc \in SkillDoc
  BY <1>4, <1>5 DEF SkillDoc
<1>7. PICK j : j = Job("create", p, user, writes + 1, doc, "insert")
  OBVIOUS
<1>8. writes + 1 \in SkillIds /\ writes' \in 0 .. MaxSkillWrites
  BY <1>1, <1>2 DEF SkillIds
<1>9. j \in SkillJob /\ j.at = "insert" /\ j.op = "create" /\ j.skill = writes + 1 /\ j.doc = doc
  BY <1>6, <1>7, <1>8 DEF Job, SkillJob, Asks
<1>10. JobWasPublic(j)
  BY <1>6, <1>8, <1>9 DEF JobWasPublic
<1>11. job' = [job EXCEPT ![r] = j]
  BY <1>3, <1>5, <1>7 DEF CreateSkill, Start
<1> QED
  BY <1>1, <1>2, <1>8, <1>9, <1>10, <1>11, JobMovesAlone

LEMMA CheckKeeps ==
  ASSUME DirectoryInv, NEW r \in Requests,
         DeleteSkill(r) \/ \E slug \in Slugs \cup {None}, public \in BOOLEAN : UpdateSkill(r, slug, public)
  PROVE  DirectoryInv'
<1>1. PICK j : j = job[r]
  OBVIOUS
<1>2. /\ UNCHANGED <<skillDocs, skillCache, cardCache, mcpTools, skillClock, writes, publicAt>> /\ SharedOnly'
      /\ j # None /\ j.at = "have"
  BY <1>1, NothingServed DEF DeleteSkill, UpdateSkill, At
<1>3. j \in SkillJob /\ j.skill \in SkillIds /\ j.doc \in SkillDoc /\ JobWasPublic(j)
  <2>1. j \in SkillJob /\ JobWasPublic(j)
    BY <1>1, <1>2, JobFacts
  <2> QED
    BY <1>2, <2>1 DEF JobWasPublic
<1>4. mcpTools' \in [Processes -> SUBSET SkillIds] /\ writes' \in 0 .. MaxSkillWrites
  BY <1>2 DEF DirectoryInv, DirectoryTypeOK
<1>5. CASE job' = [job EXCEPT ![r] = None]
  BY <1>2, <1>4, <1>5, JobMovesAlone DEF JobWasPublic
<1>6. CASE job' = [job EXCEPT ![r].at = "remove"]
  <2>1. PICK k : k = [j EXCEPT !.at = "remove"]
    OBVIOUS
  <2>2. k \in SkillJob /\ k.at = "remove" /\ k.op = j.op /\ k.user = j.user /\ k.skill = j.skill /\ k.doc = j.doc
    BY <1>3, <2>1 DEF SkillJob
  <2>3. JobWasPublic(k)
    BY <1>2, <1>3, <2>2 DEF JobWasPublic
  <2>4. job' = [job EXCEPT ![r] = k]
    BY <1>1, <1>6, <2>1
  <2> QED
    BY <1>2, <1>4, <2>2, <2>3, <2>4, JobMovesAlone
<1>7. ASSUME NEW slug \in Slugs \cup {None}, NEW public \in BOOLEAN,
             job' = [job EXCEPT ![r].at = "save",
                         ![r].doc = [owner |-> j.doc.owner, public |-> public,
                                     slug |-> IF slug = None THEN None ELSE <<slug, 1>>]]
      PROVE  DirectoryInv'
  <2>1. PICK name : name = IF slug = None THEN None ELSE <<slug, 1>>
    OBVIOUS
  <2>2. PICK doc : doc = [owner |-> j.doc.owner, public |-> public, slug |-> name]
    OBVIOUS
  <2>3. doc \in SkillDoc
    <3>1. 1 \in 1 .. Cardinality(SkillIds) + 2
      BY FS_Interval, FS_CardinalityType, DirectoryAssumption DEF SkillIds
    <3>2. name \in {None} \cup (Slugs \X (1 .. Cardinality(SkillIds) + 2))
      BY <2>1, <3>1
    <3>3. j.doc.owner \in Owners \cup {PlatformUser}
      BY <1>3 DEF SkillDoc
    <3> QED
      BY <2>2, <3>2, <3>3 DEF SkillDoc
  <2>4. PICK k : k = [j EXCEPT !.at = "save", !.doc = doc]
    OBVIOUS
  <2>5. k \in SkillJob /\ k.at = "save" /\ k.op = j.op /\ k.user = j.user /\ k.skill = j.skill /\ k.doc = doc
    BY <1>3, <2>3, <2>4 DEF SkillJob
  <2>6. JobWasPublic(k)
    BY <1>2, <1>3, <2>3, <2>5 DEF JobWasPublic
  <2>7. job' = [job EXCEPT ![r] = k]
    <3>1. r \in DOMAIN job => job[r] = j
      BY <1>1
    <3> QED
      BY <1>1, <1>7, <2>1, <2>2, <2>4 DEF DirectoryInv, DirectoryTypeOK
  <2> QED
    BY <1>2, <1>4, <2>5, <2>6, <2>7, JobMovesAlone
<1> QED
  <2>1. CASE DeleteSkill(r)
    BY <1>5, <1>6, <2>1 DEF DeleteSkill, Go, Drop
  <2>2. ASSUME NEW slug \in Slugs \cup {None}, NEW public \in BOOLEAN, UpdateSkill(r, slug, public) PROVE DirectoryInv'
    BY <1>1, <1>5, <1>7, <2>2 DEF UpdateSkill, Drop
  <2> QED
    BY <2>1, <2>2

LEMMA Published ==
  ASSUME DirectoryInv, skillClock' = skillClock, NEW table \in [SkillIds -> SkillDoc \cup {None}], Write(table)
  PROVE  /\ publicAt' \in [SkillIds -> -1 .. skillClock] /\ \A s \in SkillIds : publicAt'[s] >= publicAt[s]
         /\ \A s \in SkillIds : table[s] # None /\ table[s].public => publicAt'[s] = skillClock
         /\ skillDocs' \in [SkillIds -> SkillDoc \cup {None}] /\ PublicNow'
<1>1. skillClock \in Nat /\ publicAt \in [SkillIds -> -1 .. skillClock]
  BY DEF DirectoryInv, DirectoryTypeOK
<1>2. skillDocs' = table
      /\ publicAt' = [s \in SkillIds |-> IF table[s] # None /\ table[s].public THEN skillClock ELSE publicAt[s]]
  BY DEF Write
<1> QED
  BY <1>1, <1>2 DEF PublicNow

\* The cards of a process are dropped.
LEMMA CardsDropped ==
  ASSUME DirectoryInv, skillClock' = skillClock,
         publicAt' \in [SkillIds -> -1 .. skillClock], \A s \in SkillIds : publicAt'[s] >= publicAt[s],
         NEW q, cardCache' = [cardCache EXCEPT ![q] = {}]
  PROVE  CardsWerePublic'
<1>1. publicAt \in [SkillIds -> -1 .. skillClock] /\ skillClock \in Nat
  BY DEF DirectoryInv, DirectoryTypeOK
<1>2. SUFFICES ASSUME NEW p \in Processes, NEW c \in cardCache[p]
               PROVE  c.bucket \in Nat /\ \A s \in c.skills : s \in SkillIds /\ publicAt'[s] >= SkillTtl * c.bucket
  BY DEF DirectoryInv, CardsWerePublic
<1>3. c.bucket \in Nat /\ \A s \in c.skills : s \in SkillIds /\ publicAt[s] >= SkillTtl * c.bucket
  BY <1>2 DEF DirectoryInv, CardsWerePublic
<1>4. PICK n \in Int : n = SkillTtl * c.bucket
  BY <1>3, DirectoryAssumption
<1> QED
  BY <1>1, <1>3, <1>4

LEMMA InsertKeeps ==
  ASSUME DirectoryInv, NEW r \in Requests, InsertSkill(r)
  PROVE  DirectoryInv'
<1>1. PICK j : j = job[r]
  OBVIOUS
<1>2. UNCHANGED <<mcpTools, skillClock, writes>> /\ SharedOnly' /\ j # None /\ j.at = "insert"
  BY <1>1, NothingServed DEF InsertSkill, At
<1>3. j \in SkillJob /\ j.skill \in SkillIds /\ j.doc \in SkillDoc /\ j.proc \in Processes /\ JobWasPublic(j)
  <2>1. j \in SkillJob /\ JobWasPublic(j)
    BY <1>1, <1>2, JobFacts
  <2> QED
    BY <1>2, <2>1 DEF JobWasPublic, SkillJob
<1>4. PICK table : table = [skillDocs EXCEPT ![j.skill] = j.doc]
  OBVIOUS
<1>5. table \in [SkillIds -> SkillDoc \cup {None}] /\ table[j.skill] = j.doc /\ j.doc # None
  BY <1>3, <1>4, DirectoryAssumption DEF DirectoryInv, DirectoryTypeOK
<1>6. Write(table)
  BY <1>1, <1>4 DEF InsertSkill
<1>7. /\ publicAt' \in [SkillIds -> -1 .. skillClock] /\ \A s \in SkillIds : publicAt'[s] >= publicAt[s]
      /\ j.doc.public => publicAt'[j.skill] = skillClock
      /\ skillDocs' \in [SkillIds -> SkillDoc \cup {None}] /\ PublicNow'
  BY <1>2, <1>3, <1>5, <1>6, Published
<1>8. PICK row : row = [at |-> skillClock, doc |-> j.doc]
  OBVIOUS
<1>9. row \in CachedSkill /\ row.at = skillClock /\ row.doc = j.doc
  BY <1>3, <1>8 DEF CachedSkill, DirectoryInv, DirectoryTypeOK
<1>10. skillCache' = [skillCache EXCEPT ![j.proc][j.skill] = row]
  BY <1>1, <1>8 DEF InsertSkill, CacheSet
<1>11. skillCache' \in [Processes -> [SkillIds -> CachedSkill \cup {None}]] /\ RowsWerePublic'
  BY <1>2, <1>3, <1>7, <1>9, <1>10, RowCached
<1>12. CardsWerePublic'
  BY <1>1, <1>2, <1>7, CardsDropped DEF InsertSkill
<1>13. PICK k : k = [j EXCEPT !.at = "list"]
  OBVIOUS
<1>14. k \in SkillJob /\ k.at = "list" /\ k.skill = j.skill /\ k.doc = j.doc /\ k.op = j.op /\ k.user = j.user
  BY <1>3, <1>13 DEF SkillJob
<1>15. JobWasPublic(k)'
  <2>1. JobWasPublic(k)
    BY <1>2, <1>3, <1>14 DEF JobWasPublic
  <2> QED
    BY <1>2, <1>7, <1>14, <2>1, PublicGrows
<1>16. job' = [job EXCEPT ![r] = k]
  BY <1>1, <1>13 DEF InsertSkill, Go
<1>17. mcpTools' \in [Processes -> SUBSET SkillIds] /\ writes' \in 0 .. MaxSkillWrites
  BY <1>2 DEF DirectoryInv, DirectoryTypeOK
<1> QED
  BY <1>2, <1>7, <1>11, <1>12, <1>14, <1>15, <1>16, <1>17, JobMoves

LEMMA SaveKeeps ==
  ASSUME DirectoryInv, NEW r \in Requests, SaveSkill(r) \/ RemoveSkill(r)
  PROVE  DirectoryInv'
<1>1. PICK j : j = job[r]
  OBVIOUS
<1>2. UNCHANGED <<mcpTools, skillClock, writes>> /\ SharedOnly' /\ j # None /\ j.at \in {"save", "remove"}
  BY <1>1, NothingServed DEF SaveSkill, RemoveSkill, At
<1>3. j \in SkillJob /\ j.skill \in SkillIds /\ j.doc \in SkillDoc /\ j.proc \in Processes /\ JobWasPublic(j)
  <2>1. j \in SkillJob /\ JobWasPublic(j)
    BY <1>1, <1>2, JobFacts
  <2> QED
    BY <1>2, <2>1 DEF JobWasPublic, SkillJob
<1>4. mcpTools' \in [Processes -> SUBSET SkillIds] /\ writes' \in 0 .. MaxSkillWrites
      /\ skillDocs \in [SkillIds -> SkillDoc \cup {None}]
  BY <1>2 DEF DirectoryInv, DirectoryTypeOK
<1>5. CASE job' = [job EXCEPT ![r] = None] /\ UNCHANGED <<skillDocs, skillCache, cardCache, publicAt>>
  BY <1>2, <1>4, <1>5, JobMovesAlone DEF JobWasPublic
<1>6. ASSUME NEW table \in [SkillIds -> SkillDoc \cup {None}], Write(table), CacheInvalidate(j.proc, j.skill), Go(r, "list")
      PROVE  DirectoryInv'
  <2>1. /\ publicAt' \in [SkillIds -> -1 .. skillClock] /\ \A s \in SkillIds : publicAt'[s] >= publicAt[s]
        /\ skillDocs' \in [SkillIds -> SkillDoc \cup {None}] /\ PublicNow'
    BY <1>2, <1>6, Published
  <2>2. skillCache' \in [Processes -> [SkillIds -> CachedSkill \cup {None}]] /\ RowsWerePublic'
    BY <1>2, <1>3, <1>6, <2>1, RowCached DEF CacheInvalidate
  <2>3. CardsWerePublic'
    BY <1>2, <1>6, <2>1, CardsDropped DEF CacheInvalidate
  <2>4. PICK k : k = [j EXCEPT !.at = "list"]
    OBVIOUS
  <2>5. k \in SkillJob /\ k.at = "list" /\ k.skill = j.skill /\ k.doc = j.doc /\ k.op = j.op /\ k.user = j.user
    BY <1>3, <2>4 DEF SkillJob
  <2>6. JobWasPublic(k)'
    <3>1. JobWasPublic(k)
      BY <1>2, <1>3, <2>5 DEF JobWasPublic
    <3> QED
      BY <1>2, <2>1, <2>5, <3>1, PublicGrows
  <2>7. job' = [job EXCEPT ![r] = k]
    BY <1>1, <1>6, <2>4 DEF Go
  <2> QED
    BY <1>2, <1>4, <2>1, <2>2, <2>3, <2>5, <2>6, <2>7, JobMoves
<1>7. CASE RemoveSkill(r)
  <2>1. PICK table : table = [skillDocs EXCEPT ![j.skill] = None]
    OBVIOUS
  <2>2. table \in [SkillIds -> SkillDoc \cup {None}]
    BY <1>4, <2>1
  <2>3. Write(table) /\ CacheInvalidate(j.proc, j.skill) /\ Go(r, "list")
    BY <1>1, <1>7, <2>1 DEF RemoveSkill
  <2> QED
    BY <1>6, <2>2, <2>3
<1>8. CASE SaveSkill(r) /\ skillDocs[j.skill] # None
  <2>1. PICK old : old = skillDocs[j.skill]
    OBVIOUS
  <2>2. PICK new : new = [old EXCEPT !.public = j.doc.public,
                                     !.slug = IF j.doc.slug = None THEN old.slug ELSE j.doc.slug]
    OBVIOUS
  <2>3. old \in SkillDoc
    BY <1>3, <1>4, <1>8, <2>1
  <2>4. new \in SkillDoc
    BY <1>3, <2>2, <2>3 DEF SkillDoc
  <2>5. PICK table : table = [skillDocs EXCEPT ![j.skill] = new]
    OBVIOUS
  <2>6. table \in [SkillIds -> SkillDoc \cup {None}]
    BY <1>4, <2>4, <2>5
  <2>7. table = [skillDocs EXCEPT ![j.skill].public = j.doc.public,
                                 ![j.skill].slug = IF j.doc.slug = None THEN @ ELSE j.doc.slug]
    BY <1>3, <1>4, <2>1, <2>2, <2>3, <2>5 DEF SkillDoc
  <2>8. Write(table) /\ CacheInvalidate(j.proc, j.skill) /\ Go(r, "list")
    BY <1>1, <1>8, <2>7 DEF SaveSkill
  <2> QED
    BY <1>6, <2>6, <2>8
<1>9. CASE SaveSkill(r) /\ skillDocs[j.skill] = None
  BY <1>1, <1>5, <1>9 DEF SaveSkill, Drop
<1> QED
  BY <1>7, <1>8, <1>9

LEMMA ListIsPublic ==
  ASSUME DirectoryInv
  PROVE  ListMarketplace \subseteq SkillIds /\ \A s \in ListMarketplace : publicAt[s] = skillClock
BY DEF ListMarketplace, MatchesFilters, DirectoryInv, PublicNow

\* The registry is rebuilt, and an update reads its row back.
LEMMA RebuildKeeps ==
  ASSUME DirectoryInv, NEW r \in Requests, RebuildTools(r)
  PROVE  DirectoryInv'
<1>1. PICK j : j = job[r]
  OBVIOUS
<1>2. /\ UNCHANGED <<skillDocs, skillCache, cardCache, skillClock, writes, publicAt>> /\ SharedOnly'
      /\ j # None /\ j.at \in {"list", "sync"}
  BY <1>1, NothingServed DEF RebuildTools, At
<1>3. j \in SkillJob /\ j.skill \in SkillIds /\ j.doc \in SkillDoc /\ j.proc \in Processes /\ j.listing \subseteq SkillIds
      /\ JobWasPublic(j)
  <2>1. j \in SkillJob /\ JobWasPublic(j)
    BY <1>1, <1>2, JobFacts
  <2> QED
    BY <1>2, <2>1 DEF JobWasPublic, SkillJob
<1>4. mcpTools \in [Processes -> SUBSET SkillIds] /\ writes' \in 0 .. MaxSkillWrites
      /\ job \in [Requests -> SkillJob \cup {None}]
  BY <1>2 DEF DirectoryInv, DirectoryTypeOK
<1>5. mcpTools' \in [Processes -> SUBSET SkillIds]
  BY <1>1, <1>3, <1>4 DEF RebuildTools
<1>6. CASE job' = [job EXCEPT ![r].at = "sync", ![r].listing = ListMarketplace]
  <2>1. PICK list : list = ListMarketplace
    OBVIOUS
  <2>2. PICK k : k = [j EXCEPT !.at = "sync", !.listing = list]
    OBVIOUS
  <2>3. list \subseteq SkillIds
    BY <2>1, ListIsPublic
  <2>4. k \in SkillJob /\ k.at = "sync" /\ k.skill = j.skill /\ k.doc = j.doc /\ k.op = j.op /\ k.user = j.user
    BY <1>3, <2>2, <2>3 DEF SkillJob
  <2>5. JobWasPublic(k)
    BY <1>2, <1>3, <2>4 DEF JobWasPublic
  <2>6. job' = [job EXCEPT ![r] = k]
    BY <1>1, <1>4, <1>6, <2>1, <2>2
  <2> QED
    BY <1>2, <1>4, <1>5, <2>4, <2>5, <2>6, JobMovesAlone
<1>7. CASE Go(r, "reread")
  <2>1. PICK k : k = [j EXCEPT !.at = "reread"]
    OBVIOUS
  <2>2. k \in SkillJob /\ k.at = "reread" /\ k.skill = j.skill /\ k.doc = j.doc /\ k.op = j.op /\ k.user = j.user
    BY <1>3, <2>1 DEF SkillJob
  <2>3. JobWasPublic(k)
    BY <1>2, <1>3, <2>2 DEF JobWasPublic
  <2>4. job' = [job EXCEPT ![r] = k]
    BY <1>1, <1>7, <2>1 DEF Go
  <2> QED
    BY <1>2, <1>4, <1>5, <2>2, <2>3, <2>4, JobMovesAlone
<1> QED
  BY <1>6, <1>7 DEF RebuildTools

LEMMA ReadBackKeeps ==
  ASSUME DirectoryInv, NEW r \in Requests, ReadBack(r)
  PROVE  DirectoryInv'
<1>1. PICK j : j = job[r]
  OBVIOUS
<1>2. /\ UNCHANGED <<skillDocs, cardCache, mcpTools, skillClock, writes, publicAt>> /\ SharedOnly'
      /\ j # None /\ j.at \in {"reread", "refill"}
  BY <1>1, NothingServed DEF ReadBack, At
<1>3. j \in SkillJob /\ j.skill \in SkillIds /\ j.doc \in SkillDoc /\ j.proc \in Processes /\ JobWasPublic(j)
  <2>1. j \in SkillJob /\ JobWasPublic(j)
    BY <1>1, <1>2, JobFacts
  <2> QED
    BY <1>2, <2>1 DEF JobWasPublic, SkillJob
<1>4. mcpTools' \in [Processes -> SUBSET SkillIds] /\ writes' \in 0 .. MaxSkillWrites
      /\ skillDocs \in [SkillIds -> SkillDoc \cup {None}] /\ skillDocs' \in [SkillIds -> SkillDoc \cup {None}]
      /\ job \in [Requests -> SkillJob \cup {None}]
      /\ publicAt' \in [SkillIds -> -1 .. skillClock] /\ \A s \in SkillIds : publicAt'[s] >= publicAt[s]
  BY <1>2 DEF DirectoryInv, DirectoryTypeOK
<1>5. JobWasPublic(None)
  BY DEF JobWasPublic
<1>6. CASE skillCache' = skillCache /\ job' = [job EXCEPT ![r] = None]
  BY <1>2, <1>4, <1>5, <1>6, JobMovesAlone
<1>7. CASE skillCache' = skillCache /\ skillDocs[j.skill] # None
           /\ job' = [job EXCEPT ![r].at = "refill", ![r].doc = skillDocs[j.skill]]
  <2>1. PICK doc : doc = skillDocs[j.skill]
    OBVIOUS
  <2>2. doc \in SkillDoc /\ (doc.public => publicAt[j.skill] = skillClock)
    BY <1>3, <1>4, <1>7, <2>1 DEF DirectoryInv, PublicNow
  <2>3. PICK k : k = [j EXCEPT !.at = "refill", !.doc = doc]
    OBVIOUS
  <2>4. k \in SkillJob /\ k.at = "refill" /\ k.skill = j.skill /\ k.doc = doc /\ k.op = j.op /\ k.user = j.user
    BY <1>3, <2>2, <2>3 DEF SkillJob
  <2>5. JobWasPublic(k)
    BY <1>2, <1>3, <2>2, <2>4 DEF JobWasPublic
  <2>6. job' = [job EXCEPT ![r] = k]
    BY <1>1, <1>4, <1>7, <2>1, <2>3
  <2> QED
    BY <1>2, <1>4, <1>7, <2>4, <2>5, <2>6, JobMovesAlone
<1>8. CASE j.at = "refill" /\ CacheSet(j.proc, j.skill, j.doc) /\ Drop(r)
  <2>1. PICK row : row = [at |-> skillClock, doc |-> j.doc]
    OBVIOUS
  <2>2. row \in CachedSkill /\ row.at = skillClock /\ row.doc = j.doc
    BY <1>3, <2>1 DEF CachedSkill, DirectoryInv, DirectoryTypeOK
  <2>3. skillCache' = [skillCache EXCEPT ![j.proc][j.skill] = row]
    BY <1>8, <2>1 DEF CacheSet
  <2>4. j.doc.public => publicAt'[j.skill] = skillClock
    BY <1>2, <1>3, <1>8 DEF JobWasPublic
  <2>5. skillCache' \in [Processes -> [SkillIds -> CachedSkill \cup {None}]] /\ RowsWerePublic'
    BY <1>2, <1>3, <1>4, <2>2, <2>3, <2>4, RowCached
  <2>6. CardsWerePublic' /\ JobWasPublic(None)'
    BY <1>2, <1>4, <1>5, PublicGrows
  <2>7. PublicNow'
    BY <1>2 DEF DirectoryInv, PublicNow
  <2>8. job' = [job EXCEPT ![r] = None]
    BY <1>8 DEF Drop
  <2> QED
    BY <1>2, <1>4, <2>5, <2>6, <2>7, <2>8, JobMoves
<1> QED
  BY <1>1, <1>6, <1>7, <1>8 DEF ReadBack, At, Drop

\* A bucket of the clock: the ticks from its start on are less than a lifetime apart.
LEMMA BucketOfClock ==
  ASSUME DirectoryInv
  PROVE  /\ TimeBucket \in Nat /\ SkillTtl * TimeBucket <= skillClock
         /\ skillClock < SkillTtl * TimeBucket + SkillTtl /\ SkillTtl * TimeBucket \in Nat
<1>1. skillClock \in Nat /\ SkillTtl \in Nat \ {0}
  BY DirectoryAssumption DEF DirectoryInv, DirectoryTypeOK
<1>2. TimeBucket \in Nat
  BY <1>1 DEF TimeBucket
<1>3. SkillTtl * TimeBucket <= skillClock
  BY <1>1 DEF TimeBucket
<1>4. skillClock < SkillTtl * TimeBucket + SkillTtl
  BY <1>1 DEF TimeBucket
<1>5. SkillTtl * TimeBucket \in Nat
  BY <1>1, <1>2
<1> QED
  BY <1>2, <1>3, <1>4, <1>5

LEMMA CardKeeps ==
  ASSUME DirectoryInv, NEW r \in Requests, NEW p \in Processes, NEW asked \in Asks, AgentCard(r, p, asked)
  PROVE  DirectoryInv'
<1>1. UNCHANGED <<skillDocs, skillCache, cardCache, mcpTools, skillClock, writes, publicAt>> /\ job[r] = None
  BY DEF AgentCard
<1>2. mcpTools' \in [Processes -> SUBSET SkillIds] /\ writes' \in 0 .. MaxSkillWrites
      /\ job \in [Requests -> SkillJob \cup {None}] /\ publicAt \in [SkillIds -> -1 .. skillClock] /\ skillClock \in Nat
  BY <1>1 DEF DirectoryInv, DirectoryTypeOK
<1>3. ASSUME NEW c \in CachedCard(p, NegotiateExtensions(asked)), AnswerCard(asked, c.skills, c.exts), job' = job
      PROVE  DirectoryInv'
  <2>1. c \in cardCache[p] /\ c.bucket = TimeBucket /\ c.exts = NegotiateExtensions(asked)
    BY <1>3 DEF CachedCard
  <2>2. \A s \in c.skills : s \in SkillIds /\ publicAt[s] >= SkillTtl * TimeBucket
    BY <2>1 DEF DirectoryInv, CardsWerePublic
  <2>3. PICK start : start = SkillTtl * TimeBucket
    OBVIOUS
  <2>4. start \in Nat /\ start <= skillClock /\ skillClock < start + SkillTtl /\ SkillTtl \in Nat
    BY <2>3, BucketOfClock, DirectoryAssumption
  <2>5. \A s \in c.skills : publicAt[s] >= 0 /\ skillClock - publicAt[s] < SkillTtl
    BY <1>2, <2>2, <2>3, <2>4
  <2>6. SharedOnly'
    <3>1. PICK exts : exts = NegotiateExtensions(asked)
      OBVIOUS
    <3>2. served'.others = c.skills /\ served'.asked = asked /\ served'.exts = exts
      BY <1>3, <2>1, <3>1 DEF AnswerCard
    <3> QED
      BY <1>1, <2>5, <3>1, <3>2 DEF SharedOnly
  <2>7. job' = [job EXCEPT ![r] = None] /\ JobWasPublic(None)
    BY <1>1, <1>2, <1>3 DEF JobWasPublic
  <2> QED
    BY <1>1, <1>2, <2>6, <2>7, JobMovesAlone
<1>4. ASSUME NEW list \in {ListMarketplace, {}}, Silent,
             job' = [job EXCEPT ![r] = [Job("card", p, Peer, -1, None, "card") EXCEPT !.listing = list, !.asked = asked]]
      PROVE  DirectoryInv'
  <2>1. PICK k : k = [Job("card", p, Peer, -1, None, "card") EXCEPT !.listing = list, !.asked = asked]
    OBVIOUS
  <2>2. list \subseteq SkillIds /\ \A s \in list : publicAt[s] = skillClock
    BY <1>4, ListIsPublic
  <2>3. k \in SkillJob /\ k.at = "card" /\ k.op = "card" /\ k.listing = list
    BY <2>1, <2>2 DEF Job, SkillJob
  <2>4. JobWasPublic(k)
    BY <2>2, <2>3 DEF JobWasPublic
  <2>5. job' = [job EXCEPT ![r] = k]
    BY <1>4, <2>1
  <2> QED
    BY <1>1, <1>2, <1>4, <2>3, <2>4, <2>5, JobMovesAlone, NothingServed
<1> QED
  BY <1>3, <1>4 DEF AgentCard

LEMMA BuildKeeps ==
  ASSUME DirectoryInv, NEW r \in Requests, BuildCard(r)
  PROVE  DirectoryInv'
<1>1. PICK j : j = job[r]
  OBVIOUS
<1>2. UNCHANGED <<skillDocs, skillCache, mcpTools, skillClock, writes, publicAt>> /\ j # None /\ j.at = "card"
  BY <1>1 DEF BuildCard, At
<1>3. j \in SkillJob /\ JobWasPublic(j)
  BY <1>1, <1>2, JobFacts
<1>4. /\ mcpTools' \in [Processes -> SUBSET SkillIds] /\ writes' \in 0 .. MaxSkillWrites
      /\ skillDocs' \in [SkillIds -> SkillDoc \cup {None}]
      /\ skillCache' \in [Processes -> [SkillIds -> CachedSkill \cup {None}]]
      /\ publicAt \in [SkillIds -> -1 .. skillClock] /\ skillClock \in Nat /\ SkillTtl \in Nat \ {0}
      /\ publicAt' \in [SkillIds -> -1 .. skillClock] /\ \A s \in SkillIds : publicAt'[s] >= publicAt[s]
  BY <1>2, DirectoryAssumption DEF DirectoryInv, DirectoryTypeOK
<1>5. PICK exts : exts = NegotiateExtensions(j.asked)
  OBVIOUS
<1>6. PICK card : card = [bucket |-> TimeBucket, exts |-> exts, skills |-> j.listing]
  OBVIOUS
<1>7. \A s \in j.listing : s \in SkillIds /\ publicAt[s] = skillClock
  BY <1>2, <1>3 DEF JobWasPublic, SkillJob
<1>8. /\ cardCache' = [cardCache EXCEPT ![j.proc] =
                           IF CachedCard(j.proc, exts) # {} THEN @ ELSE @ \cup {card}]
      /\ AnswerCard(j.asked, card.skills, exts) /\ Drop(r)
  BY <1>1, <1>5, <1>6 DEF BuildCard
<1>9. SharedOnly'
  <2>1. served'.others = j.listing /\ served'.asked = j.asked /\ served'.exts = exts
    BY <1>6, <1>8 DEF AnswerCard
  <2>2. \A s \in j.listing : publicAt[s] >= 0 /\ skillClock - publicAt[s] < SkillTtl
    BY <1>4, <1>7
  <2> QED
    BY <1>2, <1>5, <2>1, <2>2 DEF SharedOnly
<1>10. CardsWerePublic'
  <2>1. DOMAIN cardCache = Processes /\ j.proc \in Processes
    BY <1>3 DEF DirectoryInv, CardsWerePublic, SkillJob
  <2>2. SUFFICES ASSUME NEW p \in Processes, NEW c \in cardCache'[p]
                 PROVE  c.bucket \in Nat /\ \A s \in c.skills : s \in SkillIds /\ publicAt[s] >= SkillTtl * c.bucket
    BY <1>2, <1>8, <2>1 DEF CardsWerePublic
  <2>3. c \in cardCache[p] \/ c = card
    BY <1>8, <2>1
  <2>4. CASE c = card
    <3>1. c.bucket = TimeBucket /\ c.skills = j.listing
      BY <1>6, <2>4
    <3> QED
      BY <1>4, <1>7, <3>1, BucketOfClock
  <2> QED
    BY <2>3, <2>4 DEF DirectoryInv, CardsWerePublic
<1>11. RowsWerePublic' /\ JobWasPublic(None)'
  <2>1. JobWasPublic(None)
    BY DEF JobWasPublic
  <2> QED
    BY <1>2, <1>4, <2>1, PublicGrows
<1>12. PublicNow'
  BY <1>2 DEF DirectoryInv, PublicNow
<1>13. job' = [job EXCEPT ![r] = None]
  BY <1>8 DEF Drop
<1> QED
  BY <1>2, <1>4, <1>9, <1>10, <1>11, <1>12, <1>13, JobMoves

\* Time passes between requests.
LEMMA TickKeeps ==
  ASSUME DirectoryInv, SkillTick
  PROVE  DirectoryInv'
<1>1. /\ skillClock < MaxSkillTicks /\ skillClock' = skillClock + 1 /\ UNCHANGED <<skillDocs, mcpTools, job, writes>>
      /\ publicAt' = [s \in SkillIds |->
             IF skillDocs[s] # None /\ skillDocs[s].public THEN skillClock + 1 ELSE publicAt[s]]
      /\ skillCache' = [p \in Processes |-> [s \in SkillIds |->
             IF Lapsed(skillCache[p][s], skillClock + 1) THEN None ELSE skillCache[p][s]]]
      /\ \A r \in Requests : job[r] = None
  BY DEF SkillTick
<1>2. /\ skillClock \in Nat /\ MaxSkillTicks \in Nat /\ SkillTtl \in Nat
      /\ publicAt \in [SkillIds -> -1 .. skillClock]
      /\ skillCache \in [Processes -> [SkillIds -> CachedSkill \cup {None}]]
  BY DirectoryAssumption DEF DirectoryInv, DirectoryTypeOK
<1>3. publicAt' \in [SkillIds -> -1 .. skillClock'] /\ \A s \in SkillIds : publicAt'[s] >= publicAt[s]
  BY <1>1, <1>2
<1>4. skillCache' \in [Processes -> [SkillIds -> CachedSkill \cup {None}]]
  BY <1>1, <1>2
<1>5. DirectoryTypeOK'
  BY <1>1, <1>2, <1>3, <1>4 DEF DirectoryInv, DirectoryTypeOK
<1>6. PublicNow'
  BY <1>1 DEF PublicNow
<1>7. RowsWerePublic'
  <2>1. SUFFICES ASSUME NEW p \in Processes, NEW s \in SkillIds, skillCache'[p][s] # None
                 PROVE  /\ skillCache'[p][s].at <= skillClock' /\ skillClock' - skillCache'[p][s].at < SkillTtl
                        /\ skillCache'[p][s].doc.public => publicAt'[s] >= skillCache'[p][s].at
    BY <1>4 DEF RowsWerePublic
  <2>2. PICK row : row = skillCache[p][s]
    OBVIOUS
  <2>3. skillCache'[p][s] = row /\ row \in CachedSkill /\ ~((skillClock + 1) - row.at >= SkillTtl)
    <3>1. skillCache'[p][s] = IF Lapsed(skillCache[p][s], skillClock + 1) THEN None ELSE skillCache[p][s]
      BY <1>1
    <3>2. skillCache'[p][s] = row /\ row # None /\ ~Lapsed(row, skillClock + 1)
      BY <2>1, <2>2, <3>1
    <3>3. row \in CachedSkill
      BY <1>2, <2>2, <3>2
    <3>4. ~((skillClock + 1) - row.at >= SkillTtl)
      BY <3>2, Zenon DEF Lapsed
    <3> QED
      BY <3>2, <3>3, <3>4
  <2>4. row.at \in Nat
    BY <2>3 DEF CachedSkill
  <2>5. row.at <= skillClock /\ (row.doc.public => publicAt[s] >= row.at)
    BY <2>1, <2>2, <2>3 DEF DirectoryInv, RowsWerePublic
  <2> QED
    BY <1>1, <1>2, <1>3, <2>3, <2>4, <2>5
<1>8. CardsWerePublic'
  <2>1. cardCache' = [p \in Processes |-> {c \in cardCache[p] : c.bucket = (skillClock + 1) \div SkillTtl}]
    BY DEF SkillTick
  <2>2. SUFFICES ASSUME NEW p \in Processes, NEW c \in cardCache[p]
                 PROVE  c.bucket \in Nat /\ \A s \in c.skills : s \in SkillIds /\ publicAt'[s] >= SkillTtl * c.bucket
    <3>1. DOMAIN cardCache' = Processes /\ \A p \in Processes : cardCache'[p] \subseteq cardCache[p]
      BY <2>1
    <3> QED
      BY <2>2, <3>1 DEF CardsWerePublic
  <2>3. c.bucket \in Nat /\ \A s \in c.skills : s \in SkillIds /\ publicAt[s] >= SkillTtl * c.bucket
    BY <2>2 DEF DirectoryInv, CardsWerePublic
  <2>4. PICK n \in Int : n = SkillTtl * c.bucket
    BY <1>2, <2>3
  <2> QED
    BY <1>2, <1>3, <2>3, <2>4
<1>9. JobsWerePublic'
  BY <1>1 DEF JobsWerePublic, JobWasPublic
<1>10. SharedOnly'
  BY NothingServed DEF SkillTick
<1> QED
  BY <1>5, <1>6, <1>7, <1>8, <1>9, <1>10 DEF DirectoryInv

LEMMA DirectoryStarts == DirectoryInit => DirectoryInv
<1> SUFFICES ASSUME DirectoryInit PROVE DirectoryInv
  OBVIOUS
<1>1. PICK owner \in {PlatformUser, PlatformAdmin} :
          skillDocs = [t \in SkillIds |->
              IF t = 0 THEN [owner |-> owner, slug |-> None, public |-> TRUE] ELSE None]
  BY DEF DirectoryInit
<1>2. /\ skillCache = [p \in Processes |-> [t \in SkillIds |-> None]]
      /\ cardCache = [p \in Processes |-> {}] /\ mcpTools = [p \in Processes |-> ListMarketplace]
      /\ job = [r \in Requests |-> None] /\ served = None /\ skillClock = 0 /\ writes = 0
      /\ publicAt = [t \in SkillIds |-> IF t = 0 THEN 0 ELSE -1]
  BY DEF DirectoryInit
<1>3. PICK doc : doc = [owner |-> owner, slug |-> None, public |-> TRUE]
  OBVIOUS
<1>4. doc \in SkillDoc
  BY <1>1, <1>3, DirectoryAssumption DEF SkillDoc
<1>5. skillDocs = [t \in SkillIds |-> IF t = 0 THEN doc ELSE None]
  BY <1>1, <1>3
<1>6. DirectoryTypeOK
  <2>1. skillDocs \in [SkillIds -> SkillDoc \cup {None}]
    BY <1>4, <1>5
  <2>2. mcpTools \in [Processes -> SUBSET SkillIds]
    BY <1>2 DEF ListMarketplace
  <2>3. publicAt \in [SkillIds -> -1 .. skillClock]
    BY <1>2
  <2> QED
    BY <1>2, <2>1, <2>2, <2>3, DirectoryAssumption DEF DirectoryTypeOK
<1>7. PublicNow
  BY <1>2, <1>5 DEF PublicNow
<1>8. RowsWerePublic /\ CardsWerePublic /\ JobsWerePublic /\ SharedOnly
  BY <1>2 DEF RowsWerePublic, CardsWerePublic, JobsWerePublic, JobWasPublic, SharedOnly
<1> QED
  BY <1>6, <1>7, <1>8 DEF DirectoryInv

\* An answer straight from the store.
LEMMA ListsKeep ==
  ASSUME DirectoryInv, ListMarketplaceRoute \/ \E user \in Owners : ListSkills(user)
  PROVE  DirectoryInv'
<1>1. UNCHANGED <<skillDocs, skillCache, cardCache, mcpTools, job, skillClock, writes, publicAt>>
  BY DEF ListMarketplaceRoute, ListSkills
<1>2. skillClock \in Nat /\ SkillTtl \in Nat \ {0}
  BY DirectoryAssumption DEF DirectoryInv, DirectoryTypeOK
<1>3. ASSUME NEW others, Answer(others), \A s \in others : publicAt[s] = skillClock PROVE SharedOnly'
  <2>1. served'.others = others /\ served'.exts = <<>>
    BY <1>3 DEF Answer
  <2> QED
    BY <1>1, <1>2, <1>3, <2>1 DEF SharedOnly
<1>4. SharedOnly'
  <2>1. CASE ListMarketplaceRoute
    BY <1>3, <2>1, ListIsPublic DEF ListMarketplaceRoute
  <2>2. ASSUME NEW user \in Owners, ListSkills(user) PROVE SharedOnly'
    <3>1. PICK others : others = {s \in VisibleConfigs(user) : skillDocs[s].owner # user}
      OBVIOUS
    <3>2. \A s \in others : publicAt[s] = skillClock
      BY <3>1 DEF VisibleConfigs, CanAccessSkill, DirectoryInv, PublicNow
    <3>3. Answer(others)
      BY <2>2, <3>1 DEF ListSkills
    <3> QED
      BY <1>3, <3>2, <3>3
  <2> QED
    BY <2>1, <2>2
<1> QED
  BY <1>1, <1>4 DEF DirectoryInv, DirectoryTypeOK, PublicNow, RowsWerePublic, CardsWerePublic,
                    JobsWerePublic, JobWasPublic, SharedLately

LEMMA DirectoryStep == DirectoryInv /\ [DirectoryNext]_directoryVars => DirectoryInv'
<1> SUFFICES ASSUME DirectoryInv, [DirectoryNext]_directoryVars PROVE DirectoryInv'
  OBVIOUS
<1>1. CASE UNCHANGED directoryVars
  BY <1>1 DEF directoryVars, DirectoryInv, DirectoryTypeOK, PublicNow, RowsWerePublic, CardsWerePublic,
              JobsWerePublic, JobWasPublic, SharedLately, SharedOnly
<1>2. ASSUME NEW r \in Requests, NEW p \in Processes, NEW s \in SkillIds, NEW user \in Owners,
             NEW op \in {"get", "fork", "update", "delete"}, GetSkill(r, op, p, user, s)
      PROVE  DirectoryInv'
  BY <1>2, GetKeeps
<1>3. ASSUME NEW r \in Requests, NEW p \in Processes, NEW s \in SkillIds, InvokeTool(r, p, s) PROVE DirectoryInv'
  <2>1. GetSkill(r, "invoke", p, Peer, s) /\ Peer \in Owners \cup {Peer}
    BY <1>3 DEF InvokeTool
  <2> QED
    BY <2>1, GetKeeps
<1>4. ASSUME NEW r \in Requests, NEW p \in Processes, NEW user \in Owners, NEW slug \in Slugs,
             ResolveSkillRef(r, p, user, slug) \/ \E public \in BOOLEAN : CreateSkill(r, p, user, slug, public)
      PROVE  DirectoryInv'
  BY <1>4, ResolveKeeps, CreateSkillKeeps
<1>5. ASSUME NEW r \in Requests,
             \/ FillCache(r) \/ ServeSkill(r) \/ ForkSkill(r) \/ InsertSkill(r)
             \/ \E slug \in Slugs \cup {None}, public \in BOOLEAN : UpdateSkill(r, slug, public)
             \/ SaveSkill(r) \/ DeleteSkill(r) \/ RemoveSkill(r)
             \/ RebuildTools(r) \/ ReadBack(r) \/ BuildCard(r)
      PROVE  DirectoryInv'
  BY <1>5, FillKeeps, ServeKeeps, ForkKeeps, InsertKeeps, CheckKeeps, SaveKeeps, RebuildKeeps, ReadBackKeeps, BuildKeeps
<1>6. ASSUME NEW r \in Requests, NEW p \in Processes, NEW asked \in Asks, AgentCard(r, p, asked) PROVE DirectoryInv'
  BY <1>6, CardKeeps
<1>7. ASSUME SkillTick \/ ListMarketplaceRoute \/ \E user \in Owners : ListSkills(user) PROVE DirectoryInv'
  BY <1>7, TickKeeps, ListsKeep
<1> QED
  BY <1>1, <1>2, <1>3, <1>4, <1>5, <1>6, <1>7, Zenon DEF DirectoryNext

\* Nothing private is served to anybody else, later than a cache lifetime after
\* it was shared, by any process's caches, cards or registry.
THEOREM OnlySharedIsServed == DirectorySpec => [](DirectoryTypeOK /\ SharedOnly)
<1>1. DirectoryInv => DirectoryTypeOK /\ SharedOnly
  BY DEF DirectoryInv
<1> QED
  BY <1>1, DirectoryStarts, DirectoryStep, PTL DEF DirectorySpec

-----------------------------------------------------------------------------
(* Object storage: an upload in progress holds what it has copied, and its  *)
(* temporary file keeps its directory.                                      *)
TempOf(q) == [key |-> q.key, version |-> q.version]
Copied(n, version) == [i \in 1..n |-> version]

PutWell(q) == q # None =>
    /\ q.key \in Keys /\ q.version \in 1..putCount
    /\ \E n \in 0..Chunks : q.data = Copied(n, q.version)
    /\ q.pc = "copy" => adapter = "local" /\ TempOf(q) \in temps

PutsWell ==
    /\ DOMAIN puts = Writers /\ putCount \in 0..MaxPuts
    /\ \A w \in Writers : PutWell(puts[w])
    /\ \A w, x \in Writers : w # x /\ puts[w] # None /\ puts[x] # None => puts[w].version # puts[x].version

\* A download holds one version; outside GCS it has read nothing else.
GetWell(g) == g # None =>
    \E v \in 1..MaxPuts :
        /\ {"held", "got"} \subseteq DOMAIN g
        /\ g.held = Whole(v) /\ g.got \in Seq(1..MaxPuts)
        /\ \A i \in 1..Len(g.got) : g.got[i] = v

GetsWell == DOMAIN gets = Readers /\ (adapter # "gcs" => \A rd \in Readers : GetWell(gets[rd]))

BlobsWell ==
    /\ DOMAIN blobs = Keys
    /\ \A k \in Keys : blobs[k] # None => \E v \in 1..MaxPuts : blobs[k] = Whole(v)

TempsHoused == \A t \in temps : DirOf(t.key) \in dirTree

ObjectsInv ==
    /\ adapter \in {"local", "s3", "gcs"}
    /\ PutsWell /\ GetsWell /\ BlobsWell /\ TempsHoused /\ NothingPruned

LEMMA WholeFacts ==
  ASSUME NEW v \in Nat
  PROVE  /\ Whole(v) = Copied(Chunks, v) /\ Len(Whole(v)) = Chunks /\ \A i \in 1..Chunks : Whole(v)[i] = v
         /\ Copied(0, v) = <<>>
         /\ \A n \in Nat : Len(Copied(n, v)) = n /\ Append(Copied(n, v), v) = Copied(n + 1, v)
<1>1. Chunks \in Nat
  BY ObjectAssumption
<1>2. \A n \in Nat : Copied(n, v) \in Seq(Nat) /\ Len(Copied(n, v)) = n
  BY DEF Copied
<1>3. ASSUME NEW n \in Nat PROVE Append(Copied(n, v), v) = Copied(n + 1, v)
  <2>1. Append(Copied(n, v), v) \in Seq(Nat) /\ Len(Append(Copied(n, v), v)) = n + 1
        /\ \A i \in 1..(n + 1) : Append(Copied(n, v), v)[i] = v
    <3>1. \A i \in 1..n : Copied(n, v)[i] = v
      BY DEF Copied
    <3>2. PICK s \in Seq(Nat) : s = Copied(n, v) /\ Len(s) = n
      BY <1>2
    <3> QED
      BY <3>1, <3>2, AppendProperties
  <2>2. Copied(n + 1, v) \in Seq(Nat) /\ Len(Copied(n + 1, v)) = n + 1 /\ \A i \in 1..(n + 1) : Copied(n + 1, v)[i] = v
    BY <1>2 DEF Copied
  <2> QED
    BY <2>1, <2>2, SeqEqual
<1>4. Whole(v) = Copied(Chunks, v)
  BY DEF Whole, Copied
<1>5. \A i \in 1..Chunks : Whole(v)[i] = v
  BY DEF Whole
<1>6. Copied(0, v) = <<>>
  <2>1. Copied(0, v) \in Seq(Nat) /\ Len(Copied(0, v)) = 0
    BY <1>2
  <2> QED
    BY <2>1, EmptySeq
<1> QED
  BY <1>1, <1>2, <1>3, <1>4, <1>5, <1>6

\* One upload moves on: what it holds and the temporary files of the others stay.
LEMMA PutMoves ==
  ASSUME PutsWell, NEW w \in Writers, puts[w] # None, NEW q, puts' = [puts EXCEPT ![w] = q],
         q # None => q.version = puts[w].version, PutWell(q)',
         UNCHANGED <<adapter, putCount>>, temps \ {TempOf(puts[w])} \subseteq temps'
  PROVE  PutsWell'
<1>1. ASSUME NEW x \in Writers PROVE PutWell(puts[x])'
  <2>1. CASE x = w
    BY <2>1 DEF PutsWell, PutWell, TempOf
  <2>2. CASE x # w
    <3>1. puts'[x] = puts[x] /\ PutWell(puts[x])
      BY <2>2 DEF PutsWell
    <3>2. puts[x] # None => puts[x].version # puts[w].version
      BY <2>2 DEF PutsWell
    <3>3. puts[x] # None /\ TempOf(puts[x]) \in temps => TempOf(puts[x]) \in temps'
      BY <3>2 DEF TempOf
    <3> QED
      BY <3>1, <3>3 DEF PutWell, TempOf
  <2> QED
    BY <2>1, <2>2
<1>2. DOMAIN puts' = Writers
  BY DEF PutsWell
<1>3. \A x, y \in Writers : x # y /\ puts'[x] # None /\ puts'[y] # None => puts'[x].version # puts'[y].version
  BY DEF PutsWell
<1> QED
  BY <1>1, <1>2, <1>3 DEF PutsWell

LEMMA PutEnds ==
  ASSUME PutsWell, NEW w \in Writers, puts[w] # None, puts' = [puts EXCEPT ![w] = None],
         UNCHANGED <<adapter, putCount>>, temps \ {TempOf(puts[w])} \subseteq temps'
  PROVE  PutsWell'
BY PutMoves DEF PutWell

LEMMA LocalPutKeeps ==
  ASSUME ObjectsInv, NEW w \in Writers,
         LocalPutOpens(w) \/ LocalPutCopies(w) \/ LocalPutReplaces(w) \/ LocalPutFails(w)
  PROVE  ObjectsInv'
<1>1. PICK q : q = puts[w]
  OBVIOUS
<1>2. /\ q # None /\ PutWell(q) /\ PutsWell /\ GetsWell /\ BlobsWell /\ TempsHoused /\ NothingPruned
      /\ UNCHANGED <<adapter, dirTree, gets, putCount>>
  BY <1>1 DEF ObjectsInv, PutsWell, LocalPutOpens, LocalPutCopies, LocalPutReplaces, LocalPutFails
<1>3. putCount \in 0..MaxPuts /\ q.version \in 1..putCount /\ q.version \in 1..MaxPuts /\ MaxPuts \in Nat
      /\ q.key \in Keys /\ Chunks \in Nat
  BY <1>2, ObjectAssumption DEF PutsWell, PutWell
<1>4. PICK n \in 0..Chunks : q.data = Copied(n, q.version)
  BY <1>2 DEF PutWell
<1>5. /\ Len(q.data) = n /\ Append(q.data, q.version) = Copied(n + 1, q.version)
      /\ Whole(q.version) = Copied(Chunks, q.version)
  <2>1. PICK v \in Nat : v = q.version
    BY <1>3
  <2>2. n \in Nat
    BY <1>3
  <2>3. Len(Copied(n, v)) = n /\ Append(Copied(n, v), v) = Copied(n + 1, v) /\ Whole(v) = Copied(Chunks, v)
    BY <2>2, WholeFacts
  <2> QED
    BY <1>4, <2>1, <2>3
<1>6. GetsWell'
  BY <1>2 DEF GetsWell, GetWell
<1>7. CASE LocalPutOpens(w)
  <2>1. UNCHANGED blobs
    BY <1>7 DEF LocalPutOpens
  <2>2. CASE puts' = [puts EXCEPT ![w] = None] /\ UNCHANGED temps
    <3>1. PutsWell'
      BY <1>1, <1>2, <2>2, PutEnds
    <3>2. BlobsWell' /\ NothingPruned'
      BY <1>2, <2>1 DEF BlobsWell, NothingPruned
    <3>3. TempsHoused'
      BY <1>2, <2>2 DEF TempsHoused
    <3> QED
      BY <1>2, <1>6, <3>1, <3>2, <3>3 DEF ObjectsInv
  <2>3. CASE /\ DirOf(q.key) \in dirTree /\ adapter = "local" /\ puts' = [puts EXCEPT ![w].pc = "copy"]
             /\ temps' = temps \cup {TempOf(q)}
    <3>1. PICK e : e = [q EXCEPT !.pc = "copy"]
      OBVIOUS
    <3>2. puts' = [puts EXCEPT ![w] = e]
      BY <1>1, <2>3, <3>1
    <3>3. BlobsWell' /\ TempsHoused' /\ NothingPruned'
      BY <1>2, <2>1, <2>3 DEF BlobsWell, TempsHoused, NothingPruned, TempOf
    <3>4. CASE e = None
      <4>1. PutsWell'
        BY <1>1, <1>2, <2>3, <3>2, <3>4, PutEnds
      <4> QED
        BY <1>2, <1>6, <3>3, <4>1 DEF ObjectsInv
    <3>5. CASE e # None
      <4>1. e.key = q.key /\ e.version = q.version /\ e.data = q.data /\ TempOf(e) = TempOf(q)
        BY <3>1 DEF TempOf
      <4>2. PutWell(e)'
        BY <1>2, <1>3, <1>4, <2>3, <4>1 DEF PutWell
      <4>3. PutsWell'
        BY <1>1, <1>2, <2>3, <3>2, <4>1, <4>2, PutMoves
      <4> QED
        BY <1>2, <1>6, <3>3, <4>3 DEF ObjectsInv
    <3> QED
      BY <3>4, <3>5
  <2>4. puts[w].pc = "open" /\ adapter = "local" /\ (TempOf(q) = [key |-> puts[w].key, version |-> puts[w].version])
    BY <1>1, <1>7 DEF LocalPutOpens, TempOf
  <2>5. CASE DirOf(q.key) \in dirTree
    BY <1>1, <1>7, <2>3, <2>4, <2>5 DEF LocalPutOpens
  <2>6. CASE DirOf(q.key) \notin dirTree
    BY <1>1, <1>7, <2>2, <2>6 DEF LocalPutOpens
  <2> QED
    BY <2>5, <2>6
<1>8. CASE LocalPutCopies(w)
  <2>1. UNCHANGED <<blobs, temps>> /\ q.pc = "copy" /\ n < Chunks
    BY <1>1, <1>5, <1>8 DEF LocalPutCopies
  <2>2. PICK e : e = [q EXCEPT !.data = Append(q.data, q.version)]
    OBVIOUS
  <2>3. puts' = [puts EXCEPT ![w] = e]
    BY <1>1, <1>2, <1>8, <2>2 DEF LocalPutCopies, PutsWell
  <2>4. CASE e = None
    BY <1>1, <1>2, <1>6, <2>1, <2>3, <2>4, PutEnds
    DEF ObjectsInv, BlobsWell, TempsHoused, NothingPruned
  <2>5. CASE e # None
    <3>1. e.key = q.key /\ e.version = q.version /\ TempOf(e) = TempOf(q) /\ e.pc = q.pc
      BY <2>2 DEF TempOf
    <3>2. e.data = Copied(n + 1, q.version) /\ n + 1 \in 0..Chunks
      BY <1>5, <2>1, <1>2, <1>4, <1>3, <2>2 DEF PutWell
    <3>3. PutWell(e)'
      BY <1>2, <1>3, <2>1, <3>1, <3>2 DEF PutWell
    <3>4. PutsWell'
      BY <1>1, <1>2, <2>1, <2>3, <3>1, <3>3, PutMoves
    <3> QED
      BY <1>2, <1>6, <2>1, <3>4 DEF ObjectsInv, BlobsWell, TempsHoused, NothingPruned
  <2> QED
    BY <2>4, <2>5
<1>9. CASE LocalPutReplaces(w)
  <2>1. /\ q.pc = "copy" /\ q.data = Whole(q.version) /\ blobs' = [blobs EXCEPT ![q.key] = q.data]
        /\ temps' = temps \ {TempOf(q)} /\ puts' = [puts EXCEPT ![w] = None]
    BY <1>1, <1>4, <1>5, <1>9 DEF LocalPutReplaces, TempOf
  <2>2. PutsWell'
    BY <1>1, <1>2, <2>1, PutEnds
  <2>3. BlobsWell'
    BY <1>2, <1>3, <2>1 DEF BlobsWell
  <2>4. TempsHoused'
    BY <1>2, <2>1 DEF TempsHoused
  <2>5. DirOf(q.key) \in dirTree
    BY <1>2, <2>1 DEF PutWell, TempsHoused, TempOf
  <2>6. NothingPruned'
    BY <1>2, <2>1, <2>5 DEF NothingPruned, BlobsWell
  <2> QED
    BY <1>2, <1>6, <2>2, <2>3, <2>4, <2>6 DEF ObjectsInv
<1>10. CASE LocalPutFails(w)
  <2>1. /\ UNCHANGED blobs /\ temps' \subseteq temps /\ temps \ {TempOf(q)} \subseteq temps'
        /\ puts' = [puts EXCEPT ![w] = None]
    BY <1>1, <1>10 DEF LocalPutFails, TempOf
  <2>2. PutsWell'
    BY <1>1, <1>2, <2>1, PutEnds
  <2> QED
    BY <1>2, <1>6, <2>1, <2>2 DEF ObjectsInv, BlobsWell, TempsHoused, NothingPruned
<1> QED
  BY <1>7, <1>8, <1>9, <1>10

LEMMA RemotePutKeeps ==
  ASSUME ObjectsInv, NEW w \in Writers, S3Put(w) \/ S3Head(w) \/ GcsPut(w) \/ RemotePutFails(w)
  PROVE  ObjectsInv'
<1>1. PICK q : q = puts[w]
  OBVIOUS
<1>2. /\ q # None /\ PutWell(q) /\ PutsWell /\ GetsWell /\ BlobsWell /\ TempsHoused /\ NothingPruned
      /\ UNCHANGED <<adapter, dirTree, temps, gets, putCount>>
  BY <1>1 DEF ObjectsInv, PutsWell, S3Put, S3Head, GcsPut, RemotePutFails
<1>3. q.version \in 1..MaxPuts /\ q.key \in Keys
  BY <1>2, ObjectAssumption DEF PutsWell, PutWell
<1>4. GetsWell' /\ TempsHoused'
  BY <1>2 DEF GetsWell, GetWell, TempsHoused
<1>5. BlobsWell' /\ NothingPruned'
  <2>1. CASE UNCHANGED blobs
    BY <1>2, <2>1 DEF BlobsWell, NothingPruned
  <2>2. CASE adapter # "local" /\ blobs' = [blobs EXCEPT ![q.key] = Whole(q.version)]
    BY <1>2, <1>3, <2>2 DEF BlobsWell, NothingPruned
  <2> QED
    BY <1>1, <2>1, <2>2 DEF S3Put, S3Head, GcsPut, RemotePutFails
<1>6. PutsWell'
  <2>1. CASE puts' = [puts EXCEPT ![w] = None]
    BY <1>1, <1>2, <2>1, PutEnds
  <2>2. CASE puts' = [puts EXCEPT ![w].pc = "head"]
    <3>1. PICK e : e = [q EXCEPT !.pc = "head"]
      OBVIOUS
    <3>2. puts' = [puts EXCEPT ![w] = e]
      BY <1>1, <2>2, <3>1
    <3>3. e.key = q.key /\ e.version = q.version /\ e.data = q.data /\ (DOMAIN q = DOMAIN e)
      BY <3>1
    <3>4. e.pc = "copy" => q.pc = "copy"
      BY <3>1
    <3>5. PutWell(e)'
      BY <1>2, <3>3, <3>4 DEF PutWell, TempOf
    <3> QED
      BY <1>1, <1>2, <3>2, <3>3, <3>5, PutMoves
  <2> QED
    BY <2>1, <2>2 DEF S3Put, S3Head, GcsPut, RemotePutFails
<1> QED
  BY <1>2, <1>4, <1>5, <1>6 DEF ObjectsInv

LEMMA ReadKeeps ==
  ASSUME ObjectsInv, NEW rd \in Readers,
         ReadChunk(rd) \/ ReadEnds(rd) \/ \E key \in Keys : GetBegins(rd, key)
  PROVE  ObjectsInv'
<1>1. /\ PutsWell /\ GetsWell /\ BlobsWell /\ TempsHoused /\ NothingPruned
      /\ UNCHANGED <<adapter, blobs, dirTree, temps, puts, putCount>>
  BY DEF ObjectsInv, ReadChunk, ReadEnds, GetBegins
<1>2. PutsWell' /\ BlobsWell' /\ TempsHoused' /\ NothingPruned'
  BY <1>1 DEF PutsWell, PutWell, BlobsWell, TempsHoused, NothingPruned
<1>3. ASSUME NEW g, gets' = [gets EXCEPT ![rd] = g], adapter # "gcs" => GetWell(g) PROVE GetsWell'
  <2>1. DOMAIN gets' = Readers /\ \A x \in Readers : gets'[x] = IF x = rd THEN g ELSE gets[x]
    BY <1>1, <1>3 DEF GetsWell
  <2> QED
    BY <1>1, <1>3, <2>1 DEF GetsWell, GetWell
<1>4. GetsWell'
  <2>1. ASSUME NEW key \in Keys, GetBegins(rd, key) PROVE GetsWell'
    <3>1. PICK g : g = [key |-> key, held |-> blobs[key], got |-> <<>>]
      OBVIOUS
    <3>2. blobs[key] # None
      BY <2>1 DEF GetBegins, Exists
    <3>3. PICK v \in 1..MaxPuts : g.held = Whole(v)
      BY <1>1, <3>1, <3>2 DEF BlobsWell
    <3>4. g.got \in Seq(1..MaxPuts) /\ Len(g.got) = 0 /\ {"held", "got"} \subseteq DOMAIN g
      BY <3>1
    <3>5. GetWell(g)
      BY <3>3, <3>4 DEF GetWell
    <3> QED
      BY <1>3, <2>1, <3>1, <3>5 DEF GetBegins
  <2>2. CASE ReadEnds(rd)
    BY <1>3, <2>2 DEF ReadEnds, GetWell
  <2>3. CASE ReadChunk(rd)
    <3>1. PICK g : g = gets[rd]
      OBVIOUS
    <3>2. PICK chunk : chunk = IF adapter = "gcs" THEN GcsRead(g)
                               ELSE IF adapter = "s3" THEN S3Read(g) ELSE LocalRead(g)
      OBVIOUS
    <3>3. PICK e : e = [g EXCEPT !.got = Append(@, chunk)]
      OBVIOUS
    <3>4. /\ g # None /\ Len(g.got) < Len(g.held)
          /\ gets' = [gets EXCEPT ![rd] = IF chunk = None THEN None ELSE e]
      BY <2>3, <3>1, <3>2, <3>3 DEF ReadChunk
    <3>5. ASSUME adapter # "gcs", e # None PROVE GetWell(e)
      <4>1. PICK v \in 1..MaxPuts : g.held = Whole(v) /\ g.got \in Seq(1..MaxPuts)
                                    /\ {"held", "got"} \subseteq DOMAIN g /\ \A i \in 1..Len(g.got) : g.got[i] = v
        BY <1>1, <3>1, <3>4, <3>5 DEF GetsWell, GetWell
      <4>2. v \in Nat /\ Chunks \in Nat /\ MaxPuts \in Nat
        BY <4>1, ObjectAssumption
      <4>3. Len(g.held) = Chunks /\ \A i \in 1..Chunks : g.held[i] = v
        BY <4>1, <4>2, WholeFacts
      <4>4. Len(g.got) \in Nat /\ Len(g.got) + 1 \in 1..Chunks
        BY <3>4, <4>1, <4>2, <4>3
      <4>5. chunk = v
        BY <3>2, <3>5, <4>3, <4>4 DEF S3Read, LocalRead
      <4>6. /\ Append(g.got, v) \in Seq(1..MaxPuts) /\ Len(Append(g.got, v)) = Len(g.got) + 1
            /\ \A i \in 1..(Len(g.got) + 1) : Append(g.got, v)[i] = v
        BY <4>1, <4>4, AppendProperties
      <4>7. e.held = g.held /\ e.got = Append(g.got, v) /\ DOMAIN e = DOMAIN g
        BY <3>3, <4>1, <4>5
      <4> QED
        BY <4>1, <4>6, <4>7 DEF GetWell
    <3>6. CASE chunk = None
      BY <1>3, <3>4, <3>6 DEF GetWell
    <3>7. CASE chunk # None
      <4>1. adapter # "gcs" => GetWell(e)
        BY <3>5 DEF GetWell
      <4> QED
        BY <1>3, <3>4, <3>7, <4>1
    <3> QED
      BY <3>6, <3>7
  <2> QED
    BY <2>1, <2>2, <2>3
<1> QED
  BY <1>1, <1>2, <1>4 DEF ObjectsInv

LEMMA PutStarts ==
  ASSUME ObjectsInv, NEW w \in Writers, NEW key \in Keys, NEW us, NEW ks, PutBegins(w, key, us, ks)
  PROVE  ObjectsInv'
<1>1. /\ PutsWell /\ GetsWell /\ BlobsWell /\ TempsHoused /\ NothingPruned
      /\ UNCHANGED <<adapter, blobs, temps, gets>> /\ puts[w] = None /\ dirTree \subseteq dirTree'
      /\ putCount < MaxPuts /\ putCount' = putCount + 1
  BY DEF ObjectsInv, PutBegins
<1>2. putCount \in 0..MaxPuts /\ MaxPuts \in Nat /\ Chunks \in Nat
  BY <1>1, ObjectAssumption DEF PutsWell
<1>3. PICK q : q = [key |-> key, version |-> putCount + 1, pc |-> "open", data |-> <<>>]
  OBVIOUS
<1>4. q.key = key /\ q.version = putCount + 1 /\ q.pc = "open" /\ q.data = Copied(0, q.version)
  <2>1. Copied(0, putCount + 1) = <<>>
    BY <1>2, WholeFacts
  <2> QED
    BY <1>3, <2>1
<1>5. puts' = [puts EXCEPT ![w] = q]
  BY <1>1, <1>3 DEF PutBegins
<1>6. PutsWell'
  <2>1. ASSUME NEW x \in Writers PROVE PutWell(puts[x])'
    <3>1. CASE x = w
      <4>1. puts'[x] = q
        BY <1>1, <1>5, <3>1 DEF PutsWell
      <4> QED
        BY <1>1, <1>2, <1>4, <4>1 DEF PutWell
    <3>2. CASE x # w
      <4>1. puts'[x] = puts[x] /\ PutWell(puts[x])
        BY <1>1, <1>5, <3>2 DEF PutsWell
      <4> QED
        BY <1>1, <1>2, <4>1 DEF PutWell
    <3> QED
      BY <3>1, <3>2
  <2>2. \A x, y \in Writers : x # y /\ puts'[x] # None /\ puts'[y] # None => puts'[x].version # puts'[y].version
    <3>1. \A x \in Writers : puts[x] # None => puts[x].version \in 1..putCount
      BY <1>1 DEF PutsWell, PutWell
    <3>2. \A x \in Writers : puts'[x] = IF x = w THEN q ELSE puts[x]
      BY <1>1, <1>5 DEF PutsWell
    <3>3. \A x \in Writers : x # w /\ puts[x] # None => puts[x].version # putCount + 1
      BY <1>2, <3>1
    <3> QED
      BY <1>1, <1>4, <3>2, <3>3 DEF PutsWell
  <2>3. DOMAIN puts' = Writers /\ putCount' \in 0..MaxPuts
    BY <1>1, <1>2, <1>5 DEF PutsWell
  <2> QED
    BY <2>1, <2>2, <2>3 DEF PutsWell
<1> QED
  BY <1>1, <1>6 DEF ObjectsInv, GetsWell, GetWell, BlobsWell, TempsHoused, NothingPruned

LEMMA DeleteObjectKeeps ==
  ASSUME ObjectsInv,
         PruneParents \/ \E key \in Keys : LocalDelete(key) \/ S3Delete(key) \/ GcsDelete(key)
  PROVE  ObjectsInv'
<1>1. /\ PutsWell /\ GetsWell /\ BlobsWell /\ TempsHoused /\ NothingPruned
      /\ UNCHANGED <<adapter, temps, puts, gets, putCount>>
  BY DEF ObjectsInv, PruneParents, LocalDelete, S3Delete, GcsDelete
<1>2. PutsWell' /\ GetsWell'
  BY <1>1 DEF PutsWell, PutWell, GetsWell, GetWell
<1>3. CASE PruneParents
  <2>1. dirTree' = dirTree \/ (dirTree' = dirTree \ {DirOf(removing)} /\ StoredIn(DirOf(removing)) = {}
                               /\ ~\E t \in temps : DirOf(t.key) = DirOf(removing))
    BY <1>3 DEF PruneParents
  <2>2. TempsHoused' /\ UNCHANGED blobs
    BY <1>1, <1>3, <2>1 DEF TempsHoused, PruneParents
  <2>3. NothingPruned'
    BY <1>1, <2>1, <2>2 DEF NothingPruned, StoredIn
  <2> QED
    BY <1>1, <1>2, <2>2, <2>3 DEF ObjectsInv, BlobsWell
<1>4. ASSUME NEW key \in Keys, LocalDelete(key) \/ S3Delete(key) \/ GcsDelete(key) PROVE ObjectsInv'
  <2>1. blobs' = [blobs EXCEPT ![key] = None] /\ UNCHANGED dirTree
    BY <1>4 DEF LocalDelete, S3Delete, GcsDelete
  <2>2. BlobsWell' /\ NothingPruned'
    BY <1>1, <2>1 DEF BlobsWell, NothingPruned
  <2> QED
    BY <1>1, <1>2, <2>1, <2>2 DEF ObjectsInv, TempsHoused
<1> QED
  BY <1>3, <1>4

LEMMA ObjectsStart == ObjectsInit => ObjectsInv
<1> SUFFICES ASSUME ObjectsInit PROVE ObjectsInv
  OBVIOUS
<1>1. /\ blobs = [k \in Keys |-> None] /\ temps = {} /\ putCount = 0
      /\ puts = [w \in Writers |-> None] /\ gets = [rd \in Readers |-> None]
  BY DEF ObjectsInit
<1>2. adapter \in {"local", "s3", "gcs"}
  <2>1. PICK env \in Environments : adapter = GetObjectStorage(<<"", "">>, env)[1] /\ adapter # "RuntimeError"
    BY DEF ObjectsInit
  <2>2. env.backend \in {"local", "s3", "gcs", "ftp"}
    BY DEF Environments
  <2> QED
    BY <2>1, <2>2 DEF GetObjectStorage, StorageSignature
<1> QED
  BY <1>1, <1>2, ObjectAssumption
  DEF ObjectsInv, PutsWell, PutWell, GetsWell, GetWell, BlobsWell, TempsHoused, NothingPruned

LEMMA ObjectsStep == ObjectsInv /\ [ObjectsNext]_objectVars => ObjectsInv'
<1> SUFFICES ASSUME ObjectsInv, [ObjectsNext]_objectVars PROVE ObjectsInv'
  OBVIOUS
<1>1. ASSUME UNCHANGED <<adapter, blobs, dirTree, temps, puts, gets, putCount>> PROVE ObjectsInv'
  BY <1>1 DEF ObjectsInv, PutsWell, PutWell, GetsWell, GetWell, BlobsWell, TempsHoused, NothingPruned
<1>2. CASE UNCHANGED objectVars
  BY <1>1, <1>2 DEF objectVars
<1>3. ASSUME NEW owner \in ObjectOwners, ListObjects(owner) PROVE ObjectsInv'
  BY <1>1, <1>3 DEF ListObjects
<1> QED
  BY <1>2, <1>3, LocalPutKeeps, RemotePutKeeps, ReadKeeps, PutStarts, DeleteObjectKeeps, Zenon DEF ObjectsNext

\* A stored object, and what a download has read of it, is one whole upload or
\* a prefix of one, and lies in a directory that exists.
THEOREM ObjectsAreWhole == ObjectsSpec => [](ReadsWhole /\ NothingPruned)
<1>1. ObjectsInv => ReadsWhole /\ NothingPruned
  BY DEF ObjectsInv, BlobsWell, GetsWell, GetWell, ReadsWhole
<1> QED
  BY <1>1, ObjectsStart, ObjectsStep, PTL DEF ObjectsSpec

-----------------------------------------------------------------------------
(* Thumbnails: a thread is inside PDFium as long as it holds the lock.      *)
InRender == {"awaiting", "native", "encoding", "drawing"}

ThumbInv ==
    /\ DOMAIN views = Views /\ DOMAIN parses = Parsers
    /\ \A v \in Views : "at" \in DOMAIN views[v]
    /\ InPdfium = {pdfLock} \ {None}
    /\ IsFiniteSet(Rendering) /\ Cardinality(Rendering) <= MaxRenders

LEMMA FewerRender ==
  ASSUME IsFiniteSet(Rendering), Cardinality(Rendering) <= MaxRenders, Rendering' \subseteq Rendering
  PROVE  IsFiniteSet(Rendering') /\ Cardinality(Rendering') <= MaxRenders
<1>1. MaxRenders \in Nat
  BY ThumbAssumption
<1>2. IsFiniteSet(Rendering') /\ Cardinality(Rendering') <= Cardinality(Rendering)
  BY FS_Subset
<1>3. Cardinality(Rendering) \in Nat /\ Cardinality(Rendering') \in Nat
  BY <1>2, FS_CardinalityType
<1> QED
  BY <1>1, <1>2, <1>3

\* One request moves between two states outside PDFium, and starts no render.
LEMMA ViewMoves ==
  ASSUME ThumbInv, NEW v \in Views, NEW w, views' = [views EXCEPT ![v] = w], "at" \in DOMAIN w,
         w.at \in InRender => views[v].at \in InRender,
         w.at # "native", views[v].at # "native", UNCHANGED <<pdfLock, parses>>
  PROVE  ThumbInv'
<1>1. DOMAIN views' = Views /\ \A x \in Views : views'[x] = IF x = v THEN w ELSE views[x]
  BY DEF ThumbInv
<1>2. Rendering' \subseteq Rendering
  BY <1>1 DEF Rendering, InRender
<1>3. InPdfium' = InPdfium
  BY <1>1 DEF InPdfium
<1> QED
  BY <1>1, <1>2, <1>3, FewerRender DEF ThumbInv

LEMMA MovesOn ==
  ASSUME ThumbInv, NEW v \in Views, NEW at, Moves(v, at)
  PROVE  \E w : views' = [views EXCEPT ![v] = w] /\ "at" \in DOMAIN w /\ w.at = at
<1>1. CASE at \in Ended
  <2>1. PICK w : w = [NoView EXCEPT !.at = at]
    OBVIOUS
  <2>2. "at" \in DOMAIN w /\ w.at = at
    BY <2>1 DEF NoView
  <2> QED
    BY <1>1, <2>1, <2>2 DEF Moves
<1>2. CASE at \notin Ended
  <2>1. PICK w : w = [views[v] EXCEPT !.at = at]
    OBVIOUS
  <2>2. "at" \in DOMAIN w /\ w.at = at
    BY <2>1 DEF ThumbInv
  <2> QED
    BY <1>2, <2>1, <2>2 DEF Moves, ThumbInv
<1> QED
  BY <1>1, <1>2

LEMMA MovesOutside ==
  ASSUME ThumbInv, NEW v \in Views, NEW at, Moves(v, at), at \notin InRender,
         views[v].at # "native", UNCHANGED <<pdfLock, parses>>
  PROVE  ThumbInv'
<1>1. PICK w : views' = [views EXCEPT ![v] = w] /\ "at" \in DOMAIN w /\ w.at = at
  BY MovesOn
<1> QED
  BY <1>1, ViewMoves DEF InRender

LEMMA OpensOutside ==
  ASSUME ThumbInv, NEW v \in Views, NEW what, NEW f, NEW at, Opens(v, what, f, at), at \notin InRender,
         views[v].at = "idle", UNCHANGED <<pdfLock, parses>>
  PROVE  ThumbInv'
<1>1. PICK w : w = IF at \in Ended THEN [NoView EXCEPT !.at = at]
                   ELSE [at |-> at, kind |-> what, file |-> f, key |-> CacheKeyOf(f), png |-> None]
  OBVIOUS
<1>2. "at" \in DOMAIN w /\ w.at = at /\ views' = [views EXCEPT ![v] = w]
  BY <1>1 DEF Opens, NoView
<1> QED
  BY <1>2, ViewMoves DEF InRender

LEMMA RequestKeeps ==
  ASSUME ThumbInv, NEW v \in Views,
         \/ FetchDocumentBytes(v) \/ StreamBytes(v) \/ ReloadBlob(v) \/ DownloadBlob(v)
         \/ PreviewReloads(v) \/ PreviewSends(v)
  PROVE  ThumbInv'
<1>1. /\ views[v].at # "native" /\ UNCHANGED <<pdfLock, parses>>
      /\ \E at : Moves(v, at) /\ at \in {"queued", "refused", "failed", "served", "broken", "download"}
  BY DEF FetchDocumentBytes, StreamBytes, ReloadBlob, DownloadBlob, PreviewReloads, PreviewSends
<1> QED
  BY <1>1, MovesOutside DEF InRender

LEMMA RouteKeeps ==
  ASSUME ThumbInv, NEW v \in Views,
         \/ \E f \in ThumbDocs : ThumbnailDocument(v, f) \/ StreamDocument(v, f)
         \/ \E f \in ThumbObjects, allowed \in BOOLEAN :
               ThumbnailBucketObject(v, f, allowed) \/ PreviewBucketObject(v, f, allowed)
  PROVE  ThumbInv'
<1>1. /\ views[v].at = "idle" /\ UNCHANGED <<pdfLock, parses>>
      /\ \E what, f, at : /\ Opens(v, what, f, at)
                          /\ at \in {"looking", "refused", "streaming", "failed", "missed"}
  BY DEF ThumbnailDocument, StreamDocument, ThumbnailBucketObject, PreviewBucketObject
<1> QED
  BY <1>1, OpensOutside DEF InRender

LEMMA RenderKeeps ==
  ASSUME ThumbInv, NEW v \in Views, RenderThumbnail(v)
  PROVE  ThumbInv'
<1>1. PICK w : views' = [views EXCEPT ![v] = w] /\ "at" \in DOMAIN w /\ w.at \in {"awaiting", "drawing"}
  BY MovesOn DEF RenderThumbnail
<1>2. /\ DOMAIN views' = Views /\ \A x \in Views : views'[x] = IF x = v THEN w ELSE views[x]
      /\ views[v].at = "queued" /\ Cardinality(Rendering) < MaxRenders /\ UNCHANGED <<pdfLock, parses>>
  BY <1>1 DEF ThumbInv, RenderThumbnail
<1>3. Rendering' = Rendering \cup {v} /\ v \notin Rendering
  BY <1>1, <1>2 DEF Rendering
<1>4. IsFiniteSet(Rendering') /\ Cardinality(Rendering') = Cardinality(Rendering) + 1
  BY <1>3, FS_AddElement DEF ThumbInv
<1>5. Cardinality(Rendering') <= MaxRenders
  BY <1>2, <1>4, ThumbAssumption, FS_CardinalityType DEF ThumbInv
<1>6. InPdfium' = InPdfium
  BY <1>1, <1>2 DEF InPdfium
<1> QED
  BY <1>1, <1>2, <1>4, <1>5, <1>6 DEF ThumbInv

LEMMA DrawKeeps ==
  ASSUME ThumbInv, NEW v \in Views, EncodePng(v) \/ RenderImageThumbnail(v) \/ CacheReads(v)
                                    \/ CacheTouches(v) \/ CachePut(v)
  PROVE  ThumbInv'
<1>1. views[v].at # "native" /\ UNCHANGED <<pdfLock, parses>>
  BY DEF EncodePng, RenderImageThumbnail, CacheReads, CacheTouches, CachePut
<1>2. ASSUME NEW at, Moves(v, at), at \in {"refused", "missed", "served", "crashed"} PROVE ThumbInv'
  BY <1>1, <1>2, MovesOutside DEF InRender
<1>3. ASSUME NEW at, NEW png, views' = [views EXCEPT ![v].at = at, ![v].png = png],
             at \in {"rendered", "found"}
      PROVE  ThumbInv'
  <2>1. PICK w : w = [[views[v] EXCEPT !.at = at] EXCEPT !.png = png]
    OBVIOUS
  <2>2. "at" \in DOMAIN w /\ w.at = at
    BY <2>1 DEF ThumbInv
  <2>3. views' = [views EXCEPT ![v] = w]
    BY <1>3, <2>1 DEF ThumbInv
  <2> QED
    BY <1>1, <1>3, <2>2, <2>3, ViewMoves DEF InRender
<1>4. CASE EncodePng(v)
  BY <1>3, <1>4 DEF EncodePng
<1>5. CASE RenderImageThumbnail(v)
  BY <1>2, <1>3, <1>5 DEF RenderImageThumbnail
<1>6. CASE CacheReads(v)
  BY <1>2, <1>3, <1>6 DEF CacheReads
<1>7. CASE CacheTouches(v) \/ CachePut(v)
  BY <1>2, <1>7 DEF CacheTouches, CachePut
<1> QED
  BY <1>4, <1>5, <1>6, <1>7

LEMMA PdfiumLockKeeps ==
  ASSUME ThumbInv, NEW v \in Views, OpenPdf(v) \/ ClosePdf(v)
  PROVE  ThumbInv'
<1>1. views[v].at \in {"awaiting", "native"} /\ UNCHANGED parses
  BY DEF OpenPdf, ClosePdf
<1>2. PICK w : /\ views' = [views EXCEPT ![v] = w] /\ "at" \in DOMAIN w
               /\ \/ OpenPdf(v) /\ w.at = "native"
                  \/ ClosePdf(v) /\ w.at \in {"refused", "encoding"}
  BY MovesOn DEF OpenPdf, ClosePdf
<1>3. DOMAIN views' = Views /\ \A x \in Views : views'[x] = IF x = v THEN w ELSE views[x]
  BY <1>2 DEF ThumbInv
<1>4. Rendering' \subseteq Rendering
  BY <1>1, <1>3 DEF Rendering
<1>5. v \notin Parsers /\ v # None
  BY ThumbAssumption
<1>6. InPdfium' = {pdfLock'} \ {None}
  <2>1. CASE OpenPdf(v) /\ w.at = "native"
    <3>1. InPdfium' = InPdfium \cup {v} /\ InPdfium = {}
      BY <1>1, <1>3, <2>1 DEF InPdfium, ThumbInv, OpenPdf
    <3> QED
      BY <1>5, <2>1, <3>1 DEF OpenPdf
  <2>2. CASE ClosePdf(v) /\ w.at \in {"refused", "encoding"}
    <3>1. InPdfium' = InPdfium \ {v} /\ v \in InPdfium
      BY <1>1, <1>3, <1>5, <2>2 DEF InPdfium, ClosePdf
    <3> QED
      BY <2>2, <3>1 DEF ThumbInv, ClosePdf
  <2> QED
    BY <1>2, <2>1, <2>2
<1> QED
  BY <1>1, <1>2, <1>3, <1>4, <1>6, FewerRender DEF ThumbInv

LEMMA ParseKeeps ==
  ASSUME ThumbInv, NEW p \in Parsers, ParseEnters(p) \/ ParseLeaves(p)
  PROVE  ThumbInv'
<1>1. UNCHANGED views /\ p \notin Views /\ p # None
  BY ThumbAssumption DEF ParseEnters, ParseLeaves
<1>2. Rendering' = Rendering
  BY <1>1 DEF Rendering
<1>3. DOMAIN parses' = Parsers /\ InPdfium' = {pdfLock'} \ {None}
  <2>1. CASE ParseEnters(p)
    <3>1. DOMAIN parses' = Parsers /\ \A x \in Parsers : parses'[x] = IF x = p THEN "native" ELSE parses[x]
      BY <2>1 DEF ParseEnters, ThumbInv
    <3>2. InPdfium' = InPdfium \cup {p} /\ InPdfium = {} /\ pdfLock' = p
      BY <1>1, <2>1, <3>1 DEF InPdfium, ThumbInv, ParseEnters
    <3> QED
      BY <1>1, <3>1, <3>2
  <2>2. CASE ParseLeaves(p)
    <3>1. DOMAIN parses' = Parsers /\ \A x \in Parsers : parses'[x] = IF x = p THEN "done" ELSE parses[x]
      BY <2>2 DEF ParseLeaves, ThumbInv
    <3>2. InPdfium' = InPdfium \ {p} /\ p \in InPdfium /\ pdfLock' = None
      BY <1>1, <2>2, <3>1 DEF InPdfium, ParseLeaves
    <3> QED
      BY <3>1, <3>2 DEF ThumbInv
  <2> QED
    BY <2>1, <2>2
<1> QED
  BY <1>1, <1>2, <1>3 DEF ThumbInv

LEMMA ThumbStep == ThumbInv /\ [ThumbNext]_thumbVars => ThumbInv'
<1> SUFFICES ASSUME ThumbInv, [ThumbNext]_thumbVars PROVE ThumbInv'
  OBVIOUS
<1>1. ASSUME UNCHANGED <<views, pdfLock, parses>> PROVE ThumbInv'
  BY <1>1 DEF ThumbInv, InPdfium, Rendering
<1>2. CASE UNCHANGED thumbVars
  BY <1>1, <1>2 DEF thumbVars
<1>3. ASSUME NEW f \in ThumbDocs, DocumentTouched(f) \/ BinaryRemoved(f) \/ RowRemoved(f) PROVE ThumbInv'
  BY <1>1, <1>3 DEF DocumentTouched, BinaryRemoved, RowRemoved
<1>4. ASSUME NEW v \in Views, ViewStep(v) PROVE ThumbInv'
  BY <1>4, RequestKeeps, RenderKeeps, DrawKeeps, PdfiumLockKeeps, Zenon DEF ViewStep
<1> QED
  BY <1>2, <1>3, <1>4, RouteKeeps, ParseKeeps, Zenon DEF ThumbNext

\* However many thumbnails and parses overlap, a thread is inside PDFium exactly
\* as long as it holds the lock, and the renders under way keep to the semaphore.
THEOREM PdfiumIsExclusive == ThumbSpec => []PdfiumAlone
<1>1. ThumbInit => ThumbInv
  <2> SUFFICES ASSUME ThumbInit PROVE ThumbInv
    OBVIOUS
  <2>1. Rendering = {} /\ InPdfium = {}
    BY DEF ThumbInit, Rendering, InPdfium, NoView
  <2>2. IsFiniteSet(Rendering) /\ Cardinality(Rendering) = 0 /\ MaxRenders \in Nat \ {0}
    BY <2>1, ThumbAssumption, FS_EmptySet
  <2>3. "at" \in DOMAIN NoView
    BY DEF NoView
  <2>4. DOMAIN views = Views /\ DOMAIN parses = Parsers /\ pdfLock = None /\ \A v \in Views : views[v] = NoView
    BY DEF ThumbInit
  <2> QED
    BY <2>1, <2>2, <2>3, <2>4 DEF ThumbInv
<1>2. ThumbInv => PdfiumAlone
  BY DEF ThumbInv, PdfiumAlone
<1> QED
  BY <1>1, <1>2, ThumbStep, PTL DEF ThumbSpec

-----------------------------------------------------------------------------
(* Paging: the scan has every stored document once, a page continues where   *)
(* the one before ended, and so a pager that met no change has seen it all.  *)

\* Every document has a key of its own, so the sort has one outcome.
LEMMA KeysDiffer ==
  /\ \A d \in DocIds : Key(d) \in Nat
  /\ \A d, e \in DocIds : Key(d) = Key(e) => d = e
<1> DEFINE N == Cardinality(DocIds)
           s == SetToSeq(DocIds)
<1>1. N \in Nat /\ ExistsBijection(1 .. N, DocIds)
  BY StoreAssumption, FS_CardinalityType
<1>2. \E f \in [1 .. N -> DocIds] : IsInjective(f)
  BY <1>1 DEF ExistsBijection, Bijection, Injection, IsInjective
<1>3. s \in [1 .. N -> DocIds] /\ IsInjective(s)
  <2> HIDE DEF N
  <2> QED
    BY <1>2 DEF SetToSeq, N
<1> HIDE DEF s
<1>4. s \in Injection(1 .. N, DocIds)
  BY <1>3 DEF Injection, IsInjective
<1>5. IsFiniteSet(1 .. N) /\ Cardinality(1 .. N) = N
  BY <1>1, FS_Interval
<1>6. s \in Surjection(1 .. N, DocIds)
  BY <1>4, <1>5, StoreAssumption, FS_Injection
<1>7. \A d \in DocIds : \E i \in 1 .. N : s[i] = d
  BY <1>6 DEF Surjection
<1>8. \A d \in DocIds : Key(d) \in 1 .. N /\ s[Key(d)] = d
  BY <1>7 DEF Key, s
<1> QED
  BY <1>1, <1>8

\* The sort of a set of documents exists: a document's place is the number of
\* documents whose key is not below its own.
LEMMA SortExists ==
  ASSUME NEW S \in SUBSET DocIds
  PROVE  \E ranked \in SetToSeqs(S) :
             \A i, j \in DOMAIN ranked : i < j => Key(ranked[i]) > Key(ranked[j])
<1> DEFINE Above(d) == {e \in S : Key(e) >= Key(d)}
           n == Cardinality(S)
           at == [d \in S |-> Cardinality(Above(d))]
<1>1. IsFiniteSet(S) /\ n \in Nat
  BY StoreAssumption, FS_Subset, FS_CardinalityType
<1>2. ASSUME NEW d \in S PROVE IsFiniteSet(Above(d)) /\ Cardinality(Above(d)) \in 1 .. n
  <2>1. Above(d) \in SUBSET S /\ d \in Above(d)
    BY KeysDiffer
  <2>2. IsFiniteSet(Above(d)) /\ Cardinality(Above(d)) <= n /\ Cardinality(Above(d)) \in Nat
    BY <1>1, <2>1, FS_Subset, FS_CardinalityType
  <2>3. Cardinality(Above(d)) # 0
    BY <2>1, <2>2, FS_EmptySet
  <2> QED
    BY <1>1, <2>2, <2>3
<1>3. ASSUME NEW d \in S, NEW e \in S, Key(d) > Key(e) PROVE at[d] < at[e]
  <2>1. Above(d) \in SUBSET Above(e) /\ e \in Above(e) /\ e \notin Above(d)
    BY <1>3, KeysDiffer
  <2>2. Cardinality(Above(d)) <= Cardinality(Above(e)) /\ Cardinality(Above(d)) # Cardinality(Above(e))
    BY <1>2, <2>1, FS_Subset
  <2> QED
    BY <1>2, <2>2
<1> HIDE DEF Above
<1>4. at \in [S -> 1 .. n]
  BY <1>2
<1>5. at \in Injection(S, 1 .. n)
  <2>1. ASSUME NEW d \in S, NEW e \in S, at[d] = at[e] PROVE d = e
    <3>1. at[d] \in Nat
      BY <1>1, <1>4
    <3>2. ~(Key(d) > Key(e)) /\ ~(Key(e) > Key(d))
      BY <1>3, <2>1, <3>1
    <3> QED
      BY <3>2, KeysDiffer
  <2> HIDE DEF at
  <2> QED
    BY <1>4, <2>1 DEF Injection, IsInjective
<1> HIDE DEF at
<1>6. IsFiniteSet(1 .. n) /\ Cardinality(1 .. n) = n
  BY <1>1, FS_Interval
<1>7. at \in Surjection(S, 1 .. n)
  BY <1>5, <1>6, FS_Injection DEF n
<1> DEFINE ranked == [i \in 1 .. n |-> CHOOSE d \in S : at[d] = i]
<1>8. \A i \in 1 .. n : ranked[i] \in S /\ at[ranked[i]] = i
  BY <1>7 DEF Surjection
<1>9. ranked \in [1 .. n -> S] /\ DOMAIN ranked = 1 .. n
  BY <1>8
<1> HIDE DEF ranked
<1>10. \A i, j \in 1 .. n : i # j => ranked[i] # ranked[j]
  BY <1>8
<1>11. ranked \in SetToSeqs(S)
  BY <1>9, <1>10 DEF SetToSeqs, n
<1>12. ASSUME NEW i \in DOMAIN ranked, NEW j \in DOMAIN ranked, i < j PROVE Key(ranked[i]) > Key(ranked[j])
  <2>1. ranked[i] \in S /\ ranked[j] \in S /\ i \in Nat /\ j \in Nat /\ at[ranked[i]] = i /\ at[ranked[j]] = j
    BY <1>1, <1>8, <1>9
  <2>2. ~(Key(ranked[j]) > Key(ranked[i])) /\ ranked[i] # ranked[j]
    BY <1>3, <1>12, <2>1
  <2> QED
    BY <2>1, <2>2, KeysDiffer
<1> QED
  BY <1>11, <1>12

LEMMA SortedRows ==
  ASSUME NEW scan, ToSet(scan) \subseteq DocIds
  PROVE  LET ranked == Sorted(scan)
         IN  /\ ranked \in Seq(DocIds) /\ ToSet(ranked) = ToSet(scan)
             /\ \A i, j \in DOMAIN ranked : i < j => Key(ranked[i]) > Key(ranked[j])
<1> DEFINE S == ToSet(scan)
           n == Cardinality(S)
           ranked == Sorted(scan)
<1>1. /\ ranked \in SetToSeqs(S)
      /\ \A i, j \in DOMAIN ranked : i < j => Key(ranked[i]) > Key(ranked[j])
  BY SortExists, Zenon DEF Sorted
<1>2. ranked \in [1 .. n -> S] /\ \A i, j \in 1 .. n : i # j => ranked[i] # ranked[j]
  BY <1>1 DEF SetToSeqs
<1>3. IsFiniteSet(S) /\ n \in Nat
  BY StoreAssumption, FS_Subset, FS_CardinalityType
<1> HIDE DEF ranked, S
<1>4. ranked \in Injection(1 .. n, S)
  BY <1>2 DEF Injection, IsInjective
<1>5. IsFiniteSet(1 .. n) /\ Cardinality(1 .. n) = n
  BY <1>3, FS_Interval
<1>6. ranked \in Surjection(1 .. n, S)
  BY <1>3, <1>4, <1>5, FS_Injection DEF n
<1>7. ToSet(ranked) = S
  BY <1>2, <1>6 DEF ToSet, Surjection
<1>8. S \subseteq DocIds
  BY DEF S
<1>9. ranked \in Seq(DocIds)
  BY <1>2, <1>3, <1>8
<1> QED
  BY <1>1, <1>7, <1>9 DEF ranked, S

\* A sequence of documents without repetition, before and after one is taken
\* out and perhaps put at the end.
ScanOf(scan) ==
    /\ scan \in Seq(DocIds)
    /\ \A i, j \in DOMAIN scan : scan[i] = scan[j] => i = j

LEMMA TakenOut ==
  ASSUME NEW scan, ScanOf(scan), NEW d
  PROVE  ScanOf(RemoveFirst(scan, d)) /\ \A i \in DOMAIN RemoveFirst(scan, d) : RemoveFirst(scan, d)[i] # d
<1> DEFINE out == RemoveFirst(scan, d)
           I == {i \in 1 .. Len(scan) : scan[i] = d}
           n == Len(scan)
<1>0. n \in Nat /\ DOMAIN scan = 1 .. n /\ \A i \in 1 .. n : scan[i] \in DocIds
  BY DEF ScanOf
<1>1. CASE I = {}
  <2>1. out = scan
    BY <1>1 DEF RemoveFirst
  <2> QED
    BY <1>0, <1>1, <2>1
<1>2. CASE I # {}
  <2>1. PICK k \in I : \A i \in I : k <= i
    <3>1. I \in SUBSET Nat
      OBVIOUS
    <3> HIDE DEF I
    <3> QED
      BY <1>2, <3>1, NatLeast
  <2>2. out = RemoveAt(scan, SelectInSeq(scan, LAMBDA v : v = d))
    BY <1>2 DEF RemoveFirst
  <2>3. SelectInSeq(scan, LAMBDA v : v = d) = Min(I)
    BY <1>2 DEF SelectInSeq
  <2>4. Min(I) \in I
    BY <2>1, Zenon DEF Min
  <2>5. PICK m \in 1 .. n : scan[m] = d /\ out = RemoveAt(scan, m)
    BY <2>2, <2>3, <2>4
  <2>6. /\ SubSeq(scan, 1, m - 1) \in Seq(DocIds) /\ Len(SubSeq(scan, 1, m - 1)) = m - 1
        /\ \A i \in 1 .. m - 1 : SubSeq(scan, 1, m - 1)[i] = scan[i]
    BY <1>0 DEF ScanOf
  <2>7. /\ SubSeq(scan, m + 1, n) \in Seq(DocIds) /\ Len(SubSeq(scan, m + 1, n)) = n - m
        /\ \A i \in 1 .. n - m : SubSeq(scan, m + 1, n)[i] = scan[m + i]
    <3> DEFINE from == m + 1
               sub == SubSeq(scan, from, n)
    <3>1. from \in Int /\ n \in Int /\ \A i \in from .. n : scan[i] \in DocIds
      BY <1>0
    <3>2. from = m + 1
      OBVIOUS
    <3> HIDE DEF from, n
    <3>3. /\ sub \in Seq(DocIds) /\ Len(sub) = IF from <= n THEN n - from + 1 ELSE 0
          /\ \A i \in 1 .. n - from + 1 : sub[i] = scan[from + i - 1]
      BY <3>1, SubSeqProperties
    <3> HIDE DEF sub
    <3>4. /\ sub \in Seq(DocIds) /\ Len(sub) = n - m
          /\ \A i \in 1 .. n - m : sub[i] = scan[m + i]
      BY <1>0, <2>5, <3>2, <3>3
    <3> QED
      BY <3>2, <3>4 DEF sub, n
  <2>8. /\ out \in Seq(DocIds) /\ Len(out) = n - 1
        /\ \A i \in 1 .. n - 1 : out[i] = IF i < m THEN scan[i] ELSE scan[i + 1]
    <3> DEFINE a == SubSeq(scan, 1, m - 1)
               b == SubSeq(scan, m + 1, n)
    <3>1. out = a \o b
      BY <2>5 DEF RemoveAt
    <3>2. /\ a \in Seq(DocIds) /\ Len(a) = m - 1 /\ b \in Seq(DocIds) /\ Len(b) = n - m
          /\ \A i \in 1 .. m - 1 : a[i] = scan[i]
          /\ \A i \in 1 .. n - m : b[i] = scan[m + i]
      BY <2>6, <2>7
    <3> HIDE DEF a, b
    <3>3. /\ out \in Seq(DocIds) /\ Len(out) = n - 1
          /\ \A i \in 1 .. n - 1 : out[i] = IF i <= m - 1 THEN a[i] ELSE b[i - (m - 1)]
      <4>1. a \o b \in Seq(DocIds) /\ Len(a \o b) = Len(a) + Len(b)
            /\ \A i \in 1 .. Len(a) + Len(b) : (a \o b)[i] = IF i <= Len(a) THEN a[i] ELSE b[i - Len(a)]
        BY <3>2, ConcatProperties
      <4>2. Len(a) + Len(b) = n - 1
        BY <1>0, <3>2
      <4> HIDE DEF out, n
      <4> QED
        BY <3>1, <3>2, <4>1, <4>2
    <3>4. ASSUME NEW i \in 1 .. n - 1 PROVE out[i] = IF i < m THEN scan[i] ELSE scan[i + 1]
      <4>1. CASE i <= m - 1
        BY <1>0, <2>5, <3>2, <3>3, <4>1
      <4>2. CASE ~(i <= m - 1)
        <5>1. i - (m - 1) \in 1 .. n - m /\ m + (i - (m - 1)) = i + 1 /\ ~(i < m)
          BY <1>0, <2>5, <4>2
        <5> QED
          BY <3>2, <3>3, <4>2, <5>1
      <4> QED
        BY <4>1, <4>2
    <3> QED
      BY <3>3, <3>4
  <2>9. DOMAIN out = 1 .. n - 1
    BY <1>0, <2>8
  <2> HIDE DEF out
  <2>10. ASSUME NEW i \in 1 .. n - 1, NEW j \in 1 .. n - 1, out[i] = out[j] PROVE i = j
    <3>1. PICK x \in 1 .. n : x = (IF i < m THEN i ELSE i + 1) /\ out[i] = scan[x]
      BY <1>0, <2>8
    <3>2. PICK y \in 1 .. n : y = (IF j < m THEN j ELSE j + 1) /\ out[j] = scan[y]
      BY <1>0, <2>8
    <3>3. x = y
      BY <1>0, <2>10, <3>1, <3>2 DEF ScanOf
    <3> QED
      BY <1>0, <3>1, <3>2, <3>3
  <2>11. ASSUME NEW i \in 1 .. n - 1 PROVE out[i] # d
    <3>1. PICK x \in 1 .. n : x = (IF i < m THEN i ELSE i + 1) /\ out[i] = scan[x]
      BY <1>0, <2>8
    <3>2. x # m
      BY <1>0, <3>1
    <3> QED
      BY <1>0, <2>5, <3>1, <3>2 DEF ScanOf
  <2> QED
    BY <2>8, <2>9, <2>10, <2>11 DEF ScanOf, out
<1> QED
  BY <1>1, <1>2

LEMMA PutLast ==
  ASSUME NEW scan, ScanOf(scan), NEW d \in DocIds, \A i \in DOMAIN scan : scan[i] # d
  PROVE  ScanOf(Append(scan, d))
BY DEF ScanOf

LEMMA ScanKeeps ==
  ASSUME ScanOf(order), NEW d \in DocIds, Scan(d) \/ Unscan(d)
  PROVE  ScanOf(order)'
<1>1. ScanOf(RemoveFirst(order, d)) /\ \A i \in DOMAIN RemoveFirst(order, d) : RemoveFirst(order, d)[i] # d
  BY TakenOut
<1>2. ScanOf(Append(RemoveFirst(order, d), d))
  BY <1>1, PutLast, Zenon
<1>3. order' \in {order, RemoveFirst(order, d), Append(RemoveFirst(order, d), d)}
  BY DEF Scan, Unscan
<1>4. ASSUME NEW s, ScanOf(s), order' = s PROVE ScanOf(order)'
  BY <1>4 DEF ScanOf
<1> QED
  BY <1>1, <1>2, <1>3, <1>4

\* Where a pager that has met no change stands: it has seen, in descending
\* order, the documents down to its cursor, and all of them at its end.
Stands(p) ==
    /\ p.all \subseteq DocIds /\ p.seen \in Seq(DocIds)
    /\ \A i, j \in DOMAIN p.seen : i < j => Key(p.seen[i]) > Key(p.seen[j])
    /\ p.seen = <<>> => p.cursor = None
    /\ p.seen # <<>> =>
          /\ p.cursor = Last(p.seen)
          /\ ToSet(p.seen) = {d \in p.all : Key(d) >= Key(p.cursor)}
    /\ p.done => ToSet(p.seen) = p.all

PagesInv ==
    /\ ScanOf(order)
    /\ DOMAIN call = Callers /\ \A c \in Callers : call[c] # None => call[c].doc \in DocIds
    /\ pager # None =>
          /\ DOMAIN pager = {"seen", "cursor", "done", "all", "whole"}
          /\ pager.done \in BOOLEAN /\ pager.whole \in BOOLEAN
          /\ pager.whole => Stands(pager)

LEMMA PagesStart == StoreInit => PagesInv
<1> SUFFICES ASSUME StoreInit PROVE PagesInv
  OBVIOUS
<1>0. order = <<>> /\ pager = None /\ call = [c \in Callers |-> None]
  BY Zenon DEF StoreInit
<1>1. order = <<>> /\ pager = None /\ DOMAIN call = Callers /\ \A c \in Callers : call[c] = None
  BY <1>0
<1>2. ScanOf(order)
  BY <1>1 DEF ScanOf
<1> QED
  BY <1>1, <1>2 DEF PagesInv

\* The page after a cursor: the next rows in descending order, as many as fit.
LEMMA PageFollows ==
  ASSUME NEW scan, ToSet(scan) \subseteq DocIds, order = scan, NEW cursor,
         cursor = None \/ Contains(Sorted(scan), cursor)
  PROVE  LET ranked == Sorted(scan)
             p == IF cursor = None THEN 0 ELSE Position(ranked, cursor)
             rest == Len(ranked) - p
             k == IF rest < PageLimit THEN rest ELSE PageLimit
         IN  /\ p \in 0 .. Len(ranked) /\ (cursor # None => p # 0 /\ ranked[p] = cursor)
             /\ ApplyQuery(cursor) \in Seq(DocIds) /\ Len(ApplyQuery(cursor)) = k
             /\ \A i \in 1 .. k : ApplyQuery(cursor)[i] = ranked[p + i]
<1> DEFINE ranked == Sorted(scan)
           n == Len(ranked)
           p == IF cursor = None THEN 0 ELSE Position(ranked, cursor)
           tail == SubSeq(ranked, p + 1, n)
           rest == IF cursor = None THEN ranked ELSE tail
           k == IF n - p < PageLimit THEN n - p ELSE PageLimit
           page == ApplyQuery(cursor)
<1>1. ranked \in Seq(DocIds) /\ n \in Nat /\ DOMAIN ranked = 1 .. n
  BY SortedRows
<1>2. p \in 0 .. n /\ (cursor # None => p # 0 /\ ranked[p] = cursor)
  <2> HIDE DEF ranked
  <2>1. CASE cursor = None
    BY <1>1, <2>1
  <2>2. CASE cursor # None
    <3>1. \E i \in DOMAIN ranked : ranked[i] = cursor
      BY <1>1, <2>2 DEF Contains, ranked
    <3>2. Position(ranked, cursor) \in DOMAIN ranked /\ ranked[Position(ranked, cursor)] = cursor
      BY <3>1 DEF Position
    <3> QED
      BY <1>1, <2>2, <3>2
  <2> QED
    BY <2>1, <2>2
<1>3. cursor # None => Contains(ranked, cursor)
  OBVIOUS
<1>4. PageLimit \in Nat \ {0}
  BY StoreAssumption
<1>5. page = SubSeq(rest, 1, IF Len(rest) < PageLimit THEN Len(rest) ELSE PageLimit)
  BY <1>3 DEF ApplyQuery
<1> HIDE DEF ranked
<1>6. /\ rest \in Seq(DocIds) /\ Len(rest) = n - p /\ \A i \in 1 .. n - p : rest[i] = ranked[p + i]
  <2>1. CASE cursor = None
    BY <1>1, <2>1
  <2>2. CASE cursor # None
    <3> DEFINE b == p + 1
               sub == SubSeq(ranked, b, n)
    <3>1. b \in Int /\ n \in Int /\ b = p + 1 /\ p \in Nat /\ p <= n /\ \A i \in b .. n : ranked[i] \in DocIds
      BY <1>1, <1>2
    <3> HIDE DEF b, n, p
    <3>2. /\ sub \in Seq(DocIds) /\ Len(sub) = IF b <= n THEN n - b + 1 ELSE 0
          /\ \A i \in 1 .. n - b + 1 : sub[i] = ranked[b + i - 1]
      BY <3>1, SubSeqProperties
    <3>3. rest = sub
      BY <2>2, <3>1
    <3> HIDE DEF sub, rest
    <3> QED
      BY <3>1, <3>2, <3>3
  <2> QED
    BY <2>1, <2>2
<1>7. p \in Nat /\ n \in Nat /\ p <= n
  BY <1>1, <1>2
<1> HIDE DEF rest, n, p, page
<1>8. /\ page \in Seq(DocIds) /\ Len(page) = k /\ \A i \in 1 .. k : page[i] = rest[i]
  <2>1. k \in Nat /\ k <= Len(rest) /\ k = IF Len(rest) < PageLimit THEN Len(rest) ELSE PageLimit
    BY <1>4, <1>6, <1>7
  <2> HIDE DEF k
  <2>2. page = SubSeq(rest, 1, k)
    BY <1>5, <2>1
  <2>3. 1 \in Int /\ k \in Int /\ \A i \in 1 .. k : rest[i] \in DocIds
    BY <1>6, <2>1
  <2>4. /\ page \in Seq(DocIds) /\ Len(page) = IF 1 <= k THEN k - 1 + 1 ELSE 0
        /\ \A i \in 1 .. k - 1 + 1 : page[i] = rest[1 + i - 1]
    BY <2>2, <2>3, SubSeqProperties
  <2>5. \A i \in 1 .. k : i \in 1 .. k - 1 + 1 /\ 1 + i - 1 = i
    BY <2>1
  <2>6. Len(page) = k
    BY <2>1, <2>4
  <2> QED
    BY <2>4, <2>5, <2>6
<1>9. k \in Nat /\ k <= n - p
  BY <1>4, <1>7
<1> HIDE DEF k
<1>10. \A i \in 1 .. k : page[i] = ranked[p + i]
  BY <1>6, <1>7, <1>8, <1>9
<1> QED
  BY <1>2, <1>8, <1>10 DEF ranked, p, n, k, page

\* The documents down to a row are the rows up to it.
LEMMA RowsDownTo ==
  ASSUME NEW ranked \in Seq(DocIds), NEW m \in 1 .. Len(ranked),
         \A i, j \in DOMAIN ranked : i < j => Key(ranked[i]) > Key(ranked[j])
  PROVE  {d \in ToSet(ranked) : Key(d) >= Key(ranked[m])} = {ranked[i] : i \in 1 .. m}
<1>1. Len(ranked) \in Nat /\ DOMAIN ranked = 1 .. Len(ranked) /\ \A i \in 1 .. Len(ranked) : ranked[i] \in DocIds
  OBVIOUS
<1>2. \A i \in 1 .. Len(ranked) : Key(ranked[i]) \in Nat
  BY <1>1, KeysDiffer
<1>3. ASSUME NEW i \in 1 .. Len(ranked) PROVE Key(ranked[i]) >= Key(ranked[m]) <=> i \in 1 .. m
  <2>1. i < m => Key(ranked[i]) > Key(ranked[m])
    BY <1>1
  <2>2. m < i => Key(ranked[m]) > Key(ranked[i])
    BY <1>1
  <2>3. Key(ranked[i]) \in Nat /\ Key(ranked[m]) \in Nat /\ i \in Nat /\ m \in Nat
    BY <1>1, <1>2
  <2> QED
    BY <2>1, <2>2, <2>3
<1>4. ToSet(ranked) = {ranked[i] : i \in 1 .. Len(ranked)}
  BY <1>1 DEF ToSet
<1>5. 1 .. m \subseteq 1 .. Len(ranked)
  BY <1>1
<1> QED
  BY <1>3, <1>4, <1>5

\* What was seen is the rows up to p, and a page the next k ones.
NextPage(ranked, p, k, seen, page) ==
    /\ ranked \in Seq(DocIds) /\ p \in Nat /\ k \in Nat /\ p + k <= Len(ranked)
    /\ \A i, j \in DOMAIN ranked : i < j => Key(ranked[i]) > Key(ranked[j])
    /\ seen \in Seq(DocIds) /\ ToSet(seen) = {ranked[a] : a \in 1 .. p}
    /\ \A i, j \in DOMAIN seen : i < j => Key(seen[i]) > Key(seen[j])
    /\ page \in Seq(DocIds) /\ Len(page) = k /\ \A i \in 1 .. k : page[i] = ranked[p + i]
\* Together they are the rows up to p + k, in their order.
JoinedPages(ranked, p, k, seen, joined) ==
    /\ joined \in Seq(DocIds) /\ Len(joined) = Len(seen) + k
    /\ \A i, j \in DOMAIN joined : i < j => Key(joined[i]) > Key(joined[j])
    /\ ToSet(joined) = {ranked[a] : a \in 1 .. p + k}
    /\ k # 0 => joined[Len(joined)] = ranked[p + k]

LEMMA PageJoins ==
  ASSUME NEW ranked, NEW p, NEW k, NEW seen, NEW page, NextPage(ranked, p, k, seen, page)
  PROVE  JoinedPages(ranked, p, k, seen, seen \o page)
<1> DEFINE l == Len(seen)
           n == Len(ranked)
           joined == seen \o page
<1>1. /\ l \in Nat /\ DOMAIN seen = 1 .. l /\ n \in Nat /\ DOMAIN ranked = 1 .. n
      /\ p \in Nat /\ k \in Nat /\ p + k <= n
  BY DEF NextPage
<1>2. /\ joined \in Seq(DocIds) /\ Len(joined) = l + k
      /\ \A i \in 1 .. l + k : joined[i] = IF i <= l THEN seen[i] ELSE page[i - l]
  BY ConcatProperties DEF NextPage
<1>3. DOMAIN joined = 1 .. l + k
  BY <1>2
<1>4. \A i, j \in 1 .. l : i < j => Key(seen[i]) > Key(seen[j])
  BY <1>1 DEF NextPage
<1>5. \A i, j \in 1 .. n : i < j => Key(ranked[i]) > Key(ranked[j])
  BY <1>1 DEF NextPage
<1>5a. ToSet(seen) = {ranked[a] : a \in 1 .. p} /\ \A i \in 1 .. k : page[i] = ranked[p + i]
  BY DEF NextPage
<1>6. \A i \in 1 .. l : \E a \in 1 .. p : seen[i] = ranked[a]
  BY <1>1, <1>5a DEF ToSet
<1>7. \A a \in 1 .. p : \E i \in 1 .. l : seen[i] = ranked[a]
  <2> SUFFICES ASSUME NEW a \in 1 .. p PROVE \E i \in 1 .. l : seen[i] = ranked[a]
    OBVIOUS
  <2>1. ranked[a] \in ToSet(seen)
    BY <1>5a
  <2> QED
    BY <1>1, <2>1 DEF ToSet
<1> HIDE DEF joined, l, n
<1>8. \A i \in 1 .. l + k : i <= l => i \in 1 .. l /\ joined[i] = seen[i]
  BY <1>1, <1>2
<1>9. \A i \in 1 .. l + k : ~(i <= l) => p + (i - l) \in p + 1 .. p + k /\ joined[i] = ranked[p + (i - l)]
  <2> SUFFICES ASSUME NEW i \in 1 .. l + k, ~(i <= l)
               PROVE  p + (i - l) \in p + 1 .. p + k /\ joined[i] = ranked[p + (i - l)]
    OBVIOUS
  <2>1. i - l \in 1 .. k /\ p + (i - l) \in p + 1 .. p + k
    BY <1>1
  <2> QED
    BY <1>2, <1>5a, <2>1
<1>10. ASSUME NEW i \in 1 .. l + k, NEW j \in 1 .. l + k, i < j PROVE Key(joined[i]) > Key(joined[j])
  <2>1. CASE j <= l
    <3>1. i <= l
      BY <1>1, <1>10, <2>1
    <3> QED
      BY <1>4, <1>8, <1>10, <2>1, <3>1
  <2>2. CASE ~(j <= l)
    <3> DEFINE b == p + (j - l)
    <3>1. b \in 1 .. n /\ b > p /\ joined[j] = ranked[b]
      <4>1. b \in p + 1 .. p + k /\ joined[j] = ranked[b]
        BY <1>9, <2>2
      <4> HIDE DEF b
      <4> QED
        BY <1>1, <4>1
    <3>2. PICK a \in 1 .. n : a < b /\ joined[i] = ranked[a]
      <4>1. CASE i <= l
        <5>1. PICK a \in 1 .. p : seen[i] = ranked[a]
          BY <1>6, <1>8, <4>1
        <5> HIDE DEF b
        <5>2. a \in 1 .. n /\ a < b
          BY <1>1, <3>1
        <5> QED
          BY <1>8, <4>1, <5>1, <5>2
      <4>2. CASE ~(i <= l)
        <5>1. p + (i - l) \in 1 .. n /\ p + (i - l) < b
          BY <1>1, <1>10, <4>2
        <5> QED
          BY <1>9, <4>2, <5>1
      <4> QED
        BY <4>1, <4>2
    <3> HIDE DEF b
    <3> QED
      BY <1>5, <3>1, <3>2
  <2> QED
    BY <2>1, <2>2
<1>11. ToSet(joined) = {ranked[a] : a \in 1 .. p + k}
  <2>1. \A i \in 1 .. l + k : \E a \in 1 .. p + k : joined[i] = ranked[a]
    <3> SUFFICES ASSUME NEW i \in 1 .. l + k PROVE \E a \in 1 .. p + k : joined[i] = ranked[a]
      OBVIOUS
    <3>1. CASE i <= l
      <4>1. PICK a \in 1 .. p : seen[i] = ranked[a]
        BY <1>6, <1>8, <3>1
      <4>2. a \in 1 .. p + k
        BY <1>1
      <4> QED
        BY <1>8, <3>1, <4>1, <4>2
    <3>2. CASE ~(i <= l)
      <4>1. p + (i - l) \in 1 .. p + k
        BY <1>1, <3>2
      <4> QED
        BY <1>9, <3>2, <4>1
    <3> QED
      BY <3>1, <3>2
  <2>2. \A a \in 1 .. p + k : \E i \in 1 .. l + k : joined[i] = ranked[a]
    <3> SUFFICES ASSUME NEW a \in 1 .. p + k PROVE \E i \in 1 .. l + k : joined[i] = ranked[a]
      OBVIOUS
    <3>1. CASE a <= p
      <4>1. a \in 1 .. p
        BY <1>1, <3>1
      <4>2. PICK i \in 1 .. l : seen[i] = ranked[a]
        BY <1>7, <4>1
      <4>3. i \in 1 .. l + k /\ i <= l
        BY <1>1
      <4> QED
        BY <1>8, <4>2, <4>3
    <3>2. CASE ~(a <= p)
      <4> DEFINE i == l + (a - p)
      <4>1. i \in 1 .. l + k /\ ~(i <= l) /\ p + (i - l) = a
        BY <1>1, <3>2
      <4> HIDE DEF i
      <4> QED
        BY <1>9, <4>1
    <3> QED
      BY <3>1, <3>2
  <2>3. ToSet(joined) = {joined[i] : i \in 1 .. l + k}
    BY <1>3 DEF ToSet
  <2>4. ToSet(joined) \subseteq {ranked[a] : a \in 1 .. p + k}
    BY <2>1, <2>3
  <2>5. {ranked[a] : a \in 1 .. p + k} \subseteq ToSet(joined)
    BY <2>2, <2>3
  <2> QED
    BY <2>4, <2>5
<1>12. k # 0 => joined[Len(joined)] = ranked[p + k]
  <2> SUFFICES ASSUME k # 0 PROVE joined[l + k] = ranked[p + k]
    BY <1>2
  <2>1. l + k \in 1 .. l + k /\ ~(l + k <= l) /\ p + ((l + k) - l) = p + k
    BY <1>1
  <2> QED
    BY <1>9, <2>1
<1> QED
  BY <1>2, <1>3, <1>10, <1>11, <1>12 DEF JoinedPages, joined, l

\* One more page, when the collection is the one the pager started on.
LEMMA PageAdds ==
  ASSUME ScanOf(order), NEW from, Stands(from), from.all = ToSet(order), NEW q,
         q.seen = from.seen \o ApplyQuery(from.cursor), q.all = from.all,
         q.cursor = IF ApplyQuery(from.cursor) = <<>> THEN from.cursor ELSE Last(ApplyQuery(from.cursor)),
         q.done = (Len(ApplyQuery(from.cursor)) < PageLimit)
  PROVE  Stands(q)
<1> DEFINE ranked == Sorted(order)
           n == Len(ranked)
           seen == from.seen
           l == Len(seen)
           page == ApplyQuery(from.cursor)
           p == IF from.cursor = None THEN 0 ELSE Position(ranked, from.cursor)
           k == IF n - p < PageLimit THEN n - p ELSE PageLimit
<1>1. /\ ranked \in Seq(DocIds) /\ ToSet(ranked) = from.all /\ from.all \subseteq DocIds
      /\ \A i, j \in DOMAIN ranked : i < j => Key(ranked[i]) > Key(ranked[j])
      /\ ToSet(order) \subseteq DocIds
  BY SortedRows DEF Stands
<1>2. seen \in Seq(DocIds) /\ l \in Nat /\ DOMAIN seen = 1 .. l /\ (seen = <<>> <=> l = 0)
  BY DEF Stands
<1>3. seen # <<>> => /\ from.cursor = seen[l] /\ from.cursor \in DocIds /\ from.cursor # None
                     /\ from.cursor \in ToSet(ranked)
  <2> SUFFICES ASSUME seen # <<>>
               PROVE  from.cursor = seen[l] /\ from.cursor \in DocIds /\ from.cursor \in ToSet(ranked)
    BY StoreAssumption
  <2>1. from.cursor = seen[l] /\ ToSet(seen) = {d \in from.all : Key(d) >= Key(from.cursor)}
    BY DEF Stands, Last
  <2>2. seen[l] \in ToSet(seen)
    BY <1>2 DEF ToSet
  <2> HIDE DEF ranked
  <2> QED
    BY <1>1, <2>1, <2>2
<1>4. seen = <<>> => from.cursor = None
  BY DEF Stands
<1>5. from.cursor = None \/ Contains(ranked, from.cursor)
  <2> HIDE DEF ranked
  <2> QED
    BY <1>1, <1>3, <1>4 DEF Contains, ToSet
<1>6. /\ p \in 0 .. n /\ (from.cursor # None => p # 0 /\ ranked[p] = from.cursor)
      /\ page \in Seq(DocIds) /\ Len(page) = k
      /\ \A i \in 1 .. k : page[i] = ranked[p + i]
  BY <1>1, <1>5, PageFollows
<1>7. PageLimit \in Nat \ {0}
  BY StoreAssumption
<1> HIDE DEF ranked
<1>8. n \in Nat /\ DOMAIN ranked = 1 .. n /\ p \in Nat /\ p <= n
  BY <1>1, <1>6
<1> HIDE DEF p
<1>0. n = Len(ranked)
  OBVIOUS
<1> HIDE DEF n
<1>9. k \in Nat /\ p + k <= n /\ (k < PageLimit => p + k = n)
  BY <1>7, <1>8
<1>10. ToSet(seen) = {ranked[i] : i \in 1 .. p}
  <2>1. CASE seen = <<>>
    <3>1. p = 0
      BY <1>4, <2>1 DEF p
    <3>2. ToSet(seen) = {}
      BY <2>1 DEF ToSet
    <3> QED
      BY <3>1, <3>2
  <2>2. CASE seen # <<>>
    <3>1. p \in 1 .. n /\ ranked[p] = from.cursor
      BY <1>3, <1>6, <1>8, <2>2
    <3>2. ToSet(seen) = {d \in ToSet(ranked) : Key(d) >= Key(ranked[p])}
      BY <1>1, <2>2, <3>1 DEF Stands
    <3> QED
      BY <1>1, <3>1, <3>2, RowsDownTo DEF n
  <2> QED
    BY <2>1, <2>2
<1>11. \A i, j \in DOMAIN seen : i < j => Key(seen[i]) > Key(seen[j])
  BY DEF Stands
<1>12. page = <<>> <=> k = 0
  BY <1>6
<1> HIDE DEF k, page, seen
<1>13. /\ q.seen \in Seq(DocIds) /\ Len(q.seen) = l + k
       /\ \A i, j \in DOMAIN q.seen : i < j => Key(q.seen[i]) > Key(q.seen[j])
       /\ ToSet(q.seen) = {ranked[a] : a \in 1 .. p + k}
       /\ k # 0 => Last(q.seen) = ranked[p + k]
  <2>1. q.seen = seen \o page
    BY DEF seen, page
  <2>2. p \in Nat /\ k \in Nat /\ p + k <= Len(ranked)
    BY <1>0, <1>8, <1>9
  <2>3. NextPage(ranked, p, k, seen, page)
    BY <1>1, <1>2, <1>6, <1>10, <1>11, <2>2 DEF NextPage
  <2>4. JoinedPages(ranked, p, k, seen, q.seen)
    BY <2>1, <2>3, PageJoins
  <2> QED
    BY <2>4 DEF JoinedPages, l, Last
<1>14. /\ q.done = (k < PageLimit) /\ q.all = from.all
       /\ q.cursor = IF k = 0 THEN from.cursor ELSE ranked[p + k]
  <2>1. q.done = (k < PageLimit) /\ q.all = from.all
    BY <1>6 DEF page
  <2>2. k = 0 => q.cursor = from.cursor
    BY <1>12 DEF page
  <2>3. k # 0 => q.cursor = ranked[p + k]
    <3> SUFFICES ASSUME k # 0 PROVE q.cursor = ranked[p + k]
      OBVIOUS
    <3>1. q.cursor = page[k]
      BY <1>6, <1>12 DEF page, Last
    <3>2. k \in 1 .. k
      BY <1>9
    <3> QED
      BY <1>6, <3>1, <3>2
  <2> QED
    BY <2>1, <2>2, <2>3
<1> HIDE DEF l
<1>15. q.seen = <<>> <=> l + k = 0
  <2>1. q.seen = <<>> <=> Len(q.seen) = 0
    BY <1>13, EmptySeq, Zenon
  <2> QED
    BY <1>13, <2>1, Zenon
<1>16. k = 0 => q.seen = seen
  <2> SUFFICES ASSUME k = 0 PROVE q.seen = seen
    OBVIOUS
  <2>1. page = <<>>
    BY <1>12
  <2>2. q.seen = seen \o page
    BY DEF seen, page
  <2> QED
    BY <1>2, <2>1, <2>2
<1>17. q.seen = <<>> => q.cursor = None
  BY <1>2, <1>4, <1>9, <1>14, <1>15
<1>18. ASSUME q.seen # <<>>
       PROVE  q.cursor = Last(q.seen) /\ ToSet(q.seen) = {d \in q.all : Key(d) >= Key(q.cursor)}
  <2>1. p + k \in 1 .. n /\ q.cursor = ranked[p + k] /\ q.cursor = Last(q.seen)
    <3>1. CASE k = 0
      <4>1. q.seen = seen /\ seen # <<>>
        BY <1>16, <1>18, <3>1
      <4>2. from.cursor = Last(seen) /\ p # 0 /\ ranked[p] = from.cursor
        BY <1>3, <1>6, <4>1 DEF Last, l
      <4> QED
        BY <1>8, <1>14, <3>1, <4>1, <4>2
    <3>2. CASE k # 0
      BY <1>8, <1>9, <1>13, <1>14, <3>2
    <3> QED
      BY <3>1, <3>2
  <2>2. {d \in ToSet(ranked) : Key(d) >= Key(ranked[p + k])} = {ranked[a] : a \in 1 .. p + k}
    BY <1>1, <2>1, RowsDownTo DEF n
  <2> QED
    BY <1>1, <1>13, <1>14, <2>1, <2>2
<1>19. q.done => ToSet(q.seen) = q.all
  <2>1. q.done => p + k = n
    BY <1>9, <1>14
  <2>2. ToSet(ranked) = {ranked[a] : a \in 1 .. n}
    BY <1>8 DEF ToSet
  <2> QED
    BY <1>1, <1>13, <1>14, <2>1, <2>2
<1> QED
  BY <1>1, <1>13, <1>14, <1>17, <1>18, <1>19, Zenon DEF Stands

LEMMA PagerMoves ==
  ASSUME PagesInv, QueryDocuments
  PROVE  PagesInv'
<1> DEFINE from == IF pager = None \/ pager.done
                   THEN [seen |-> <<>>, cursor |-> None, done |-> FALSE, all |-> ToSet(order), whole |-> TRUE]
                   ELSE pager
           page == ApplyQuery(from.cursor)
           q == [from EXCEPT !.seen = @ \o page, !.done = Len(page) < PageLimit,
                             !.whole = @ /\ from.all = ToSet(order),
                             !.cursor = IF page = <<>> THEN @ ELSE Last(page)]
<1>1. pager' = q /\ UNCHANGED <<order, call>>
  BY DEF QueryDocuments
<1>2. ScanOf(order) /\ ToSet(order) \subseteq DocIds
  BY DEF PagesInv, ScanOf, ToSet
<1>3. /\ DOMAIN from = {"seen", "cursor", "done", "all", "whole"} /\ from.whole \in BOOLEAN
      /\ from.whole => Stands(from)
  <2>1. CASE pager = None \/ pager.done
    <3>1. from = [seen |-> <<>>, cursor |-> None, done |-> FALSE, all |-> ToSet(order), whole |-> TRUE]
      BY <2>1
    <3> HIDE DEF from
    <3> QED
      BY <1>2, <3>1 DEF Stands
  <2>2. CASE ~(pager = None \/ pager.done)
    <3>1. from = pager
      BY <2>2
    <3> HIDE DEF from
    <3> QED
      BY <2>2, <3>1 DEF PagesInv
  <2> QED
    BY <2>1, <2>2
<1> HIDE DEF from
<1>4. /\ DOMAIN q = {"seen", "cursor", "done", "all", "whole"}
      /\ q.seen = from.seen \o page /\ q.all = from.all
      /\ q.cursor = IF page = <<>> THEN from.cursor ELSE Last(page)
      /\ q.done = (Len(page) < PageLimit)
      /\ q.whole = (from.whole /\ from.all = ToSet(order))
  <2> HIDE DEF page
  <2> QED
    BY <1>3
<1>5. q.done \in BOOLEAN /\ q.whole \in BOOLEAN
  <2> HIDE DEF q, page
  <2> QED
    BY <1>4
<1>6. q.whole => Stands(q)
  <2> HIDE DEF q
  <2> QED
    BY <1>2, <1>3, <1>4, PageAdds
<1> HIDE DEF q, page
<1>7. ScanOf(order)'
  BY <1>1, <1>2 DEF ScanOf
<1>8. pager'.whole => Stands(pager)'
  BY <1>1, <1>6 DEF Stands
<1> QED
  BY <1>1, <1>4, <1>5, <1>7, <1>8 DEF PagesInv

\* Any other step moves rows of the scan, one document at a time, and leaves
\* the pager alone.
LEMMA RowsMove ==
  ASSUME PagesInv, UNCHANGED pager, NEW c \in Callers,
         \/ UNCHANGED order
         \/ \E d \in DocIds : Scan(d) \/ Unscan(d),
         \/ UNCHANGED call
         \/ Return(c)
         \/ \E r : call' = [call EXCEPT ![c] = r] /\ r.doc \in DocIds
  PROVE  PagesInv'
<1>1. ScanOf(order)'
  <2>1. ScanOf(order)
    BY DEF PagesInv
  <2>2. CASE UNCHANGED order
    BY <2>1, <2>2 DEF ScanOf
  <2> QED
    BY <2>1, <2>2, ScanKeeps
<1>2. DOMAIN call' = Callers /\ \A o \in Callers : call'[o] # None => call'[o].doc \in DocIds
  <2>1. DOMAIN call = Callers /\ \A o \in Callers : call[o] # None => call[o].doc \in DocIds
    BY DEF PagesInv
  <2>2. CASE UNCHANGED call
    BY <2>1, <2>2
  <2>3. CASE Return(c)
    BY <2>1, <2>3 DEF Return
  <2>4. ASSUME NEW r, call' = [call EXCEPT ![c] = r], r.doc \in DocIds
        PROVE  DOMAIN call' = Callers /\ \A o \in Callers : call'[o] # None => call'[o].doc \in DocIds
    BY <2>1, <2>4
  <2> QED
    BY <2>2, <2>3, <2>4
<1>3. pager # None => /\ DOMAIN pager = {"seen", "cursor", "done", "all", "whole"}
                      /\ pager.done \in BOOLEAN /\ pager.whole \in BOOLEAN
                      /\ pager.whole => Stands(pager)
  BY DEF PagesInv
<1>4. Stands(pager)' <=> Stands(pager)
  BY DEF Stands
<1> QED
  BY <1>1, <1>2, <1>3, <1>4 DEF PagesInv

LEMMA PagesStep == PagesInv /\ [StoreNext]_storeVars => PagesInv'
<1> SUFFICES ASSUME PagesInv, [StoreNext]_storeVars PROVE PagesInv'
  OBVIOUS
<1>1. CASE UNCHANGED <<order, call, pager>>
  <2>1. ScanOf(order)' /\ (Stands(pager)' <=> Stands(pager))
    BY <1>1 DEF ScanOf, Stands, PagesInv
  <2> QED
    BY <1>1, <2>1 DEF PagesInv
<1>2. ASSUME NEW c \in Callers, NEW d \in DocIds, SetDocument(c, d) \/ DeleteDocument(c, d)
      PROVE  PagesInv'
  BY <1>2, RowsMove DEF SetDocument, DeleteDocument, Put, sideVars
<1>3. ASSUME NEW c \in Callers, NEW d \in DocIds, CreateDocument(c, d) \/ ApplySentinel(c, d)
      PROVE  PagesInv'
  BY <1>3, RowsMove DEF CreateDocument, ApplySentinel, Put, sideVars
<1>4. ASSUME NEW c \in Callers, NEW d \in DocIds, MemoryCreate(c, d) PROVE PagesInv'
  <2> DEFINE r == [kind |-> "create", doc |-> d, arg |-> None, seen |-> Contract!Blank]
  <2>1. r.doc \in DocIds
    OBVIOUS
  <2>2. \/ UNCHANGED order /\ (UNCHANGED call \/ call' = [call EXCEPT ![c] = r])
        \/ Scan(d) /\ Return(c)
    <3>1. CASE /\ IF docs[d] # None THEN UNCHANGED <<call, createLock>>
                  ELSE createLock' = c /\ call' = [call EXCEPT ![c] = r]
               /\ UNCHANGED <<docs, acked, order>>
      BY <3>1
    <3>2. CASE Put(d, Contract!Blank) /\ Return(c)
      BY <3>2 DEF Put
    <3> HIDE DEF r
    <3> QED
      BY <1>4, <3>1, <3>2 DEF MemoryCreate, r
  <2>3. UNCHANGED pager
    BY <1>4 DEF MemoryCreate, sideVars
  <2> HIDE DEF r
  <2> QED
    BY <2>1, <2>2, <2>3, RowsMove
<1>5. ASSUME NEW c \in Callers, NEW d \in DocIds, NEW m \in Members, SetMerge(c, d, m) \/ UpdateDocument(c, d, m)
      PROVE  PagesInv'
  BY <1>5, RowsMove DEF SetMerge, UpdateDocument, Put, sideVars
<1>6. ASSUME NEW c \in Callers, NEW d \in DocIds, NEW m \in Members, NEW kind,
             TransformField(c, d, kind, m)
      PROVE  PagesInv'
  BY <1>6, RowsMove DEF TransformField, Put, sideVars
<1>7. ASSUME NEW c \in Callers, NEW d \in DocIds, NEW m \in Members, NEW kind,
             SelectForUpdate(c, d, kind, m) \/ MemoryGet(c, d, kind, m)
      PROVE  PagesInv'
  <2> DEFINE r == [kind |-> kind, doc |-> d, arg |-> m, seen |-> docs[d]]
  <2>1. r.doc \in DocIds
    OBVIOUS
  <2>2. UNCHANGED <<pager, order>> /\ (UNCHANGED call \/ call' = [call EXCEPT ![c] = r])
    BY <1>7 DEF SelectForUpdate, MemoryGet, sideVars
  <2> HIDE DEF r
  <2> QED
    BY <2>1, <2>2, RowsMove
<1>8. ASSUME NEW c \in Callers, UpdateAndCommit(c) \/ MemoryUpdate(c) PROVE PagesInv'
  <2>1. call[c] # None /\ UNCHANGED pager /\ Return(c) /\ (UNCHANGED order \/ Scan(call[c].doc))
    BY <1>8 DEF UpdateAndCommit, MemoryUpdate, WriteBack, sideVars
  <2>2. call[c].doc \in DocIds
    BY <2>1 DEF PagesInv
  <2> QED
    BY <2>1, <2>2, RowsMove
<1>9. CASE MigrateRead \/ MigrateWrite \/ MigrateCrash
  BY <1>1, <1>9 DEF MigrateRead, MigrateWrite, MigrateCrash
<1>10. CASE UNCHANGED storeVars
  BY <1>1, <1>10 DEF storeVars
<1> QED
  BY <1>2, <1>3, <1>4, <1>5, <1>6, <1>7, <1>8, <1>9, <1>10, PagerMoves, Zenon DEF StoreNext

\* A pager that met no change has seen each document once: what it saw is in
\* strictly descending order and is all of the collection.
LEMMA StandsIsWhole == PagesInv => PagesWhole
<1> SUFFICES ASSUME PagesInv, pager # None, pager.done, pager.whole
             PROVE  ToSet(pager.seen) = pager.all /\ Len(pager.seen) = Cardinality(pager.all)
  BY DEF PagesWhole
<1> DEFINE seen == pager.seen
           n == Len(seen)
<1>1. /\ seen \in Seq(DocIds) /\ ToSet(seen) = pager.all /\ pager.all \subseteq DocIds
      /\ \A i, j \in DOMAIN seen : i < j => Key(seen[i]) > Key(seen[j])
  BY DEF PagesInv, Stands
<1> HIDE DEF seen
<1>2. n \in Nat /\ seen \in [1 .. n -> DocIds] /\ DOMAIN seen = 1 .. n
  BY <1>1
<1>3. seen \in [1 .. n -> pager.all]
  BY <1>1, <1>2 DEF ToSet
<1>4. \A i \in 1 .. n : Key(seen[i]) \in Nat
  BY <1>2, KeysDiffer
<1> HIDE DEF n
<1>5. ASSUME NEW i \in 1 .. n, NEW j \in 1 .. n, seen[i] = seen[j] PROVE i = j
  <2>1. ~(i < j) /\ ~(j < i)
    BY <1>1, <1>2, <1>4, <1>5
  <2> QED
    BY <1>2, <2>1
<1>6. seen \in Injection(1 .. n, pager.all)
  BY <1>3, <1>5 DEF Injection, IsInjective
<1>7. seen \in Surjection(1 .. n, pager.all)
  BY <1>1, <1>2, <1>3 DEF Surjection, ToSet
<1>8. IsFiniteSet(1 .. n) /\ Cardinality(1 .. n) = n
  BY <1>2, FS_Interval
<1>9. Cardinality(pager.all) = n
  BY <1>6, <1>7, <1>8, FS_Surjection
<1> QED
  BY <1>1, <1>9 DEF n, seen

THEOREM PagesAreWhole == StoreSpec => []PagesWhole
BY PagesStart, PagesStep, StandsIsWhole, PTL DEF StoreSpec

-----------------------------------------------------------------------------
(* Parsing: the blocks of a file are cuts of the sequence of its filled      *)
(* units, which is the ascending sequence of their numbers.                  *)
AscendingOf(s, S) ==
    /\ s \in Seq(S)
    /\ \A i, j \in 1..Len(s) : i < j => s[i] < s[j]
    /\ \A n \in S : \E k \in 1..Len(s) : s[k] = n

LEMMA InOrderIs ==
    ASSUME NEW S \in SUBSET Nat, IsFiniteSet(S)
    PROVE  AscendingOf(InOrder(S), S) /\ Len(InOrder(S)) = Cardinality(S)
<1> DEFINE Below(n) == {m \in S : m <= n}
           N == Cardinality(S)
           rank == [n \in S |-> Cardinality(Below(n))]
           s == InOrder(S)
<1>0. \A n \in S : n \in Nat
  OBVIOUS
<1>1. N \in Nat
  BY FS_CardinalityType
<1>2. \A n \in S : IsFiniteSet(Below(n)) /\ rank[n] = Cardinality(Below(n)) /\ rank[n] \in 1..N
  <2> SUFFICES ASSUME NEW n \in S PROVE IsFiniteSet(Below(n)) /\ Cardinality(Below(n)) \in 1..N
    OBVIOUS
  <2>1. Below(n) \in SUBSET S /\ n \in Below(n)
    OBVIOUS
  <2> HIDE DEF Below
  <2>2. IsFiniteSet(Below(n)) /\ Cardinality(Below(n)) <= N
    BY <2>1, FS_Subset
  <2>3. Cardinality(Below(n)) \in Nat /\ Cardinality(Below(n)) # 0
    BY <2>1, <2>2, FS_CardinalityType, FS_EmptySet
  <2> QED
    BY <1>1, <2>2, <2>3
<1>3. \A m, n \in S : m < n => rank[m] < rank[n]
  <2> SUFFICES ASSUME NEW m \in S, NEW n \in S, m < n PROVE rank[m] < rank[n]
    OBVIOUS
  <2>1. Below(m) \in SUBSET Below(n) /\ n \in Below(n) /\ n \notin Below(m)
    <3>1. m \in Nat /\ n \in Nat
      BY <1>0
    <3>2. ASSUME NEW x \in Below(m) PROVE x \in Below(n)
      BY <1>0, <3>1
    <3>3. n \in Below(n) /\ n \notin Below(m)
      BY <3>1
    <3> QED
      BY <3>2, <3>3
  <2> HIDE DEF Below, rank
  <2>2. Cardinality(Below(m)) <= Cardinality(Below(n)) /\ Cardinality(Below(n)) # Cardinality(Below(m))
    BY <1>2, <2>1, FS_Subset
  <2> QED
    BY <1>2, <2>2
<1> HIDE DEF Below
<1>4. rank \in Injection(S, 1..N)
  <2>1. rank \in [S -> 1..N]
    BY <1>2
  <2> HIDE DEF rank
  <2>2. \A m, n \in S : rank[m] = rank[n] => m = n
    BY <1>2, <1>3
  <2> QED
    BY <2>1, <2>2 DEF Injection, IsInjective
<1>5. rank \in Surjection(S, 1..N)
  <2>1. IsFiniteSet(1..N) /\ Cardinality(1..N) = N
    BY <1>1, FS_Interval
  <2> HIDE DEF rank
  <2> QED
    BY <1>4, <2>1, FS_Injection
<1>6. \A k \in 1..N : \E n \in S : rank[n] = k
  <2> HIDE DEF rank, N
  <2> QED
    BY <1>5 DEF Surjection
<1>7. s = [k \in 1..N |-> CHOOSE n \in S : Cardinality(Below(n)) = k]
  BY DEF InOrder, Below
<1> HIDE DEF s, N
<1>8. \A k \in 1..N : s[k] \in S /\ rank[s[k]] = k
  <2> SUFFICES ASSUME NEW k \in 1..N PROVE s[k] \in S /\ rank[s[k]] = k
    OBVIOUS
  <2>1. s[k] = CHOOSE n \in S : Cardinality(Below(n)) = k
    BY <1>7
  <2>2. \E n \in S : Cardinality(Below(n)) = k
    BY <1>6
  <2>3. s[k] \in S /\ Cardinality(Below(s[k])) = k
    BY <2>1, <2>2
  <2> QED
    BY <2>3
<1> HIDE DEF rank
<1>9. s \in Seq(S) /\ Len(s) = N
  <2>1. s \in [1..N -> S]
    BY <1>7, <1>8
  <2> QED
    BY <1>1, <2>1
<1>10. \A i, j \in 1..N : i < j => s[i] < s[j]
  <2> SUFFICES ASSUME NEW i \in 1..N, NEW j \in 1..N, i < j PROVE s[i] < s[j]
    OBVIOUS
  <2>1. /\ s[i] \in S /\ s[j] \in S /\ rank[s[i]] = i /\ rank[s[j]] = j
        /\ s[i] \in Nat /\ s[j] \in Nat /\ i \in Nat /\ j \in Nat
    <3>1. s[i] \in S /\ s[j] \in S /\ rank[s[i]] = i /\ rank[s[j]] = j
      BY <1>8
    <3>2. s[i] \in Nat /\ s[j] \in Nat
      BY <3>1
    <3>3. i \in Nat /\ j \in Nat
      BY <1>1
    <3> QED
      BY <3>1, <3>2, <3>3
  <2>2. s[j] < s[i] => rank[s[j]] < rank[s[i]]
    BY <1>3, <2>1
  <2> QED
    BY <2>1, <2>2
<1>11. \A n \in S : \E k \in 1..N : s[k] = n
  <2> SUFFICES ASSUME NEW n \in S PROVE s[rank[n]] = n
    BY <1>2
  <2>1. s[rank[n]] \in S /\ rank[s[rank[n]]] = rank[n]
    BY <1>2, <1>8
  <2>2. s[rank[n]] \in Nat /\ n \in Nat /\ rank[n] \in Nat
    <3>1. s[rank[n]] \in Nat
      BY <2>1
    <3>2. n \in Nat
      OBVIOUS
    <3>3. rank[n] \in Nat
      <4>1. rank[n] \in 1..N
        BY <1>2
      <4> QED
        BY <1>1, <4>1
    <3> QED
      BY <3>1, <3>2, <3>3
  <2>3. (n < s[rank[n]] => rank[n] < rank[s[rank[n]]]) /\ (s[rank[n]] < n => rank[s[rank[n]]] < rank[n])
    BY <1>3, <2>1
  <2> QED
    BY <2>1, <2>2, <2>3
<1> QED
  BY <1>9, <1>10, <1>11 DEF AscendingOf, s, N

LEMMA AscendingFacts ==
    ASSUME NEW S \in SUBSET Nat, NEW s, AscendingOf(s, S)
    PROVE  /\ s \in Seq(S) /\ s \in Seq(Nat) /\ Len(s) \in Nat
           /\ \A i \in 1..Len(s) : s[i] \in S /\ s[i] \in Nat
<1>1. s \in Seq(S)
  BY DEF AscendingOf
<1>2. Len(s) \in Nat /\ \A i \in 1..Len(s) : s[i] \in S
  BY <1>1, LenProperties
<1>3. s \in Seq(Nat)
  BY <1>1, SeqMonotonic
<1> QED
  BY <1>1, <1>2, <1>3

LEMMA OneOrder ==
    ASSUME NEW S \in SUBSET Nat, NEW s, NEW t, AscendingOf(s, S), AscendingOf(t, S)
    PROVE  s = t
<1>1. /\ s \in Seq(S) /\ Len(s) \in Nat /\ \A i \in 1..Len(s) : s[i] \in S /\ s[i] \in Nat
      /\ t \in Seq(S) /\ Len(t) \in Nat /\ \A i \in 1..Len(t) : t[i] \in S /\ t[i] \in Nat
  BY AscendingFacts
<1>2. ASSUME NEW u, NEW v, AscendingOf(u, S), AscendingOf(v, S), NEW k \in 1..Len(u), \A i \in 1..(k - 1) : i \in 1..Len(v) /\ u[i] = v[i],
             k \in Nat
      PROVE  k \in 1..Len(v) /\ v[k] <= u[k]
  <2>1. Len(u) \in Nat /\ Len(v) \in Nat /\ u[k] \in S /\ u[k] \in Nat
    BY <1>2, AscendingFacts
  <2>2. PICK j \in 1..Len(v) : v[j] = u[k]
    BY <1>2, <2>1 DEF AscendingOf
  <2>3. j >= k
    <3>1. SUFFICES ASSUME j < k PROVE FALSE
      BY <2>1
    <3>2. j \in 1..(k - 1) /\ j \in 1..Len(u)
      BY <2>1, <3>1
    <3>3. u[j] = v[j] /\ u[j] < u[k]
      BY <1>2, <3>1, <3>2 DEF AscendingOf
    <3> QED
      BY <2>1, <2>2, <3>3
  <2>4. k \in 1..Len(v)
    BY <2>1, <2>3
  <2>5. v[k] \in Nat
    BY <1>2, <2>4, AscendingFacts
  <2>6. k < j => v[k] < v[j]
    BY <1>2, <2>4 DEF AscendingOf
  <2> QED
    BY <2>1, <2>2, <2>3, <2>4, <2>5, <2>6
<1>3. ASSUME NEW u, NEW v, AscendingOf(u, S), AscendingOf(v, S)
      PROVE  \A k \in 1..Len(u) : k \in 1..Len(v) /\ u[k] = v[k]
  <2>1. /\ u \in Seq(S) /\ Len(u) \in Nat /\ \A i \in 1..Len(u) : u[i] \in Nat
        /\ v \in Seq(S) /\ Len(v) \in Nat /\ \A i \in 1..Len(v) : v[i] \in Nat
    BY <1>3, AscendingFacts
  <2> DEFINE W == {k \in 1..Len(u) : ~(k \in 1..Len(v) /\ u[k] = v[k])}
  <2>2. SUFFICES ASSUME W # {} PROVE FALSE
    OBVIOUS
  <2>3. PICK k \in W : \A l \in W : k <= l
    <3>1. W \in SUBSET Nat
      OBVIOUS
    <3> HIDE DEF W
    <3> QED
      BY <2>2, <3>1, NatLeast
  <2>4. k \in 1..Len(u) /\ \A i \in 1..(k - 1) : i \in 1..Len(u) /\ i \in 1..Len(v) /\ u[i] = v[i]
    <3>1. k \in 1..Len(u)
      OBVIOUS
    <3>2. ASSUME NEW i \in 1..(k - 1) PROVE i \in 1..Len(u) /\ i \notin W
      <4> HIDE DEF W
      <4> QED
        BY <2>1, <2>3, <3>1
    <3> QED
      BY <3>1, <3>2
  <2>5. k \in 1..Len(v) /\ v[k] <= u[k]
    BY <1>2, <1>3, <2>1, <2>4
  <2>6. u[k] <= v[k]
    BY <1>2, <1>3, <2>1, <2>4, <2>5
  <2>7. u[k] = v[k]
    BY <2>1, <2>4, <2>5, <2>6
  <2> QED
    BY <2>5, <2>7
<1>4. (\A k \in 1..Len(s) : k \in 1..Len(t) /\ s[k] = t[k]) /\ \A k \in 1..Len(t) : k \in 1..Len(s) /\ t[k] = s[k]
  BY <1>3
<1>5. Len(s) = Len(t)
  BY <1>1, <1>4
<1> QED
  BY <1>1, <1>4, <1>5, SeqEqual

(* The sequences of a list of sequences, joined one by one.                  *)
Lists == Seq(Seq(Int))

LEMMA FlatIs ==
    ASSUME NEW s \in Lists, NEW f, f[0] = <<>>, \A i \in 1..Len(s) : f[i] = f[i - 1] \o s[i]
    PROVE  FlattenSeq(s) = f[Len(s)]
<1> DEFINE Unfold(g) == [i \in 1..Len(s) |-> IF i = 1 THEN s[i] ELSE g[i - 1] \o s[i]]
           flatten == CHOOSE g : g = Unfold(g)
           part0 == [i \in 1..Len(s) |-> f[i]]
<1>1. Len(s) \in Nat /\ \A i \in 1..Len(s) : s[i] \in Seq(Int)
  BY LenProperties DEF Lists
<1>3. \A i \in 1..Len(s) : i = 1 => f[i] = s[i]
  <2> SUFFICES ASSUME 1 \in 1..Len(s) PROVE f[1] = s[1]
    OBVIOUS
  <2>1. f[1] = f[0] \o s[1]
    <3>1. PICK i : i = 1
      OBVIOUS
    <3>2. i \in 1..Len(s) /\ i - 1 = 0
      BY <3>1
    <3> QED
      BY <3>1, <3>2, Zenon
  <2>2. <<>> \o s[1] = s[1]
    BY <1>1, ConcatEmptySeq
  <2> QED
    BY <2>1, <2>2
<1>4. part0 = Unfold(part0)
  <2>1. \A i \in 1..Len(s) : part0[i] = IF i = 1 THEN s[i] ELSE part0[i - 1] \o s[i]
    <3> SUFFICES ASSUME NEW i \in 1..Len(s) PROVE part0[i] = IF i = 1 THEN s[i] ELSE part0[i - 1] \o s[i]
      OBVIOUS
    <3>1. i # 1 => i - 1 \in 1..Len(s)
      BY <1>1
    <3> QED
      BY <1>3, <3>1
  <2> HIDE DEF part0
  <2>2. part0 = [i \in 1..Len(s) |-> part0[i]]
    BY DEF part0
  <2> QED
    BY <2>1, <2>2
<1>5. flatten = Unfold(flatten)
  <2> HIDE DEF Unfold, part0
  <2> QED
    BY <1>4
<1>6. Len(s) # 0 => FlattenSeq(s) = flatten[Len(s)]
  BY DEF FlattenSeq
<1>7. Len(s) = 0 => FlattenSeq(s) = <<>>
  BY EmptySeq DEF FlattenSeq, Lists
<1> HIDE DEF flatten, part0
<1> DEFINE S == {i \in 0..Len(s) : i # 0 => flatten[i] = f[i]}
<1>8. 0 \in S
  BY <1>1
<1>9. ASSUME NEW i \in 1..Len(s), i - 1 \in S PROVE i \in S
  <2>1. flatten[i] = IF i = 1 THEN s[i] ELSE flatten[i - 1] \o s[i]
    BY <1>5
  <2>2. i # 1 => i - 1 # 0 /\ flatten[i - 1] = f[i - 1]
    BY <1>9
  <2>3. flatten[i] = f[i]
    BY <1>3, <2>1, <2>2
  <2>4. i \in 0..Len(s)
    BY <1>1
  <2> QED
    BY <2>3, <2>4, Zenon
<1>10. Len(s) \in S
  <2> HIDE DEF S
  <2>1. 0..Len(s) \subseteq S
    BY <1>1, <1>8, <1>9, UpTo
  <2> QED
    BY <1>1, <2>1
<1> QED
  BY <1>1, <1>6, <1>7, <1>10

\* The lists cut a sequence at ascending places.
CutsAt(us, F, o) ==
    /\ o \in [0..Len(us) -> Nat] /\ o[0] = 0 /\ o[Len(us)] = Len(F)
    /\ \A k \in 1..Len(us) : o[k - 1] <= o[k] /\ o[k] <= Len(F) /\ us[k] = SubSeq(F, o[k - 1] + 1, o[k])

LEMMA CutsJoin ==
    ASSUME NEW us \in Lists, NEW F \in Seq(Int), NEW o, CutsAt(us, F, o)
    PROVE  FlattenSeq(us) = F
<1> DEFINE f == [k \in 0..Len(us) |-> SubSeq(F, 1, o[k])]
<1>1. Len(us) \in Nat /\ Len(F) \in Nat
  BY LenProperties DEF Lists
<1>2. f[0] = <<>>
  <2>1. f[0] = SubSeq(F, 1, 0)
    BY <1>1 DEF CutsAt
  <2>2. SubSeq(F, 1, 0) = <<>>
    BY SubSeqEmpty
  <2> HIDE DEF f
  <2> QED
    BY <2>1, <2>2
<1>3. ASSUME NEW k \in 1..Len(us) PROVE f[k] = f[k - 1] \o us[k]
  <2>1. /\ o[k - 1] \in Nat /\ o[k] \in Nat /\ o[k - 1] <= o[k] /\ o[k] <= Len(F) /\ us[k] = SubSeq(F, o[k - 1] + 1, o[k])
        /\ k \in 0..Len(us) /\ k - 1 \in 0..Len(us)
    <3>1. k \in 0..Len(us) /\ k - 1 \in 0..Len(us)
      BY <1>1
    <3>2. o[k - 1] \in Nat /\ o[k] \in Nat
      BY <3>1 DEF CutsAt
    <3> QED
      BY <3>1, <3>2, Zenon DEF CutsAt
  <2>2. f[k] = SubSeq(F, 1, o[k]) /\ f[k - 1] = SubSeq(F, 1, o[k - 1])
    BY <2>1
  <2> HIDE DEF f
  <2>3. 1 \in 1..Len(F) + 1 /\ o[k - 1] \in (1 - 1)..Len(F) /\ o[k] \in o[k - 1]..Len(F)
    BY <1>1, <2>1
  <2>4. SubSeq(F, 1, o[k - 1]) \o SubSeq(F, o[k - 1] + 1, o[k]) = SubSeq(F, 1, o[k])
    BY <2>3, ConcatAdjacentSubSeq
  <2> QED
    BY <2>1, <2>2, <2>4
<1>4. f[Len(us)] = F
  <2>1. f[Len(us)] = SubSeq(F, 1, Len(F))
    BY <1>1 DEF CutsAt
  <2> QED
    BY <2>1, SubSeqFull
<1> HIDE DEF f
<1> QED
  BY <1>2, <1>3, <1>4, FlatIs

LEMMA SubSeqOfOne ==
    ASSUME NEW F \in Seq(Int), NEW k \in 1..Len(F)
    PROVE  SubSeq(F, k, k) = <<F[k]>>
<1>1. F[k] \in Int /\ k \in Int /\ Len(F) \in Nat /\ k \in 1..Len(F)
  BY LenProperties
<1> DEFINE g == SubSeq(F, k, k)
<1>2. g \in Seq(Int) /\ Len(g) = 1 /\ g[1] = F[k]
  <2>1. \A i \in k..k : F[i] \in Int
    BY <1>1
  <2>2. /\ g \in Seq(Int) /\ Len(g) = IF k <= k THEN k - k + 1 ELSE 0
        /\ \A i \in 1..k - k + 1 : g[i] = F[k + i - 1]
    BY <1>1, <2>1, SubSeqProperties
  <2> HIDE DEF g
  <2>3. 1 \in 1..k - k + 1 /\ k + 1 - 1 = k /\ k - k + 1 = 1
    BY <1>1
  <2>4. g[1] = F[k + 1 - 1]
    BY <2>2, <2>3
  <2> QED
    BY <1>1, <2>2, <2>3, <2>4
<1> HIDE DEF g
<1>3. g = <<F[k]>>
  BY <1>1, <1>2
<1> QED
  BY <1>3 DEF g

LEMMA SinglesJoin ==
    ASSUME NEW us \in Lists, NEW F \in Seq(Int), Len(us) = Len(F), \A k \in 1..Len(F) : us[k] = <<F[k]>>
    PROVE  FlattenSeq(us) = F
<1> DEFINE o == [k \in 0..Len(us) |-> k]
<1>1. Len(us) \in Nat
  BY LenProperties DEF Lists
<1>2. o \in [0..Len(us) -> Nat] /\ o[0] = 0 /\ o[Len(us)] = Len(F)
  BY <1>1
<1>3. ASSUME NEW k \in 1..Len(us)
      PROVE  o[k - 1] <= o[k] /\ o[k] <= Len(F) /\ us[k] = SubSeq(F, o[k - 1] + 1, o[k])
  <2>1. o[k - 1] + 1 = k /\ o[k] = k /\ o[k - 1] <= o[k] /\ o[k] <= Len(F)
    BY <1>1
  <2>2. SubSeq(F, k, k) = <<F[k]>>
    BY <1>1, SubSeqOfOne
  <2> HIDE DEF o
  <2> QED
    BY <2>1, <2>2
<1> HIDE DEF o
<1> QED
  BY <1>2, <1>3, CutsJoin DEF CutsAt

FilledSet(f) == {i \in 1..Len(f.units) : f.units[i] # "blank"}

LEMMA FilledFacts ==
    ASSUME NEW f \in SourceFiles
    PROVE  /\ FilledSet(f) \in SUBSET Nat /\ IsFiniteSet(FilledSet(f)) /\ AscendingOf(Filled(f.units), FilledSet(f))
           /\ Filled(f.units) \in Seq(Int) /\ Len(Filled(f.units)) \in Nat /\ Len(f.units) \in Nat
           /\ \A k \in 1..Len(Filled(f.units)) :
                 Filled(f.units)[k] \in 1..Len(f.units) /\ f.units[Filled(f.units)[k]] # "blank"
           /\ Len(Filled(f.units)) <= Len(f.units)
           /\ Len(Filled(f.units)) = Len(f.units) <=> \A i \in 1..Len(f.units) : f.units[i] # "blank"
<1> DEFINE n == Len(f.units)
<1>1. n \in Nat
  <2>1. f.units \in UNION {[1..m -> Units] : m \in 0..MaxUnits}
    BY DEF SourceFiles
  <2>2. PICK m \in 0..MaxUnits : f.units \in [1..m -> Units]
    BY <2>1
  <2>3. m \in Nat
    OBVIOUS
  <2> QED
    BY <2>2, <2>3
<1>2. IsFiniteSet(1..n) /\ Cardinality(1..n) = n
  BY <1>1, FS_Interval
<1>3. FilledSet(f) \in SUBSET (1..n)
  BY DEF FilledSet
<1>4. /\ IsFiniteSet(FilledSet(f)) /\ Cardinality(FilledSet(f)) <= n
      /\ n = Cardinality(FilledSet(f)) => 1..n = FilledSet(f)
  BY <1>2, <1>3, FS_Subset
<1>5. FilledSet(f) \in SUBSET Nat
  BY <1>1, <1>3
<1>6. Filled(f.units) = InOrder(FilledSet(f))
  BY DEF Filled, FilledSet
<1>7. AscendingOf(Filled(f.units), FilledSet(f)) /\ Len(Filled(f.units)) = Cardinality(FilledSet(f))
  BY <1>4, <1>5, <1>6, InOrderIs
<1>8. /\ Filled(f.units) \in Seq(Nat) /\ Len(Filled(f.units)) \in Nat
      /\ \A k \in 1..Len(Filled(f.units)) : Filled(f.units)[k] \in FilledSet(f)
  BY <1>5, <1>7, AscendingFacts
<1>9. Filled(f.units) \in Seq(Int)
  BY <1>8, SeqMonotonic
<1>10. (\A i \in 1..n : f.units[i] # "blank") => FilledSet(f) = 1..n
  BY DEF FilledSet
<1>11. \A i \in FilledSet(f) : i \in 1..n /\ f.units[i] # "blank"
  BY DEF FilledSet
<1> HIDE DEF n
<1>12. Len(Filled(f.units)) = n <=> \A i \in 1..n : f.units[i] # "blank"
  BY <1>2, <1>4, <1>7, <1>10, <1>11
<1>13. \A k \in 1..Len(Filled(f.units)) : Filled(f.units)[k] \in 1..n /\ f.units[Filled(f.units)[k]] # "blank"
  BY <1>8, <1>11
<1> QED
  BY <1>1, <1>4, <1>5, <1>7, <1>8, <1>9, <1>12, <1>13, Zenon DEF n

BlockTypes == {"paragraph", "heading", "table", "notice", "ValueError"}
BlockRecords == [type : BlockTypes, units : Seq(Int), first : Int, last : Int, id : Int]

UnitLists(blocks) == [k \in 1..Len(blocks) |-> blocks[k].units]

LEMMA UnitListsType ==
    ASSUME NEW blocks \in Seq(BlockRecords)
    PROVE  /\ Len(blocks) \in Nat /\ UnitLists(blocks) \in Lists /\ Len(UnitLists(blocks)) = Len(blocks)
           /\ \A k \in 1..Len(blocks) : UnitLists(blocks)[k] = blocks[k].units
           /\ BlocksToMarkdown(blocks) = FlattenSeq(UnitLists(blocks))
<1>1. Len(blocks) \in Nat /\ \A k \in 1..Len(blocks) : blocks[k] \in BlockRecords
  BY LenProperties
<1>2. \A k \in 1..Len(blocks) : blocks[k].units \in Seq(Int)
  BY <1>1 DEF BlockRecords
<1>3. UnitLists(blocks) \in [1..Len(blocks) -> Seq(Int)]
  BY <1>2 DEF UnitLists
<1>4. UnitLists(blocks) \in Lists /\ Len(UnitLists(blocks)) = Len(blocks)
  BY <1>1, <1>3 DEF Lists
<1>5. \A k \in 1..Len(blocks) : UnitLists(blocks)[k] = blocks[k].units
  BY DEF UnitLists
<1>6. BlocksToMarkdown(blocks) = FlattenSeq(UnitLists(blocks))
  BY DEF BlocksToMarkdown, UnitLists
<1> QED
  BY <1>1, <1>4, <1>5, <1>6

\* What the filter leaves alone.
LEMMA AllHaveText ==
    ASSUME NEW f, NEW raw \in Seq(BlockRecords), \A k \in 1..Len(raw) : HasText(f, raw[k])
    PROVE  WithText(f, raw) = raw
<1> DEFINE n == Len(raw)
           one == [k \in 1..n |-> k]
<1>1. n \in Nat /\ raw = [k \in 1..n |-> raw[k]]
  BY LenProperties
<1>2. {k \in 1..n : HasText(f, raw[k])} = 1..n
  OBVIOUS
<1>3. IsFiniteSet(1..n) /\ (1..n) \in SUBSET Nat
  <2>1. (1..n) \in SUBSET Nat
    BY <1>1
  <2>2. 1 \in Int /\ n \in Int
    BY <1>1
  <2> QED
    BY <2>1, <2>2, FS_Interval
<1>4. AscendingOf(InOrder(1..n), 1..n)
  BY <1>3, InOrderIs
<1>5. AscendingOf(one, 1..n) /\ Len(one) = n
  <2>1. one \in Seq(1..n) /\ Len(one) = n
    BY <1>1
  <2>2. \A k \in 1..n : one[k] = k
    OBVIOUS
  <2> HIDE DEF one, n
  <2> QED
    BY <2>1, <2>2 DEF AscendingOf
<1> HIDE DEF one
<1>6. InOrder(1..n) = one
  BY <1>3, <1>4, <1>5, OneOrder
<1>7. WithText(f, raw) = [k \in 1..Len(one) |-> raw[one[k]]]
  BY <1>2, <1>6 DEF WithText
<1>8. \A k \in 1..n : one[k] = k
  BY DEF one
<1> HIDE DEF n
<1> QED
  BY <1>1, <1>5, <1>7, <1>8

\* One block for each filled unit, holding that unit's text.
SingleOf(i) == {Paragraph(i), Block("heading", <<i>>, i, i)}
Singles(f, blocks) ==
    /\ DOMAIN blocks = 1..Len(Filled(f.units)) /\ blocks = [k \in DOMAIN blocks |-> blocks[k]]
    /\ \A k \in 1..Len(Filled(f.units)) : blocks[k] \in SingleOf(Filled(f.units)[k])

LEMMA SingleFacts ==
    ASSUME NEW i \in Int, NEW b \in SingleOf(i)
    PROVE  /\ b \in BlockRecords /\ b.units = <<i>> /\ b.first = i /\ b.type \in {"paragraph", "heading"}
           /\ b.type = "heading" <=> b = Block("heading", <<i>>, i, i)
           /\ Len(b.units) = 1 /\ b.units[1] = i
<1>1. <<i>> \in Seq(Int) /\ Len(<<i>>) = 1 /\ <<i>>[1] = i
  OBVIOUS
<1>2. CASE b = Paragraph(i)
  <2>1. b = [type |-> "paragraph", units |-> <<i>>, first |-> i, last |-> i, id |-> 0]
    BY <1>2 DEF Paragraph, Block
  <2>2. b \in BlockRecords
    BY <1>1, <2>1 DEF BlockRecords, BlockTypes
  <2>3. b.units = <<i>> /\ b.first = i /\ b.type = "paragraph"
    BY <2>1
  <2>4. b # Block("heading", <<i>>, i, i)
    BY <2>3 DEF Block
  <2> QED
    BY <1>1, <2>2, <2>3, <2>4
<1>3. CASE b = Block("heading", <<i>>, i, i)
  <2>1. b = [type |-> "heading", units |-> <<i>>, first |-> i, last |-> i, id |-> 0]
    BY <1>3 DEF Block
  <2>2. b \in BlockRecords
    BY <1>1, <2>1 DEF BlockRecords, BlockTypes
  <2>3. b.units = <<i>> /\ b.first = i /\ b.type = "heading"
    BY <2>1
  <2> QED
    BY <1>1, <1>3, <2>2, <2>3
<1> QED
  BY <1>2, <1>3 DEF SingleOf

LEMMA SinglesAreWhole ==
    ASSUME NEW f \in SourceFiles, NEW blocks, Singles(f, blocks)
    PROVE  /\ blocks \in Seq(BlockRecords) /\ Len(blocks) = Len(Filled(f.units))
           /\ \A k \in 1..Len(blocks) : HasText(f, blocks[k])
           /\ FlattenSeq(UnitLists(blocks)) = Filled(f.units)
           /\ \A k \in 1..Len(blocks) : /\ blocks[k].units = <<blocks[k].first>> /\ blocks[k].type # "notice"
                                        /\ blocks[k].units = <<Filled(f.units)[k]>>
<1> DEFINE F == Filled(f.units)
           n == Len(F)
<1>1. F \in Seq(Int) /\ n \in Nat /\ \A k \in 1..n : F[k] \in Int /\ f.units[F[k]] # "blank"
  BY FilledFacts
<1>2. /\ DOMAIN blocks = 1..n /\ blocks = [k \in DOMAIN blocks |-> blocks[k]]
      /\ \A k \in 1..n : blocks[k] \in SingleOf(F[k])
  BY Zenon DEF Singles
<1> HIDE DEF n, F
<1>3. \A k \in 1..n : /\ blocks[k] \in BlockRecords /\ blocks[k].units = <<F[k]>> /\ blocks[k].first = F[k]
                      /\ blocks[k].type \in {"paragraph", "heading"}
                      /\ Len(blocks[k].units) = 1 /\ blocks[k].units[1] = F[k]
  <2> SUFFICES ASSUME NEW k \in 1..n
               PROVE  /\ blocks[k] \in BlockRecords /\ blocks[k].units = <<F[k]>> /\ blocks[k].first = F[k]
                      /\ blocks[k].type \in {"paragraph", "heading"}
                      /\ Len(blocks[k].units) = 1 /\ blocks[k].units[1] = F[k]
    OBVIOUS
  <2>1. F[k] \in Int /\ blocks[k] \in SingleOf(F[k])
    BY <1>1, <1>2
  <2> QED
    BY <2>1, SingleFacts
<1>4. blocks \in Seq(BlockRecords) /\ Len(blocks) = n
  <2>1. blocks \in [1..n -> BlockRecords]
    BY <1>2, <1>3
  <2> QED
    BY <1>1, <2>1
<1>5. \A k \in 1..n : HasText(f, blocks[k])
  <2> SUFFICES ASSUME NEW k \in 1..n PROVE HasText(f, blocks[k])
    OBVIOUS
  <2>1. 1 \in 1..Len(blocks[k].units) /\ f.units[blocks[k].units[1]] # "blank"
    BY <1>1, <1>3
  <2> QED
    BY <2>1, Zenon DEF HasText
<1>6. FlattenSeq(UnitLists(blocks)) = F
  <2>1. /\ UnitLists(blocks) \in Lists /\ Len(UnitLists(blocks)) = n
        /\ \A k \in 1..n : UnitLists(blocks)[k] = blocks[k].units
    BY <1>4, UnitListsType
  <2>2. \A k \in 1..Len(F) : UnitLists(blocks)[k] = <<F[k]>>
    BY <1>3, <2>1 DEF n
  <2> QED
    BY <1>1, <2>1, <2>2, SinglesJoin DEF n
<1> QED
  BY <1>3, <1>4, <1>5, <1>6 DEF F, n

Blanks(f) == {i \in 1..Len(f.units) : f.units[i] = "blank"}

\* What the blocks of a file must be before they are numbered.
AllRead(f, blocks) ==
    /\ blocks \in Seq(BlockRecords)
    /\ FlattenSeq(UnitLists(blocks)) = Expected(f)
    /\ f.ext # "csv" => \A k \in 1..Len(blocks) : blocks[k].type # "notice" => blocks[k].units = <<blocks[k].first>>
    /\ blocks # <<>> => (blocks[1].type = "notice" <=> (f.ext = "pdf" /\ Blanks(f) # {}))

LEMMA SinglesParse ==
    ASSUME NEW f \in SourceFiles, NEW blocks, Singles(f, blocks), f.ext # "csv",
           ~(f.ext = "pdf" /\ Blanks(f) # {})
    PROVE  WithText(f, blocks) = blocks /\ AllRead(f, blocks)
<1>1. /\ blocks \in Seq(BlockRecords)
      /\ \A k \in 1..Len(blocks) : HasText(f, blocks[k])
      /\ FlattenSeq(UnitLists(blocks)) = Filled(f.units)
      /\ \A k \in 1..Len(blocks) : blocks[k].units = <<blocks[k].first>> /\ blocks[k].type # "notice"
  BY SinglesAreWhole
<1>2. WithText(f, blocks) = blocks
  BY <1>1, AllHaveText
<1>3. Expected(f) = Filled(f.units)
  BY DEF Expected
<1>4. blocks # <<>> => 1 \in 1..Len(blocks)
  BY <1>1, EmptySeq
<1> QED
  BY <1>1, <1>2, <1>3, <1>4 DEF AllRead

LEMMA TextParses ==
    ASSUME NEW f \in SourceFiles, NEW markdown \in BOOLEAN
    PROVE  Singles(f, TextBlocks(f, markdown))
<1> DEFINE F == Filled(f.units)
           blocks == TextBlocks(f, markdown)
<1>1. blocks = [k \in 1..Len(F) |-> IF markdown /\ f.units[F[k]] = "heading" THEN Block("heading", <<F[k]>>, F[k], F[k])
                                    ELSE Paragraph(F[k])]
  BY DEF TextBlocks
<1> HIDE DEF blocks, F
<1>2. \A k \in 1..Len(F) : blocks[k] \in SingleOf(F[k])
  BY <1>1 DEF SingleOf
<1> QED
  BY <1>1, <1>2 DEF Singles, F, blocks

LEMMA ParagraphsParse ==
    ASSUME NEW f \in SourceFiles
    PROVE  Singles(f, [k \in 1..Len(Filled(f.units)) |-> Paragraph(Filled(f.units)[k])])
BY DEF Singles, SingleOf

\* The filter drops the slides without text.
LEMMA PptxParses ==
    ASSUME NEW f \in SourceFiles
    PROVE  WithText(f, PptxBlocks(f)) = [k \in 1..Len(Filled(f.units)) |-> Paragraph(Filled(f.units)[k])]
<1> DEFINE n == Len(f.units)
           raw == PptxBlocks(f)
<1>1. n \in Nat /\ \A k \in 1..Len(Filled(f.units)) : Filled(f.units)[k] \in 1..n
  BY FilledFacts
<1>2. raw = [i \in 1..n |-> Paragraph(i)]
  BY DEF PptxBlocks
<1> HIDE DEF raw, n
<1>3. Len(raw) = n
  BY <1>1, <1>2
<1>4. ASSUME NEW i \in 1..n PROVE HasText(f, raw[i]) <=> f.units[i] # "blank"
  <2>1. raw[i] = [type |-> "paragraph", units |-> <<i>>, first |-> i, last |-> i, id |-> 0]
    BY <1>2 DEF Paragraph, Block
  <2>2. raw[i].type = "paragraph" /\ raw[i].units = <<i>>
    BY <2>1
  <2>3. Len(<<i>>) = 1 /\ <<i>>[1] = i
    OBVIOUS
  <2>4. \A k \in 1..1 : k = 1
    OBVIOUS
  <2> QED
    BY <2>2, <2>3, <2>4 DEF HasText
<1>5. {k \in 1..Len(raw) : HasText(f, raw[k])} = FilledSet(f)
  BY <1>3, <1>4 DEF FilledSet, n
<1>6. InOrder({k \in 1..Len(raw) : HasText(f, raw[k])}) = Filled(f.units)
  BY <1>5 DEF Filled, FilledSet
<1>7. WithText(f, raw) = [k \in 1..Len(Filled(f.units)) |-> raw[Filled(f.units)[k]]]
  BY <1>6 DEF WithText
<1>8. \A k \in 1..Len(Filled(f.units)) : raw[Filled(f.units)[k]] = Paragraph(Filled(f.units)[k])
  BY <1>1, <1>2
<1> QED
  BY <1>7, <1>8 DEF raw

LEMMA PdfParses ==
    ASSUME NEW f \in SourceFiles, f.ext = "pdf", PdfBlocks(f) # Raised
    PROVE  WithText(f, PdfBlocks(f)) = PdfBlocks(f) /\ AllRead(f, PdfBlocks(f))
<1> DEFINE pages == Filled(f.units)
           blocks == [k \in 1..Len(pages) |-> Paragraph(pages[k])]
           notice == Block("notice", <<>>, 0, 0)
<1>1. /\ PdfBlocks(f) = IF Len(pages) < Len(f.units) THEN <<notice>> \o blocks ELSE blocks
      /\ pages # <<>>
  BY Zenon DEF PdfBlocks
<1>2. Singles(f, blocks)
  BY ParagraphsParse
<1>3. /\ Len(pages) \in Nat /\ Len(f.units) \in Nat /\ Len(pages) <= Len(f.units) /\ pages \in Seq(Int)
      /\ Len(pages) = Len(f.units) <=> \A i \in 1..Len(f.units) : f.units[i] # "blank"
  BY FilledFacts
<1>4. Len(pages) < Len(f.units) <=> Blanks(f) # {}
  BY <1>3 DEF Blanks
<1> HIDE DEF blocks, pages
<1>5. CASE Blanks(f) = {}
  BY <1>1, <1>2, <1>4, <1>5, SinglesParse
<1>6. CASE Blanks(f) # {}
  <2>1. PdfBlocks(f) = <<notice>> \o blocks
    BY <1>1, <1>4, <1>6
  <2>2. /\ blocks \in Seq(BlockRecords) /\ Len(blocks) = Len(pages)
        /\ \A k \in 1..Len(blocks) : HasText(f, blocks[k])
        /\ \A k \in 1..Len(blocks) : blocks[k].units = <<blocks[k].first>> /\ blocks[k].type # "notice"
                                     /\ blocks[k].units = <<pages[k]>>
    BY <1>2, SinglesAreWhole DEF pages
  <2>3. notice \in BlockRecords /\ notice.type = "notice" /\ notice.units = <<>>
    <3>1. <<>> \in Seq(Int)
      OBVIOUS
    <3>2. notice = [type |-> "notice", units |-> <<>>, first |-> 0, last |-> 0, id |-> 0]
      BY DEF Block
    <3> HIDE DEF notice
    <3> QED
      BY <3>1, <3>2 DEF BlockRecords, BlockTypes
  <2> HIDE DEF notice
  <2> DEFINE all == <<notice>> \o blocks
             n == Len(pages)
  <2>4. /\ all \in Seq(BlockRecords) /\ Len(all) = n + 1 /\ all[1] = notice
        /\ \A k \in 2..n + 1 : k - 1 \in 1..n /\ all[k] = blocks[k - 1]
    <3>1. <<notice>> \in Seq(BlockRecords) /\ Len(<<notice>>) = 1 /\ <<notice>>[1] = notice
      BY <2>3
    <3>2. /\ all \in Seq(BlockRecords) /\ Len(all) = 1 + n
          /\ \A i \in 1..1 + n : all[i] = IF i <= 1 THEN <<notice>>[i] ELSE blocks[i - 1]
      BY <2>2, <3>1, ConcatProperties
    <3>3. n \in Nat
      BY <1>3
    <3> HIDE DEF all, n
    <3>4. 1 \in 1..1 + n /\ 1 <= 1
      BY <3>3
    <3>5. all[1] = notice
      BY <3>1, <3>2, <3>4
    <3>6. ASSUME NEW k \in 2..n + 1 PROVE k - 1 \in 1..n /\ all[k] = blocks[k - 1]
      <4>1. k \in 1..1 + n /\ ~(k <= 1) /\ k - 1 \in 1..n
        BY <3>3
      <4> QED
        BY <3>2, <4>1
    <3> QED
      BY <3>2, <3>3, <3>5, <3>6
  <2> HIDE DEF all
  <2>5. n \in Nat
    BY <1>3
  <2> HIDE DEF n
  <2>6. \A k \in 1..n + 1 : k = 1 \/ k \in 2..n + 1
    BY <2>5
  <2>7. \A k \in 1..Len(all) : HasText(f, all[k])
    <3>1. HasText(f, notice)
      BY <2>3 DEF HasText
    <3> QED
      BY <2>2, <2>4, <2>6, <3>1 DEF n
  <2>8. WithText(f, all) = all
    BY <2>4, <2>7, AllHaveText
  <2>9. FlattenSeq(UnitLists(all)) = pages
    <3> DEFINE o == [k \in 0..n + 1 |-> IF k = 0 THEN 0 ELSE k - 1]
               us == UnitLists(all)
    <3>1. us \in Lists /\ Len(us) = n + 1 /\ \A k \in 1..n + 1 : us[k] = all[k].units
      BY <2>4, UnitListsType
    <3>2. us[1] = <<>> /\ \A k \in 2..n + 1 : us[k] = <<pages[k - 1]>>
      <4>1. 1 \in 1..n + 1 /\ \A k \in 2..n + 1 : k \in 1..n + 1
        BY <2>5
      <4> QED
        BY <2>2, <2>3, <2>4, <3>1, <4>1 DEF n
    <3>3. o \in [0..n + 1 -> Nat] /\ o[0] = 0 /\ o[n + 1] = n /\ \A k \in 1..n + 1 : o[k] = k - 1
      BY <2>5
    <3> HIDE DEF o, us
    <3>4. ASSUME NEW k \in 1..n + 1
          PROVE  o[k - 1] <= o[k] /\ o[k] <= n /\ us[k] = SubSeq(pages, o[k - 1] + 1, o[k])
      <4>1. CASE k = 1
        <5>1. o[k - 1] = 0 /\ o[k] = 0
          BY <3>3, <4>1
        <5>2. SubSeq(pages, 1, 0) = <<>>
          BY SubSeqEmpty
        <5>3. us[k] = <<>> /\ o[k - 1] + 1 = 1
          BY <3>2, <4>1, <5>1
        <5> QED
          BY <2>5, <5>1, <5>2, <5>3
      <4>2. CASE k # 1
        <5>1. k \in 2..n + 1 /\ k - 1 \in 1..n + 1 /\ k - 1 \in 1..n
          BY <2>5, <4>2
        <5>2. o[k - 1] = k - 2 /\ o[k] = k - 1
          <6>1. o[k - 1] = k - 1 - 1 /\ o[k] = k - 1
            BY <3>3, <5>1
          <6> QED
            BY <6>1
        <5>3. SubSeq(pages, k - 1, k - 1) = <<pages[k - 1]>>
          BY <1>3, <5>1, SubSeqOfOne DEF n
        <5>4. us[k] = <<pages[k - 1]>>
          BY <3>2, <5>1
        <5>5. k - 2 + 1 = k - 1 /\ k - 2 <= k - 1 /\ k - 1 <= n
          BY <2>5, <5>1
        <5>6. o[k - 1] + 1 = k - 1
          BY <5>2, <5>5
        <5>7. us[k] = SubSeq(pages, o[k - 1] + 1, o[k])
          BY <5>2, <5>3, <5>4, <5>6
        <5> QED
          BY <5>2, <5>5, <5>7
      <4> QED
        BY <4>1, <4>2
    <3>5. CutsAt(us, pages, o)
      BY <3>1, <3>3, <3>4 DEF CutsAt, n
    <3> QED
      BY <1>3, <3>1, <3>5, CutsJoin DEF us
  <2>10. Expected(f) = pages
    BY DEF Expected, pages
  <2>11. \A k \in 1..Len(all) : all[k].type # "notice" => all[k].units = <<all[k].first>>
    BY <2>2, <2>3, <2>4, <2>6 DEF n
  <2>12. AllRead(f, all)
    BY <1>6, <2>3, <2>4, <2>9, <2>10, <2>11 DEF AllRead
  <2> QED
    BY <2>1, <2>8, <2>12 DEF all
<1> QED
  BY <1>5, <1>6

LEMMA DivBounds ==
    ASSUME NEW x \in Nat, NEW r \in Nat \ {0}
    PROVE  x \div r \in Nat /\ (x \div r) * r <= x /\ x < (x \div r) * r + r
OBVIOUS

LEMMA ProductStep ==
    ASSUME NEW r \in Nat \ {0}, NEW k \in Nat \ {0}, NEW n \in Nat, k <= n
    PROVE  /\ k * r \in Nat /\ n * r \in Nat /\ (k - 1) * r \in Nat /\ (n - 1) * r \in Nat
           /\ k * r = (k - 1) * r + r /\ (k - 1) * r <= (n - 1) * r /\ n * r = (n - 1) * r + r
OBVIOUS

\* The last row of each of the tables that n rows below a header are cut into.
LastRow(k, n) == IF k * RowsPerTable < n THEN k * RowsPerTable ELSE n

LEMMA LastRows ==
    ASSUME NEW n \in Nat \ {0}, RowsPerTable \in Nat \ {0}, NEW tables,
           tables = (n + RowsPerTable - 1) \div RowsPerTable
    PROVE  /\ tables \in Nat \ {0} /\ LastRow(0, n) = 0 /\ LastRow(tables, n) = n
           /\ \A k \in 0..tables : LastRow(k, n) \in Nat /\ LastRow(k, n) <= n
           /\ \A k \in 1..tables : /\ LastRow(k - 1, n) = (k - 1) * RowsPerTable
                                   /\ (k - 1) * RowsPerTable \in Nat
                                   /\ LastRow(k - 1, n) <= LastRow(k, n)
                                   /\ LastRow(k, n) = IF (k - 1) * RowsPerTable + RowsPerTable < n
                                                      THEN (k - 1) * RowsPerTable + RowsPerTable ELSE n
<1> DEFINE r == RowsPerTable
           x == n + r - 1
<1>1. x \in Nat /\ x = n + r - 1 /\ r \in Nat \ {0}
  OBVIOUS
<1>2. tables = x \div r
  OBVIOUS
<1> HIDE DEF x
<1>3. tables \in Nat /\ tables * r <= x /\ x < tables * r + r
  BY <1>1, <1>2, DivBounds
<1>4. tables # 0
  <2> SUFFICES ASSUME tables = 0 PROVE FALSE
    OBVIOUS
  <2>1. tables * r = 0
    BY <1>1
  <2> QED
    BY <1>1, <1>3, <2>1
<1>5. tables * r \in Nat /\ (tables - 1) * r \in Nat /\ tables * r = (tables - 1) * r + r
  <2> HIDE DEF r
  <2>1. tables <= tables /\ tables \in Nat \ {0}
    BY <1>3, <1>4
  <2> QED
    BY <1>1, <2>1, ProductStep
<1> HIDE DEF r
<1>6. tables * r >= n /\ (tables - 1) * r < n
  <2> DEFINE p == tables * r
             q == (tables - 1) * r
  <2>1. p \in Nat /\ q \in Nat /\ p = q + r /\ p <= x /\ x < p + r
    BY <1>3, <1>5
  <2> HIDE DEF p, q
  <2>2. p >= n /\ q < n
    BY <1>1, <2>1
  <2> QED
    BY <2>2 DEF p, q
<1>7. \A k \in 0..tables : k * r \in Nat
  <2> SUFFICES ASSUME NEW k \in 0..tables PROVE k * r \in Nat
    OBVIOUS
  <2>1. k \in Nat
    BY <1>3
  <2>2. CASE k = 0
    BY <1>1, <2>2
  <2>3. CASE k # 0
    <3>1. k \in Nat \ {0} /\ k <= k
      BY <2>1, <2>3
    <3> QED
      BY <1>1, <3>1, ProductStep
  <2> QED
    BY <2>2, <2>3
<1>8. \A k \in 0..tables : LastRow(k, n) \in Nat /\ LastRow(k, n) <= n
  <2> SUFFICES ASSUME NEW k \in 0..tables PROVE LastRow(k, n) \in Nat /\ LastRow(k, n) <= n
    OBVIOUS
  <2> DEFINE p == k * r
  <2>1. p \in Nat /\ LastRow(k, n) = IF p < n THEN p ELSE n
    BY <1>7 DEF LastRow, r
  <2> HIDE DEF p
  <2> QED
    BY <2>1
<1>9. LastRow(0, n) = 0
  <2>1. 0 * r = 0
    BY <1>1
  <2> QED
    BY <2>1 DEF LastRow, r
<1>10. LastRow(tables, n) = n
  <2> DEFINE p == tables * r
  <2>1. p \in Nat /\ p >= n /\ LastRow(tables, n) = IF p < n THEN p ELSE n
    BY <1>5, <1>6 DEF LastRow, r
  <2> HIDE DEF p
  <2> QED
    BY <2>1
<1>11. ASSUME NEW k \in 1..tables
       PROVE  /\ LastRow(k - 1, n) = (k - 1) * r
              /\ (k - 1) * r \in Nat
              /\ LastRow(k - 1, n) <= LastRow(k, n)
              /\ LastRow(k, n) = IF (k - 1) * r + r < n THEN (k - 1) * r + r ELSE n
  <2>1. k \in Nat \ {0} /\ tables \in Nat /\ k <= tables /\ k - 1 \in Nat
    BY <1>3
  <2> DEFINE p == k * r
             q == (k - 1) * r
             z == (tables - 1) * r
  <2>2. p \in Nat /\ q \in Nat /\ z \in Nat /\ p = q + r /\ q <= z
    BY <1>1, <2>1, ProductStep
  <2>3. z < n
    BY <1>6
  <2>4. LastRow(k, n) = (IF p < n THEN p ELSE n) /\ LastRow(k - 1, n) = IF q < n THEN q ELSE n
    BY DEF LastRow, r
  <2> HIDE DEF p, q, z
  <2>5. q < n
    BY <2>2, <2>3
  <2>6. LastRow(k - 1, n) = q
    BY <2>4, <2>5
  <2>7. LastRow(k, n) = IF q + r < n THEN q + r ELSE n
    BY <2>2, <2>4
  <2>8. q <= LastRow(k, n)
    BY <1>1, <2>2, <2>5, <2>7
  <2> QED
    BY <2>2, <2>6, <2>7, <2>8 DEF q
<1> QED
  BY <1>3, <1>4, <1>8, <1>9, <1>10, <1>11 DEF r

\* A table without its header is a cut of the rows below it.
LEMMA RowsBelow ==
    ASSUME NEW filled \in Seq(Int), filled # <<>>, NEW a \in Nat, NEW b \in Nat, b <= Len(filled) - 1
    PROVE  SubSeq(Tail(filled), a + 1, b) = SubSeq(filled, a + 2, b + 1) /\ SubSeq(filled, a + 2, b + 1) \in Seq(Int)
<1> DEFINE s == SubSeq(Tail(filled), a + 1, b)
           t == SubSeq(filled, a + 2, b + 1)
           m == IF a + 1 <= b THEN b - a ELSE 0
<1>1. /\ Len(filled) \in Nat /\ Tail(filled) \in Seq(Int) /\ Len(Tail(filled)) = Len(filled) - 1
      /\ \A i \in 1..Len(filled) - 1 : Tail(filled)[i] = filled[i + 1]
      /\ \A i \in 1..Len(filled) : filled[i] \in Int
  <2>1. Len(filled) \in Nat /\ \A i \in 1..Len(filled) : filled[i] \in Int
    BY LenProperties
  <2>2. /\ Tail(filled) \in Seq(Int) /\ Len(Tail(filled)) = Len(filled) - 1
        /\ \A i \in 1..Len(Tail(filled)) : Tail(filled)[i] = filled[i + 1]
    BY HeadTailProperties
  <2> QED
    BY <2>1, <2>2
<1>2. \A i \in a + 1..b : Tail(filled)[i] \in Int
  <2> SUFFICES ASSUME NEW i \in a + 1..b PROVE Tail(filled)[i] \in Int
    OBVIOUS
  <2>1. i \in 1..Len(filled) - 1 /\ i + 1 \in 1..Len(filled)
    BY <1>1
  <2> QED
    BY <1>1, <2>1
<1>3. \A i \in a + 2..b + 1 : filled[i] \in Int
  <2> SUFFICES ASSUME NEW i \in a + 2..b + 1 PROVE filled[i] \in Int
    OBVIOUS
  <2>1. i \in 1..Len(filled)
    BY <1>1
  <2> QED
    BY <1>1, <2>1
<1>4. s \in Seq(Int) /\ Len(s) = m /\ \A i \in 1..m : s[i] = Tail(filled)[a + i]
  <2>1. /\ s \in Seq(Int) /\ Len(s) = IF a + 1 <= b THEN b - (a + 1) + 1 ELSE 0
        /\ \A i \in 1..b - (a + 1) + 1 : s[i] = Tail(filled)[a + 1 + i - 1]
    <3>1. PICK c : c = a + 1
      OBVIOUS
    <3>2. c \in Int /\ b \in Int /\ \A i \in c..b : Tail(filled)[i] \in Int
      BY <1>2, <3>1
    <3>3. PICK u : u = Tail(filled)
      OBVIOUS
    <3>4. \A i \in c..b : u[i] \in Int
      BY <3>2, <3>3
    <3>5. /\ SubSeq(u, c, b) \in Seq(Int)
          /\ Len(SubSeq(u, c, b)) = IF c <= b THEN b - c + 1 ELSE 0
          /\ \A i \in 1..b - c + 1 : SubSeq(u, c, b)[i] = u[c + i - 1]
      BY <3>2, <3>4, SubSeqProperties, SMTT(60)
    <3> QED
      BY <3>1, <3>3, <3>5
  <2> HIDE DEF s
  <2>2. ASSUME NEW i \in 1..m PROVE i \in 1..b - (a + 1) + 1 /\ a + 1 + i - 1 = a + i
    OBVIOUS
  <2> QED
    BY <2>1, <2>2
<1>5. t \in Seq(Int) /\ Len(t) = m /\ \A i \in 1..m : t[i] = filled[a + 1 + i]
  <2>1. /\ t \in Seq(Int) /\ Len(t) = IF a + 2 <= b + 1 THEN b + 1 - (a + 2) + 1 ELSE 0
        /\ \A i \in 1..b + 1 - (a + 2) + 1 : t[i] = filled[a + 2 + i - 1]
    <3>1. a + 2 \in Int /\ b + 1 \in Int
      OBVIOUS
    <3> QED
      BY <1>3, <3>1, SubSeqProperties
  <2> HIDE DEF t
  <2>2. ASSUME NEW i \in 1..m PROVE i \in 1..b + 1 - (a + 2) + 1 /\ a + 2 + i - 1 = a + 1 + i
    OBVIOUS
  <2> QED
    BY <2>1, <2>2
<1> HIDE DEF s, t
<1>6. ASSUME NEW i \in 1..m PROVE s[i] = t[i]
  <2>1. a + i \in 1..Len(filled) - 1 /\ a + i + 1 = a + 1 + i
    BY <1>1
  <2>2. Tail(filled)[a + i] = filled[a + i + 1]
    BY <1>1, <2>1
  <2> HIDE DEF m
  <2> QED
    BY <1>4, <1>5, <2>1, <2>2
<1> HIDE DEF m
<1>7. s = t
  BY <1>4, <1>5, <1>6, SeqEqual
<1> QED
  BY <1>5, <1>7 DEF s, t

LEMMA CsvParses ==
    ASSUME NEW f \in SourceFiles, f.ext = "csv", CsvBlocks(f) # <<>>, RowsPerTable \in Nat \ {0}
    PROVE  WithText(f, CsvBlocks(f)) = CsvBlocks(f) /\ AllRead(f, CsvBlocks(f))
<1> DEFINE filled == Filled(f.units)
           n == Len(filled) - 1
           raw == CsvBlocks(f)
           tables == (Len(filled) - 1 + RowsPerTable - 1) \div RowsPerTable
           start(t) == 1 + (t - 1) * RowsPerTable
           end(t) == IF start(t) + RowsPerTable < Len(filled) THEN start(t) + RowsPerTable ELSE Len(filled)
<1>1. filled \in Seq(Int) /\ Len(filled) \in Nat /\ \A k \in 1..Len(filled) : filled[k] \in Int /\ f.units[filled[k]] # "blank"
  BY FilledFacts
<1>2. /\ filled # <<>>
      /\ raw = IF Len(filled) = 1 THEN <<Block("paragraph", filled, 1, 1)>>
               ELSE [t \in 1..tables |-> Block("table", SubSeq(filled, start(t) + 1, end(t)), start(t) + 1, end(t))]
  BY Zenon DEF CsvBlocks
<1> HIDE DEF filled, raw
<1>3. Len(filled) \in Nat \ {0}
  BY <1>1, <1>2, EmptySeq
<1>4. CASE Len(filled) = 1
  <2> DEFINE b == Block("paragraph", filled, 1, 1)
  <2>1. b.type = "paragraph" /\ b.units = filled /\ b \in BlockRecords
    <3>1. b = [type |-> "paragraph", units |-> filled, first |-> 1, last |-> 1, id |-> 0]
      BY DEF Block
    <3> HIDE DEF b
    <3> QED
      BY <1>1, <3>1 DEF BlockRecords, BlockTypes
  <2> HIDE DEF b
  <2>2. raw = <<b>>
    BY <1>2, <1>4 DEF b
  <2>3. raw \in Seq(BlockRecords) /\ Len(raw) = 1 /\ raw[1] = b
    BY <2>1, <2>2
  <2>4. HasText(f, b)
    <3>1. 1 \in 1..Len(filled) /\ f.units[filled[1]] # "blank"
      BY <1>1, <1>4
    <3> QED
      BY <2>1, <3>1 DEF HasText
  <2>5. WithText(f, raw) = raw
    <3>1. \A k \in 1..Len(raw) : HasText(f, raw[k])
      BY <2>3, <2>4
    <3> QED
      BY <2>3, <3>1, AllHaveText
  <2>6. FlattenSeq(UnitLists(raw)) = filled
    <3> DEFINE us == UnitLists(raw)
               o == [k \in 0..1 |-> k]
    <3>1. us \in Lists /\ Len(us) = 1 /\ us[1] = filled
      BY <2>1, <2>3, UnitListsType
    <3>2. SubSeq(filled, 1, 1) = filled
      BY <1>1, <1>4, SubSeqFull
    <3> HIDE DEF us
    <3>3. CutsAt(us, filled, o)
      <4>1. o \in [0..1 -> Nat] /\ o[0] = 0 /\ o[1] = 1
        OBVIOUS
      <4> HIDE DEF o
      <4>2. \A k \in 1..1 : k = 1
        OBVIOUS
      <4>3. o[1 - 1] <= o[1] /\ o[1] <= Len(filled) /\ us[1] = SubSeq(filled, o[1 - 1] + 1, o[1])
        BY <1>4, <3>1, <3>2, <4>1
      <4> QED
        BY <1>4, <3>1, <4>1, <4>2, <4>3 DEF CutsAt
    <3> QED
      BY <1>1, <3>1, <3>3, CutsJoin DEF us
  <2>7. Expected(f) = filled
    BY <1>4 DEF Expected, filled
  <2> QED
    BY <2>1, <2>3, <2>5, <2>6, <2>7 DEF AllRead, raw
<1>5. CASE Len(filled) # 1
  <2>1. n \in Nat \ {0} /\ Len(filled) = n + 1 /\ Len(filled) > 1
    <3>1. Len(filled) \in Nat /\ Len(filled) # 0 /\ Len(filled) # 1 /\ n = Len(filled) - 1
      BY <1>3, <1>5
    <3> HIDE DEF n
    <3> QED
      BY <3>1
  <2>2. tables = (n + RowsPerTable - 1) \div RowsPerTable
    OBVIOUS
  <2>3. raw = [t \in 1..tables |-> Block("table", SubSeq(filled, start(t) + 1, end(t)), start(t) + 1, end(t))]
    BY <1>2, <1>5, Zenon
  <2> DEFINE o == [k \in 0..tables |-> LastRow(k, n)]
             F == Tail(filled)
  <2> HIDE DEF n, tables
  <2>4. /\ tables \in Nat \ {0} /\ LastRow(0, n) = 0 /\ LastRow(tables, n) = n
        /\ \A k \in 0..tables : LastRow(k, n) \in Nat /\ LastRow(k, n) <= n
        /\ \A k \in 1..tables : /\ LastRow(k - 1, n) = (k - 1) * RowsPerTable
                                /\ (k - 1) * RowsPerTable \in Nat
                                /\ LastRow(k - 1, n) <= LastRow(k, n)
                                /\ LastRow(k, n) = IF (k - 1) * RowsPerTable + RowsPerTable < n
                                                   THEN (k - 1) * RowsPerTable + RowsPerTable ELSE n
    BY <2>1, <2>2, LastRows
  <2>5. F \in Seq(Int) /\ Len(F) = n
    <3>1. F \in Seq(Int) /\ Len(F) = Len(filled) - 1
      BY <1>1, <1>2, HeadTailProperties
    <3> QED
      BY <2>1, <3>1
  <2>6. ASSUME NEW k \in 1..tables
        PROVE  /\ start(k) \in Int /\ end(k) \in Int
               /\ SubSeq(filled, start(k) + 1, end(k)) = SubSeq(F, LastRow(k - 1, n) + 1, LastRow(k, n))
               /\ SubSeq(filled, start(k) + 1, end(k)) \in Seq(Int)
    <3> DEFINE q == (k - 1) * RowsPerTable
               b == LastRow(k, n)
    <3>1. /\ q \in Nat /\ q = LastRow(k - 1, n)
          /\ b = IF q + RowsPerTable < n THEN q + RowsPerTable ELSE n
          /\ start(k) = 1 + q
          /\ end(k) = IF 1 + q + RowsPerTable < Len(filled) THEN 1 + q + RowsPerTable ELSE Len(filled)
      BY <2>4
    <3> HIDE DEF q, b, start, end
    <3>2. end(k) = b + 1 /\ b \in Nat /\ b <= Len(filled) - 1 /\ start(k) + 1 = q + 2
      BY <2>1, <3>1, SMTT(60)
    <3>3. SubSeq(F, q + 1, b) = SubSeq(filled, q + 2, b + 1) /\ SubSeq(filled, q + 2, b + 1) \in Seq(Int)
      BY <1>1, <1>2, <3>1, <3>2, RowsBelow
    <3>4. start(k) \in Int /\ end(k) \in Int
      BY <3>1, <3>2, SMTT(60)
    <3>5. LastRow(k - 1, n) = q /\ LastRow(k, n) = b
      BY <3>1 DEF b
    <3>6. SubSeq(filled, start(k) + 1, end(k)) = SubSeq(filled, q + 2, b + 1)
      BY <3>2
    <3> QED
      BY <3>3, <3>4, <3>5, <3>6
  <2> HIDE DEF start, end, F
  <2>7. \A k \in 1..tables : /\ raw[k].type = "table"
                             /\ raw[k].units = SubSeq(F, LastRow(k - 1, n) + 1, LastRow(k, n))
                             /\ raw[k] \in BlockRecords
    <3> SUFFICES ASSUME NEW k \in 1..tables
                 PROVE  /\ raw[k].type = "table"
                        /\ raw[k].units = SubSeq(F, LastRow(k - 1, n) + 1, LastRow(k, n))
                        /\ raw[k] \in BlockRecords
      OBVIOUS
    <3>1. raw[k] = Block("table", SubSeq(filled, start(k) + 1, end(k)), start(k) + 1, end(k))
      BY <2>3
    <3> DEFINE us == SubSeq(filled, start(k) + 1, end(k))
    <3>2. us = SubSeq(F, LastRow(k - 1, n) + 1, LastRow(k, n)) /\ us \in Seq(Int) /\ start(k) + 1 \in Int /\ end(k) \in Int
      <4> HIDE DEF us
      <4>1. start(k) \in Int /\ end(k) \in Int
        BY <2>6
      <4>2. us = SubSeq(F, LastRow(k - 1, n) + 1, LastRow(k, n)) /\ us \in Seq(Int)
        BY <2>6 DEF us
      <4>3. start(k) + 1 \in Int
        BY <4>1
      <4> QED
        BY <4>1, <4>2, <4>3
    <3>3. raw[k] = [type |-> "table", units |-> us, first |-> start(k) + 1, last |-> end(k), id |-> 0]
      BY <3>1 DEF Block
    <3> HIDE DEF us
    <3> QED
      BY <3>2, <3>3, SMTT(60) DEF BlockRecords, BlockTypes
  <2>8. raw \in Seq(BlockRecords) /\ Len(raw) = tables
    <3>1. raw \in [1..tables -> BlockRecords]
      BY <2>3, <2>7
    <3> QED
      BY <2>4, <3>1
  <2>9. WithText(f, raw) = raw
    <3>1. \A k \in 1..Len(raw) : HasText(f, raw[k])
      BY <2>7, <2>8 DEF HasText
    <3> QED
      BY <2>8, <3>1, AllHaveText
  <2>10. FlattenSeq(UnitLists(raw)) = F
    <3> DEFINE us == UnitLists(raw)
    <3>1. us \in Lists /\ Len(us) = tables /\ \A k \in 1..tables : us[k] = raw[k].units
      BY <2>8, UnitListsType
    <3>2. o \in [0..tables -> Nat] /\ o[0] = 0 /\ o[tables] = n /\ \A k \in 0..tables : o[k] = LastRow(k, n)
      BY <2>4
    <3> HIDE DEF o, us
    <3>3. ASSUME NEW k \in 1..tables
          PROVE  o[k - 1] <= o[k] /\ o[k] <= n /\ us[k] = SubSeq(F, o[k - 1] + 1, o[k])
      <4>1. k \in 0..tables /\ k - 1 \in 0..tables
        BY <2>4
      <4>2. o[k] = LastRow(k, n) /\ o[k - 1] = LastRow(k - 1, n)
        BY <3>2, <4>1
      <4> QED
        BY <2>4, <2>7, <3>1, <4>1, <4>2
    <3>4. CutsAt(us, F, o)
      BY <2>5, <3>1, <3>2, <3>3 DEF CutsAt
    <3> QED
      BY <2>5, <3>1, <3>4, CutsJoin DEF us
  <2>11. Expected(f) = F
    BY <2>1 DEF Expected, F, filled
  <2>12. raw[1].type = "table"
    <3>1. 1 \in 1..tables
      BY <2>4
    <3> QED
      BY <2>7, <3>1
  <2> QED
    BY <2>8, <2>9, <2>10, <2>11, <2>12 DEF AllRead, raw
<1> QED
  BY <1>4, <1>5

\* Whatever its format, a file that is not refused is read whole.
LEMMA ReadIsWhole ==
    ASSUME NEW f \in SourceFiles, f.ext \in Formats, RowsPerTable \in Nat \ {0},
           Read(f) # Raised, WithText(f, Read(f)) # <<>>
    PROVE  AllRead(f, WithText(f, Read(f)))
<1>1. CASE f.ext = "csv"
  <2>1. Read(f) = CsvBlocks(f)
    BY <1>1 DEF Read
  <2>2. CsvBlocks(f) # <<>>
    <3>1. SUFFICES ASSUME CsvBlocks(f) = <<>> PROVE FALSE
      OBVIOUS
    <3>2. CsvBlocks(f) \in Seq(BlockRecords) /\ Len(CsvBlocks(f)) = 0
      BY <3>1
    <3>3. WithText(f, CsvBlocks(f)) = CsvBlocks(f)
      <4>1. \A k \in 1..Len(CsvBlocks(f)) : HasText(f, CsvBlocks(f)[k])
        BY <3>2
      <4> QED
        BY <3>2, <4>1, AllHaveText
    <3> QED
      BY <2>1, <3>1, <3>3
  <2> QED
    BY <1>1, <2>1, <2>2, CsvParses
<1>2. CASE f.ext \in {"txt", "md"}
  <2>1. Read(f) = TextBlocks(f, f.ext = "md")
    BY <1>2 DEF Read
  <2>2. Singles(f, TextBlocks(f, f.ext = "md"))
    <3>1. (f.ext = "md") \in BOOLEAN
      OBVIOUS
    <3> QED
      BY <3>1, TextParses
  <2>3. f.ext # "csv" /\ f.ext # "pdf"
    BY <1>2
  <2> HIDE <1>2
  <2> QED
    BY <2>1, <2>2, <2>3, SinglesParse
<1>3. CASE f.ext = "pdf"
  BY <1>3, PdfParses DEF Read
<1>4. CASE f.ext \in {"docx", "xlsx", "pptx"}
  <2>1. Read(f) = OfficeBlocks(f) /\ f.ext # "csv" /\ f.ext # "pdf"
    BY <1>4 DEF Read
  <2>2. CASE f.ext = "docx"
    <3>1. OfficeBlocks(f) = TextBlocks(f, FALSE)
      BY <2>1, <2>2 DEF OfficeBlocks, DocxBlocks
    <3>2. Singles(f, TextBlocks(f, FALSE))
      BY TextParses
    <3> QED
      BY <2>1, <3>1, <3>2, SinglesParse
  <2> DEFINE singles == [k \in 1..Len(Filled(f.units)) |-> Paragraph(Filled(f.units)[k])]
  <2>3. Singles(f, singles)
    BY ParagraphsParse
  <2>4. CASE f.ext = "pptx"
    <3>1. OfficeBlocks(f) = PptxBlocks(f)
      BY <2>1, <2>4 DEF OfficeBlocks
    <3>2. WithText(f, PptxBlocks(f)) = singles
      BY PptxParses
    <3>3. AllRead(f, singles)
      <4> HIDE DEF singles
      <4> QED
        BY <2>1, <2>3, SinglesParse
    <3> QED
      BY <2>1, <3>1, <3>2, <3>3
  <2>5. CASE f.ext = "xlsx"
    <3>1. OfficeBlocks(f) = XlsxBlocks(f)
      BY <2>1, <2>5 DEF OfficeBlocks
    <3>2. XlsxBlocks(f) = singles
      BY <2>1, <3>1 DEF XlsxBlocks
    <3> HIDE DEF singles
    <3> QED
      BY <2>1, <2>3, <3>1, <3>2, SinglesParse
  <2> QED
    BY <1>4, <2>2, <2>4, <2>5
<1> QED
  BY <1>1, <1>2, <1>3, <1>4 DEF Formats, FileKinds

LEMMA NumberedKeeps ==
    ASSUME NEW blocks \in Seq(BlockRecords)
    PROVE  /\ Numbered(blocks) \in Seq(BlockRecords) /\ Len(Numbered(blocks)) = Len(blocks)
           /\ UnitLists(Numbered(blocks)) = UnitLists(blocks)
           /\ \A k \in 1..Len(blocks) : /\ Numbered(blocks)[k].id = k
                                        /\ Numbered(blocks)[k].units = blocks[k].units
                                        /\ Numbered(blocks)[k].type = blocks[k].type
                                        /\ Numbered(blocks)[k].first = blocks[k].first
<1> DEFINE n == Len(blocks)
           all == Numbered(blocks)
<1>1. n \in Nat /\ \A k \in 1..n : blocks[k] \in BlockRecords
  BY LenProperties
<1>2. all = [k \in 1..n |-> [blocks[k] EXCEPT !.id = k]]
  BY DEF Numbered
<1> HIDE DEF all, n
<1>3. ASSUME NEW k \in 1..n
      PROVE  /\ all[k] \in BlockRecords /\ all[k].id = k /\ all[k].units = blocks[k].units
             /\ all[k].type = blocks[k].type /\ all[k].first = blocks[k].first
  <2>1. blocks[k] \in BlockRecords /\ all[k] = [blocks[k] EXCEPT !.id = k] /\ k \in Int
    BY <1>1, <1>2
  <2> HIDE DEF all
  <2> QED
    BY <2>1 DEF BlockRecords
<1>4. all \in Seq(BlockRecords) /\ Len(all) = n
  <2>1. all \in [1..n -> BlockRecords]
    BY <1>2, <1>3
  <2> QED
    BY <1>1, <2>1
<1>5. UnitLists(all) = UnitLists(blocks)
  <2>1. UnitLists(all) = [k \in 1..n |-> all[k].units] /\ UnitLists(blocks) = [k \in 1..n |-> blocks[k].units]
    BY <1>4 DEF UnitLists, n
  <2> QED
    BY <1>3, <2>1
<1> QED
  BY <1>3, <1>4, <1>5 DEF all, n

\* What a file reported as parsed came to.
LEMMA ParseIs ==
    ASSUME NEW f \in SourceFiles, ParseFile(f).ok
    PROVE  /\ f.ext \in Formats /\ Read(f) # Raised
           /\ WithText(f, Read(f)) # <<>> /\ ParseFile(f).blocks = Numbered(WithText(f, Read(f)))
<1> DEFINE blocks == WithText(f, Read(f))
           parsed == [ok |-> TRUE, blocks |-> Numbered(blocks)]
           refused == f.ext \notin Formats \/ f.units = <<>> \/ Len(f.units) > FileLimit \/ Read(f) = Raised
           unfit == blocks = <<>> \/ Len(blocks) > BlockLimit
<1>1. ParseFile(f) = IF refused THEN Failure ELSE IF unfit THEN Failure ELSE parsed
  BY Zenon DEF ParseFile
<1>2. Failure.ok = FALSE
  BY DEF Failure
<1>3. ~refused /\ ~unfit /\ ParseFile(f) = parsed
  <2> HIDE DEF refused, unfit, parsed
  <2> QED
    BY <1>1, <1>2
<1>4. parsed.blocks = Numbered(blocks)
  OBVIOUS
<1> QED
  BY <1>3, <1>4

LEMMA FileParses ==
    ASSUME NEW f \in SourceFiles, RowsPerTable \in Nat \ {0}, ParseFile(f).ok, NEW blocks, blocks = ParseFile(f).blocks
    PROVE  /\ blocks \in Seq(BlockRecords)
           /\ BlocksToMarkdown(blocks) = Expected(f) /\ blocks # <<>>
           /\ \A k \in 1..Len(blocks) : blocks[k].id = k
           /\ f.ext # "csv" =>
                  \A k \in 1..Len(blocks) : blocks[k].type # "notice" => blocks[k].units = <<blocks[k].first>>
           /\ (blocks[1].type = "notice") <=> (f.ext = "pdf" /\ \E i \in 1..Len(f.units) : f.units[i] = "blank")
<1> DEFINE kept == WithText(f, Read(f))
<1>1. kept # <<>> /\ blocks = Numbered(kept) /\ AllRead(f, kept)
  BY ParseIs, ReadIsWhole
<1> HIDE DEF kept
<1>2. /\ kept \in Seq(BlockRecords) /\ FlattenSeq(UnitLists(kept)) = Expected(f)
      /\ f.ext # "csv" => \A k \in 1..Len(kept) : kept[k].type # "notice" => kept[k].units = <<kept[k].first>>
      /\ kept[1].type = "notice" <=> (f.ext = "pdf" /\ Blanks(f) # {})
  BY <1>1 DEF AllRead
<1>3. Len(kept) \in Nat \ {0}
  BY <1>1, <1>2, EmptySeq
<1>4. /\ blocks \in Seq(BlockRecords) /\ Len(blocks) = Len(kept) /\ UnitLists(blocks) = UnitLists(kept)
      /\ \A k \in 1..Len(kept) : blocks[k].id = k /\ blocks[k].units = kept[k].units /\ blocks[k].type = kept[k].type
                                 /\ blocks[k].first = kept[k].first
  BY <1>1, <1>2, NumberedKeeps
<1>5. BlocksToMarkdown(blocks) = Expected(f)
  BY <1>2, <1>4, UnitListsType
<1>6. blocks # <<>>
  BY <1>3, <1>4
<1>7. 1 \in 1..Len(kept)
  BY <1>3
<1>8. Blanks(f) # {} <=> \E i \in 1..Len(f.units) : f.units[i] = "blank"
  BY DEF Blanks
<1> QED
  BY <1>2, <1>4, <1>5, <1>6, <1>7, <1>8, SMTT(60)

\* The blocks of a Markdown file that is parsed: one for each filled line, a heading for a heading.
LEMMA MarkdownBlocks ==
    ASSUME NEW f \in SourceFiles, ParseFile(f).ok, f.ext = "md", NEW blocks, blocks = ParseFile(f).blocks
    PROVE  /\ blocks \in Seq(BlockRecords) /\ Len(blocks) = Len(Filled(f.units))
           /\ \A k \in 1..Len(blocks) : /\ blocks[k].units = <<Filled(f.units)[k]>>
                                        /\ blocks[k].type = "heading" <=> f.units[Filled(f.units)[k]] = "heading"
<1> DEFINE F == Filled(f.units)
           raw == TextBlocks(f, TRUE)
<1>1. Read(f) = raw /\ blocks = Numbered(WithText(f, raw))
  <2>1. (f.ext = "md") = TRUE /\ f.ext \in {"txt", "md"} /\ f.ext # "csv"
    OBVIOUS
  <2>2. Read(f) = raw
    <3>1. ParseFile(f).blocks = Numbered(WithText(f, Read(f))) /\ Read(f) # Raised
      BY ParseIs
    <3>2. Read(f) = TextBlocks(f, f.ext = "md")
      BY <2>1, <3>1 DEF Read
    <3> QED
      BY <2>1, <3>2
  <2> QED
    BY <2>2, ParseIs
<1>2. Singles(f, raw) /\ f.ext # "csv" /\ f.ext # "pdf"
  BY TextParses
<1>3. WithText(f, raw) = raw
  <2> HIDE DEF raw
  <2> QED
    BY <1>2, SinglesParse
<1>4. raw = [k \in 1..Len(F) |-> IF f.units[F[k]] = "heading" THEN Block("heading", <<F[k]>>, F[k], F[k])
                                 ELSE Paragraph(F[k])]
  BY DEF TextBlocks
<1> HIDE DEF raw
<1>5. /\ raw \in Seq(BlockRecords) /\ Len(raw) = Len(F)
      /\ \A k \in 1..Len(raw) : raw[k].units = <<F[k]>>
  BY <1>2, SinglesAreWhole
<1>6. \A k \in 1..Len(raw) : raw[k].type = "heading" <=> f.units[F[k]] = "heading"
  <2> HIDE DEF F
  <2> QED
    BY <1>4, <1>5 DEF Block, Paragraph
<1>7. /\ Numbered(raw) \in Seq(BlockRecords) /\ Len(Numbered(raw)) = Len(raw)
      /\ \A k \in 1..Len(raw) : Numbered(raw)[k].units = raw[k].units /\ Numbered(raw)[k].type = raw[k].type
  BY <1>5, NumberedKeeps
<1>8. blocks = Numbered(raw)
  BY <1>1, <1>3
<1> HIDE DEF F
<1> QED
  BY <1>5, <1>6, <1>7, <1>8 DEF F

\* The last block of a section that begins at a heading: the next heading ends it.
EndsAt(f, first, last) ==
    /\ last \in first..Len(Filled(f.units))
    /\ \A k \in first + 1..last : f.units[Filled(f.units)[k]] # "heading"
    /\ last < Len(Filled(f.units)) => f.units[Filled(f.units)[last + 1]] = "heading"

LEMMA SectionIsCut ==
    ASSUME NEW f \in SourceFiles, ParseFile(f).ok, f.ext = "md", NEW blocks, blocks = ParseFile(f).blocks,
           NEW first \in 1..Len(Filled(f.units)), f.units[Filled(f.units)[first]] = "heading"
    PROVE  \E last : EndsAt(f, first, last) /\ FilterBySection(blocks, Filled(f.units)[first]) = SubSeq(blocks, first, last)
<1> DEFINE F == Filled(f.units)
           n == Len(blocks)
           wanted == F[first]
           starts == {k \in 1..n : blocks[k].type = "heading" /\ blocks[k].units = <<wanted>>}
           start == CHOOSE k \in starts : \A l \in starts : k <= l
           ends == {k \in (start + 1)..n : blocks[k].type = "heading"}
           next == CHOOSE k \in ends : \A l \in ends : k <= l
           last == IF ends = {} THEN n ELSE next - 1
<1>1. /\ F \in Seq(Int) /\ n = Len(F) /\ n \in Nat /\ \A k \in 1..n : F[k] \in Int
      /\ \A i, j \in 1..n : i < j => F[i] < F[j]
      /\ \A k \in 1..n : blocks[k].units = <<F[k]>> /\ (blocks[k].type = "heading" <=> f.units[F[k]] = "heading")
  <2>1. n = Len(F) /\ \A k \in 1..n : blocks[k].units = <<F[k]>> /\ (blocks[k].type = "heading" <=> f.units[F[k]] = "heading")
    BY MarkdownBlocks
  <2>2. F \in Seq(Int) /\ Len(F) \in Nat /\ AscendingOf(F, FilledSet(f)) /\ \A k \in 1..Len(F) : F[k] \in Int
    BY FilledFacts
  <2> HIDE DEF F, n
  <2> QED
    BY <2>1, <2>2 DEF AscendingOf
<1>2. FilterBySection(blocks, wanted) = IF starts # {} THEN SubSeq(blocks, start, last)
                                        ELSE SelectSeq(blocks, LAMBDA b : b.type # "table" /\ b.units = <<wanted>>)
  BY Zenon DEF FilterBySection
<1>3. starts = {first}
  <2> HIDE DEF F, n
  <2>1. first \in 1..n
    BY <1>1 DEF F
  <2>2. first \in starts
    BY <1>1, <2>1 DEF F
  <2>3. ASSUME NEW k \in starts PROVE k = first
    <3>1. k \in 1..n /\ <<F[k]>> = <<F[first]>>
      BY <1>1
    <3>2. F[k] = F[first]
      BY <3>1
    <3>3. F[k] \in Int /\ F[first] \in Int /\ (k < first => F[k] < F[first]) /\ (first < k => F[first] < F[k])
      BY <1>1, <2>1, <3>1
    <3> QED
      BY <1>1, <2>1, <3>1, <3>2, <3>3
  <2> QED
    BY <2>2, <2>3
<1> HIDE DEF starts
<1>4. start = first
  BY <1>3
<1> HIDE DEF start
<1>5. first \in 1..n /\ first \in Nat
  BY <1>1
<1> HIDE DEF F, n
<1>6. EndsAt(f, first, last)
  <2>1. last \in first..n /\ (\A k \in first + 1..last : k \notin ends) /\ (last < n => last + 1 \in ends)
    <3>1. CASE ends = {}
      <4> HIDE DEF ends, next
      <4> QED
        BY <1>1, <1>5, <3>1
    <3>2. CASE ends # {}
      <4>1. ends \in SUBSET Nat
        BY <1>1, <1>4, <1>5
      <4>2. \A k \in ends : k \in first + 1..n
        BY <1>4
      <4> HIDE DEF ends
      <4>3. \E k \in ends : \A l \in ends : k <= l
        BY <3>2, <4>1, NatLeast
      <4>4. next \in ends /\ \A l \in ends : next <= l
        BY <4>3
      <4>5. last = next - 1
        BY <3>2
      <4> HIDE DEF next, last
      <4>6. next \in first + 1..n
        BY <4>2, <4>4
      <4>7. last \in first..n /\ last + 1 = next
        BY <1>1, <1>5, <4>5, <4>6
      <4>8. \A k \in first + 1..last : k < next
        BY <1>5, <4>5, <4>6, <4>7
      <4>9. \A k \in first + 1..last : k \notin ends
        <5>1. ASSUME NEW k \in first + 1..last, k \in ends PROVE FALSE
          <6>1. next <= k /\ k < next /\ next \in Int /\ k \in Int
            BY <4>4, <4>6, <4>8, <5>1
          <6> QED
            BY <6>1
        <5> QED
          BY <5>1
      <4> QED
        BY <4>4, <4>7, <4>9
    <3> QED
      BY <3>1, <3>2
  <2>2. \A k \in first + 1..n : k \in ends <=> f.units[F[k]] = "heading"
    <3> SUFFICES ASSUME NEW k \in first + 1..n PROVE k \in ends <=> f.units[F[k]] = "heading"
      OBVIOUS
    <3>1. k \in 1..n
      BY <1>1, <1>5
    <3> QED
      BY <1>1, <1>4, <3>1
  <2>3. \A k \in ends : k \in first + 1..n
    BY <1>4
  <2> HIDE DEF ends, last
  <2>4. \A k \in first + 1..last : k \in first + 1..n
    BY <1>1, <1>5, <2>1
  <2> QED
    BY <1>1, <2>1, <2>2, <2>3, <2>4 DEF EndsAt, F
<1> HIDE DEF last
<1>7. FilterBySection(blocks, wanted) = SubSeq(blocks, first, last)
  BY <1>2, <1>3, <1>4
<1> QED
  BY <1>6, <1>7 DEF F

\* The lines of a section.
SectionLines(f, wanted) ==
    {i \in wanted..Len(f.units) : f.units[i] # "blank" /\ \A j \in (wanted + 1)..i : f.units[j] # "heading"}

LEMMA CutIsSection ==
    ASSUME NEW f \in SourceFiles, NEW first \in 1..Len(Filled(f.units)), NEW last, EndsAt(f, first, last)
    PROVE  AscendingOf(SubSeq(Filled(f.units), first, last), SectionLines(f, Filled(f.units)[first]))
<1> DEFINE F == Filled(f.units)
           n == Len(F)
           wanted == F[first]
           lines == SectionLines(f, wanted)
           s == SubSeq(F, first, last)
           m == last - first + 1
<1>1. /\ F \in Seq(Int) /\ n \in Nat /\ Len(f.units) \in Nat
      /\ \A k \in 1..n : F[k] \in 1..Len(f.units) /\ F[k] \in Nat /\ f.units[F[k]] # "blank"
      /\ \A i, j \in 1..n : i < j => F[i] < F[j]
      /\ \A i \in 1..Len(f.units) : f.units[i] # "blank" => \E k \in 1..n : F[k] = i
  <2>1. /\ F \in Seq(Int) /\ Len(F) \in Nat /\ AscendingOf(F, FilledSet(f)) /\ Len(f.units) \in Nat
        /\ \A k \in 1..n : F[k] \in 1..Len(f.units) /\ f.units[F[k]] # "blank"
    BY FilledFacts
  <2>2. \A i \in 1..Len(f.units) : f.units[i] # "blank" => i \in FilledSet(f)
    BY DEF FilledSet
  <2>3. \A k \in 1..n : F[k] \in Nat
    BY <2>1
  <2> HIDE DEF F
  <2> QED
    BY <2>1, <2>2, <2>3 DEF AscendingOf
<1>2. /\ first \in 1..n /\ last \in first..n
      /\ \A k \in first + 1..last : f.units[F[k]] # "heading"
      /\ last < n => f.units[F[last + 1]] = "heading"
  BY DEF EndsAt
<1> HIDE DEF F, n
<1>3. first \in Nat /\ last \in Nat /\ first <= last /\ last <= n /\ 1 <= first /\ m \in Nat
  BY <1>1, <1>2
<1>4. s \in Seq(Int) /\ Len(s) = m /\ \A i \in 1..m : first + i - 1 \in first..last /\ s[i] = F[first + i - 1]
  <2>1. \A i \in first..last : F[i] \in Int
    BY <1>1, <1>3
  <2>2. /\ s \in Seq(Int) /\ Len(s) = IF first <= last THEN last - first + 1 ELSE 0
        /\ \A i \in 1..last - first + 1 : s[i] = F[first + i - 1]
    BY <1>3, <2>1, SubSeqProperties
  <2>3. \A i \in 1..m : first + i - 1 \in first..last
    BY <1>3
  <2> HIDE DEF s
  <2> QED
    BY <1>3, <2>2, <2>3
<1> HIDE DEF s
<1>5. \A k \in first..last : k \in 1..n
  BY <1>1, <1>3
<1>6. ASSUME NEW k \in first..last PROVE F[k] \in lines
  <2>1. k \in 1..n /\ k \in Nat /\ first <= k /\ k <= last
    BY <1>3, <1>5
  <2>2. F[k] \in 1..Len(f.units) /\ f.units[F[k]] # "blank" /\ F[first] \in Nat /\ F[k] \in Nat
    BY <1>1, <1>2, <2>1
  <2>3. F[first] <= F[k]
    <3>1. first < k => F[first] < F[k]
      BY <1>1, <1>2, <2>1
    <3> QED
      BY <1>3, <2>1, <2>2, <3>1
  <2>4. ASSUME NEW j \in (wanted + 1)..F[k], f.units[j] = "heading" PROVE FALSE
    <3>1. j \in 1..Len(f.units) /\ j \in Nat /\ j > F[first] /\ j <= F[k]
      BY <1>1, <2>2
    <3>2. PICK l \in 1..n : F[l] = j
      BY <1>1, <2>4, <3>1
    <3>3. first < l /\ l <= k
      <4>1. (l < first => F[l] < F[first]) /\ (k < l => F[k] < F[l])
        BY <1>1, <1>2, <2>1
      <4>2. l # first
        BY <2>2, <3>1, <3>2
      <4> QED
        BY <1>1, <1>3, <2>1, <2>2, <3>1, <3>2, <4>1, <4>2
    <3>4. l \in first + 1..last
      BY <1>1, <1>3, <2>1, <3>3, SMTT(60)
    <3> QED
      BY <1>2, <2>4, <3>2, <3>4
  <2>5. F[k] \in wanted..Len(f.units)
    BY <2>2, <2>3
  <2> QED
    BY <2>2, <2>4, <2>5 DEF SectionLines
<1>7. ASSUME NEW i \in lines PROVE \E k \in first..last : F[k] = i
  <2>1. i \in wanted..Len(f.units) /\ f.units[i] # "blank" /\ \A j \in (wanted + 1)..i : f.units[j] # "heading"
    BY <1>7 DEF SectionLines
  <2>2. wanted \in Nat /\ wanted \in 1..Len(f.units)
    BY <1>1, <1>2
  <2> HIDE DEF lines, wanted
  <2>3. i \in 1..Len(f.units) /\ i \in Nat /\ i >= wanted
    BY <1>1, <2>1, <2>2
  <2>4. PICK k \in 1..n : F[k] = i
    BY <1>1, <2>1, <2>3
  <2>5. k >= first
    <3>1. k < first => F[k] < F[first]
      BY <1>1, <1>2
    <3> QED
      BY <1>1, <1>3, <2>2, <2>3, <2>4, <3>1 DEF wanted
  <2>6. k <= last
    <3>1. SUFFICES ASSUME last < k PROVE FALSE
      BY <1>1, <1>3
    <3>2. last + 1 \in 1..n /\ last < n /\ last + 1 <= k /\ first < last + 1
      BY <1>1, <1>3, <3>1
    <3>3. (last + 1 < k => F[last + 1] < F[k]) /\ F[first] < F[last + 1] /\ F[last + 1] \in Nat
      BY <1>1, <1>2, <3>2
    <3>4. F[last + 1] <= i
      <4>1. last + 1 = k => F[last + 1] = F[k]
        OBVIOUS
      <4>2. last + 1 \in Int /\ k \in Int /\ F[k] \in Nat
        BY <1>1, <1>3
      <4> QED
        BY <2>3, <2>4, <3>2, <3>3, <4>1, <4>2
    <3>5. F[last + 1] \in (wanted + 1)..i
      BY <2>2, <2>3, <3>3, <3>4 DEF wanted
    <3> QED
      BY <1>2, <2>1, <3>2, <3>5
  <2>7. k \in first..last
    BY <1>1, <1>3, <2>5, <2>6
  <2> QED
    BY <2>4, <2>7
<1> HIDE DEF lines
<1>8. s \in Seq(lines)
  <2>1. \A i \in 1..m : s[i] \in lines
    BY <1>4, <1>6
  <2>2. s \in [1..m -> lines]
    BY <1>4, <2>1, LenProperties
  <2> QED
    BY <1>3, <2>2
<1>9. \A i, j \in 1..m : i < j => s[i] < s[j]
  <2> SUFFICES ASSUME NEW i \in 1..m, NEW j \in 1..m, i < j PROVE s[i] < s[j]
    OBVIOUS
  <2>1. /\ first + i - 1 \in 1..n /\ first + j - 1 \in 1..n /\ s[i] = F[first + i - 1] /\ s[j] = F[first + j - 1]
    BY <1>4, <1>5
  <2>2. first + i - 1 < first + j - 1
    BY <1>3
  <2> QED
    BY <1>1, <2>1, <2>2
<1>10. \A i \in lines : \E k \in 1..m : s[k] = i
  <2> SUFFICES ASSUME NEW i \in lines PROVE \E k \in 1..m : s[k] = i
    OBVIOUS
  <2>1. PICK k \in first..last : F[k] = i
    BY <1>7
  <2>2. PICK j : j = k - first + 1
    OBVIOUS
  <2>3. j \in 1..m /\ first + j - 1 = k
    BY <1>3, <2>2
  <2>4. s[j] = i
    BY <1>4, <2>1, <2>3
  <2> QED
    BY <2>3, <2>4
<1>11. AscendingOf(s, lines)
  BY <1>4, <1>8, <1>9, <1>10 DEF AscendingOf
<1> QED
  BY <1>11 DEF s, lines, F

LEMMA SectionIsWhole ==
    ASSUME NEW f \in SourceFiles, ParseFile(f).ok, f.ext = "md", NEW blocks, blocks = ParseFile(f).blocks,
           NEW wanted \in 1..Len(f.units), f.units[wanted] = "heading", wanted # None,
           NEW edited \in [1..Len(blocks) -> BOOLEAN], \A k \in DOMAIN edited : ~edited[k]
    PROVE  BuildDocumentContext(blocks, edited, wanted) = InOrder(SectionLines(f, wanted))
<1> DEFINE F == Filled(f.units)
           n == Len(blocks)
<1>1. /\ F \in Seq(Int) /\ n = Len(F) /\ n \in Nat /\ blocks \in Seq(BlockRecords) /\ Len(f.units) \in Nat
      /\ \A k \in 1..n : blocks[k].units = <<F[k]>> /\ F[k] \in Int
  <2>1. n = Len(F) /\ blocks \in Seq(BlockRecords) /\ \A k \in 1..n : blocks[k].units = <<F[k]>>
    BY MarkdownBlocks
  <2>2. F \in Seq(Int) /\ Len(F) \in Nat /\ Len(f.units) \in Nat /\ \A k \in 1..Len(F) : F[k] \in Int
    BY FilledFacts
  <2> HIDE DEF F, n
  <2> QED
    BY <2>1, <2>2
<1>2. ApplyEdits(blocks, edited) = blocks
  <2>1. \A k \in 1..n : ~edited[k]
    OBVIOUS
  <2>2. blocks = [k \in 1..n |-> blocks[k]]
    BY <1>1, LenProperties
  <2> QED
    BY <2>1, <2>2 DEF ApplyEdits
<1>3. PICK first \in 1..Len(F) : F[first] = wanted
  <2>1. AscendingOf(F, FilledSet(f))
    BY FilledFacts
  <2>2. wanted \in FilledSet(f)
    BY DEF FilledSet
  <2> HIDE DEF F
  <2> QED
    BY <2>1, <2>2 DEF AscendingOf
<1>4. PICK last : EndsAt(f, first, last) /\ FilterBySection(blocks, wanted) = SubSeq(blocks, first, last)
  BY <1>3, SectionIsCut
<1> DEFINE cut == SubSeq(blocks, first, last)
           s == SubSeq(F, first, last)
           m == last - first + 1
<1>5. first \in Nat /\ last \in Nat /\ first <= last /\ last <= n /\ 1 <= first /\ m \in Nat
  <2>1. first \in 1..n /\ last \in first..n
    BY <1>1, <1>3, <1>4 DEF EndsAt
  <2> HIDE DEF n
  <2> QED
    BY <1>1, <2>1
<1>6. s \in Seq(Int) /\ Len(s) = m /\ \A i \in 1..m : s[i] = F[first + i - 1]
  <2>1. \A i \in first..last : F[i] \in Int
    BY <1>1, <1>5
  <2> HIDE DEF F
  <2> QED
    BY <1>5, <2>1, SubSeqProperties
<1>7. cut \in Seq(BlockRecords) /\ Len(cut) = m /\ \A i \in 1..m : cut[i] = blocks[first + i - 1]
  <2>1. \A i \in first..last : blocks[i] \in BlockRecords
    <3> SUFFICES ASSUME NEW i \in first..last PROVE blocks[i] \in BlockRecords
      OBVIOUS
    <3>1. i \in 1..n
      BY <1>1, <1>5
    <3> QED
      BY <1>1, <3>1, ElementOfSeq
  <2> QED
    BY <1>5, <2>1, SubSeqProperties
<1> HIDE DEF F, n, cut, s
<1>8. \A i \in 1..m : first + i - 1 \in 1..n
  BY <1>1, <1>5
<1>9. UnitLists(cut) \in Lists /\ Len(UnitLists(cut)) = m /\ BlocksToMarkdown(cut) = FlattenSeq(UnitLists(cut))
      /\ \A i \in 1..m : UnitLists(cut)[i] = <<s[i]>>
  <2>1. /\ UnitLists(cut) \in Lists /\ Len(UnitLists(cut)) = m /\ BlocksToMarkdown(cut) = FlattenSeq(UnitLists(cut))
        /\ \A i \in 1..m : UnitLists(cut)[i] = cut[i].units
    BY <1>7, UnitListsType
  <2>2. \A i \in 1..m : cut[i].units = <<s[i]>>
    BY <1>1, <1>6, <1>7, <1>8
  <2> QED
    BY <2>1, <2>2
<1>10. BlocksToMarkdown(cut) = s
  BY <1>6, <1>9, SinglesJoin
<1>11. AscendingOf(s, SectionLines(f, wanted))
  BY <1>3, <1>4, CutIsSection DEF F, s
<1>12. AscendingOf(InOrder(SectionLines(f, wanted)), SectionLines(f, wanted)) /\ SectionLines(f, wanted) \in SUBSET Nat
  <2>1. SectionLines(f, wanted) \in SUBSET (1..Len(f.units)) /\ (1..Len(f.units)) \in SUBSET Nat
    BY <1>1 DEF SectionLines
  <2>2. IsFiniteSet(1..Len(f.units))
    <3>1. Len(f.units) \in Int /\ 1 \in Int
      BY <1>1
    <3> QED
      BY <3>1, FS_Interval
  <2>3. IsFiniteSet(SectionLines(f, wanted)) /\ SectionLines(f, wanted) \in SUBSET Nat
    BY <2>1, <2>2, FS_Subset
  <2> QED
    BY <2>3, InOrderIs
<1>13. s = InOrder(SectionLines(f, wanted))
  BY <1>11, <1>12, OneOrder
<1>14. BuildDocumentContext(blocks, edited, wanted) = BlocksToMarkdown(cut)
  <2>1. BuildDocumentContext(blocks, edited, wanted) = BlocksToMarkdown(FilterBySection(blocks, wanted))
    BY <1>2 DEF BuildDocumentContext
  <2> QED
    BY <1>4, <2>1 DEF cut
<1> QED
  BY <1>10, <1>13, <1>14

(* What a parse reported and a turn was shown are what the file under parse  *)
(* gives: nothing else writes them.                                          *)
ParsingInv ==
    /\ file \in SourceFiles
    /\ outcome # None => outcome = ParseFile(file)
    /\ shownText # None =>
          /\ outcome # None /\ outcome.ok /\ edits \in [1..Len(outcome.blocks) -> BOOLEAN]
          /\ section \in {None} \cup 1..Len(file.units)
          /\ shownText = BuildDocumentContext(outcome.blocks, edits, section)

LEMMA ParsingStep == ParsingInv /\ [ParsingNext]_parseVars => ParsingInv'
<1> SUFFICES ASSUME ParsingInv, [ParsingNext]_parseVars PROVE ParsingInv'
  OBVIOUS
<1>1. CASE Parse
  BY <1>1 DEF Parse, ParsingInv
<1>2. CASE ReadDocument
  BY <1>2, Zenon DEF ReadDocument, ParsingInv
<1>3. CASE UNCHANGED parseVars
  BY <1>3, Zenon DEF parseVars, ParsingInv
<1> QED
  BY <1>1, <1>2, <1>3 DEF ParsingNext

LEMMA ParsingIsWhole == ASSUME ParsingInv PROVE ParsedWhole /\ SectionWhole
<1>1. RowsPerTable \in Nat \ {0}
  BY ParsingAssumption
<1>2. ParsedWhole
  <2> SUFFICES ASSUME outcome # None, outcome.ok PROVE ParsedWhole
    BY Zenon DEF ParsedWhole
  <2>1. file \in SourceFiles /\ ParseFile(file).ok /\ outcome.blocks = ParseFile(file).blocks
    BY DEF ParsingInv
  <2> DEFINE blocks == outcome.blocks
  <2>2. /\ BlocksToMarkdown(blocks) = Expected(file) /\ blocks # <<>>
        /\ \A k \in 1..Len(blocks) : blocks[k].id = k
        /\ file.ext # "csv" =>
               \A k \in 1..Len(blocks) : blocks[k].type # "notice" => blocks[k].units = <<blocks[k].first>>
        /\ (blocks[1].type = "notice") <=> (file.ext = "pdf" /\ \E i \in 1..Len(file.units) : file.units[i] = "blank")
    BY <1>1, <2>1, FileParses
  <2> QED
    BY <2>2, Zenon DEF ParsedWhole
<1>3. SectionWhole
  <2> SUFFICES ASSUME shownText # None, section # None, file.ext = "md", file.units[section] = "heading",
                      \A k \in DOMAIN edits : ~edits[k]
               PROVE  shownText = InOrder(SectionLines(file, section))
    BY Zenon DEF SectionWhole, SectionLines
  <2>1. /\ file \in SourceFiles /\ ParseFile(file).ok /\ outcome.blocks = ParseFile(file).blocks
        /\ edits \in [1..Len(outcome.blocks) -> BOOLEAN] /\ section \in 1..Len(file.units)
        /\ shownText = BuildDocumentContext(outcome.blocks, edits, section)
    BY DEF ParsingInv
  <2> QED
    BY <2>1, SectionIsWhole
<1> QED
  BY <1>2, <1>3

\* A file reported as parsed is parsed whole, in the file's order and with its places, and a
\* Markdown section is read from its heading up to the next one (parse_file,
\* build_document_context), for files of any length, any limits and any table size.
THEOREM FilesAreParsedWhole == ParsingSpec => [](ParsedWhole /\ SectionWhole)
<1>1. ParsingInit => ParsingInv
  BY DEF ParsingInit, ParsingInv
<1> QED
  BY <1>1, ParsingStep, ParsingIsWhole, PTL DEF ParsingSpec

-----------------------------------------------------------------------------
(* The composed system: every step is a step of each part or leaves it alone. *)
storedVars == <<part, storesVars>>

LEMMA StoresInParts ==
  ASSUME [StoresNext]_storedVars
  PROVE  /\ [StoreNext]_storeVars
         /\ [UserNext]_userVars
         /\ [SeedNext]_seedVars
         /\ [DirectoryNext]_directoryVars
         /\ [FilesNext]_fileVars
         /\ [BucketsNext]_bucketVars
         /\ [ObjectsNext]_objectVars
         /\ [ThumbNext]_thumbVars
<1>1. CASE StoresNext
  BY <1>1 DEF StoresNext
<1>2. CASE UNCHANGED storedVars
  BY <1>2 DEF storedVars, storesVars
<1> QED
  BY <1>1, <1>2

LEMMA RestingStore == StoreRests => StoreInit
<1> SUFFICES ASSUME StoreRests PROVE StoreInit
  OBVIOUS
<1>1. BuildRepository("postgres", FALSE)
  BY DEF StoreRests, BuildRepository, DataBackend
<1>2. \E env \in {"", "memory", "firestore", "postgres"}, local \in BOOLEAN : BuildRepository(env, local)
  BY <1>1
<1> QED
  BY <1>2 DEF StoreRests, StoreInit

LEMMA StorePartsAreSpecs ==
  StoresSpec => /\ StoreSpec /\ UserSpec /\ SeedSpec /\ DirectorySpec
                /\ FilesSpec /\ BucketsSpec /\ ObjectsSpec /\ ThumbSpec
<1>1. StoresInit => /\ StoreInit /\ UserInit /\ SeedInit /\ DirectoryInit
                    /\ FilesInit /\ BucketsInit /\ ObjectsInit /\ ThumbInit
  BY RestingStore DEF StoresInit
<1> QED
  BY <1>1, StoresInParts, PTL
  DEF StoresSpec, storedVars, StoreSpec, UserSpec, SeedSpec, DirectorySpec, FilesSpec, BucketsSpec,
      ObjectsSpec, ThumbSpec

\* What the catalogue lists is accounted for and may be listed, in the composed
\* system: a pending row by an upload at work or cut short, a binary by a row, a
\* folder by its own access, a public skill by its owner's sharing.
THEOREM CatalogueIsSound == StoresSpec => []CatalogueSound
<1>1. FilesTypeOK /\ PendingIsExplained /\ BinariesHaveRows /\ BucketsTypeOK /\ EffectiveIsOwn /\ DirectoryTypeOK /\ SharedOnly
      => CatalogueSound
  BY DEF CatalogueSound
<1> QED
  BY <1>1, StorePartsAreSpecs, DocumentsAreAccountedFor, FoldersAreGoverned, OnlySharedIsServed, PTL

\* Seeding, the repository's contract, the rows of a user in the platform's own
\* stores, stored objects and the renderer's lock, in the composed system.
THEOREM StoresAreKept ==
  StoresSpec => /\ []SeedConverges /\ ContractKept
                /\ [](OnlyOwnRows /\ MemoryIsSnapshot /\ ReadsWhole /\ NothingPruned /\ PdfiumAlone)
BY StorePartsAreSpecs, SeedsConverge, ContractIsKept, UsersGetTheirOwn, ObjectsAreWhole, PdfiumIsExclusive, PTL

\* A pager sees a resting collection whole, a user's calls of sessions, artifacts
\* and PostgreSQL memory return only their own rows, and that memory is the
\* snapshot that replaced it last, in the composed system.
THEOREM RowsAreKept == StoresSpec => []RowsKept
<1>1. PagesWhole /\ OnlyOwnRows /\ MemoryIsSnapshot => RowsKept
  BY DEF RowsKept
<1> QED
  BY <1>1, StorePartsAreSpecs, PagesAreWhole, UsersGetTheirOwn, PTL

\* While another part runs there is no file under parse.
FileInv == IF part = "parsing" THEN ParsingInv ELSE file = None

LEMMA FileStarts == StoresInit => FileInv
<1> SUFFICES ASSUME StoresInit PROVE FileInv
  OBVIOUS
<1>1. IF part = "parsing" THEN ParsingInit
      ELSE file = None /\ outcome = None /\ edits = <<>> /\ section = None /\ shownText = None
  BY Zenon DEF StoresInit
<1> QED
  BY <1>1 DEF FileInv, ParsingInit, ParsingInv

LEMMA FileKeeps == FileInv /\ [StoresNext]_storedVars => FileInv'
<1> SUFFICES ASSUME FileInv, [StoresNext]_storedVars PROVE FileInv'
  OBVIOUS
<1>1. CASE part = "parsing" /\ ParsingNext /\ part' = part
  BY <1>1, ParsingStep DEF FileInv
<1>2. CASE UNCHANGED <<part, parseVars>>
  <2>1. part' = part /\ UNCHANGED parseVars /\ file' = file
    BY <1>2 DEF parseVars
  <2>2. ParsingInv => ParsingInv'
    BY <2>1, ParsingStep
  <2> QED
    BY <2>1, <2>2 DEF FileInv
<1>3. \/ part = "parsing" /\ ParsingNext /\ part' = part
      \/ UNCHANGED <<part, parseVars>>
  BY DEF StoresNext, storedVars, storesVars
<1> QED
  BY <1>1, <1>2, <1>3

\* Stored files reach their readers whole: a download is one upload, a parse and a section
\* lose no text, and PDFium runs once at a time (get, parse_file, build_document_context,
\* _PDFIUM_LOCK), in the composed system.
THEOREM BytesAreWhole == StoresSpec => []BytesWhole
<1>1. FileInv => (file # None => ParsedWhole /\ SectionWhole)
  BY ParsingIsWhole DEF FileInv
<1>2. ReadsWhole /\ NothingPruned /\ PdfiumAlone /\ (file # None => ParsedWhole /\ SectionWhole) => BytesWhole
  BY DEF BytesWhole
<1>3. StoresSpec => []FileInv
  BY FileStarts, FileKeeps, PTL DEF StoresSpec, storedVars
<1> QED
  BY <1>1, <1>2, <1>3, StorePartsAreSpecs, ObjectsAreWhole, PdfiumIsExclusive, PTL

================================================================================
