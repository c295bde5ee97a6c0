---------------------------- MODULE DocumentFiles ----------------------------
(***************************************************************************)
(* The life of a document: uploaded, parsed, re-parsed, imported from a    *)
(* library bucket by reference, and deleted.  Its row, its binary and its  *)
(* folder's counters are kept in three stores, and every request is a      *)
(* sequence of calls to them: requests of different server processes       *)
(* interleave at each call.  A call to the object store or to the database *)
(* may fail, and a request may be cancelled or die with its process: what  *)
(* it has not written by then is never written.                            *)
(*                                                                         *)
(* tools/documents/upload.py, routes.py, import_by_reference.py,           *)
(* admin/prewarm_routes.py, db/folders.py, object_storage/                 *)
(***************************************************************************)
EXTENDS Integers, FiniteSets, Store

CONSTANTS
    FileUsers,      \* users
    FileIds,         \* document ids: fresh for every upload and import
    Library,        \* gs:// objects documents may be imported from
    FileRequests,   \* requests that may be in flight together
    MaxFileOps      \* requests in a behaviour

Platform == "aitana-platform"
UploadKinds == {"readable", "unreadable", "unsupported", "empty", "oversize"}

\* A row of parsed_documents; the owner is None when only merged fields are there.
FileRow == [owner : FileUsers \cup {Platform, None}, folder : BOOLEAN, url : Library \cup {None},
            status : {"", "pending", "parsed", "failed"},
            deletion : {"", "deleting", "failed", "binary_deleted_metadata_pending"}]

\* A request in flight: what it is, where it is, and the row it read when it began.
FileRequest == [op : {"upload", "reparse", "delete", "import"}, user : FileUsers,
                doc : FileIds \cup {None}, row : FileRow \cup {None},
                pc : {"put", "parse", "store", "count", "size", "mark", "binary", "row", "sentinel",
                      "late"},
                status : {"", "parsed", "failed"}, kind : UploadKinds \cup Library \cup {""}]

ASSUME FilesAssumption ==
    /\ MaxFileOps \in Nat /\ FileUsers \cap Library = {}
    /\ None \notin FileIds \cup Library \cup FileRow \cup FileRequest

VARIABLES
    fileRows,     \* parsed_documents: id -> None or the row
    objects,      \* stored binaries: document ids, and the library's objects
    folderOf,     \* user -> whether the default folder exists
    folderCounts, \* user -> [docCount, parsedCount] of that folder
    usedIds,      \* ids given out
    fileReqs,     \* request -> None or where it is
    raced,        \* history: documents a delete of which began during their upload
    cutShort,     \* history: documents whose upload broke off before it stored a status
    fileOps       \* requests started

fileVars == <<fileRows, objects, folderOf, folderCounts, usedIds, fileReqs, raced,
              cutShort, fileOps>>

(***************************************************************************)
(* Rows.                                                                   *)
(***************************************************************************)

\* _store_document replaces the row.
StoreDocument(d, owner, folder, url, status) ==
    fileRows' = [fileRows EXCEPT ![d] =
        [owner |-> owner, folder |-> folder, url |-> url, status |-> status, deletion |-> ""]]

\* set_document(merge=True) keeps the other fields, and makes a row where there is none.
Fragment == [owner |-> None, folder |-> FALSE, url |-> None, status |-> "", deletion |-> ""]
Base(d) == IF fileRows[d] = None THEN Fragment ELSE fileRows[d]
MergeStatus(d, status) == fileRows' = [fileRows EXCEPT ![d] = [Base(d) EXCEPT !.status = status]]
MergeDeletion(d, mark) == fileRows' = [fileRows EXCEPT ![d] = [Base(d) EXCEPT !.deletion = mark]]

\* 404 without a row, 403 for another user's.
OwnedDocument(u, d) == fileRows[d] # None /\ fileRows[d].owner = u

\* The binary of an imported document is the library's object itself.
StorageBinding(d, row) == IF row.url = None THEN d ELSE row.url

ListFolderDocuments(u) ==
    {d \in FileIds : fileRows[d] # None /\ fileRows[d].owner = u /\ fileRows[d].folder}

(***************************************************************************)
(* Requests.                                                               *)
(***************************************************************************)

BeginRequest(r, req) ==
    /\ fileReqs[r] = None /\ fileOps < MaxFileOps /\ fileOps' = fileOps + 1
    /\ fileReqs' = [fileReqs EXCEPT ![r] = req]
On(r, op, pc) == fileReqs[r] # None /\ fileReqs[r].op = op /\ fileReqs[r].pc = pc
Then(r, pc) == fileReqs' = [fileReqs EXCEPT ![r].pc = pc] /\ UNCHANGED fileOps
Ends(r) == fileReqs' = [fileReqs EXCEPT ![r] = None] /\ UNCHANGED fileOps
Req(op, u, d, pc, row) ==
    [op |-> op, user |-> u, doc |-> d, pc |-> pc, row |-> row, status |-> "", kind |-> ""]
FreshId(d) == d \notin usedIds /\ usedIds' = usedIds \cup {d}

Uploading(d) == \E r \in FileRequests :
    fileReqs[r] # None /\ fileReqs[r].op = "upload" /\ fileReqs[r].doc = d
\* Such a request still works on the document, or has left only its put behind.
Working(d) == \E r \in FileRequests :
    /\ fileReqs[r] # None /\ fileReqs[r].op = "upload" /\ fileReqs[r].doc = d
    /\ fileReqs[r].pc # "late"

\* Atomic increments; a failure is logged.
UpdateFolderCounts(u, docDelta, parsedDelta) ==
    \/ folderCounts' = [folderCounts EXCEPT ![u] =
           [docCount |-> @.docCount + docDelta, parsedCount |-> @.parsedCount + parsedDelta]]
    \/ UNCHANGED folderCounts

Bit(b) == IF b THEN 1 ELSE 0

(***************************************************************************)
(* Upload: pending row, binary, parse, final row, counters, size.          *)
(***************************************************************************)

\* 400, 413 and 415 come before anything is written.
UploadAccepted(kind) == kind \notin {"unsupported", "empty", "oversize"}

GetFolder(u) == folderOf[u]
MakeFolder(u) == folderOf' = [folderOf EXCEPT ![u] = TRUE]
EnsureDefaultFolder(u) == IF GetFolder(u) THEN UNCHANGED folderOf ELSE MakeFolder(u)

CreateFolder(u) ==
    /\ fileOps < MaxFileOps /\ fileOps' = fileOps + 1 /\ ~GetFolder(u) /\ MakeFolder(u)
    /\ UNCHANGED <<fileRows, objects, folderCounts, usedIds, raced, cutShort, fileReqs>>

\* A folder the caller names must exist; without one the default folder is used or made.
UploadDocument(r, u, d, kind, named) ==
    /\ BeginRequest(r, [Req("upload", u, d, "put", None) EXCEPT !.kind = kind])
    /\ UploadAccepted(kind) /\ FreshId(d)
    /\ IF named THEN GetFolder(u) /\ UNCHANGED folderOf ELSE EnsureDefaultFolder(u)
    /\ StoreDocument(d, u, TRUE, None, "pending")
    /\ UNCHANGED <<objects, folderCounts, raced, cutShort>>

PutFileobj(r) ==
    /\ On(r, "upload", "put") /\ Then(r, "parse")
    /\ objects' = objects \cup {fileReqs[r].doc}
    /\ UNCHANGED <<fileRows, folderOf, folderCounts, usedIds, raced, cutShort>>

(* Faulty variant of PutFails: the failure leaves no row.                   *)
PutFailsQuietly(r) ==
    /\ On(r, "upload", "put") /\ Ends(r)
    /\ UNCHANGED <<fileRows, objects, folderOf, folderCounts, usedIds, raced, cutShort>>

\* A put can fail after the binary is stored (the S3 adapter's closing HEAD).
PutFails(r) ==
    /\ On(r, "upload", "put") /\ Ends(r)
    /\ StoreDocument(fileReqs[r].doc, fileReqs[r].user, TRUE, None, "failed")
    /\ objects' \in {objects, objects \cup {fileReqs[r].doc}}
    /\ UNCHANGED <<folderOf, folderCounts, usedIds, raced, cutShort>>

\* In a thread; every parser error is a "failed" result.  A readable file may still fail.
RunParse(r, status) ==
    /\ On(r, "upload", "parse") /\ (status = "parsed" => fileReqs[r].kind = "readable")
    /\ fileReqs' = [fileReqs EXCEPT ![r].pc = "store", ![r].status = status]
    /\ UNCHANGED <<fileRows, objects, folderOf, folderCounts, usedIds, raced, cutShort, fileOps>>

StoreParsed(r) ==
    /\ On(r, "upload", "store") /\ Then(r, "count")
    /\ StoreDocument(fileReqs[r].doc, fileReqs[r].user, TRUE, None, fileReqs[r].status)
    /\ UNCHANGED <<objects, folderOf, folderCounts, usedIds, raced, cutShort>>

CountUpload(r) ==
    /\ On(r, "upload", "count") /\ Then(r, "size")
    /\ UpdateFolderCounts(fileReqs[r].user, 1, Bit(fileReqs[r].status = "parsed"))
    /\ UNCHANGED <<fileRows, objects, folderOf, usedIds, raced, cutShort>>

\* Cancelled while it waits for the put: the thread goes on, the request does not.
UploadAbandoned(r) ==
    /\ On(r, "upload", "put") /\ Then(r, "late")
    /\ cutShort' = cutShort \cup {fileReqs[r].doc}
    /\ UNCHANGED <<fileRows, objects, folderOf, folderCounts, usedIds, raced>>

LatePut(r) ==
    /\ On(r, "upload", "late") /\ Ends(r)
    /\ objects' \in {objects, objects \cup {fileReqs[r].doc}}
    /\ UNCHANGED <<fileRows, folderOf, folderCounts, usedIds, raced, cutShort>>

MergeSize(r) ==
    /\ On(r, "upload", "size") /\ Ends(r)
    /\ fileRows' = [fileRows EXCEPT ![fileReqs[r].doc] = Base(fileReqs[r].doc)]
    /\ UNCHANGED <<objects, folderOf, folderCounts, usedIds, raced, cutShort>>

(***************************************************************************)
(* Re-parse: the row read first decides what is counted at the end.        *)
(***************************************************************************)

ReparseDocument(r, u, d) ==
    /\ BeginRequest(r, Req("reparse", u, d, "store", fileRows[d])) /\ OwnedDocument(u, d)
    /\ StorageBinding(d, fileRows[d]) \in objects
    /\ UNCHANGED <<fileRows, objects, folderOf, folderCounts, usedIds, raced, cutShort>>

ReparseStore(r, status) ==
    /\ On(r, "reparse", "store") /\ MergeStatus(fileReqs[r].doc, status)
    /\ fileReqs' = [fileReqs EXCEPT ![r].pc = "count", ![r].status = status]
    /\ UNCHANGED <<objects, folderOf, folderCounts, usedIds, raced, cutShort, fileOps>>

ReparseCount(r) ==
    LET q == fileReqs[r]
    IN  /\ On(r, "reparse", "count") /\ Ends(r)
        /\ IF q.row.folder /\ (q.status = "parsed") # (q.row.status = "parsed")
           THEN UpdateFolderCounts(q.user, 0, IF q.status = "parsed" THEN 1 ELSE -1)
           ELSE UNCHANGED folderCounts
        /\ UNCHANGED <<fileRows, objects, folderOf, usedIds, raced, cutShort>>

(***************************************************************************)
(* Delete: mark, binary, row, counters; each failure leaves a mark behind. *)
(***************************************************************************)

DeleteRequest(r, u, d) ==
    /\ BeginRequest(r, Req("delete", u, d, "mark", fileRows[d])) /\ OwnedDocument(u, d)
    /\ raced' = IF Uploading(d) THEN raced \cup {d} ELSE raced
    /\ UNCHANGED <<fileRows, objects, folderOf, folderCounts, usedIds, cutShort>>

MarkDeleting(r) ==
    /\ On(r, "delete", "mark") /\ Then(r, "binary") /\ MergeDeletion(fileReqs[r].doc, "deleting")
    /\ UNCHANGED <<objects, folderOf, folderCounts, usedIds, raced, cutShort>>

(* Faulty variant of DeleteBinary: the object is left behind.               *)
DeleteBinaryIgnored(r) ==
    /\ On(r, "delete", "binary") /\ Then(r, "row")
    /\ UNCHANGED <<fileRows, objects, folderOf, folderCounts, usedIds, raced, cutShort>>

\* Deleting a binary that is not there succeeds in every adapter.
DeleteBinary(r) ==
    /\ On(r, "delete", "binary") /\ Then(r, "row")
    /\ objects' = objects \ {StorageBinding(fileReqs[r].doc, fileReqs[r].row)}
    /\ UNCHANGED <<fileRows, folderOf, folderCounts, usedIds, raced, cutShort>>

DeleteBinaryFails(r) ==
    /\ On(r, "delete", "binary") /\ Ends(r) /\ MergeDeletion(fileReqs[r].doc, "failed")
    /\ UNCHANGED <<objects, folderOf, folderCounts, usedIds, raced, cutShort>>

DeleteRow(r) ==
    /\ On(r, "delete", "row") /\ Then(r, "count")
    /\ fileRows' = [fileRows EXCEPT ![fileReqs[r].doc] = None]
    /\ UNCHANGED <<objects, folderOf, folderCounts, usedIds, raced, cutShort>>

\* The mark itself may fail too.
DeleteRowFails(r) ==
    /\ On(r, "delete", "row") /\ Ends(r)
    /\ \/ MergeDeletion(fileReqs[r].doc, "binary_deleted_metadata_pending")
       \/ UNCHANGED fileRows
    /\ UNCHANGED <<objects, folderOf, folderCounts, usedIds, raced, cutShort>>

CountDelete(r) ==
    LET q == fileReqs[r]
    IN  /\ On(r, "delete", "count") /\ Ends(r)
        /\ IF q.row.folder THEN UpdateFolderCounts(q.user, -1, -Bit(q.row.status = "parsed"))
           ELSE UNCHANGED folderCounts
        /\ UNCHANGED <<fileRows, objects, folderOf, usedIds, raced, cutShort>>

(***************************************************************************)
(* Import by reference: the user's own row, the platform's, a fresh parse. *)
(***************************************************************************)

Hits(u, url) == {d \in FileIds : fileRows[d] # None /\ fileRows[d].owner = u /\ fileRows[d].url = url}

\* A parsed row of the user ends the import; another one will be overwritten.
ImportByReference(r, u, url) ==
    /\ \E row \in {None} \cup Hits(u, url) :
           /\ row = None <=> Hits(u, url) = {}
           /\ row # None => fileRows[row].status # "parsed"
           /\ BeginRequest(r, [Req("import", u, row, "sentinel", None) EXCEPT !.kind = url])
    /\ UNCHANGED <<fileRows, objects, folderOf, folderCounts, usedIds, raced, cutShort>>

Target(r, d) ==
    IF fileReqs[r].doc # None THEN d = fileReqs[r].doc /\ UNCHANGED usedIds ELSE FreshId(d)

CloneSentinelToUser(r, d) ==
    /\ On(r, "import", "sentinel") /\ Hits(Platform, fileReqs[r].kind) # {} /\ Ends(r) /\ Target(r, d)
    /\ StoreDocument(d, fileReqs[r].user, FALSE, fileReqs[r].kind, "parsed")
    /\ UNCHANGED <<objects, folderOf, folderCounts, raced, cutShort>>

\* The object is read and parsed; a failure is a 422.
ImportParses(r) ==
    /\ On(r, "import", "sentinel") /\ Hits(Platform, fileReqs[r].kind) = {}
    /\ \/ fileReqs[r].kind \in objects /\ Then(r, "store")
       \/ Ends(r)
    /\ UNCHANGED <<fileRows, objects, folderOf, folderCounts, usedIds, raced, cutShort>>

ImportStore(r, d) ==
    /\ On(r, "import", "store") /\ Ends(r) /\ Target(r, d)
    /\ StoreDocument(d, fileReqs[r].user, FALSE, fileReqs[r].kind, "parsed")
    /\ UNCHANGED <<objects, folderOf, folderCounts, raced, cutShort>>

\* A deployment job writes or refreshes the platform's row of a library object.
PrewarmFromBlocks(url, d) ==
    /\ fileOps < MaxFileOps /\ fileOps' = fileOps + 1
    /\ IF Hits(Platform, url) # {} THEN d \in Hits(Platform, url) /\ UNCHANGED usedIds ELSE FreshId(d)
    /\ StoreDocument(d, Platform, FALSE, url, "parsed")
    /\ UNCHANGED <<objects, folderOf, folderCounts, fileReqs, raced, cutShort>>

(***************************************************************************)
(* Failure.                                                                *)
(***************************************************************************)

\* Any request breaks off where it is: the database call it is at raises (a failure
\* status is such a call too), it is cancelled, or its process stops.  A put may
\* have stored the binary by then.
Unsettled(q) == q.op = "upload" /\ q.pc \notin {"count", "size"}
RequestBreaks(r) ==
    /\ fileReqs[r] # None /\ fileReqs[r].pc # "late" /\ Ends(r)
    /\ objects' \in {objects} \cup
           (IF On(r, "upload", "put") THEN {objects \cup {fileReqs[r].doc}} ELSE {})
    /\ cutShort' = cutShort \cup (IF Unsettled(fileReqs[r]) THEN {fileReqs[r].doc} ELSE {})
    /\ UNCHANGED <<fileRows, folderOf, folderCounts, usedIds, raced>>
-----------------------------------------------------------------------------
FilesInit ==
    /\ fileRows = [d \in FileIds |-> None] /\ objects = Library
    /\ folderOf = [u \in FileUsers |-> FALSE]
    /\ folderCounts = [u \in FileUsers |-> [docCount |-> 0, parsedCount |-> 0]]
    /\ usedIds = {} /\ raced = {} /\ cutShort = {} /\ fileOps = 0
    /\ fileReqs = [r \in FileRequests |-> None]

UploadSteps(r) ==
    \/ PutFileobj(r) \/ PutFails(r) \/ UploadAbandoned(r) \/ LatePut(r) \/ StoreParsed(r)
    \/ CountUpload(r) \/ MergeSize(r)
    \/ \E status \in {"parsed", "failed"} : RunParse(r, status)

DeleteSteps(r) ==
    \/ MarkDeleting(r) \/ DeleteBinary(r) \/ DeleteBinaryFails(r)
    \/ DeleteRow(r) \/ DeleteRowFails(r) \/ CountDelete(r)

FilesNext ==
    \/ \E r \in FileRequests :
           \/ UploadSteps(r) \/ DeleteSteps(r) \/ ReparseCount(r) \/ ImportParses(r) \/ RequestBreaks(r)
           \/ \E status \in {"parsed", "failed"} : ReparseStore(r, status)
           \/ \E u \in FileUsers, d \in FileIds :
                  \/ \E kind \in UploadKinds, named \in BOOLEAN : UploadDocument(r, u, d, kind, named)
                  \/ ReparseDocument(r, u, d) \/ DeleteRequest(r, u, d)
           \/ \E u \in FileUsers, url \in Library : ImportByReference(r, u, url)
           \/ \E d \in FileIds : CloneSentinelToUser(r, d) \/ ImportStore(r, d)
    \/ \E u \in FileUsers : CreateFolder(u)
    \/ \E url \in Library, d \in FileIds : PrewarmFromBlocks(url, d)

FilesSpec == FilesInit /\ [][FilesNext]_fileVars
-----------------------------------------------------------------------------
FilesTypeOK ==
    /\ fileRows \in [FileIds -> FileRow \cup {None}]
    /\ fileReqs \in [FileRequests -> FileRequest \cup {None}]
    /\ usedIds \subseteq FileIds /\ cutShort \subseteq usedIds /\ objects \subseteq usedIds \cup Library
    /\ \A d \in FileIds : fileRows[d] # None => d \in usedIds
    /\ fileOps \in 0..MaxFileOps

\* A row, which the UI polls and shows as being parsed, is pending while its upload works
\* on it, or because that upload broke off before it stored a status: the write itself
\* failed, or the request was cancelled or died.  Whatever failed otherwise, was deleted
\* or re-parsed meanwhile, no other row waits for a parse that nobody does.
PendingIsExplained ==
    \A d \in FileIds : fileRows[d] # None /\ fileRows[d].status = "pending" => Working(d) \/ d \in cutShort

\* No stored binary is left without a row that leads to it, however deletes of it fail, are
\* retried or overlap with each other and with re-parses: the row goes only after the
\* binary.  (A delete that overlaps the document's own upload can leave one behind.)
BinariesHaveRows ==
    \A d \in objects \ (Library \cup raced) : fileRows[d] # None \/ Uploading(d)
=============================================================================
