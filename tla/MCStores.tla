------------------------------ MODULE MCStores ------------------------------
(* What the platform stores, for TLC: the document repository and its       *)
(* contract, the per-user session, artifact and memory stores, the seeds,   *)
(* the skill directory, uploaded files from parser to object storage,       *)
(* buckets and thumbnails. They share no variable, so a behaviour is one of *)
(* any one of them (part) while the others rest in an initial state.        *)
EXTENDS DocumentStore, UserStores, PlatformSeed, SkillDirectory, DocumentParsing, DocumentFiles,
        ObjectStore, Buckets

CONSTANT StoreParts

VARIABLE part

StoreRests ==
    /\ backend = "postgres" /\ shared = FALSE /\ Contract!ContractInit
    /\ order = <<>> /\ call = [c \in Callers |-> None]
    /\ rowLock = [d \in DocIds |-> None] /\ createLock = None
    /\ pager = None /\ target = [d \in DocIds |-> None] /\ copying = None /\ storeOps = 0

StoresInit ==
    /\ part \in StoreParts
    /\ IF part = "repository" THEN StoreInit ELSE StoreRests
    /\ UserInit /\ (part # "users" => artifactStore = ArtifactBackendName("", "", FALSE)
                                     /\ sessionStore = SessionBackendName("", FALSE, FALSE)
                                     /\ memoryStore = MemoryBackendName("", FALSE, FALSE))
    /\ SeedInit /\ (part # "seed" => serverRows.map = None)
    /\ DirectoryInit /\ skillDocs[0].owner = PlatformUser
    /\ IF part = "parsing" THEN ParsingInit
       ELSE file = None /\ outcome = None /\ edits = <<>> /\ section = None /\ shownText = None
    /\ FilesInit
    /\ ObjectsInit /\ (part # "objects" => adapter = "local")
    /\ BucketsInit
    /\ ThumbInit

storesVars == <<storeVars, userVars, seedVars, directoryVars, parseVars, fileVars, objectVars,
                bucketVars, thumbVars>>

StoresNext ==
    \/ part = "repository" /\ StoreNext
       /\ UNCHANGED <<part, userVars, seedVars, directoryVars, parseVars, fileVars, objectVars, bucketVars, thumbVars>>
    \/ part = "users" /\ UserNext
       /\ UNCHANGED <<part, storeVars, seedVars, directoryVars, parseVars, fileVars, objectVars, bucketVars, thumbVars>>
    \/ part = "seed" /\ SeedNext
       /\ UNCHANGED <<part, storeVars, userVars, directoryVars, parseVars, fileVars, objectVars, bucketVars, thumbVars>>
    \/ part = "directory" /\ DirectoryNext
       /\ UNCHANGED <<part, storeVars, userVars, seedVars, parseVars, fileVars, objectVars, bucketVars, thumbVars>>
    \/ part = "parsing" /\ ParsingNext
       /\ UNCHANGED <<part, storeVars, userVars, seedVars, directoryVars, fileVars, objectVars, bucketVars, thumbVars>>
    \/ part = "files" /\ FilesNext
       /\ UNCHANGED <<part, storeVars, userVars, seedVars, directoryVars, parseVars, objectVars, bucketVars, thumbVars>>
    \/ part = "objects" /\ ObjectsNext
       /\ UNCHANGED <<part, storeVars, userVars, seedVars, directoryVars, parseVars, fileVars, bucketVars, thumbVars>>
    \/ part = "buckets" /\ BucketsNext
       /\ UNCHANGED <<part, storeVars, userVars, seedVars, directoryVars, parseVars, fileVars, objectVars, thumbVars>>
    \/ part = "thumbnails" /\ ThumbNext
       /\ UNCHANGED <<part, storeVars, userVars, seedVars, directoryVars, parseVars, fileVars, objectVars, bucketVars>>

StoresSpec == StoresInit /\ [][StoresNext]_<<part, storesVars>>
-----------------------------------------------------------------------------
(* Rows belong to their user and are not torn: paging covers a collection,  *)
(* the platform's own stores return only their caller's rows, and memory    *)
(* is the snapshot that replaced it last (PagesWhole, OnlyOwnRows,          *)
(* MemoryIsSnapshot).                                                       *)
RowsKept == PagesWhole /\ OnlyOwnRows /\ MemoryIsSnapshot

(* What is listed exists and may be listed: a pending document is being     *)
(* parsed or its upload broke off, a binary has a row, a folder's own       *)
(* access governs it, and nothing private is served (PendingIsExplained,    *)
(* BinariesHaveRows, EffectiveIsOwn, SharedOnly).                           *)
CatalogueSound ==
    /\ FilesTypeOK /\ PendingIsExplained /\ BinariesHaveRows
    /\ BucketsTypeOK /\ EffectiveIsOwn
    /\ DirectoryTypeOK /\ SharedOnly

(* Files survive storage, parsing and rendering: a download is one whole    *)
(* upload, a parse loses no text, a section is read to its end, and PDFium  *)
(* never runs twice at once (ReadsWhole, NothingPruned, ParsedWhole,        *)
(* SectionWhole, PdfiumAlone).                                              *)
BytesWhole ==
    /\ ReadsWhole /\ NothingPruned
    /\ file # None => ParsedWhole /\ SectionWhole
    /\ PdfiumAlone
=============================================================================
