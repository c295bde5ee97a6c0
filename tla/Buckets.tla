------------------------------- MODULE Buckets -------------------------------
(***************************************************************************)
(* Registered library buckets and the folders under them, each with its    *)
(* access control; the objects a user may list and preview there; the      *)
(* signed URLs a turn is given; and the per-user retrieval corpus.  A      *)
(* folder keeps its effective access, resolved against its bucket when it  *)
(* is written, so requests that read a bucket and then write a folder race *)
(* with edits of both.                                                     *)
(*                                                                         *)
(* buckets/routes.py, bucket_config.py, folder_config.py,                  *)
(* auth/signed_urls.py, rag/corpus.py, tools/documents/rag_routes.py       *)
(***************************************************************************)
EXTENDS Integers, FiniteSets, Store

CONSTANTS
    BucketUsers,          \* users; an access control is the set of users it admits
    BucketAdmins,     \* platform admins among them
    BucketIds,        \* bucket registrations
    FolderIds,        \* folders under a bucket
    BucketRequests,   \* requests that may be in flight together
    Corpora,          \* names the retrieval service may give a new corpus
    MaxBucketOps,     \* requests in a behaviour
    MaxTtl            \* MAX_TTL_SECONDS, scaled

ASSUME BucketAssumption ==
    BucketAdmins \subseteq BucketUsers /\ MaxBucketOps \in Nat /\ MaxTtl \in Nat \ {0}

VARIABLES
    buckets,      \* id -> None or [owner, access, domains]
    folders,      \* <<bucket, folder>> -> None or [owner, access, effective]
    bucketReqs,   \* request -> None or what it read before it writes
    signedUrls,   \* user -> None or [urls, unavailable, ttl] of the turn
    shownTo,      \* the last rows a user was shown: None or [user, rows]
    profile,      \* user -> the corpus the profile names, or None
    corpora,      \* corpora that exist: corpus -> None or its user
    corpusReqs,   \* user -> requests creating a corpus: a set of request ids
    gotCorpus,    \* request -> None or the corpus it was given
    bucketOps

bucketVars == <<buckets, folders, bucketReqs, signedUrls, shownTo, profile, corpora, corpusReqs,
                gotCorpus, bucketOps>>

BucketOp == bucketOps < MaxBucketOps /\ bucketOps' = bucketOps + 1
CorpusKept == UNCHANGED <<profile, corpora, corpusReqs, gotCorpus>>

(***************************************************************************)
(* Who may see what.                                                       *)
(***************************************************************************)

SeesBucket(u, b) == buckets[b] # None /\ (u = buckets[b].owner \/ u \in buckets[b].access)
SeesFolder(u, b, f) == folders[b, f] # None
                           /\ (u = folders[b, f].owner \/ u \in folders[b, f].effective)

\* Without blessed login domains a registration grants nothing.
DomainAllowed(b) == buckets[b].domains

\* Objects are read by a platform admin, or by a user whom both locks of the bucket admit.
AuthorizeBucketRead(u, b) == u \in BucketAdmins \/ (SeesBucket(u, b) /\ DomainAllowed(b))
RequirePlatformAdmin(u) == u \in BucketAdmins

\* None inherits the bucket's access at the time of the write.
ComputeEffectiveAccess(access, parent) == IF access = None THEN parent.access ELSE access

(***************************************************************************)
(* The two collections.                                                    *)
(***************************************************************************)

StoredBuckets == {b \in BucketIds : buckets[b] # None}
StoredFolders(b) == {f \in FolderIds : folders[b, f] # None}
PutBucket(b, row) == buckets' = [buckets EXCEPT ![b] = row]
ChangeBucket(b, access, domains) ==
    b \in StoredBuckets /\ buckets' = [buckets EXCEPT ![b].access = access, ![b].domains = domains]
DropBucket(b) == b \in StoredBuckets /\ buckets' = [buckets EXCEPT ![b] = None]

PutFolder(b, f, owner, access, parent) ==
    folders' = [folders EXCEPT ![<<b, f>>] =
        [owner |-> owner, access |-> access, effective |-> ComputeEffectiveAccess(access, parent)]]

(* Faulty variant of ChangeFolder: the effective access is left as it was.  *)
ChangeFolderAccess(b, f, access, parent) ==
    folders' = IF f \notin StoredFolders(b) \/ access = None THEN folders
               ELSE [folders EXCEPT ![<<b, f>>].access = access]

\* Both fields in one update; nothing is written to a folder deleted meanwhile.
ChangeFolder(b, f, access, parent) ==
    folders' = IF f \notin StoredFolders(b) \/ access = None THEN folders
               ELSE [folders EXCEPT ![<<b, f>>] =
                        [@ EXCEPT !.access = access,
                                  !.effective = ComputeEffectiveAccess(access, parent)]]

DropFolder(b, f) == f \in StoredFolders(b) /\ folders' = [folders EXCEPT ![<<b, f>>] = None]

(***************************************************************************)
(* Bucket routes: one store write each.                                    *)
(***************************************************************************)

CreateBucket(u, b, access, domains) ==
    /\ BucketOp /\ RequirePlatformAdmin(u) /\ domains /\ buckets[b] = None
    /\ PutBucket(b, [owner |-> u, access |-> access, domains |-> TRUE])
    /\ CorpusKept /\ UNCHANGED <<folders, bucketReqs, signedUrls, shownTo>>

\* The list may be emptied by an update: then the read gate denies.
UpdateBucket(u, b, access, domains) ==
    /\ BucketOp /\ RequirePlatformAdmin(u) /\ ChangeBucket(b, access, domains)
    /\ CorpusKept /\ UNCHANGED <<folders, bucketReqs, signedUrls, shownTo>>

\* The folders of a deleted bucket stay behind, unreachable through its id.
DeleteBucket(u, b) ==
    /\ BucketOp /\ SeesBucket(u, b) /\ u = buckets[b].owner /\ DropBucket(b)
    /\ CorpusKept /\ UNCHANGED <<folders, bucketReqs, signedUrls, shownTo>>

ListBuckets(u) ==
    /\ BucketOp /\ shownTo' = [user |-> u, rows |-> {<<b>> : b \in {c \in StoredBuckets : SeesBucket(u, c)}}]
    /\ CorpusKept /\ UNCHANGED <<buckets, folders, bucketReqs, signedUrls>>

ListBucketObjects(u, b) ==
    /\ BucketOp /\ AuthorizeBucketRead(u, b)
    /\ shownTo' = [user |-> u, rows |-> {<<b>>}]
    /\ CorpusKept /\ UNCHANGED <<buckets, folders, bucketReqs, signedUrls>>

(***************************************************************************)
(* Folder routes: the parent is loaded and checked first, the write comes  *)
(* later.                                                                  *)
(***************************************************************************)

LoadParent(u, b) == SeesBucket(u, b)

CreateFolderReads(r, u, b, f, access) ==
    /\ bucketReqs[r] = None /\ BucketOp /\ LoadParent(u, b) /\ u = buckets[b].owner
    /\ folders[b, f] = None
    /\ bucketReqs' = [bucketReqs EXCEPT ![r] =
           [op |-> "create", user |-> u, bucket |-> b, folder |-> f, access |-> access,
            parent |-> buckets[b]]]
    /\ CorpusKept /\ UNCHANGED <<buckets, folders, signedUrls, shownTo>>

CreateFolderWrites(r) ==
    LET q == bucketReqs[r]
    IN  /\ q # None /\ q.op = "create" /\ bucketReqs' = [bucketReqs EXCEPT ![r] = None]
        /\ PutFolder(q.bucket, q.folder, q.user, q.access, q.parent)
        /\ CorpusKept /\ UNCHANGED <<buckets, signedUrls, shownTo, bucketOps>>

\* The bucket's owner or the folder's; None leaves the access as it is.
UpdateFolderReads(r, u, b, f, access) ==
    /\ bucketReqs[r] = None /\ BucketOp /\ LoadParent(u, b) /\ SeesFolder(u, b, f)
    /\ u \in {buckets[b].owner, folders[b, f].owner}
    /\ bucketReqs' = [bucketReqs EXCEPT ![r] =
           [op |-> "update", user |-> u, bucket |-> b, folder |-> f, access |-> access,
            parent |-> buckets[b]]]
    /\ CorpusKept /\ UNCHANGED <<buckets, folders, signedUrls, shownTo>>

UpdateFolderWrites(r) ==
    LET q == bucketReqs[r]
    IN  /\ q # None /\ q.op = "update" /\ bucketReqs' = [bucketReqs EXCEPT ![r] = None]
        /\ ChangeFolder(q.bucket, q.folder, q.access, q.parent)
        /\ CorpusKept /\ UNCHANGED <<buckets, signedUrls, shownTo, bucketOps>>

DeleteFolder(u, b, f) ==
    /\ BucketOp /\ LoadParent(u, b) /\ SeesFolder(u, b, f)
    /\ u \in {buckets[b].owner, folders[b, f].owner}
    /\ DropFolder(b, f)
    /\ CorpusKept /\ UNCHANGED <<buckets, bucketReqs, signedUrls, shownTo>>

ListFolders(u, b) ==
    /\ BucketOp /\ LoadParent(u, b)
    /\ shownTo' = [user |-> u, rows |-> {<<b, f>> : f \in {g \in StoredFolders(b) : SeesFolder(u, b, g)}}]
    /\ CorpusKept /\ UNCHANGED <<buckets, folders, bucketReqs, signedUrls>>

(***************************************************************************)
(* Signed URLs for a turn.                                                 *)
(***************************************************************************)

DefaultTtl == (MaxTtl + 3) \div 4

\* An argument before the environment before the default, and always within 1..MaxTtl.
ClampedTtl(asked, env) ==
    LET ttl == IF asked # None THEN asked ELSE IF env # None THEN env ELSE DefaultTtl
    IN  IF ttl < 1 THEN 1 ELSE IF ttl > MaxTtl THEN MaxTtl ELSE ttl

\* The configured signing account, else the process's own service account.
SignerAvailable(configured, ownAccount) == configured \/ ownAccount

\* Access first, then one URL per object beneath the folder.
IssueFolderReadUrls(u, b, f) == SeesFolder(u, b, f)

\* Without a signer the turn goes on without URLs; a folder that may not be read or cannot
\* be signed is left out.
BuildSignedUrls(u, offered, configured, ownAccount, failing, asked) ==
    /\ BucketOp
    /\ signedUrls' = [signedUrls EXCEPT ![u] =
           IF ~SignerAvailable(configured, ownAccount) THEN [urls |-> {}, unavailable |-> TRUE, ttl |-> 0]
           ELSE [urls |-> {k \in offered \ failing : IssueFolderReadUrls(u, k[1], k[2])},
                 unavailable |-> FALSE, ttl |-> ClampedTtl(asked, None)]]
    /\ CorpusKept /\ UNCHANGED <<buckets, folders, bucketReqs, shownTo>>

(***************************************************************************)
(* The user's retrieval corpus.                                            *)
(***************************************************************************)

\* The profile names it, or it is created in a thread and the name is written back.
GetOrCreateUserCorpus(r, u) ==
    /\ BucketOp /\ r \notin UNION {corpusReqs[v] : v \in BucketUsers}
    /\ IF profile[u] # None
       THEN gotCorpus' = [gotCorpus EXCEPT ![r] = profile[u]] /\ UNCHANGED corpusReqs
       ELSE corpusReqs' = [corpusReqs EXCEPT ![u] = @ \cup {r}] /\ UNCHANGED gotCorpus
    /\ UNCHANGED <<buckets, folders, bucketReqs, signedUrls, shownTo, profile, corpora>>

CreateCorpus(r, u, c) ==
    /\ r \in corpusReqs[u] /\ corpora[c] = None
    /\ corpora' = [corpora EXCEPT ![c] = u] /\ profile' = [profile EXCEPT ![u] = c]
    /\ gotCorpus' = [gotCorpus EXCEPT ![r] = c]
    /\ corpusReqs' = [corpusReqs EXCEPT ![u] = @ \ {r}]
    /\ UNCHANGED <<buckets, folders, bucketReqs, signedUrls, shownTo, bucketOps>>
-----------------------------------------------------------------------------
BucketsInit ==
    /\ buckets = [b \in BucketIds |-> None]
    /\ folders = [k \in BucketIds \X FolderIds |-> None]
    /\ bucketReqs = [r \in BucketRequests |-> None]
    /\ signedUrls = [u \in BucketUsers |-> None] /\ shownTo = None
    /\ profile = [u \in BucketUsers |-> None] /\ corpora = [c \in Corpora |-> None]
    /\ corpusReqs = [u \in BucketUsers |-> {}] /\ gotCorpus = [r \in BucketRequests |-> None]
    /\ bucketOps = 0

FolderSteps(r, u, b) ==
    \E f \in FolderIds, access \in {None} \cup SUBSET BucketUsers :
        CreateFolderReads(r, u, b, f, access) \/ UpdateFolderReads(r, u, b, f, access)

BucketsNext ==
    \/ \E u \in BucketUsers, b \in BucketIds :
           \/ \E access \in SUBSET BucketUsers, domains \in BOOLEAN :
                  CreateBucket(u, b, access, domains) \/ UpdateBucket(u, b, access, domains)
           \/ DeleteBucket(u, b) \/ ListBucketObjects(u, b) \/ ListFolders(u, b)
           \/ \E f \in FolderIds : DeleteFolder(u, b, f)
           \/ \E r \in BucketRequests : FolderSteps(r, u, b)
    \/ \E r \in BucketRequests : CreateFolderWrites(r) \/ UpdateFolderWrites(r)
    \/ \E u \in BucketUsers :
           \/ ListBuckets(u)
           \/ \E configured, ownAccount \in BOOLEAN, failing \in SUBSET (BucketIds \X FolderIds),
                 asked \in {None, 0, MaxTtl + 1} :
                  BuildSignedUrls(u, BucketIds \X FolderIds, configured, ownAccount, failing,
                                  asked)
           \/ \E r \in BucketRequests :
                  GetOrCreateUserCorpus(r, u) \/ \E c \in Corpora : CreateCorpus(r, u, c)

BucketsSpec == BucketsInit /\ [][BucketsNext]_bucketVars
-----------------------------------------------------------------------------
BucketsTypeOK ==
    /\ \A u \in BucketUsers : signedUrls[u] # None => signedUrls[u].ttl \in 0..MaxTtl
    /\ bucketOps \in 0..MaxBucketOps

\* A folder's own access control governs it: whatever the order of edits of the folder and
\* of its bucket, the effective access stored with a folder that has one is that one.
EffectiveIsOwn ==
    \A k \in BucketIds \X FolderIds :
        folders[k] # None /\ folders[k].access # None => folders[k].effective = folders[k].access
=============================================================================
