----------------------------- MODULE ObjectStore -----------------------------
(***************************************************************************)
(* The object storage behind documents: a local directory tree, an S3      *)
(* bucket or a GCS bucket, one namespace per user.  Objects are written    *)
(* and read in chunks; writers, readers, deletes and listings of one key   *)
(* overlap, and a writer may die between two chunks.                       *)
(*                                                                         *)
(* object_storage/local.py, s3.py, gcs.py, factory.py                      *)
(***************************************************************************)
EXTENDS Integers, Sequences, FiniteSets, Store

CONSTANTS
    ObjectOwners,       \* users
    Dirs,         \* directories of a user's namespace
    Names,        \* file names
    Writers,      \* uploads that may be in flight together
    Readers,      \* downloads that may be in flight together
    Chunks,       \* chunks of an object
    MaxPuts,      \* uploads in a behaviour
    MaxGets       \* downloads, deletes and listings in a behaviour

ASSUME ObjectAssumption == Chunks \in Nat \ {0} /\ {MaxPuts, MaxGets} \subseteq Nat

VARIABLES
    adapter,      \* "local", "s3" or "gcs"
    blobs,        \* key -> None or the versions of its chunks
    dirTree,      \* local: directories that exist
    temps,        \* local: temporary files on disk
    puts,         \* writer -> None or [key, version, pc, data]
    gets,         \* reader -> None or [key, held, got]
    removing,     \* the key whose directory a local delete is about to prune, or None
    listing,      \* the last listing: None or [owner, shown, stored]
    putCount, getCount

objectVars == <<adapter, blobs, dirTree, temps, puts, gets, removing, listing, putCount, getCount>>

(***************************************************************************)
(* Names and configuration.                                                *)
(***************************************************************************)

\* The shapes of user ids and keys, and which pass validation.
NameShapes == {"plain", "nested", "empty", "dots", "absolute", "backslash", "null"}
ValidateUserId(shape) == shape = "plain"
ValidateKey(shape) == shape \in {"plain", "nested"}

\* A user's objects live beneath users/<user>/, in every adapter.
ObjectName(user, key) == <<user, key.dir, key.name>>
Keys == {ObjectName(u, [dir |-> d, name |-> n]) : u \in ObjectOwners, d \in Dirs, n \in Names}

\* An unsupported or incomplete configuration raises; nothing falls back to local disk.
StorageSignature(env) ==
    IF env.backend = "local" THEN <<"local", env.root>>
    ELSE IF env.backend \in {"s3", "gcs"} /\ env.bucket # ""
              /\ (env.backend = "s3" => /\ env.access = env.secret
                                        /\ (env.token => env.access))
         THEN <<env.backend, env.bucket>>
         ELSE <<"RuntimeError", "">>

\* The S3 adapter checks its own settings when it is built.
S3Settings(env) ==
    /\ env.bucket # "" /\ env.endpoint \in {"", "https"}
    /\ env.access = env.secret /\ (env.token => env.access)
    /\ env.style \in {"auto", "path", "virtual"}

\* One adapter is kept per process until the configuration changes.
GetObjectStorage(kept, env) ==
    IF kept = StorageSignature(env) THEN kept
    ELSE IF StorageSignature(env)[1] = "s3" /\ ~S3Settings(env) THEN <<"RuntimeError", "">>
    ELSE StorageSignature(env)

Environments ==
    [backend : {"local", "s3", "gcs", "ftp"}, root : {"/data"}, bucket : {"", "b"},
     endpoint : {"", "https", "ftp"}, style : {"auto", "path", "dns"},
     access : BOOLEAN, secret : BOOLEAN, token : BOOLEAN]

DirOf(key) == <<key[1], key[2]>>
Whole(version) == [i \in 1..Chunks |-> version]
StoredIn(dir) == {k \in Keys : blobs[k] # None /\ DirOf(k) = dir}

(***************************************************************************)
(* Writing.                                                                *)
(***************************************************************************)

\* A user id or key that would leave the namespace raises before anything is touched.
PutBegins(w, key, userShape, keyShape) ==
    /\ ValidateUserId(userShape) /\ ValidateKey(keyShape)
    /\ puts[w] = None /\ putCount < MaxPuts /\ putCount' = putCount + 1
    /\ puts' = [puts EXCEPT ![w] = [key |-> key, version |-> putCount', pc |-> "open", data |-> <<>>]]
    /\ dirTree' = IF adapter = "local" THEN dirTree \cup {DirOf(key)} ELSE dirTree
    /\ UNCHANGED <<adapter, blobs, temps, gets, removing, listing, getCount>>

\* A delete may have pruned the directory meanwhile: then the put raises.
LocalPutOpens(w) ==
    /\ puts[w] # None /\ adapter = "local" /\ puts[w].pc = "open"
    /\ IF DirOf(puts[w].key) \in dirTree
       THEN /\ puts' = [puts EXCEPT ![w].pc = "copy"]
            /\ temps' = temps \cup {[key |-> puts[w].key, version |-> puts[w].version]}
       ELSE puts' = [puts EXCEPT ![w] = None] /\ UNCHANGED temps
    /\ UNCHANGED <<adapter, blobs, dirTree, gets, removing, listing, putCount, getCount>>

(* Faulty variant of LocalPutCopies: the chunks go to the key itself.       *)
LocalPutCopiesInPlace(w) ==
    /\ puts[w] # None /\ puts[w].pc = "copy" /\ Len(puts[w].data) < Chunks
    /\ puts' = [puts EXCEPT ![w].data = Append(@, puts[w].version)]
    /\ blobs' = [blobs EXCEPT ![puts[w].key] = puts'[w].data]
    /\ UNCHANGED <<adapter, dirTree, temps, gets, removing, listing, putCount, getCount>>

LocalPutCopies(w) ==
    /\ puts[w] # None /\ puts[w].pc = "copy" /\ Len(puts[w].data) < Chunks
    /\ puts' = [puts EXCEPT ![w].data = Append(@, puts[w].version)]
    /\ UNCHANGED <<adapter, blobs, dirTree, temps, gets, removing, listing, putCount, getCount>>

\* Flushed, then renamed over the key in one step.
LocalPutReplaces(w) ==
    /\ puts[w] # None /\ puts[w].pc = "copy" /\ Len(puts[w].data) = Chunks
    /\ blobs' = [blobs EXCEPT ![puts[w].key] = puts[w].data]
    /\ temps' = temps \ {[key |-> puts[w].key, version |-> puts[w].version]}
    /\ puts' = [puts EXCEPT ![w] = None]
    /\ UNCHANGED <<adapter, dirTree, gets, removing, listing, putCount, getCount>>

\* A failing read removes the temporary file; a process that dies leaves it.
LocalPutFails(w) ==
    /\ puts[w] # None /\ puts[w].pc = "copy"
    /\ \/ temps' = temps \ {[key |-> puts[w].key, version |-> puts[w].version]}
       \/ UNCHANGED temps
    /\ puts' = [puts EXCEPT ![w] = None]
    /\ UNCHANGED <<adapter, blobs, dirTree, gets, removing, listing, putCount, getCount>>

\* The provider shows the object when the last part is in.
S3Put(w) ==
    /\ puts[w] # None /\ adapter = "s3" /\ puts[w].pc = "open"
    /\ blobs' = [blobs EXCEPT ![puts[w].key] = Whole(puts[w].version)]
    /\ puts' = [puts EXCEPT ![w].pc = "head"]
    /\ UNCHANGED <<adapter, dirTree, temps, gets, removing, listing, putCount, getCount>>

\* head_object raises if the object was deleted meanwhile.
S3Head(w) ==
    /\ puts[w] # None /\ puts[w].pc = "head" /\ puts' = [puts EXCEPT ![w] = None]
    /\ UNCHANGED <<adapter, blobs, dirTree, temps, gets, removing, listing, putCount, getCount>>

GcsPut(w) ==
    /\ puts[w] # None /\ adapter = "gcs" /\ puts[w].pc = "open"
    /\ blobs' = [blobs EXCEPT ![puts[w].key] = Whole(puts[w].version)]
    /\ puts' = [puts EXCEPT ![w] = None]
    /\ UNCHANGED <<adapter, dirTree, temps, gets, removing, listing, putCount, getCount>>

RemotePutFails(w) ==
    /\ puts[w] # None /\ adapter # "local" /\ puts[w].pc = "open"
    /\ puts' = [puts EXCEPT ![w] = None]
    /\ UNCHANGED <<adapter, blobs, dirTree, temps, gets, removing, listing, putCount, getCount>>

(***************************************************************************)
(* Reading.                                                                *)
(***************************************************************************)

Exists(key) == blobs[key] # None
Called == getCount < MaxGets /\ getCount' = getCount + 1

\* An open file or response body stays with the version it was opened on.
GetBegins(rd, key) ==
    /\ gets[rd] = None /\ Called /\ Exists(key)
    /\ gets' = [gets EXCEPT ![rd] = [key |-> key, held |-> blobs[key], got |-> <<>>]]
    /\ UNCHANGED <<adapter, blobs, dirTree, temps, puts, removing, listing, putCount>>

LocalRead(g) == g.held[Len(g.got) + 1]
S3Read(g) == g.held[Len(g.got) + 1]

\* A GCS reader asks for one range at a time, of what the key holds then.
GcsRead(g) == IF blobs[g.key] = None THEN None ELSE blobs[g.key][Len(g.got) + 1]

ReadChunk(rd) ==
    LET g == gets[rd]
        chunk == IF adapter = "gcs" THEN GcsRead(g)
                 ELSE IF adapter = "s3" THEN S3Read(g) ELSE LocalRead(g)
    IN  /\ g # None /\ Len(g.got) < Len(g.held)
        /\ gets' = [gets EXCEPT ![rd] =
               IF chunk = None THEN None ELSE [g EXCEPT !.got = Append(@, chunk)]]
        /\ UNCHANGED <<adapter, blobs, dirTree, temps, puts, removing, listing, putCount, getCount>>

ReadEnds(rd) ==
    /\ gets[rd] # None /\ Len(gets[rd].got) = Len(gets[rd].held)
    /\ gets' = [gets EXCEPT ![rd] = None]
    /\ UNCHANGED <<adapter, blobs, dirTree, temps, puts, removing, listing, putCount, getCount>>

(***************************************************************************)
(* Deleting and listing.                                                   *)
(***************************************************************************)

LocalDelete(key) ==
    /\ adapter = "local" /\ removing = None /\ Called /\ Exists(key)
    /\ blobs' = [blobs EXCEPT ![key] = None] /\ removing' = key
    /\ UNCHANGED <<adapter, dirTree, temps, puts, gets, listing, putCount>>

(* Faulty variant of PruneParents: a parent is removed with what is in it.  *)
PruneParentsAlways ==
    /\ removing # None /\ removing' = None
    /\ dirTree' = dirTree \ {DirOf(removing)}
    /\ UNCHANGED <<adapter, blobs, temps, puts, gets, listing, putCount, getCount>>

\* Empty parents are removed; the first that is not empty ends the walk.
PruneParents ==
    /\ removing # None /\ removing' = None
    /\ dirTree' = IF StoredIn(DirOf(removing)) = {} /\ ~\E t \in temps : DirOf(t.key) = DirOf(removing)
                  THEN dirTree \ {DirOf(removing)} ELSE dirTree
    /\ UNCHANGED <<adapter, blobs, temps, puts, gets, listing, putCount, getCount>>

\* Deleting a missing key succeeds.
S3Delete(key) ==
    /\ adapter = "s3" /\ Called /\ blobs' = [blobs EXCEPT ![key] = None]
    /\ UNCHANGED <<adapter, dirTree, temps, puts, gets, removing, listing, putCount>>

GcsDelete(key) ==
    /\ adapter = "gcs" /\ Called /\ blobs' = [blobs EXCEPT ![key] = None]
    /\ UNCHANGED <<adapter, dirTree, temps, puts, gets, removing, listing, putCount>>

\* Temporary files are skipped.
StoredBy(owner) == {k \in Keys : blobs[k] # None /\ k[1] = owner}
LocalListed(owner) == StoredBy(owner)
S3Listed(owner) == StoredBy(owner)
GcsListed(owner) == StoredBy(owner)

ListObjects(owner) ==
    /\ Called
    /\ listing' = [owner |-> owner, stored |-> StoredBy(owner),
                   shown |-> IF adapter = "local" THEN LocalListed(owner)
                             ELSE IF adapter = "s3" THEN S3Listed(owner) ELSE GcsListed(owner)]
    /\ UNCHANGED <<adapter, blobs, dirTree, temps, puts, gets, removing, putCount>>

-----------------------------------------------------------------------------
ObjectsInit ==
    /\ adapter \in {GetObjectStorage(<<"", "">>, env)[1] : env \in Environments} \ {"RuntimeError"}
    /\ blobs = [k \in Keys |-> None] /\ dirTree = {} /\ temps = {}
    /\ puts = [w \in Writers |-> None] /\ gets = [rd \in Readers |-> None]
    /\ removing = None /\ listing = None /\ putCount = 0 /\ getCount = 0

ObjectsNext ==
    \/ \E w \in Writers :
           \/ \E key \in Keys, us, ks \in NameShapes : PutBegins(w, key, us, ks)
           \/ LocalPutOpens(w) \/ LocalPutCopies(w) \/ LocalPutReplaces(w) \/ LocalPutFails(w)
           \/ S3Put(w) \/ S3Head(w) \/ GcsPut(w) \/ RemotePutFails(w)
    \/ \E rd \in Readers : ReadChunk(rd) \/ ReadEnds(rd) \/ \E key \in Keys : GetBegins(rd, key)
    \/ PruneParents
    \/ \E key \in Keys : LocalDelete(key) \/ S3Delete(key) \/ GcsDelete(key)
    \/ \E owner \in ObjectOwners : ListObjects(owner)

ObjectsSpec == ObjectsInit /\ [][ObjectsNext]_objectVars

-----------------------------------------------------------------------------
\* What is stored under a key, and what a download through the local or the S3 adapter has
\* read of it, is always one whole upload or a prefix of one: never a mix of two, never a
\* torn one, however uploads fail, die or overwrite the key during the download.
ReadsWhole ==
    /\ \A k \in Keys : blobs[k] # None => \E v \in 1..MaxPuts : blobs[k] = Whole(v)
    /\ adapter # "gcs" =>
           \A rd \in Readers : gets[rd] # None =>
               \E v \in 1..MaxPuts : gets[rd].held = Whole(v)
                                     /\ \A i \in 1..Len(gets[rd].got) : gets[rd].got[i] = v

\* Every stored object lies in a directory that exists: a delete that prunes empty
\* directories never takes one that another upload has just filled.
NothingPruned ==
    adapter = "local" => \A k \in Keys : blobs[k] # None => DirOf(k) \in dirTree

=============================================================================
