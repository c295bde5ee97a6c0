---------------------------- MODULE GroupAccess ----------------------------
(***************************************************************************)
(* Anonymous groups: a signed-in user creates a short code, anybody who    *)
(* has it joins and receives a token of limited life.  The group document  *)
(* is durable; each process keeps a cache of the groups it has seen, the   *)
(* revocations it knows of, its session counters and the token buckets     *)
(* that limit join attempts per address.                                   *)
(*                                                                         *)
(* auth/group_id_auth.py, auth/group_rate_limit.py, auth/group_routes.py   *)
(***************************************************************************)
EXTENDS Integers, Sequences, FiniteSets, Store

CONSTANTS
    GroupProcesses,  \* server processes
    GroupCodes,      \* codes that may be generated
    Creators,        \* signed-in users
    SessionCap,      \* max_concurrent_sessions of every group
    GroupLife,       \* ticks until a group expires
    TokenLife,       \* ticks until a join token expires
    Capacity,        \* tokens of a full bucket
    TokenTicks,      \* ticks in which a bucket regains one token
    MaxGroupTicks,   \* clock bound
    MaxGroupOps,     \* operations in a behaviour
    MaxGroupFaults   \* store calls that fail in a behaviour

GroupRecord == [creator : Creators, expires : Nat]
GroupDoc == [creator : Creators, expires : Nat, revoked : BOOLEAN]

ASSUME GroupAssumption ==
    /\ {SessionCap, GroupLife, TokenLife, Capacity, TokenTicks} \subseteq Nat \ {0}
    /\ {MaxGroupTicks, MaxGroupOps, MaxGroupFaults} \subseteq Nat
    /\ None \notin GroupDoc \cup GroupRecord \cup [tokens : Nat, at : Nat]

VARIABLES
    groupDocs,      \* code -> None or [creator, expires, revoked]
    groupCache,     \* process -> code -> None or [creator, expires]
    revokedHere,    \* process -> codes it knows to be revoked
    sessionsToday,  \* process -> code -> sessions
    bucket,         \* process -> None or [tokens, at], tokens in 1/TokenTicks; one address
    attempts,       \* history: process -> times of the attempts the bucket let through
    handedOut,      \* history: codes returned to their creators
    revokedBy,      \* history: codes whose creator revoked them
    joinTokens,     \* tokens: [code, exp]
    groupAnswer,    \* what the last request was answered: None or a status
    groupClock, groupOps, groupFaults

groupVars == <<groupDocs, groupCache, revokedHere, sessionsToday, bucket, attempts, handedOut,
               revokedBy, joinTokens, groupAnswer, groupClock, groupOps, groupFaults>>

GroupOp == groupOps < MaxGroupOps /\ groupOps' = groupOps + 1
StoreFails == groupFaults < MaxGroupFaults /\ groupFaults' = groupFaults + 1
StoreWorks == UNCHANGED groupFaults

(***************************************************************************)
(* The limiter: a bucket refills with time, up to its capacity.            *)
(***************************************************************************)

(* Faulty variant of Refilled: the bucket has no capacity.                  *)
RefilledUncapped(p) ==
    IF bucket[p] = None THEN Capacity * TokenTicks
    ELSE bucket[p].tokens + (groupClock - bucket[p].at)

Refilled(p) ==
    IF bucket[p] = None THEN Capacity * TokenTicks
    ELSE LET more == bucket[p].tokens + (groupClock - bucket[p].at)
         IN IF more > Capacity * TokenTicks THEN Capacity * TokenTicks ELSE more

Allowed(p) == Refilled(p) >= TokenTicks

\* An attempt spends a token if there is one; a refused one only refills.
CheckRate(p) ==
    /\ bucket' = [bucket EXCEPT ![p] =
           [tokens |-> Refilled(p) - (IF Allowed(p) THEN TokenTicks ELSE 0), at |-> groupClock]]
    /\ attempts' = IF Allowed(p) THEN [attempts EXCEPT ![p] = Append(@, groupClock)] ELSE attempts

(***************************************************************************)
(* Groups.                                                                 *)
(***************************************************************************)

RecordOf(g) == [creator |-> groupDocs[g].creator, expires |-> groupDocs[g].expires]
\* A revoked document is remembered as revoked and not returned; a read that
\* fails (read = FALSE) finds nothing, and nothing is remembered of it.
LoadGroup(g, read) ==
    IF ~read \/ groupDocs[g] = None \/ groupDocs[g].revoked THEN None ELSE RecordOf(g)
GetGroup(p, g, read) ==
    IF g \in revokedHere[p] THEN None
    ELSE IF groupCache[p][g] # None THEN groupCache[p][g] ELSE LoadGroup(g, read)
\* A lookup reads the store, and may fail, only for a code the process does not know.
Lookup(p, g, read) ==
    IF read THEN StoreWorks
    ELSE g \notin revokedHere[p] /\ groupCache[p][g] = None /\ StoreFails
\* What a process remembers after GetGroup.
Cached(p, g, read) == [groupCache EXCEPT ![p][g] = GetGroup(p, g, read)]
Learned(p, g, read) ==
    IF read /\ groupCache[p][g] = None /\ groupDocs[g] # None /\ groupDocs[g].revoked
    THEN [revokedHere EXCEPT ![p] = @ \cup {g}] ELSE revokedHere
CheckGroupActive(record) == groupClock < record.expires

\* A failed lookup counts as a free code; with random codes of eight letters that
\* case is left out.
CodeExists(p, g) ==
    groupCache[p][g] # None \/ g \in revokedHere[p] \/ groupDocs[g] # None

(* Faulty variant of PersistGroup: a failed write returns its code.         *)
PersistBestEffort(p, u, g) ==
    /\ \/ StoreFails /\ UNCHANGED groupDocs
       \/ StoreWorks /\ groupDocs' = [groupDocs EXCEPT ![g] =
              [creator |-> u, expires |-> groupClock + GroupLife, revoked |-> FALSE]]
    /\ handedOut' = handedOut \cup {g} /\ groupAnswer' = 201
    /\ groupCache' = [groupCache EXCEPT ![p][g] =
           [creator |-> u, expires |-> groupClock + GroupLife]]

\* The document is written first: a code is returned only if that succeeded.
PersistGroup(p, u, g) ==
    \/ /\ StoreFails /\ groupAnswer' = 500 /\ UNCHANGED <<groupDocs, groupCache, handedOut>>
    \/ /\ StoreWorks /\ groupAnswer' = 201 /\ handedOut' = handedOut \cup {g}
       /\ groupDocs' = [groupDocs EXCEPT ![g] =
              [creator |-> u, expires |-> groupClock + GroupLife, revoked |-> FALSE]]
       /\ groupCache' = [groupCache EXCEPT ![p][g] =
              [creator |-> u, expires |-> groupClock + GroupLife]]

CreateGroup(p, u, g) ==
    /\ GroupOp /\ ~CodeExists(p, g) /\ PersistGroup(p, u, g)
    /\ UNCHANGED <<revokedHere, sessionsToday, bucket, attempts, revokedBy, joinTokens, groupClock>>

\* Persisting a revocation is best effort.
MarkRevoked(g) ==
    \/ StoreFails /\ UNCHANGED groupDocs
    \/ StoreWorks /\ groupDocs' = IF groupDocs[g] = None THEN groupDocs
                                  ELSE [groupDocs EXCEPT ![g].revoked = TRUE]

DeleteGroup(p, u, g, read) ==
    /\ GroupOp
    /\ IF GetGroup(p, g, read) = None
       THEN groupAnswer' = 404 /\ groupCache' = Cached(p, g, read) /\ revokedHere' = Learned(p, g, read)
            /\ Lookup(p, g, read) /\ UNCHANGED <<groupDocs, revokedBy>>
       ELSE IF GetGroup(p, g, read).creator # u
       THEN groupAnswer' = 403 /\ groupCache' = Cached(p, g, read)
            /\ Lookup(p, g, read) /\ UNCHANGED <<groupDocs, revokedHere, revokedBy>>
       ELSE /\ groupAnswer' = 204 /\ groupCache' = [groupCache EXCEPT ![p][g] = None]
            /\ revokedHere' = [revokedHere EXCEPT ![p] = @ \cup {g}]
            /\ revokedBy' = revokedBy \cup {g} /\ read /\ MarkRevoked(g)
    /\ UNCHANGED <<sessionsToday, bucket, attempts, handedOut, joinTokens, groupClock>>

JoinStatus(p, g, read) ==
    IF ~Allowed(p) THEN 429
    ELSE IF GetGroup(p, g, read) = None \/ ~CheckGroupActive(GetGroup(p, g, read)) THEN 401
    ELSE IF sessionsToday[p][g] >= SessionCap THEN 503 ELSE 200

JoinGroup(p, g, read) ==
    /\ GroupOp /\ CheckRate(p) /\ groupAnswer' = JoinStatus(p, g, read)
    /\ IF Allowed(p)
       THEN groupCache' = Cached(p, g, read) /\ revokedHere' = Learned(p, g, read) /\ Lookup(p, g, read)
       ELSE UNCHANGED <<groupCache, revokedHere, groupFaults>>
    /\ IF JoinStatus(p, g, read) = 200
       THEN /\ joinTokens' = joinTokens \cup {[code |-> g, exp |-> groupClock + TokenLife]}
            /\ sessionsToday' = [sessionsToday EXCEPT ![p][g] = @ + 1]
       ELSE UNCHANGED <<joinTokens, sessionsToday>>
    /\ UNCHANGED <<groupDocs, handedOut, revokedBy, groupClock>>

\* A token is refused once it or its group has expired, or the process knows
\* of the revocation, or the group cannot be read; a cached one is not looked up.
VerifyGroupToken(p, token, read) ==
    /\ GroupOp
    /\ LET g == token.code
           good == token.exp > groupClock /\ GetGroup(p, g, read) # None
                   /\ CheckGroupActive(GetGroup(p, g, read))
       IN /\ groupAnswer' = IF good THEN 200 ELSE 401
          /\ IF token.exp > groupClock
             THEN groupCache' = Cached(p, g, read) /\ revokedHere' = Learned(p, g, read)
                  /\ Lookup(p, g, read)
             ELSE UNCHANGED <<groupCache, revokedHere, groupFaults>>
    /\ UNCHANGED <<groupDocs, sessionsToday, bucket, attempts, handedOut, revokedBy, joinTokens,
                   groupClock>>

GroupMetadata(p, g, read) ==
    /\ GroupOp /\ groupAnswer' = (IF GetGroup(p, g, read) = None THEN 404 ELSE 200)
    /\ groupCache' = Cached(p, g, read) /\ revokedHere' = Learned(p, g, read) /\ Lookup(p, g, read)
    /\ UNCHANGED <<groupDocs, sessionsToday, bucket, attempts, handedOut, revokedBy, joinTokens,
                   groupClock>>

\* The process is replaced; its caches and counters are gone.
GroupProcessRestarts(p) ==
    /\ GroupOp /\ groupAnswer' = None
    /\ groupCache' = [groupCache EXCEPT ![p] = [g \in GroupCodes |-> None]]
    /\ revokedHere' = [revokedHere EXCEPT ![p] = {}]
    /\ sessionsToday' = [sessionsToday EXCEPT ![p] = [g \in GroupCodes |-> 0]]
    /\ bucket' = [bucket EXCEPT ![p] = None] /\ attempts' = [attempts EXCEPT ![p] = <<>>]
    /\ UNCHANGED <<groupDocs, handedOut, revokedBy, joinTokens, groupClock, groupFaults>>

GroupTick ==
    /\ groupClock < MaxGroupTicks /\ groupClock' = groupClock + 1 /\ groupAnswer' = None
    /\ UNCHANGED <<groupDocs, groupCache, revokedHere, sessionsToday, bucket, attempts, handedOut,
                   revokedBy, joinTokens, groupOps, groupFaults>>

GroupInit ==
    /\ groupDocs = [g \in GroupCodes |-> None]
    /\ groupCache = [p \in GroupProcesses |-> [g \in GroupCodes |-> None]]
    /\ revokedHere = [p \in GroupProcesses |-> {}]
    /\ sessionsToday = [p \in GroupProcesses |-> [g \in GroupCodes |-> 0]]
    /\ bucket = [p \in GroupProcesses |-> None] /\ attempts = [p \in GroupProcesses |-> <<>>]
    /\ handedOut = {} /\ revokedBy = {} /\ joinTokens = {} /\ groupAnswer = None
    /\ groupClock = 0 /\ groupOps = 0 /\ groupFaults = 0

GroupNext ==
    \/ \E p \in GroupProcesses, g \in GroupCodes, read \in BOOLEAN :
           \/ JoinGroup(p, g, read) \/ GroupMetadata(p, g, read)
           \/ \E u \in Creators : DeleteGroup(p, u, g, read)
    \/ \E p \in GroupProcesses, g \in GroupCodes, u \in Creators : CreateGroup(p, u, g)
    \/ \E p \in GroupProcesses, token \in joinTokens, read \in BOOLEAN : VerifyGroupToken(p, token, read)
    \/ \E p \in GroupProcesses : GroupProcessRestarts(p)
    \/ GroupTick

GroupSpec == GroupInit /\ [][GroupNext]_groupVars

(***************************************************************************)
(* Properties.                                                             *)
(***************************************************************************)

\* A code that was returned to its creator is found by every process whose read
\* succeeds, whatever restarted or failed since (a read that failed is forgotten),
\* until it expires or the creator revokes it.
CodesSurvive ==
    \A g \in handedOut \ revokedBy, p \in GroupProcesses :
        /\ groupDocs[g] # None /\ GetGroup(p, g, TRUE) # None
        /\ GetGroup(p, g, TRUE).expires = groupDocs[g].expires

\* The limiter's bound: in any stretch of time a process lets through at most
\* a full bucket and one attempt for each token regained in that stretch.
RateBounded ==
    \A p \in GroupProcesses, i, j \in 1..(MaxGroupOps) :
        i <= j /\ j <= Len(attempts[p]) =>
            (j - i + 1 - Capacity) * TokenTicks <= attempts[p][j] - attempts[p][i]
=============================================================================
