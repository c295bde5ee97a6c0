--------------------------- MODULE PlatformConfig ---------------------------
(***************************************************************************)
(* The platform configuration singleton behind a cache per process         *)
(* (backend/config/platform_config.py, admin/platform_config_routes.py):   *)
(* every turn reads it, administrators merge fields into it, and a store   *)
(* that fails must not turn into a permissive default. A turn reads the    *)
(* document and caches it a moment later, and so does an administrator's   *)
(* write: both run on threads of one process, next to other processes.     *)
(***************************************************************************)
EXTENDS Integers, Store

CONSTANTS
    Processes,  \* processes of the backend, each with its cache
    Threads,    \* concurrent requests
    MaxWrites   \* bound: administrators' writes and damages of the document

ASSUME ConfigAssumption == MaxWrites \in Nat

VARIABLES
    stored,     \* platform_config/singleton
    storeUp,    \* the persistence layer answers
    cached,     \* _cache of a process
    lastGood,   \* _last_good of a process
    thread,     \* what a request is in the middle of
    writes,     \* writes begun
    history,    \* history: every state of the document
    asked       \* history: for each field, the value last asked for and written

configVars == <<stored, storeUp, cached, lastGood, thread, writes, history, asked>>

(* Two fields that different administrators edit: the preamble and the      *)
(* agent's model. Absent documents read as the default; Damaged is one that *)
(* does not validate.                                                       *)
Fields == {"preamble", "model"}
ConfigDocs == [Fields -> 0..1]
DefaultConfig == [f \in Fields |-> 0]
Damaged == [f \in Fields |-> -1]
Resting == [op |-> "idle"]

(* Faulty variant of GetPlatformConfig: a failed read gives the default.    *)
GetPlatformConfigPermissive(i) ==
    IF cached[i] # None THEN cached[i]
    ELSE IF storeUp /\ stored \notin {None, Damaged} THEN stored ELSE DefaultConfig

(* get_platform_config: the cache, else the store, else the last good       *)
(* policy, else refuse (None).                                              *)
GetPlatformConfig(i) ==
    IF cached[i] # None THEN cached[i]
    ELSE IF storeUp /\ stored # Damaged
         THEN IF stored = None THEN DefaultConfig ELSE stored
         ELSE lastGood[i]

(* The read reached the store and found a valid document: _cache_set comes. *)
Fills(i) == cached[i] = None /\ storeUp /\ stored # Damaged
CacheSet(i, config) ==
    /\ cached' = [cached EXCEPT ![i] = config]
    /\ lastGood' = [lastGood EXCEPT ![i] = config]

ConfigInit ==
    /\ stored \in {None, [f \in Fields |-> 1]}
    /\ storeUp = TRUE
    /\ cached = [i \in Processes |-> None]
    /\ lastGood = [i \in Processes |-> None]
    /\ thread = [t \in Threads |-> Resting]
    /\ writes = 0
    /\ history = {stored}
    /\ asked = [f \in Fields |-> None]

(* read_platform_config and every turn's preamble. None is the 503 of a     *)
(* policy that cannot be read.                                              *)
ReadConfig(t, i) ==
    /\ thread[t] = Resting
    /\ thread' = [thread EXCEPT ![t] = [op |-> "read", at |-> i, doc |-> GetPlatformConfig(i),
                                        fill |-> Fills(i)]]
    /\ UNCHANGED <<stored, storeUp, cached, lastGood, writes, history, asked>>

ServeConfig(t) ==
    /\ thread[t].op = "read"
    /\ IF thread[t].fill THEN CacheSet(thread[t].at, thread[t].doc) ELSE UNCHANGED <<cached, lastGood>>
    /\ thread' = [thread EXCEPT ![t] = Resting]
    /\ UNCHANGED <<stored, storeUp, writes, history, asked>>

(* write_platform_config and use_root_model: one field, over the            *)
(* configuration this process knows. Reading it fills the cache.            *)
WriteConfig(t, i, field, value) ==
    LET current == GetPlatformConfig(i)
    IN  /\ thread[t] = Resting
        /\ writes < MaxWrites
        /\ current # None
        /\ writes' = writes + 1
        /\ thread' = [thread EXCEPT ![t] = [op |-> "write", at |-> i, field |-> field,
                                            doc |-> [current EXCEPT ![field] = value]]]
        /\ IF Fills(i) THEN CacheSet(i, current) ELSE UNCHANGED <<cached, lastGood>>
        /\ UNCHANGED <<stored, storeUp, history, asked>>

(* update_platform_config stores the merged document and caches it; a store *)
(* that fails leaves everything as it was. A change of model may also be    *)
(* refused here for want of readiness (module ModelRegistry).               *)
UpdateConfig(t) ==
    /\ thread[t].op = "write"
    /\ \/ /\ storeUp
          /\ stored' = thread[t].doc
          /\ history' = history \cup {thread[t].doc}
          /\ asked' = [asked EXCEPT ![thread[t].field] = thread[t].doc[thread[t].field]]
          /\ CacheSet(thread[t].at, thread[t].doc)
       \/ /\ ~storeUp \/ thread[t].field = "model"
          /\ UNCHANGED <<stored, history, asked, cached, lastGood>>
    /\ thread' = [thread EXCEPT ![t] = Resting]
    /\ UNCHANGED <<storeUp, writes>>

(* _CACHE_TTL passes.                                                       *)
CacheExpires(i) ==
    /\ cached[i] # None
    /\ cached' = [cached EXCEPT ![i] = None]
    /\ UNCHANGED <<stored, storeUp, lastGood, thread, writes, history, asked>>

(* A process restarts; its requests are lost.                               *)
ProcessRestarts(i) ==
    /\ lastGood[i] # None
    /\ cached' = [cached EXCEPT ![i] = None]
    /\ lastGood' = [lastGood EXCEPT ![i] = None]
    /\ thread' = [t \in Threads |-> IF thread[t].op # "idle" /\ thread[t].at = i
                                    THEN Resting ELSE thread[t]]
    /\ UNCHANGED <<stored, storeUp, writes, history, asked>>

(* The store goes away or comes back; the document is damaged by hand.      *)
StoreFlips ==
    /\ storeUp' = ~storeUp
    /\ UNCHANGED <<stored, cached, lastGood, thread, writes, history, asked>>

DocumentDamaged ==
    /\ stored \in ConfigDocs /\ writes < MaxWrites
    /\ writes' = writes + 1
    /\ stored' = Damaged
    /\ UNCHANGED <<storeUp, cached, lastGood, thread, history, asked>>

ConfigNext ==
    \/ \E t \in Threads :
          \/ \E i \in Processes : ReadConfig(t, i)
          \/ ServeConfig(t)
          \/ \E i \in Processes, field \in Fields, value \in 0..1 : WriteConfig(t, i, field, value)
          \/ UpdateConfig(t)
    \/ \E i \in Processes : CacheExpires(i) \/ ProcessRestarts(i)
    \/ StoreFlips \/ DocumentDamaged

ConfigSpec == ConfigInit /\ [][ConfigNext]_configVars
-----------------------------------------------------------------------------
(* Type invariant.                                                          *)
ConfigTypeOK ==
    /\ stored \in ConfigDocs \cup {None, Damaged}
    /\ \A i \in Processes : {cached[i], lastGood[i]} \subseteq ConfigDocs \cup {None}

(* A policy a turn runs under was stored at some time. The code default     *)
(* stands in only for a document that did not exist, never for one that     *)
(* could not be read or was damaged, whichever process, outage or restart   *)
(* comes in between.                                                        *)
ServedWasStored ==
    \A t \in Threads : (thread[t].op = "read" /\ thread[t].doc # None) =>
        \/ thread[t].doc \in history
        \/ thread[t].doc = DefaultConfig /\ None \in history
=============================================================================
