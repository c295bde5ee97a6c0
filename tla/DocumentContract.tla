-------------------------- MODULE DocumentContract --------------------------
(***************************************************************************)
(* What db/repository.py promises of every persistence backend: each       *)
(* operation on a document is one atomic step, a creation succeeds only    *)
(* when the document is absent, and every acknowledged increment or union  *)
(* is in the document.                                                     *)
(***************************************************************************)
EXTENDS Integers, FiniteSets, Store

CONSTANTS
    DocIds,   \* documents of one collection
    Members   \* values a union may add to the array field

VARIABLES
    docs,   \* id -> None or [count, members]
    acked   \* id -> what callers were told is stored: [count, members]

contractVars == <<docs, acked>>

Blank == [count |-> 0, members |-> {}]
Put(d, doc) == docs' = [docs EXCEPT ![d] = doc] /\ acked' = [acked EXCEPT ![d] = doc]
Known(d) == IF docs[d] = None THEN Blank ELSE docs[d]

ContractInit == docs = [d \in DocIds |-> None] /\ acked = [d \in DocIds |-> Blank]

\* create_document: "Atomically insert only if absent".
Create(d) == docs[d] = None /\ Put(d, Blank)
\* set_document without merge replaces the document, with merge it upserts.
Overwrite(d) == Put(d, Blank)
Merge(d, m) == Put(d, [Known(d) EXCEPT !.members = {m}])
\* update_document changes the given fields of an existing document.
Update(d, m) == docs[d] # None /\ Put(d, [docs[d] EXCEPT !.members = {m}])
Remove(d) == docs' = [docs EXCEPT ![d] = None] /\ acked' = [acked EXCEPT ![d] = Blank]
\* increment_field and array_union_field add to what is stored.
Increment(d) == docs[d] # None /\ Put(d, [docs[d] EXCEPT !.count = @ + 1])
Union(d, m) == docs[d] # None /\ Put(d, [docs[d] EXCEPT !.members = @ \cup {m}])

ContractNext ==
    \E d \in DocIds :
        \/ Create(d) \/ Overwrite(d) \/ Remove(d) \/ Increment(d)
        \/ \E m \in Members : Merge(d, m) \/ Update(d, m) \/ Union(d, m)

ContractSpec == ContractInit /\ [][ContractNext]_contractVars
=============================================================================
