------------------------------- MODULE Budget -------------------------------
(***************************************************************************)
(* The budget gate on the model-call path: the callback pair of            *)
(* backend/budget/callback.py over the InMemoryBudgetEnforcer of           *)
(* backend/budget/in_memory_enforcer.py, for one identity.                 *)
(*                                                                         *)
(* A slot is one (agent, invocation) pair: it makes one model call at a    *)
(* time, while any number of slots (tabs, parallel sub-agents, channels)   *)
(* spend from the same budget.  consult and record run under the           *)
(* enforcer's lock, so each is one step; everything else interleaves.      *)
(* Each call carries a fresh uuid, so the replay cache of consult, keyed   *)
(* by that uuid, never answers on this path and is not modelled.           *)
(***************************************************************************)
EXTENDS Integers

CONSTANTS
    Slots,      \* (agent, invocation) pairs of one identity
    Costs,      \* what a call may be projected to cost, or cost
    Cap,        \* default_cap_usd; 0 means unconfigured
    Soft,       \* Cap * soft_threshold
    MaxCalls,   \* bound: model calls
    MaxPeriod   \* bound: budget periods

ASSUME BudgetAssumption ==
    /\ Costs \subseteq Nat /\ Cap \in Nat /\ Soft \in 0..Cap
    /\ MaxCalls \in Nat /\ MaxPeriod \in Nat \ {0}

VARIABLES
    period,     \* _period_key of now
    spend,      \* _spend of the identity, per period
    charged,    \* _charged_per_inv: the hold of each call id
    pending,    \* the closure's pending consultation of each slot, 0 if none
    calling,    \* the call a slot's model is working on, 0 if none
    ledger      \* history: per call, its decision and what it should cost

vars == <<period, spend, charged, pending, calling, ledger>>

CallIds == 1..MaxCalls
Periods == 1..MaxPeriod
NoHold == [usd |-> 0, period |-> 0]
NoEntry == [action |-> "none", period |-> 0, projected |-> 0, usd |-> 0]
-----------------------------------------------------------------------------
Init ==
    /\ period = 1
    /\ spend = [k \in Periods |-> 0]
    /\ charged = [c \in CallIds |-> NoHold]
    /\ pending = [s \in Slots |-> 0]
    /\ calling = [s \in Slots |-> 0]
    /\ ledger = [c \in CallIds |-> NoEntry]

Used(c) == ledger[c].action # "none"

(* Faulty variant of Decide: the call being decided is not counted.         *)
DecidePriorOnly(projected) ==
    IF Cap <= 0 THEN "allow"
    ELSE IF spend[period] >= Cap THEN "block"
    ELSE IF spend[period] >= Soft THEN "warn"
    ELSE "allow"

(* _decide.                                                                 *)
Decide(projected) ==
    IF Cap <= 0 THEN "allow"
    ELSE IF spend[period] + projected >= Cap THEN "block"
    ELSE IF spend[period] + projected >= Soft THEN "warn"
    ELSE "allow"

(* consult: the projection is charged whatever the decision.                *)
Consult(c, projected) ==
    /\ spend' = [spend EXCEPT ![period] = @ + projected]
    /\ charged' = [charged EXCEPT ![c] = [usd |-> projected, period |-> period]]
    /\ ledger' = [ledger EXCEPT ![c] = [action |-> Decide(projected), period |-> period,
                                        projected |-> projected, usd |-> projected]]

(* _before: consult, then remember the consultation; a block forgets it     *)
(* again and raises, so the model is not called.                            *)
Before(s, c, projected) ==
    /\ calling[s] = 0 /\ ~Used(c) /\ \A d \in CallIds : d < c => Used(d)
    /\ Consult(c, projected)
    /\ IF Decide(projected) = "block"
       THEN pending' = [pending EXCEPT ![s] = 0] /\ UNCHANGED calling
       ELSE pending' = [pending EXCEPT ![s] = c] /\ calling' = [calling EXCEPT ![s] = c]
    /\ UNCHANGED period
-----------------------------------------------------------------------------
AtLeastZero(x) == IF x < 0 THEN 0 ELSE x

(* Faulty variant of Record: the difference lands in the current period.    *)
RecordInThisPeriod(c, actual) ==
    /\ charged' = [charged EXCEPT ![c] = NoHold]
    /\ spend' = [spend EXCEPT ![period] = AtLeastZero(@ + actual - charged[c].usd)]

(* record: release the hold and charge the difference to the hold's period. *)
Record(c, actual) ==
    /\ charged' = [charged EXCEPT ![c] = NoHold]
    /\ spend' = [spend EXCEPT ![charged[c].period] = AtLeastZero(@ + actual - charged[c].usd)]

(* _after with a final response that carries its usage.                     *)
AfterWithUsage(s, actual) ==
    /\ calling[s] # 0 /\ pending[s] # 0
    /\ Record(pending[s], actual)
    /\ ledger' = [ledger EXCEPT ![calling[s]].usd = actual]
    /\ pending' = [pending EXCEPT ![s] = 0]
    /\ calling' = [calling EXCEPT ![s] = 0]
    /\ UNCHANGED period

(* _after with a final response without usage metadata: the hold stays.     *)
AfterWithoutUsage(s) ==
    /\ calling[s] # 0
    /\ pending' = [pending EXCEPT ![s] = 0]
    /\ calling' = [calling EXCEPT ![s] = 0]
    /\ UNCHANGED <<period, spend, charged, ledger>>

(* The model call fails or its run is cancelled: _after never fires, and    *)
(* the slot's next _before overwrites the consultation.                     *)
CallLost(s) ==
    /\ calling[s] # 0
    /\ calling' = [calling EXCEPT ![s] = 0]
    /\ UNCHANGED <<period, spend, charged, pending, ledger>>

(* Midnight, Monday or the first of the month.                              *)
PeriodEnds ==
    /\ period < MaxPeriod
    /\ period' = period + 1
    /\ UNCHANGED <<spend, charged, pending, calling, ledger>>

Next ==
    \/ \E s \in Slots :
        \/ \E c \in CallIds, p \in Costs : Before(s, c, p)
        \/ \E a \in Costs : AfterWithUsage(s, a)
        \/ AfterWithoutUsage(s)
        \/ CallLost(s)
    \/ PeriodEnds

Spec == Init /\ [][Next]_vars
-----------------------------------------------------------------------------
BudgetTypeOK ==
    /\ period \in Periods
    /\ spend \in [Periods -> Nat]
    /\ charged \in [CallIds -> [usd : Costs \cup {0}, period : Periods \cup {0}]]
    /\ pending \in [Slots -> {0} \cup CallIds] /\ calling \in [Slots -> {0} \cup CallIds]
    /\ ledger \in [CallIds -> [action : {"none", "allow", "warn", "block"},
                               period : Periods \cup {0},
                               projected : Costs \cup {0}, usd : Costs \cup {0}]]

SumOf(usd) ==
    LET sum[n \in 0..MaxCalls] == IF n = 0 THEN 0 ELSE sum[n - 1] + usd[n]
    IN  sum[MaxCalls]

(* What the calls of a period with these decisions cost.                    *)
Total(k, actions) ==
    SumOf([c \in CallIds |-> IF ledger[c].period = k /\ ledger[c].action \in actions
                             THEN ledger[c].usd ELSE 0])

(* The spend of a period is exactly what its calls cost: the realised cost   *)
(* of a settled call and the projection of every other one, each in the      *)
(* period that asked for it, whenever its answer arrives.                    *)
SpendIsLedger == \A k \in Periods : spend[k] = Total(k, {"allow", "warn", "block"})

(* However the slots interleave, the calls let through in one period stay    *)
(* below the cap, as long as no call cost more than it was projected to.     *)
CapHolds ==
    (Cap > 0 /\ \A c \in CallIds : ledger[c].usd <= ledger[c].projected) =>
        \A k \in Periods : Total(k, {"allow", "warn"}) = 0 \/ Total(k, {"allow", "warn"}) < Cap
=============================================================================
